---------------------------- MODULE AgentStream ----------------------------
(***************************************************************************)
(* The event stream of an agent session.  For every turn the activity      *)
(* run_agent_activity (allama/agent/executor/activity.py) spawns a runtime *)
(* process; a LoopbackHandler (executor/loopback.py) serves its connection *)
(* and writes events and one end marker to the Redis stream of the         *)
(* session, which all turns share.  HTTP responses (stream/connector.py,   *)
(* session/router.py) read the stream from the session's last_stream_id up *)
(* to the next end marker, and move last_stream_id.                        *)
(***************************************************************************)
EXTENDS Integers, Sequences, FiniteSets

CONSTANTS
  MaxTurns,   \* bound: turns of the session
  MaxDeltas,  \* bound: events of one turn beside errors and the end marker
  MaxFaulty   \* bound: turns with a failing call of Redis

ASSUME BoundsAssumption ==
  MaxTurns \in Nat /\ MaxDeltas \in Nat /\ MaxFaulty \in Nat

Turn == 1 .. MaxTurns

\* Reader t is the response to the message that starts turn t; reader 0 is a
\* GET on the stream of the session.
Reader == Turn \union {0}

\* Ids of the stream are its indices.  The id "$" stands for the last one at
\* the time of the read; None is the absent last_stream_id.
Dollar == -1
None   == -2

VARIABLES
  stream,   \* the events, [turn, kind]
  exec,     \* per turn: where the activity is
  proc,     \* per turn: the runtime process
  fatal,    \* turns whose LLM proxy has reported a fatal error
  handler,  \* per turn: where the LoopbackHandler is
  opened,   \* turns whose handler has its _stream
  marked,   \* turns whose handler has set _stream_done_emitted
  outcome,  \* per turn: the handler's LoopbackResult
  result,   \* per turn: the result of the activity
  cursor,   \* last_stream_id of the session
  reader,   \* per reader: where it is
  pos,      \* per reader: current_id
  upto,     \* per reader: the id xread started from, or the end of its batch
  faulty,   \* history: turns with a call of Redis that failed
  covered   \* history: ids that some response has passed on, or that were
            \* there when some read resolved "$"

xvars == <<exec, proc, fatal, result>>
lvars == <<handler, opened, marked, outcome>>
rvars == <<cursor, reader, pos, upto, covered>>
vars  == <<stream, exec, proc, fatal, handler, opened, marked, outcome, result,
           cursor, reader, pos, upto, faulty, covered>>

Event(t, kind) == [turn |-> t, kind |-> kind]

\* Indices of the events of one kind of a turn.
Events(t, kind) == {i \in DOMAIN stream : stream[i] = Event(t, kind)}

\* A call of Redis fails for turn t.
RedisFails(t) ==
  /\ t \in faulty \/ Cardinality(faulty) < MaxFaulty
  /\ faulty' = faulty \union {t}

\* xadd, with retries: Redis may be out of reach for all of them.  Left out:
\* the retry of a write that was executed, which writes the event again, and
\* the trimming to about 10000 events (the streams of the model are shorter).
Emit(t, kind) ==
  \/ stream' = Append(stream, Event(t, kind)) /\ faulty' = faulty
  \/ RedisFails(t) /\ stream' = stream

-----------------------------------------------------------------------------
(***************************************************************************)
(* The activity.                                                           *)
(***************************************************************************)
Spawn(t) ==
  /\ exec[t] = "starting"
  /\ exec' = [exec EXCEPT ![t] = "waiting"]
  /\ proc' = [proc EXCEPT ![t] = "running"]
  /\ UNCHANGED <<stream, fatal, result, lvars, faulty, rvars>>

\* The job directory, a socket or the sandbox cannot be set up: the stream
\* is told nothing.
SpawnFails(t) ==
  /\ exec[t] = "starting"
  /\ exec' = [exec EXCEPT ![t] = "over"]
  /\ result' = [result EXCEPT ![t] = "failure"]
  /\ UNCHANGED <<stream, proc, fatal, lvars, faulty, rvars>>

ProcessExits(t) ==
  /\ proc[t] = "running"
  /\ proc' = [proc EXCEPT ![t] = "exited"]
  /\ UNCHANGED <<stream, exec, fatal, result, lvars, faulty, rvars>>

FatalLLMError(t) ==
  /\ exec[t] = "waiting"
  /\ proc[t] = "running"
  /\ t \notin fatal
  /\ fatal' = fatal \union {t}
  /\ UNCHANGED <<stream, exec, proc, result, lvars, faulty, rvars>>

\* The activity gives up: an error event, and out of the loop.
GiveUp(t) ==
  /\ Emit(t, "error")
  /\ exec' = [exec EXCEPT ![t] = "leaving"]
  /\ result' = [result EXCEPT ![t] = "failure"]

SeeFatalError(t) ==
  /\ exec[t] = "waiting"
  /\ t \in fatal
  /\ GiveUp(t)
  /\ proc' = [proc EXCEPT ![t] = "exited"]
  /\ UNCHANGED <<fatal, lvars, rvars>>

\* The process is gone and the handler has not returned, whether or not the
\* runtime had connected and done its work.
SeeExit(t) ==
  /\ exec[t] = "waiting"
  /\ t \notin fatal
  /\ proc[t] = "exited"
  /\ handler[t] # "returned"
  /\ GiveUp(t)
  /\ UNCHANGED <<proc, fatal, lvars, rvars>>

SeeResult(t) ==
  /\ exec[t] = "waiting"
  /\ t \notin fatal
  /\ handler[t] = "returned"
  /\ result' = [result EXCEPT ![t] = outcome[t]]
  /\ exec' = [exec EXCEPT ![t] = "leaving"]
  /\ UNCHANGED <<stream, proc, fatal, lvars, faulty, rvars>>

Timeout(t) ==
  /\ exec[t] = "waiting"
  /\ t \notin fatal
  /\ proc[t] = "running"
  /\ handler[t] # "returned"
  /\ GiveUp(t)
  /\ UNCHANGED <<proc, fatal, lvars, rvars>>

\* The server waits for its open connection; then _cleanup ends the process.
Leave(t) ==
  /\ exec[t] = "leaving"
  /\ handler[t] \in {"none", "returned"}
  /\ exec' = [exec EXCEPT ![t] = "over"]
  /\ proc' = [proc EXCEPT ![t] = "exited"]
  /\ fatal' = fatal \ {t}
  /\ UNCHANGED <<stream, result, lvars, faulty, rvars>>

-----------------------------------------------------------------------------
(***************************************************************************)
(* The loopback handler: handle_connection, with its try block (opening,   *)
(* connected, and breaking: a branch of the loop that emits the end marker *)
(* before it breaks), its finally block, and the connection closed.  What  *)
(* the runtime has sent can be read after the process is gone.             *)
(***************************************************************************)
Connect(t) ==
  /\ exec[t] = "waiting"
  /\ handler[t] = "none"
  /\ handler' = [handler EXCEPT ![t] = "opening"]
  /\ UNCHANGED <<stream, xvars, opened, marked, outcome, faulty, rvars>>

\* AgentStream.new
OpenStream(t) ==
  /\ handler[t] = "opening"
  /\ handler' = [handler EXCEPT ![t] = "connected"]
  /\ opened' = opened \union {t}
  /\ UNCHANGED <<stream, xvars, marked, outcome, faulty, rvars>>

\* No client for Redis: without a _stream nothing is ever written.
OpenFails(t) ==
  /\ handler[t] = "opening"
  /\ RedisFails(t)
  /\ handler' = [handler EXCEPT ![t] = "finally"]
  /\ outcome' = [outcome EXCEPT ![t] = "failure"]
  /\ UNCHANGED <<stream, xvars, opened, marked, rvars>>

ForwardEvent(t) ==
  /\ handler[t] = "connected"
  /\ Cardinality(Events(t, "delta")) < MaxDeltas
  /\ stream' = Append(stream, Event(t, "delta"))
  /\ UNCHANGED <<xvars, lvars, faulty, rvars>>

\* The branch of done.
RuntimeDone(t) ==
  /\ handler[t] = "connected"
  /\ handler' = [handler EXCEPT ![t] = "breaking"]
  /\ outcome' = [outcome EXCEPT ![t] = "success"]
  /\ UNCHANGED <<stream, xvars, opened, marked, faulty, rvars>>

\* Mutant: the end marker before the error.
RuntimeErrorLate(t) ==
  /\ handler[t] = "connected"
  /\ stream' = Append(Append(stream, Event(t, "end")), Event(t, "error"))
  /\ marked' = marked \union {t}
  /\ handler' = [handler EXCEPT ![t] = "finally"]
  /\ outcome' = [outcome EXCEPT ![t] = "failure"]
  /\ UNCHANGED <<xvars, opened, faulty, rvars>>

\* The branches of an error of the runtime and of the SDK; a write that fails
\* is an exception (ConnectionFails).
RuntimeError(t) ==
  /\ handler[t] = "connected"
  /\ stream' = Append(stream, Event(t, "error"))
  /\ handler' = [handler EXCEPT ![t] = "breaking"]
  /\ outcome' = [outcome EXCEPT ![t] = "failure"]
  /\ UNCHANGED <<xvars, opened, marked, faulty, rvars>>

\* A closed connection, or an exception: straight to the finally block.
ConnectionFails(t) ==
  /\ handler[t] = "connected"
  /\ Emit(t, "error")
  /\ handler' = [handler EXCEPT ![t] = "finally"]
  /\ outcome' = [outcome EXCEPT ![t] = "failure"]
  /\ UNCHANGED <<xvars, opened, marked, rvars>>

\* The call sites of _emit_stream_done: before the break of a branch, and in
\* the finally block.
LeaveCallSite(t) ==
  \/ /\ handler[t] = "breaking"
     /\ handler' = [handler EXCEPT ![t] = "finally"]
  \/ /\ handler[t] = "finally"
     /\ handler' = [handler EXCEPT ![t] = "closed"]

\* Mutant: the flag is never looked at.
EmitStreamDoneAgain(t) ==
  /\ LeaveCallSite(t)
  /\ IF t \in opened
     THEN Emit(t, "end") /\ marked' = marked \union {t}
     ELSE UNCHANGED <<stream, marked, faulty>>
  /\ UNCHANGED <<xvars, opened, outcome, rvars>>

\* Mutant: no call in the finally block.
EmitStreamDoneInLoop(t) ==
  /\ LeaveCallSite(t)
  /\ IF t \in opened \ marked /\ handler[t] = "breaking"
     THEN Emit(t, "end") /\ marked' = marked \union {t}
     ELSE UNCHANGED <<stream, marked, faulty>>
  /\ UNCHANGED <<xvars, opened, outcome, rvars>>

\* _emit_stream_done: the flag is set before the marker is written, and a
\* write that fails is only logged.
EmitStreamDone(t) ==
  /\ LeaveCallSite(t)
  /\ IF t \in opened \ marked
     THEN Emit(t, "end") /\ marked' = marked \union {t}
     ELSE UNCHANGED <<stream, marked, faulty>>
  /\ UNCHANGED <<xvars, opened, outcome, rvars>>

\* The connection is closed and the future gets the result.
HandlerReturns(t) ==
  /\ handler[t] = "closed"
  /\ handler' = [handler EXCEPT ![t] = "returned"]
  /\ UNCHANGED <<stream, xvars, opened, marked, outcome, faulty, rvars>>

-----------------------------------------------------------------------------
(***************************************************************************)
(* Responses.                                                              *)
(***************************************************************************)
\* send_message reads last_stream_id before it starts the turn.  Bound: the
\* activity of the turn before is over; its response may still be open.
SendMessage(t) ==
  /\ reader[t] = "idle"
  /\ t > 1 => exec[t - 1] = "over"
  /\ reader' = [reader EXCEPT ![t] = "sending"]
  /\ pos' = [pos EXCEPT ![t] = IF cursor = None THEN Dollar ELSE cursor]
  /\ UNCHANGED <<stream, xvars, lvars, cursor, upto, faulty, covered>>

RunTurn(t) ==
  /\ reader[t] = "sending"
  /\ reader' = [reader EXCEPT ![t] = "open"]
  /\ exec' = [exec EXCEPT ![t] = "starting"]
  /\ UNCHANGED <<stream, proc, fatal, result, lvars, cursor, pos, upto, faulty,
                 covered>>

\* stream_session_events: from last_stream_id, else from the beginning.
StreamSessionEvents ==
  /\ reader[0] = "idle"
  /\ reader' = [reader EXCEPT ![0] = "open"]
  /\ pos' = [pos EXCEPT ![0] = IF cursor = None THEN 0 ELSE cursor]
  /\ UNCHANGED <<stream, xvars, lvars, cursor, upto, faulty, covered>>

\* xread is called with "$", which every call resolves anew.
XRead(r) ==
  /\ reader[r] = "open"
  /\ pos[r] = Dollar
  /\ reader' = [reader EXCEPT ![r] = "blocked"]
  /\ upto' = [upto EXCEPT ![r] = Len(stream)]
  /\ covered' = covered \union 1 .. Len(stream)
  /\ UNCHANGED <<stream, xvars, lvars, cursor, pos, faulty>>

\* The id from which an xread that is under way reads.
ReadFrom(r) == IF reader[r] = "blocked" THEN upto[r] ELSE pos[r]

\* Mutant: the last id of the batch is taken over before its events.
BatchAtOnce(r) ==
  /\ reader[r] = "blocked" \/ (reader[r] = "open" /\ pos[r] # Dollar)
  /\ ReadFrom(r) < Len(stream)
  /\ reader' = [reader EXCEPT ![r] = "batch"]
  /\ pos' = [pos EXCEPT ![r] = Len(stream) - 1]
  /\ upto' = [upto EXCEPT ![r] = Len(stream)]
  /\ UNCHANGED <<stream, xvars, lvars, cursor, faulty, covered>>

\* xread returns what is there (a batch of 100 is never full here) ...
Batch(r) ==
  /\ reader[r] = "blocked" \/ (reader[r] = "open" /\ pos[r] # Dollar)
  /\ ReadFrom(r) < Len(stream)
  /\ reader' = [reader EXCEPT ![r] = "batch"]
  /\ pos' = [pos EXCEPT ![r] = ReadFrom(r)]
  /\ upto' = [upto EXCEPT ![r] = Len(stream)]
  /\ UNCHANGED <<stream, xvars, lvars, cursor, faulty, covered>>

\* ... or nothing after a second.
NothingRead(r) ==
  /\ reader[r] = "blocked"
  /\ reader' = [reader EXCEPT ![r] = "open"]
  /\ upto' = [upto EXCEPT ![r] = 0]
  /\ UNCHANGED <<stream, xvars, lvars, cursor, pos, faulty, covered>>

\* One event is passed on; the consumer stops at an end marker, and the
\* generator is closed some time later.
Yield(r) ==
  /\ reader[r] = "batch"
  /\ pos[r] < upto[r]
  /\ pos' = [pos EXCEPT ![r] = @ + 1]
  /\ covered' = covered \union {pos[r] + 1}
  /\ IF stream[pos[r] + 1].kind = "end"
     THEN /\ reader' = [reader EXCEPT ![r] = "closing"]
          /\ upto' = [upto EXCEPT ![r] = 0]
     ELSE UNCHANGED <<reader, upto>>
  /\ UNCHANGED <<stream, xvars, lvars, cursor, faulty>>

\* Mutant: the id to read next is saved, not the last one read.
SaveCursorNext(r) ==
  /\ reader[r] = "batch"
  /\ pos[r] = upto[r]
  /\ cursor' \in {cursor, pos[r] + 1}
  /\ reader' = [reader EXCEPT ![r] = "open"]
  /\ upto' = [upto EXCEPT ![r] = 0]
  /\ UNCHANGED <<stream, xvars, lvars, pos, faulty, covered>>

\* _set_last_stream_id after a batch; an error is reported and reading goes on.
SaveCursor(r) ==
  /\ reader[r] = "batch"
  /\ pos[r] = upto[r]
  /\ cursor' \in {cursor, pos[r]}
  /\ reader' = [reader EXCEPT ![r] = "open"]
  /\ upto' = [upto EXCEPT ![r] = 0]
  /\ UNCHANGED <<stream, xvars, lvars, pos, faulty, covered>>

Disconnect(r) ==
  /\ reader[r] \in {"open", "blocked", "batch"}
  /\ reader' = [reader EXCEPT ![r] = "closing"]
  /\ upto' = [upto EXCEPT ![r] = 0]
  /\ UNCHANGED <<stream, xvars, lvars, cursor, pos, faulty, covered>>

\* The finally block of the generator: it saves "$" as well.
CloseStream(r) ==
  /\ reader[r] = "closing"
  /\ cursor' = pos[r]
  /\ reader' = [reader EXCEPT ![r] = "closed"]
  /\ pos' = [pos EXCEPT ![r] = 0]
  /\ UNCHANGED <<stream, xvars, lvars, upto, faulty, covered>>

-----------------------------------------------------------------------------
\* A new session, or one with an earlier turn (turn 0), whose responses have
\* left last_stream_id before its end marker, behind it or at "$".
Earlier == <<Event(0, "end")>>

Init ==
  /\ \/ stream = <<>> /\ cursor = None
     \/ stream = Earlier /\ cursor \in {Dollar} \union 0 .. Len(Earlier)
  /\ exec = [t \in Turn |-> "none"]
  /\ proc = [t \in Turn |-> "none"]
  /\ fatal = {}
  /\ handler = [t \in Turn |-> "none"]
  /\ opened = {}
  /\ marked = {}
  /\ outcome = [t \in Turn |-> "none"]
  /\ result = [t \in Turn |-> "none"]
  /\ reader = [r \in Reader |-> "idle"]
  /\ pos = [r \in Reader |-> 0]
  /\ upto = [r \in Reader |-> 0]
  /\ faulty = {}
  /\ covered = 1 .. cursor

Activity(t) ==
  \/ Spawn(t) \/ SpawnFails(t)
  \/ SeeFatalError(t) \/ SeeExit(t) \/ SeeResult(t) \/ Leave(t)

\* What the runtime sends, or no longer sends, on its connection.
Runtime(t) ==
  \/ ForwardEvent(t) \/ RuntimeDone(t) \/ RuntimeError(t) \/ ConnectionFails(t)

\* The handler's own steps.
Loopback(t) ==
  \/ OpenStream(t) \/ OpenFails(t) \/ EmitStreamDone(t) \/ HandlerReturns(t)

Response(r) ==
  \/ XRead(r) \/ Batch(r) \/ Yield(r) \/ SaveCursor(r) \/ CloseStream(r)

Next ==
  \/ \E t \in Turn : SendMessage(t) \/ RunTurn(t)
  \/ \E t \in Turn : Activity(t) \/ Timeout(t) \/ Connect(t) \/ Runtime(t)
                       \/ Loopback(t) \/ ProcessExits(t) \/ FatalLLMError(t)
  \/ StreamSessionEvents
  \/ \E r \in Reader : Response(r) \/ NothingRead(r) \/ Disconnect(r)

Spec == Init /\ [][Next]_vars

(***************************************************************************)
(* The event loops run what can run, a call of Redis returns or raises,    *)
(* xread returns what there is to read, and the kernel closes the          *)
(* connection of a process that is gone.  Nothing makes a runtime that is  *)
(* connected send anything or end.                                         *)
(***************************************************************************)
FairSpec ==
  /\ Spec
  /\ \A t \in Turn : /\ WF_vars(Activity(t)) /\ WF_vars(Loopback(t))
                     /\ WF_vars(proc[t] = "exited" /\ ConnectionFails(t))
  /\ \A r \in Reader : WF_vars(Response(r))

-----------------------------------------------------------------------------
(***************************************************************************)
(* Properties.                                                             *)
(***************************************************************************)
\* Types; a batch never reaches beyond the stream.
TypeOK ==
  /\ \A i \in DOMAIN stream :
       stream[i] \in [turn : Turn \union {0}, kind : {"delta", "error", "end"}]
  /\ exec \in [Turn -> {"none", "starting", "waiting", "leaving", "over"}]
  /\ proc \in [Turn -> {"none", "running", "exited"}]
  /\ handler \in [Turn -> {"none", "opening", "connected", "breaking", "finally",
                            "closed", "returned"}]
  /\ opened \subseteq Turn /\ marked \subseteq Turn
  /\ outcome \in [Turn -> {"none", "success", "failure"}]
  /\ result \in [Turn -> {"none", "success", "failure"}]
  /\ cursor \in {None, Dollar} \union 0 .. Len(stream)
  /\ reader \in [Reader -> {"idle", "sending", "open", "blocked", "batch",
                            "closing", "closed"}]
  /\ \A r \in Reader : /\ pos[r] \in {Dollar} \union 0 .. Len(stream)
                       /\ upto[r] \in 0 .. Len(stream)
                       /\ reader[r] = "batch" => pos[r] <= upto[r]

(***************************************************************************)
(* loopback.py ("Emit stream.done() exactly once ... even if multiple code *)
(* paths could trigger it", "ALWAYS emit done on any exit path to prevent  *)
(* SSE consumers from hanging"): from whichever branch or exception the    *)
(* handler comes to the finally block, its turn has exactly one end marker *)
(* when it is through, unless a call of Redis failed, and no event of the  *)
(* runtime comes after a marker.                                           *)
(***************************************************************************)
EndOnce ==
  \A t \in Turn :
    /\ t \notin faulty =>
         /\ Cardinality(Events(t, "end")) <= 1
         /\ handler[t] \in {"closed", "returned"} => Events(t, "end") # {}
    /\ \A i \in Events(t, "end"), j \in Events(t, "delta") : j < i

\* Readers stop at the end marker: they are told of an error before it.
ToldError(t) ==
  \E i \in Events(t, "error") : \A j \in Events(t, "end") : i < j

(***************************************************************************)
(* activity.py, run: what the activity reports to the workflow is what the *)
(* readers of the stream are told before they stop at the end marker: a    *)
(* turn that succeeded has its end marker and no error, one that failed    *)
(* has an error before any marker.  Excepted, besides failed calls of      *)
(* Redis: a turn whose runtime was never spawned tells the stream nothing; *)
(* and when the runtime has reported done but the activity sees the exit   *)
(* of the process, a fatal error or the timeout before the handler         *)
(* returns, the readers may be told of a success and the workflow of a     *)
(* failure.                                                                *)
(***************************************************************************)
ResultMatchesStream ==
  \A t \in Turn \ faulty :
    /\ result[t] = "success" => Events(t, "end") # {} /\ Events(t, "error") = {}
    /\ result[t] = "failure" /\ proc[t] # "none" /\ outcome[t] # "success" => ToldError(t)

(***************************************************************************)
(* connector.py, _stream_events ("for reconnection support"): whichever    *)
(* responses move last_stream_id, forwards or backwards, and wherever they *)
(* are cut off, it never gets past an event that no response has passed    *)
(* on, unless a read from "$" has skipped that event.                      *)
(***************************************************************************)
CursorSeen == cursor > 0 => 1 .. cursor \subseteq covered

(***************************************************************************)
(* loopback.py, the finally block of handle_connection: the response to a  *)
(* message that reads from an id (not from "$") up to which its turn has   *)
(* no end marker comes to an end once the handler has left its loop, or    *)
(* the runtime has connected and its process is gone or the LLM proxy has  *)
(* reported a fatal error, unless a call of Redis failed.  Nothing is      *)
(* claimed for a runtime that hangs with its connection open: the activity *)
(* times out and writes an error, then the server waits for the connection *)
(* and _cleanup, which would kill the process, is not reached.             *)
(***************************************************************************)
ResponseEnds ==
  \A t \in Turn :
    (/\ reader[t] = "open" /\ pos[t] >= 0
     /\ \A i \in Events(t, "end") : pos[t] < i
     /\ handler[t] # "none"
     /\ \/ proc[t] = "exited" \/ t \in fatal
        \/ handler[t] \notin {"opening", "connected"})
      ~> (reader[t] \in {"closing", "closed"} \/ t \in faulty)
=============================================================================
