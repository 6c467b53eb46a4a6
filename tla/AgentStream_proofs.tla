------------------------- MODULE AgentStream_proofs -------------------------
(***************************************************************************)
(* Proofs about the event stream of an agent session, for any number of    *)
(* turns, of events of a turn and of failing calls of Redis.               *)
(***************************************************************************)
EXTENDS AgentStream, FiniteSetTheorems, TLAPS

-----------------------------------------------------------------------------
(***************************************************************************)
(* The inductive invariant, in three parts.                                *)
(***************************************************************************)
Kind == {"delta", "error", "end"}

HandlerState ==
  {"none", "opening", "connected", "breaking", "finally", "closed", "returned"}

\* The property, and that the histories and the positions are what they are.
StreamInv ==
  /\ stream \in Seq([turn : Turn \union {0}, kind : Kind])
  /\ TypeOK
  /\ fatal \subseteq Turn /\ faulty \subseteq Turn
  /\ pos \in [Reader -> Int] /\ upto \in [Reader -> Int]

\* Where the activity of a turn is, and what that says of its process, its
\* handler and its result.
StageOK(t) ==
  /\ reader[t] \in {"idle", "sending"} => exec[t] = "none"
  /\ exec[t] \in {"none", "starting"} => proc[t] = "none" /\ handler[t] = "none"
  /\ exec[t] \in {"waiting", "leaving"} => proc[t] # "none"
  /\ result[t] # "none" => exec[t] \in {"leaving", "over"}
  /\ (outcome[t] = "none") <=> (handler[t] \in {"none", "opening", "connected"})
  /\ result[t] = "success" => handler[t] = "returned"
  /\ handler[t] \in {"connected", "breaking"} => t \in opened
  /\ handler[t] \in {"finally", "closed", "returned"} => t \in opened \union faulty

\* The flag, the end marker of a turn and the way of its handler: whatever
\* branch the handler has left, the flag is set when the marker is written, and
\* is set behind the finally block.
MarkerOK(t) ==
  /\ t \in marked => handler[t] \in {"finally", "closed", "returned"}
  /\ handler[t] \in {"closed", "returned"} /\ t \in opened => t \in marked
  /\ t \notin marked => Events(t, "end") = {}
  /\ t \in marked \ faulty => Events(t, "end") # {}
  /\ \A i, j \in Events(t, "end") : i = j
  /\ \A i \in Events(t, "end"), j \in Events(t, "delta") : j < i

\* The error events of a turn that lost none.
ErrorOK(t) ==
  /\ exec[t] \notin {"leaving", "over"} /\ outcome[t] # "failure" => Events(t, "error") = {}
  /\ outcome[t] = "failure" => ToldError(t)
  /\ result[t] = "success" => Events(t, "error") = {}
  /\ result[t] = "failure" /\ proc[t] # "none" /\ outcome[t] # "success" => ToldError(t)

TurnInv ==
  \A t \in Turn : StageOK(t) /\ MarkerOK(t) /\ (t \notin faulty => ErrorOK(t))

\* What a response has got past, and will get past when its read returns.
PassedOK(r) ==
  /\ 1 .. pos[r] \subseteq covered
  /\ reader[r] = "blocked" => 1 .. upto[r] \subseteq covered

CursorInv ==
  /\ 1 .. cursor \subseteq covered
  /\ \A r \in Reader : PassedOK(r)

-----------------------------------------------------------------------------
(***************************************************************************)
(* Writing events.                                                         *)
(***************************************************************************)
\* The elements of a sequence.
LEMMA SeqElements ==
  ASSUME NEW E, NEW s \in Seq(E)
  PROVE  Len(s) \in Nat /\ \A i \in DOMAIN s : s[i] \in E
OBVIOUS

\* An appended event is the last one, and the others stay where they are.
LEMMA AppendedEvent ==
  ASSUME NEW E, stream \in Seq(E), NEW u, NEW l, stream' = Append(stream, Event(u, l)),
         NEW t, NEW k
  PROVE  Events(t, k)' = IF t = u /\ k = l THEN Events(t, k) \union {Len(stream) + 1}
                                           ELSE Events(t, k)
<1>1. /\ DOMAIN stream = 1 .. Len(stream) /\ Len(stream) \in Nat
      /\ DOMAIN stream' = 1 .. Len(stream) + 1
      /\ \A i \in 1 .. Len(stream) : stream'[i] = stream[i]
      /\ stream'[Len(stream) + 1] = Event(u, l)
  OBVIOUS
<1>2. Event(u, l) = Event(t, k) <=> t = u /\ k = l  BY DEF Event
<1>3. Events(t, k)' = {i \in 1 .. Len(stream) + 1 : stream'[i] = Event(t, k)}
  BY <1>1 DEF Events, Event
<1>4. Events(t, k) = {i \in 1 .. Len(stream) : stream[i] = Event(t, k)}
  BY <1>1 DEF Events
<1>5. \A i : i \in 1 .. Len(stream) + 1 <=> i \in 1 .. Len(stream) \/ i = Len(stream) + 1
  BY <1>1
<1>6. QED  BY <1>1, <1>2, <1>3, <1>4, <1>5

\* The events are where the stream is.
LEMMA EventsInStream ==
  ASSUME StreamInv, NEW t, NEW k
  PROVE  Len(stream) \in Nat /\ Events(t, k) \subseteq 1 .. Len(stream)
BY DEF StreamInv, Events

\* Emit writes one event at the end of the stream or marks the turn.
LEMMA Emitted ==
  ASSUME StreamInv, NEW u \in Turn, NEW l \in Kind, Emit(u, l)
  PROVE  /\ stream' \in Seq([turn : Turn \union {0}, kind : Kind])
         /\ Len(stream') \in Nat /\ Len(stream) <= Len(stream')
         /\ faulty \subseteq faulty' /\ faulty' \subseteq faulty \union {u}
         /\ \A t, k : t # u \/ k # l => Events(t, k)' = Events(t, k)
         /\ \/ Events(u, l)' = Events(u, l) \union {Len(stream) + 1}
            \/ Events(u, l)' = Events(u, l) /\ u \in faulty'
<1>1. stream \in Seq([turn : Turn \union {0}, kind : Kind])  BY DEF StreamInv
<1>2. CASE stream' = Append(stream, Event(u, l)) /\ faulty' = faulty
  <2>1. Event(u, l) \in [turn : Turn \union {0}, kind : Kind]  BY DEF Event
  <2>2. \A t, k : t # u \/ k # l => Events(t, k)' = Events(t, k)
    BY <1>1, <1>2, AppendedEvent
  <2>3. Events(u, l)' = Events(u, l) \union {Len(stream) + 1}
    BY <1>1, <1>2, AppendedEvent
  <2>4. stream' \in Seq([turn : Turn \union {0}, kind : Kind]) /\ Len(stream') = Len(stream) + 1
    BY <1>1, <1>2, <2>1
  <2>5. QED  BY <1>1, <1>2, <2>2, <2>3, <2>4
<1>3. CASE stream' = stream /\ faulty' = faulty \union {u}
  <2>1. \A t, k : Events(t, k)' = Events(t, k)  BY <1>3 DEF Events, Event
  <2>2. QED  BY <1>1, <1>3, <2>1
<1>4. QED  BY <1>2, <1>3 DEF Emit, RedisFails

-----------------------------------------------------------------------------
(***************************************************************************)
(* Types.                                                                  *)
(***************************************************************************)
\* The initial state.
LEMMA InitStream == Init => StreamInv
<1> SUFFICES ASSUME Init PROVE StreamInv
  OBVIOUS
<1>1. Event(0, "end") \in [turn : Turn \union {0}, kind : Kind]
  BY DEF Event, Kind
<1>3. Earlier \in Seq([turn : Turn \union {0}, kind : Kind]) /\ Len(Earlier) = 1
  BY <1>1 DEF Earlier
<1>4. stream \in Seq([turn : Turn \union {0}, kind : Kind])
  <2>1. <<>> \in Seq([turn : Turn \union {0}, kind : Kind])  OBVIOUS
  <2>2. stream = <<>> \/ stream = Earlier  BY DEF Init
  <2>3. QED  BY <1>3, <2>1, <2>2
<1>5. \A i \in DOMAIN stream : stream[i] \in [turn : Turn \union {0}, kind : Kind]
  BY <1>4, SeqElements
<1>6. cursor \in {None, Dollar} \union 0 .. Len(stream)  BY <1>3 DEF Init
<1>7. Len(stream) \in Nat  BY <1>4
<1>8. \A r \in Reader : pos[r] \in {Dollar} \union 0 .. Len(stream)
                          /\ upto[r] \in 0 .. Len(stream) /\ pos[r] <= upto[r]
  BY <1>7 DEF Init
<1>9. pos \in [Reader -> Int] /\ upto \in [Reader -> Int]  BY DEF Init
<1>10. TypeOK  BY <1>5, <1>6, <1>8 DEF Init, TypeOK, Kind
<1>11. QED  BY <1>4, <1>9, <1>10 DEF Init, StreamInv

\* A step of the activity or of the handler: the stream only grows.
LEMMA WriterStream ==
  ASSUME StreamInv, UNCHANGED rvars,
         stream' \in Seq([turn : Turn \union {0}, kind : Kind]),
         Len(stream) <= Len(stream'),
         exec' \in [Turn -> {"none", "starting", "waiting", "leaving", "over"}],
         proc' \in [Turn -> {"none", "running", "exited"}],
         handler' \in [Turn -> HandlerState], opened' \subseteq Turn, marked' \subseteq Turn,
         outcome' \in [Turn -> {"none", "success", "failure"}],
         result' \in [Turn -> {"none", "success", "failure"}],
         fatal' \subseteq Turn, faulty' \subseteq Turn
  PROVE  StreamInv'
<1>1. UNCHANGED <<cursor, reader, pos, upto>>  BY DEF rvars
<1>2. \A i \in DOMAIN stream' : stream'[i] \in [turn : Turn \union {0}, kind : Kind]
  BY SeqElements
<1>3. Len(stream) \in Nat /\ Len(stream') \in Nat  BY DEF StreamInv
<1>4. 0 .. Len(stream) \subseteq 0 .. Len(stream')  BY <1>3
<1>5. TypeOK'  BY <1>1, <1>2, <1>4 DEF StreamInv, TypeOK, Kind, HandlerState
<1>6. QED  BY <1>1, <1>5 DEF StreamInv

\* A step of a response: the stream stays.
LEMMA ReaderStream ==
  ASSUME StreamInv, UNCHANGED <<stream, proc, fatal, result, lvars, faulty>>,
         exec' \in [Turn -> {"none", "starting", "waiting", "leaving", "over"}],
         cursor' \in {cursor, Dollar} \union 0 .. Len(stream),
         NEW r \in Reader,
         NEW q \in {"idle", "sending", "open", "blocked", "batch", "closing", "closed"},
         reader' = [reader EXCEPT ![r] = q],
         NEW n \in {Dollar} \union 0 .. Len(stream), pos' = [pos EXCEPT ![r] = n],
         NEW m \in 0 .. Len(stream), upto' = [upto EXCEPT ![r] = m],
         q = "batch" => n <= m
  PROVE  StreamInv'
<1>1. Len(stream) \in Nat /\ n \in Int /\ m \in Int  BY DEF StreamInv, Dollar
<1>2. pos' \in [Reader -> Int] /\ upto' \in [Reader -> Int]  BY <1>1 DEF StreamInv
<1>3. \A x \in Reader : /\ pos'[x] = IF x = r THEN n ELSE pos[x]
                        /\ upto'[x] = IF x = r THEN m ELSE upto[x]
                        /\ reader'[x] = IF x = r THEN q ELSE reader[x]
  BY DEF StreamInv, TypeOK
<1>4. \A x \in Reader : /\ pos'[x] \in {Dollar} \union 0 .. Len(stream)
                        /\ upto'[x] \in 0 .. Len(stream)
                        /\ reader'[x] = "batch" => pos'[x] <= upto'[x]
  BY <1>3 DEF StreamInv, TypeOK
<1>5. reader' \in [Reader -> {"idle", "sending", "open", "blocked", "batch", "closing",
                              "closed"}]
  BY DEF StreamInv, TypeOK
<1>6. cursor' \in {None, Dollar} \union 0 .. Len(stream)  BY DEF StreamInv, TypeOK
<1>7. UNCHANGED <<stream, proc, fatal, result, handler, opened, marked, outcome, faulty>>
  BY DEF lvars
<1>8. TypeOK'  BY <1>4, <1>5, <1>6, <1>7 DEF StreamInv, TypeOK
<1>9. QED  BY <1>2, <1>7, <1>8 DEF StreamInv

\* A step of the activity of turn t, of its handler or of its runtime.
TurnStep(t) ==
  \/ Activity(t) \/ Timeout(t) \/ Connect(t) \/ Runtime(t)
  \/ Loopback(t) \/ ProcessExits(t) \/ FatalLLMError(t)

\* It writes at most one event, and moves no response.
LEMMA TurnWrites ==
  ASSUME NEW u \in Turn, TurnStep(u)
  PROVE  /\ (\E k \in Kind : Emit(u, k)) \/ UNCHANGED <<stream, faulty>>
         /\ UNCHANGED rvars
<1>1. UNCHANGED rvars
  BY DEF TurnStep, Activity, Spawn, SpawnFails, SeeFatalError, SeeExit, SeeResult, Leave,
         Timeout, Connect, Runtime, ForwardEvent, RuntimeDone, RuntimeError,
         ConnectionFails, Loopback, OpenStream, OpenFails, EmitStreamDone, HandlerReturns,
         ProcessExits, FatalLLMError
<1>2. \/ Emit(u, "delta") \/ Emit(u, "error") \/ Emit(u, "end")
      \/ UNCHANGED <<stream, faulty>>
  <2>1. ForwardEvent(u) => Emit(u, "delta")  BY DEF ForwardEvent, Emit
  <2>2. RuntimeError(u) \/ OpenFails(u) => Emit(u, "error")
    BY DEF RuntimeError, OpenFails, Emit
  <2>3. QED
    BY <2>1, <2>2
       DEF TurnStep, Activity, Spawn, SpawnFails, SeeFatalError, SeeExit, SeeResult, Leave,
           Timeout, Connect, Runtime, RuntimeDone, ConnectionFails, Loopback, OpenStream,
           EmitStreamDone, HandlerReturns, ProcessExits, FatalLLMError, GiveUp
<1>3. QED  BY <1>1, <1>2 DEF Kind

\* The steps of the activity and of the handler.
LEMMA TurnStream ==
  ASSUME StreamInv, NEW u \in Turn, TurnStep(u)
  PROVE  StreamInv'
<1>1. /\ stream \in Seq([turn : Turn \union {0}, kind : Kind])
      /\ Len(stream) \in Nat /\ Len(stream) <= Len(stream)
      /\ exec \in [Turn -> {"none", "starting", "waiting", "leaving", "over"}]
      /\ proc \in [Turn -> {"none", "running", "exited"}]
      /\ handler \in [Turn -> HandlerState]
      /\ opened \subseteq Turn /\ marked \subseteq Turn
      /\ outcome \in [Turn -> {"none", "success", "failure"}]
      /\ result \in [Turn -> {"none", "success", "failure"}]
      /\ fatal \subseteq Turn /\ faulty \subseteq Turn
  BY DEF StreamInv, TypeOK, HandlerState
<1>2. /\ stream' \in Seq([turn : Turn \union {0}, kind : Kind])
      /\ Len(stream) <= Len(stream') /\ faulty' \subseteq Turn
  <2>1. ASSUME NEW k \in Kind, Emit(u, k)
        PROVE  /\ stream' \in Seq([turn : Turn \union {0}, kind : Kind])
               /\ Len(stream) <= Len(stream') /\ faulty' \subseteq Turn
    BY <1>1, <2>1, Emitted
  <2>2. CASE UNCHANGED <<stream, faulty>>  BY <1>1, <2>2
  <2>3. QED  BY <2>1, <2>2, TurnWrites
<1>3. /\ exec' \in [Turn -> {"none", "starting", "waiting", "leaving", "over"}]
      /\ proc' \in [Turn -> {"none", "running", "exited"}]
      /\ outcome' \in [Turn -> {"none", "success", "failure"}]
      /\ result' \in [Turn -> {"none", "success", "failure"}]
      /\ fatal' \subseteq Turn
  BY <1>1
     DEF TurnStep, Activity, Spawn, SpawnFails, SeeFatalError, SeeExit, SeeResult, Leave,
         Timeout, Connect, Runtime, ForwardEvent, RuntimeDone, RuntimeError,
         ConnectionFails, Loopback, OpenStream, OpenFails, EmitStreamDone, HandlerReturns,
         ProcessExits, FatalLLMError, GiveUp, xvars, lvars
<1>4. /\ handler' \in [Turn -> HandlerState]
      /\ opened' \subseteq Turn /\ marked' \subseteq Turn
  BY <1>1
     DEF TurnStep, Activity, Spawn, SpawnFails, SeeFatalError, SeeExit, SeeResult, Leave,
         Timeout, Connect, Runtime, ForwardEvent, RuntimeDone, RuntimeError,
         ConnectionFails, Loopback, OpenStream, OpenFails, EmitStreamDone, LeaveCallSite,
         HandlerReturns, ProcessExits, FatalLLMError, lvars, HandlerState
<1>5. QED  BY <1>2, <1>3, <1>4, TurnWrites, WriterStream

\* A step of response r: it leaves the stream as it is, and gets past nothing
\* that is not covered.
Moves(r, q, n, m) ==
  /\ reader' = [reader EXCEPT ![r] = q]
  /\ pos' = [pos EXCEPT ![r] = n]
  /\ upto' = [upto EXCEPT ![r] = m]
  /\ q = "batch" => n <= m
  /\ cursor' \in {cursor, Dollar} \union 0 .. Len(stream)
  /\ covered \subseteq covered'
  /\ CursorInv => /\ 1 .. cursor' \subseteq covered'
                  /\ 1 .. n \subseteq covered'
                  /\ q = "blocked" => 1 .. m \subseteq covered'
  /\ UNCHANGED <<stream, proc, fatal, result, lvars, faulty>>

ResponseMoves(r) ==
  \E q \in {"idle", "sending", "open", "blocked", "batch", "closing", "closed"},
     n \in {Dollar} \union 0 .. Len(stream), m \in 0 .. Len(stream) : Moves(r, q, n, m)

\* The steps of a response that reads.
LEMMA ReadMoves ==
  ASSUME StreamInv, NEW r \in Reader, Response(r) \/ NothingRead(r) \/ Disconnect(r)
  PROVE  ResponseMoves(r) /\ UNCHANGED exec
<1>1. /\ Len(stream) \in Nat
      /\ cursor \in {None, Dollar} \union 0 .. Len(stream)
      /\ pos[r] \in {Dollar} \union 0 .. Len(stream) /\ upto[r] \in 0 .. Len(stream)
      /\ reader[r] = "batch" => pos[r] <= upto[r]
      /\ pos[r] \in Int /\ upto[r] \in Int
      /\ reader[r] \in {"idle", "sending", "open", "blocked", "batch", "closing", "closed"}
  BY DEF StreamInv, TypeOK
<1>2. /\ reader = [reader EXCEPT ![r] = reader[r]]
      /\ pos = [pos EXCEPT ![r] = pos[r]]
      /\ upto = [upto EXCEPT ![r] = upto[r]]
  BY DEF StreamInv, TypeOK
<1>3. CursorInv => /\ 1 .. cursor \subseteq covered /\ 1 .. pos[r] \subseteq covered
                   /\ reader[r] = "blocked" => 1 .. upto[r] \subseteq covered
  BY DEF CursorInv, PassedOK
<1>4. 0 \in 0 .. Len(stream) /\ Len(stream) \in 0 .. Len(stream) /\ 1 .. 0 \subseteq covered
  BY <1>1
<1>5. CASE XRead(r)
  <2>1. Moves(r, "blocked", pos[r], Len(stream))
    BY <1>1, <1>2, <1>3, <1>5 DEF XRead, Moves, xvars
  <2>2. QED  BY <1>1, <1>4, <1>5, <2>1 DEF ResponseMoves, XRead, xvars
<1>6. CASE Batch(r)
  <2>1. ReadFrom(r) \in {Dollar} \union 0 .. Len(stream) /\ ReadFrom(r) \in Int
    BY <1>1 DEF ReadFrom
  <2>2. CursorInv => 1 .. ReadFrom(r) \subseteq covered  BY <1>3 DEF ReadFrom
  <2>3. ReadFrom(r) <= Len(stream)  BY <1>1, <1>6, <2>1 DEF Batch
  <2>4. Moves(r, "batch", ReadFrom(r), Len(stream))
    BY <1>1, <1>3, <1>6, <2>1, <2>2, <2>3 DEF Batch, Moves, xvars
  <2>5. QED  BY <1>4, <1>6, <2>1, <2>4 DEF ResponseMoves, Batch, xvars
<1>7. CASE Yield(r)
  <2>1. PICK n : n = pos[r] + 1  OBVIOUS
  <2>2. n \in 0 .. Len(stream) /\ n \in Int /\ n <= upto[r]
    BY <1>1, <1>7, <2>1 DEF Yield, Dollar
  <2>3. CursorInv => 1 .. n \subseteq covered \union {n}
    BY <1>1, <1>3, <2>1, <2>2
  <2>4. pos' = [pos EXCEPT ![r] = n] /\ covered' = covered \union {n}
    BY <1>7, <2>1 DEF Yield, StreamInv
  <2>5. Moves(r, "closing", n, 0) \/ Moves(r, reader[r], n, upto[r])
    BY <1>1, <1>2, <1>3, <1>7, <2>2, <2>3, <2>4 DEF Yield, Moves, xvars
  <2>6. QED  BY <1>1, <1>4, <1>7, <2>2, <2>5 DEF ResponseMoves, Yield, xvars
<1>8. CASE SaveCursor(r)
  <2>1. Moves(r, "open", pos[r], 0)
    BY <1>1, <1>2, <1>3, <1>8 DEF SaveCursor, Moves, xvars
  <2>2. QED  BY <1>1, <1>4, <1>8, <2>1 DEF ResponseMoves, SaveCursor, xvars
<1>9. CASE CloseStream(r)
  <2>1. Moves(r, "closed", 0, upto[r])
    BY <1>1, <1>2, <1>3, <1>4, <1>9 DEF CloseStream, Moves, xvars
  <2>2. QED  BY <1>1, <1>4, <1>9, <2>1 DEF ResponseMoves, CloseStream, xvars
<1>10. CASE NothingRead(r)
  <2>1. Moves(r, "open", pos[r], 0)
    BY <1>1, <1>2, <1>3, <1>10 DEF NothingRead, Moves, xvars
  <2>2. QED  BY <1>1, <1>4, <1>10, <2>1 DEF ResponseMoves, NothingRead, xvars
<1>11. CASE Disconnect(r)
  <2>1. Moves(r, "closing", pos[r], 0)
    BY <1>1, <1>2, <1>3, <1>11 DEF Disconnect, Moves, xvars
  <2>2. QED  BY <1>1, <1>4, <1>11, <2>1 DEF ResponseMoves, Disconnect, xvars
<1>12. QED  BY <1>5, <1>6, <1>7, <1>8, <1>9, <1>10, <1>11 DEF Response

\* The steps that open a response.
LEMMA OpenMoves ==
  ASSUME StreamInv
  PROVE  /\ \A t \in Turn : SendMessage(t) => ResponseMoves(t) /\ UNCHANGED exec
         /\ \A t \in Turn : RunTurn(t) => ResponseMoves(t)
         /\ StreamSessionEvents => ResponseMoves(0) /\ UNCHANGED exec
<1>1. /\ Len(stream) \in Nat /\ 0 \in 0 .. Len(stream)
      /\ cursor \in {None, Dollar} \union 0 .. Len(stream)
      /\ \A r \in Reader :
           /\ pos[r] \in {Dollar} \union 0 .. Len(stream) /\ upto[r] \in 0 .. Len(stream)
           /\ pos = [pos EXCEPT ![r] = pos[r]] /\ upto = [upto EXCEPT ![r] = upto[r]]
  BY DEF StreamInv, TypeOK
<1>2. \A t \in Turn : t \in Reader  BY DEF Reader
<1>3. CursorInv => /\ 1 .. cursor \subseteq covered
                   /\ \A r \in Reader : 1 .. pos[r] \subseteq covered
  BY DEF CursorInv, PassedOK
<1>4. 1 .. Dollar \subseteq covered /\ 1 .. 0 \subseteq covered  BY DEF Dollar
<1>5. ASSUME NEW t \in Turn, SendMessage(t)  PROVE ResponseMoves(t) /\ UNCHANGED exec
  <2>1. PICK n : n = IF cursor = None THEN Dollar ELSE cursor  OBVIOUS
  <2>2. /\ n \in {Dollar} \union 0 .. Len(stream)
        /\ CursorInv => 1 .. n \subseteq covered
    BY <1>1, <1>3, <1>4, <2>1
  <2>3. Moves(t, "sending", n, upto[t])
    BY <1>1, <1>2, <1>3, <1>5, <2>1, <2>2 DEF SendMessage, Moves, xvars
  <2>4. QED  BY <1>1, <1>2, <1>5, <2>2, <2>3 DEF ResponseMoves, SendMessage, xvars
<1>6. ASSUME NEW t \in Turn, RunTurn(t)  PROVE ResponseMoves(t)
  <2>1. Moves(t, "open", pos[t], upto[t])
    BY <1>1, <1>2, <1>3, <1>6 DEF RunTurn, Moves
  <2>2. QED  BY <1>1, <1>2, <2>1 DEF ResponseMoves
<1>7. ASSUME StreamSessionEvents  PROVE ResponseMoves(0) /\ UNCHANGED exec
  <2>1. PICK n : n = IF cursor = None THEN 0 ELSE cursor  OBVIOUS
  <2>2. /\ n \in {Dollar} \union 0 .. Len(stream)
        /\ CursorInv => 1 .. n \subseteq covered
    BY <1>1, <1>3, <1>4, <2>1
  <2>3. 0 \in Reader  BY DEF Reader
  <2>4. Moves(0, "open", n, upto[0])
    BY <1>1, <1>3, <1>7, <2>1, <2>2, <2>3 DEF StreamSessionEvents, Moves, xvars
  <2>5. QED  BY <1>1, <1>7, <2>2, <2>3, <2>4 DEF ResponseMoves, StreamSessionEvents, xvars
<1>8. QED  BY <1>5, <1>6, <1>7

\* Every step keeps the types.
LEMMA NextStream == StreamInv /\ [Next]_vars => StreamInv'
<1> SUFFICES ASSUME StreamInv, [Next]_vars PROVE StreamInv'
  OBVIOUS
<1>1. ASSUME NEW r \in Reader, ResponseMoves(r),
             exec' \in [Turn -> {"none", "starting", "waiting", "leaving", "over"}]
      PROVE  StreamInv'
  BY <1>1, ReaderStream, ZenonT(60) DEF ResponseMoves, Moves
<1>2. /\ exec \in [Turn -> {"none", "starting", "waiting", "leaving", "over"}]
      /\ \A t \in Turn : t \in Reader
      /\ 0 \in Reader
  BY DEF StreamInv, TypeOK, Reader
<1>3. ASSUME NEW t \in Turn, SendMessage(t) \/ RunTurn(t)  PROVE StreamInv'
  BY <1>1, <1>2, <1>3, OpenMoves DEF RunTurn
<1>4. CASE StreamSessionEvents
  BY <1>1, <1>2, <1>4, OpenMoves
<1>5. ASSUME NEW r \in Reader, Response(r) \/ NothingRead(r) \/ Disconnect(r)
      PROVE  StreamInv'
  BY <1>1, <1>2, <1>5, ReadMoves
<1>6. CASE UNCHANGED vars
  BY <1>6 DEF vars, StreamInv, TypeOK
<1>7. QED  BY <1>3, <1>4, <1>5, <1>6, TurnStream DEF Next, TurnStep

\* The stream keeps its shape, however it grows while responses read it.
LEMMA StreamInvariant == Spec => []StreamInv
BY InitStream, NextStream, PTL DEF Spec

\* Types: no response and no saved position is ever beyond the stream.
THEOREM StreamTypeCorrect == Spec => []TypeOK
<1>1. StreamInv => TypeOK  BY DEF StreamInv
<1>2. QED  BY <1>1, StreamInvariant, PTL

-----------------------------------------------------------------------------
(***************************************************************************)
(* The saved position.                                                     *)
(***************************************************************************)
\* The initial state.
LEMMA InitCursor == Init => CursorInv
<1> SUFFICES ASSUME Init PROVE CursorInv
  OBVIOUS
<1>1. 1 .. 0 = {}  OBVIOUS
<1>2. QED  BY <1>1 DEF Init, CursorInv, PassedOK

\* Every step keeps what was passed on behind every position.
LEMMA NextCursor == StreamInv /\ CursorInv /\ [Next]_vars => CursorInv'
<1> SUFFICES ASSUME StreamInv, CursorInv, [Next]_vars PROVE CursorInv'
  OBVIOUS
<1>1. ASSUME NEW r \in Reader, ResponseMoves(r)  PROVE CursorInv'
  <2>1. PICK q, n, m : Moves(r, q, n, m)  BY <1>1 DEF ResponseMoves
  <2>2. /\ covered \subseteq covered' /\ 1 .. cursor' \subseteq covered'
        /\ 1 .. n \subseteq covered' /\ (q = "blocked" => 1 .. m \subseteq covered')
    BY <2>1 DEF Moves
  <2>3. \A x \in Reader : /\ pos'[x] = IF x = r THEN n ELSE pos[x]
                          /\ upto'[x] = IF x = r THEN m ELSE upto[x]
                          /\ reader'[x] = IF x = r THEN q ELSE reader[x]
    BY <2>1 DEF Moves, StreamInv, TypeOK
  <2>4. ASSUME NEW x \in Reader  PROVE PassedOK(x)'
    <3>1. CASE x = r  BY <2>2, <2>3, <3>1 DEF PassedOK
    <3>2. CASE x # r
      <4>1. PassedOK(x)  BY DEF CursorInv
      <4>2. QED  BY <2>2, <2>3, <3>2, <4>1 DEF PassedOK
    <3>3. QED  BY <3>1, <3>2
  <2>5. QED  BY <2>2, <2>4 DEF CursorInv
<1>2. ASSUME UNCHANGED rvars  PROVE CursorInv'
  BY <1>2 DEF rvars, CursorInv, PassedOK
<1>3. \A t \in Turn : t \in Reader  BY DEF Reader
<1>4. 0 \in Reader  BY DEF Reader
<1>5. ASSUME NEW t \in Turn, TurnStep(t)  PROVE UNCHANGED rvars
  BY <1>5, TurnWrites
<1>6. CASE UNCHANGED vars  BY <1>2, <1>6 DEF vars, rvars
<1>7. QED
  BY <1>1, <1>2, <1>3, <1>4, <1>5, <1>6, OpenMoves, ReadMoves DEF Next, TurnStep

\* last_stream_id never gets past an event that no response has passed on,
\* unless a read from "$" has skipped it.
THEOREM CursorBehindEvents == Spec => []CursorSeen
<1>1. CursorInv => CursorSeen  BY DEF CursorInv, CursorSeen
<1>2. QED  BY <1>1, InitCursor, NextCursor, StreamInvariant, PTL DEF Spec
-----------------------------------------------------------------------------
(***************************************************************************)
(* The turns.                                                              *)
(***************************************************************************)
TurnOK(t) == StageOK(t) /\ MarkerOK(t) /\ (t \notin faulty => ErrorOK(t))

\* The initial state: the events of an earlier turn are none of these turns'.
LEMMA InitTurn == Init => TurnInv
<1> SUFFICES ASSUME Init, NEW t \in Turn PROVE TurnOK(t)
  BY DEF TurnInv, TurnOK
<1>1. t # 0  BY BoundsAssumption DEF Turn
<1>2. \A k : Events(t, k) = {}
  BY <1>1 DEF Init, Events, Event, Earlier
<1>3. t \in Reader  BY DEF Reader
<1>4. QED  BY <1>2, <1>3 DEF Init, TurnOK, StageOK, MarkerOK, ErrorOK

\* A turn that a step is not about.
LEMMA OtherTurn ==
  ASSUME NEW t \in Turn, TurnOK(t),
         exec'[t] = exec[t], proc'[t] = proc[t], handler'[t] = handler[t],
         outcome'[t] = outcome[t], result'[t] = result[t],
         t \in opened' <=> t \in opened, t \in marked' <=> t \in marked,
         reader'[t] \in {"idle", "sending"} => reader[t] \in {"idle", "sending"},
         t \in faulty => t \in faulty',
         \A k : Events(t, k)' = Events(t, k)
  PROVE  TurnOK(t)'
<1>1. StageOK(t)'  BY DEF TurnOK, StageOK
<1>2. MarkerOK(t)'  BY DEF TurnOK, MarkerOK
<1>3. (t \notin faulty => ErrorOK(t))'
  <2>1. ToldError(t)' <=> ToldError(t)  BY DEF ToldError
  <2>2. QED  BY <2>1 DEF TurnOK, ErrorOK
<1>4. QED  BY <1>1, <1>2, <1>3 DEF TurnOK

\* A handler that has no result yet has written no end marker.
LEMMA NoMarkerYet ==
  ASSUME NEW t \in Turn, TurnOK(t), handler[t] \in {"none", "opening", "connected", "breaking"}
  PROVE  t \notin marked /\ Events(t, "end") = {}
BY DEF TurnOK, MarkerOK

\* The step of a turn's own activity or handler that writes nothing.
LEMMA QuietTurn ==
  ASSUME StreamInv, NEW t \in Turn, TurnOK(t),
         \/ Spawn(t) \/ SpawnFails(t) \/ SeeResult(t) \/ Leave(t) \/ Connect(t)
         \/ OpenStream(t) \/ RuntimeDone(t) \/ HandlerReturns(t) \/ ProcessExits(t)
         \/ FatalLLMError(t)
  PROVE  TurnOK(t)'
<1>1. UNCHANGED <<stream, faulty, reader, marked>>
  BY DEF Spawn, SpawnFails, SeeResult, Leave, Connect, OpenStream, RuntimeDone,
         HandlerReturns, ProcessExits, FatalLLMError, lvars, rvars
<1>2. \A k : Events(t, k)' = Events(t, k)  BY <1>1 DEF Events, Event
<1>3. /\ DOMAIN exec = Turn /\ DOMAIN proc = Turn /\ DOMAIN handler = Turn
      /\ DOMAIN outcome = Turn /\ DOMAIN result = Turn
      /\ outcome[t] \in {"none", "success", "failure"}
      /\ exec[t] \in {"none", "starting", "waiting", "leaving", "over"}
  BY DEF StreamInv, TypeOK
<1> USE DEF xvars, lvars, rvars
<1>4. StageOK(t)'
  BY <1>1, <1>3
     DEF TurnOK, StageOK, Spawn, SpawnFails, SeeResult, Leave, Connect, OpenStream,
         RuntimeDone, HandlerReturns, ProcessExits, FatalLLMError
<1>5. MarkerOK(t)'
  <2>1. \/ handler'[t] = handler[t] /\ opened' = opened
        \/ /\ handler[t] \in {"none", "opening", "connected", "breaking"}
           /\ handler'[t] \in {"none", "opening", "connected", "breaking"}
        \/ handler[t] = "closed" /\ handler'[t] = "returned" /\ opened' = opened
    BY <1>3 DEF Spawn, SpawnFails, SeeResult, Leave, Connect, OpenStream, RuntimeDone,
                HandlerReturns, ProcessExits, FatalLLMError
  <2>2. QED  BY <1>1, <1>2, <2>1 DEF TurnOK, MarkerOK
<1>6. (t \notin faulty => ErrorOK(t))'
  <2>1. SUFFICES ASSUME t \notin faulty  PROVE ErrorOK(t)'
    BY <1>1
  <2>2. StageOK(t) /\ ErrorOK(t)  BY <2>1 DEF TurnOK
  <2>3. ToldError(t)' <=> ToldError(t)  BY <1>2 DEF ToldError
  <2>4. QED
    BY <1>2, <1>3, <2>2, <2>3
       DEF StageOK, ErrorOK, Spawn, SpawnFails, SeeResult, Leave, Connect, OpenStream,
           RuntimeDone, HandlerReturns, ProcessExits, FatalLLMError
<1>7. QED  BY <1>4, <1>5, <1>6 DEF TurnOK

\* An error event is there, and in time unless an end marker was there before.
LEMMA ErrorWritten ==
  ASSUME StreamInv, NEW t \in Turn, TurnOK(t), Emit(t, "error")
  PROVE  /\ faulty \subseteq faulty'
         /\ Events(t, "end")' = Events(t, "end") /\ Events(t, "delta")' = Events(t, "delta")
         /\ Events(t, "end") = {} /\ t \notin faulty' => ToldError(t)'
         /\ ToldError(t) => ToldError(t)'
<1>1. /\ faulty \subseteq faulty'
      /\ \A k : k # "error" => Events(t, k)' = Events(t, k)
      /\ \/ Events(t, "error")' = Events(t, "error") \union {Len(stream) + 1}
         \/ Events(t, "error")' = Events(t, "error") /\ t \in faulty'
  BY Emitted DEF Kind
<1>2. Events(t, "end")' = Events(t, "end") /\ Events(t, "delta")' = Events(t, "delta")
  BY <1>1
<1>3. QED  BY <1>1, <1>2 DEF ToldError

\* The activity gives up.
LEMMA GiveUpTurn ==
  ASSUME StreamInv, NEW t \in Turn, TurnOK(t),
         SeeFatalError(t) \/ SeeExit(t) \/ Timeout(t)
  PROVE  TurnOK(t)'
<1>1. /\ DOMAIN exec = Turn /\ DOMAIN proc = Turn /\ DOMAIN result = Turn
      /\ outcome[t] \in {"none", "success", "failure"}
  BY DEF StreamInv, TypeOK
<1>2. /\ exec[t] = "waiting" /\ exec'[t] = "leaving" /\ result'[t] = "failure"
      /\ UNCHANGED <<handler, opened, marked, outcome, reader>> /\ Emit(t, "error")
      /\ proc'[t] \in {proc[t], "exited"}
  BY <1>1 DEF SeeFatalError, SeeExit, Timeout, GiveUp, lvars, rvars
<1>3. StageOK(t)'  BY <1>2, ErrorWritten DEF TurnOK, StageOK
<1>4. MarkerOK(t)'  BY <1>2, ErrorWritten DEF TurnOK, MarkerOK
<1>5. (t \notin faulty => ErrorOK(t))'
  <2>1. SUFFICES ASSUME t \notin faulty'  PROVE ErrorOK(t)'
    OBVIOUS
  <2>2. t \notin faulty  BY <1>2, <2>1, ErrorWritten
  <2>3. CASE outcome[t] = "none"
    <3>1. Events(t, "end") = {}  BY <2>3, NoMarkerYet DEF TurnOK, StageOK
    <3>2. ToldError(t)'  BY <1>2, <2>1, <3>1, ErrorWritten
    <3>3. QED  BY <1>2, <3>2 DEF ErrorOK
  <2>4. CASE outcome[t] = "failure"
    <3>1. ToldError(t)  BY <2>2, <2>4 DEF TurnOK, ErrorOK
    <3>2. ToldError(t)'  BY <1>2, <3>1, ErrorWritten
    <3>3. QED  BY <1>2, <3>2 DEF ErrorOK
  <2>5. CASE outcome[t] = "success"  BY <1>2, <2>5 DEF ErrorOK
  <2>6. QED  BY <1>1, <2>3, <2>4, <2>5
<1>6. QED  BY <1>3, <1>4, <1>5 DEF TurnOK

\* The handler passes on an event of the runtime.
LEMMA ForwardTurn ==
  ASSUME StreamInv, NEW t \in Turn, TurnOK(t), ForwardEvent(t)
  PROVE  TurnOK(t)'
<1>1. /\ handler[t] = "connected" /\ stream' = Append(stream, Event(t, "delta"))
      /\ UNCHANGED <<exec, proc, handler, opened, marked, outcome, result, reader, faulty>>
  BY DEF ForwardEvent, xvars, lvars, rvars
<1>2. Events(t, "end")' = Events(t, "end") /\ Events(t, "error")' = Events(t, "error")
  BY <1>1, AppendedEvent DEF StreamInv
<1>3. t \notin marked /\ Events(t, "end") = {}  BY <1>1, NoMarkerYet
<1>4. StageOK(t)'  BY <1>1 DEF TurnOK, StageOK
<1>5. MarkerOK(t)'  BY <1>1, <1>2, <1>3 DEF MarkerOK
<1>6. (t \notin faulty => ErrorOK(t))'
  <2>1. ToldError(t)' <=> ToldError(t)  BY <1>2 DEF ToldError
  <2>2. QED  BY <1>1, <1>2, <2>1 DEF TurnOK, ErrorOK
<1>7. QED  BY <1>4, <1>5, <1>6 DEF TurnOK

\* The handler fails, with an error written in a branch or by an exception, or
\* with no stream to write it to.
LEMMA FailedTurn ==
  ASSUME StreamInv, NEW t \in Turn, TurnOK(t),
         RuntimeError(t) \/ ConnectionFails(t) \/ OpenFails(t)
  PROVE  TurnOK(t)'
<1>1. DOMAIN handler = Turn /\ DOMAIN outcome = Turn  BY DEF StreamInv, TypeOK
<1>2. /\ handler[t] \in {"opening", "connected"}
      /\ handler'[t] \in {"breaking", "finally"}
      /\ handler'[t] = "breaking" => handler[t] = "connected"
      /\ handler[t] = "connected" \/ t \in faulty'
      /\ outcome'[t] = "failure"
      /\ UNCHANGED <<exec, proc, result, reader, opened, marked>>
  BY <1>1 DEF RuntimeError, ConnectionFails, OpenFails, RedisFails, xvars, rvars
<1>3. Emit(t, "error")  BY DEF RuntimeError, ConnectionFails, OpenFails, Emit
<1>4. t \notin marked /\ Events(t, "end") = {}  BY <1>2, NoMarkerYet
<1>5. StageOK(t)'  BY <1>2, <1>3, ErrorWritten DEF TurnOK, StageOK
<1>6. MarkerOK(t)'  BY <1>2, <1>3, <1>4, ErrorWritten DEF MarkerOK
<1>7. result[t] # "success"  BY <1>2 DEF TurnOK, StageOK
<1>8. t \notin faulty' => ToldError(t)'  BY <1>3, <1>4, ErrorWritten
<1>9. (t \notin faulty => ErrorOK(t))'  BY <1>2, <1>7, <1>8 DEF ErrorOK
<1>10. QED  BY <1>5, <1>6, <1>9 DEF TurnOK

\* A call of _emit_stream_done, from a branch or from the finally block.
LEMMA MarkerTurn ==
  ASSUME StreamInv, NEW t \in Turn, TurnOK(t), EmitStreamDone(t)
  PROVE  TurnOK(t)'
<1>1. DOMAIN handler = Turn  BY DEF StreamInv, TypeOK
<1>2. /\ \/ handler[t] = "breaking" /\ handler'[t] = "finally"
         \/ handler[t] = "finally" /\ handler'[t] = "closed"
      /\ UNCHANGED <<exec, proc, result, outcome, reader, opened>>
  BY <1>1 DEF EmitStreamDone, LeaveCallSite, xvars, rvars
<1>3. CASE t \in opened \ marked
  <2>1. Emit(t, "end") /\ marked' = marked \union {t}  BY <1>3 DEF EmitStreamDone
  <2>2. /\ faulty \subseteq faulty' /\ \A k : k # "end" => Events(t, k)' = Events(t, k)
        /\ \/ Events(t, "end")' = Events(t, "end") \union {Len(stream) + 1}
           \/ Events(t, "end")' = Events(t, "end") /\ t \in faulty'
    BY <2>1, Emitted DEF Kind
  <2>3. Events(t, "end") = {}  BY <1>3 DEF TurnOK, MarkerOK
  <2>4. /\ Events(t, "error")' = Events(t, "error")
        /\ Events(t, "delta")' = Events(t, "delta")
    BY <2>2
  <2>5. StageOK(t)'  BY <1>2, <2>2 DEF TurnOK, StageOK
  <2>6. /\ \A j \in Events(t, "delta") : j < Len(stream) + 1
        /\ \A j \in Events(t, "error") : j < Len(stream) + 1
    BY EventsInStream
  <2>7. MarkerOK(t)'
    <3>1. /\ (\A i, j \in Events(t, "end") : i = j)'
          /\ (t \notin faulty => Events(t, "end") # {})'
      BY <2>2, <2>3
    <3>2. (\A i \in Events(t, "end"), j \in Events(t, "delta") : j < i)'
      BY <2>2, <2>3, <2>4, <2>6
    <3>3. QED  BY <1>2, <2>1, <3>1, <3>2 DEF MarkerOK
  <2>8. (t \notin faulty => ErrorOK(t))'
    <3>1. ToldError(t) => ToldError(t)'  BY <2>2, <2>3, <2>4, <2>6 DEF ToldError
    <3>2. QED  BY <1>2, <2>2, <2>4, <3>1 DEF TurnOK, ErrorOK
  <2>9. QED  BY <2>5, <2>7, <2>8 DEF TurnOK
<1>4. CASE t \notin opened \ marked
  <2>1. UNCHANGED <<stream, marked, faulty>>  BY <1>4 DEF EmitStreamDone
  <2>2. \A k : Events(t, k)' = Events(t, k)  BY <2>1 DEF Events, Event
  <2>3. handler[t] = "finally"  BY <1>2, <1>4 DEF TurnOK, StageOK, MarkerOK
  <2>4. StageOK(t)'  BY <1>2, <2>1, <2>3 DEF TurnOK, StageOK
  <2>5. MarkerOK(t)'  BY <1>2, <1>4, <2>1, <2>2, <2>3 DEF TurnOK, MarkerOK
  <2>6. ToldError(t)' <=> ToldError(t)  BY <2>2 DEF ToldError
  <2>7. (t \notin faulty => ErrorOK(t))'  BY <1>2, <2>1, <2>2, <2>6 DEF TurnOK, ErrorOK
  <2>8. QED  BY <2>4, <2>5, <2>7 DEF TurnOK
<1>5. QED  BY <1>3, <1>4

\* A step of another turn's activity or handler.
LEMMA TurnApart ==
  ASSUME StreamInv, NEW u \in Turn, NEW t \in Turn, t # u, TurnOK(t), TurnStep(u)
  PROVE  TurnOK(t)'
<1>1. /\ exec \in [Turn -> {"none", "starting", "waiting", "leaving", "over"}]
      /\ proc \in [Turn -> {"none", "running", "exited"}]
      /\ handler \in [Turn -> HandlerState]
      /\ outcome \in [Turn -> {"none", "success", "failure"}]
      /\ result \in [Turn -> {"none", "success", "failure"}]
  BY DEF StreamInv, TypeOK, HandlerState
<1>2. exec'[t] = exec[t] /\ proc'[t] = proc[t] /\ result'[t] = result[t]
  BY <1>1
     DEF TurnStep, Activity, Spawn, SpawnFails, SeeFatalError, SeeExit, SeeResult, Leave,
         Timeout, Connect, Runtime, ForwardEvent, RuntimeDone, RuntimeError,
         ConnectionFails, Loopback, OpenStream, OpenFails, EmitStreamDone, HandlerReturns,
         ProcessExits, FatalLLMError, GiveUp, xvars
<1>3. /\ handler'[t] = handler[t] /\ outcome'[t] = outcome[t]
      /\ t \in opened' <=> t \in opened
      /\ t \in marked' <=> t \in marked
  BY <1>1
     DEF TurnStep, Activity, Spawn, SpawnFails, SeeFatalError, SeeExit, SeeResult, Leave,
         Timeout, Connect, Runtime, ForwardEvent, RuntimeDone, RuntimeError,
         ConnectionFails, Loopback, OpenStream, OpenFails, EmitStreamDone, LeaveCallSite,
         HandlerReturns, ProcessExits, FatalLLMError, lvars
<1>4. reader' = reader  BY TurnWrites DEF rvars
<1>5. faulty \subseteq faulty' /\ \A k : Events(t, k)' = Events(t, k)
  <2>1. ASSUME NEW l \in Kind, Emit(u, l)
        PROVE  faulty \subseteq faulty' /\ \A k : Events(t, k)' = Events(t, k)
    BY <2>1, Emitted
  <2>2. CASE UNCHANGED <<stream, faulty>>  BY <2>2 DEF Events, Event
  <2>3. QED  BY <2>1, <2>2, TurnWrites
<1>6. QED  BY <1>2, <1>3, <1>4, <1>5, OtherTurn

\* A step of a response.
LEMMA ReaderTurn ==
  ASSUME StreamInv, NEW t \in Turn, TurnOK(t),
         \/ \E u \in Turn : SendMessage(u) \/ RunTurn(u)
         \/ StreamSessionEvents
         \/ \E r \in Reader : Response(r) \/ NothingRead(r) \/ Disconnect(r)
  PROVE  TurnOK(t)'
<1>1. DOMAIN exec = Turn /\ DOMAIN reader = Reader  BY DEF StreamInv, TypeOK
<1>2. \A u \in Turn : u \in Reader  BY DEF Reader
<1>3. UNCHANGED <<stream, faulty, proc, handler, opened, marked, outcome, result>>
  BY DEF SendMessage, RunTurn, StreamSessionEvents, Response, XRead, Batch, Yield,
         SaveCursor, CloseStream, NothingRead, Disconnect, xvars, lvars
<1>4. \A k : Events(t, k)' = Events(t, k)  BY <1>3 DEF Events, Event
<1>5. CASE RunTurn(t)
  <2>1. /\ exec'[t] = "starting" /\ reader'[t] = "open" /\ reader[t] = "sending"
    BY <1>1, <1>2, <1>5 DEF RunTurn
  <2>2. exec[t] = "none"  BY <2>1 DEF TurnOK, StageOK
  <2>3. StageOK(t)'  BY <1>3, <2>1, <2>2 DEF TurnOK, StageOK
  <2>4. MarkerOK(t)'  BY <1>3, <1>4 DEF TurnOK, MarkerOK
  <2>5. (t \notin faulty => ErrorOK(t))'
    BY <1>3, <1>4, <2>1, <2>2 DEF TurnOK, ErrorOK, ToldError
  <2>6. QED  BY <2>3, <2>4, <2>5 DEF TurnOK
<1>6. CASE ~ RunTurn(t)
  <2>1. exec'[t] = exec[t]
    BY <1>1, <1>6 DEF SendMessage, RunTurn, StreamSessionEvents, Response, XRead, Batch,
                      Yield, SaveCursor, CloseStream, NothingRead, Disconnect, xvars
  <2>2. reader'[t] \in {"idle", "sending"} => reader[t] \in {"idle", "sending"}
    BY <1>1, <1>2 DEF SendMessage, RunTurn, StreamSessionEvents, Response, XRead, Batch,
                      Yield, SaveCursor, CloseStream, NothingRead, Disconnect
  <2>3. QED  BY <1>3, <1>4, <2>1, <2>2, OtherTurn
<1>7. QED  BY <1>5, <1>6

\* Every step keeps every turn's invariant.
LEMMA NextTurn == StreamInv /\ TurnInv /\ [Next]_vars => TurnInv'
<1> SUFFICES ASSUME StreamInv, TurnInv, [Next]_vars, NEW t \in Turn  PROVE TurnOK(t)'
  BY DEF TurnInv, TurnOK
<1>1. TurnOK(t)  BY DEF TurnInv, TurnOK
<1>2. ASSUME NEW u \in Turn, TurnStep(u)  PROVE TurnOK(t)'
  <2>1. CASE t # u  BY <1>1, <1>2, <2>1, TurnApart
  <2>2. CASE t = u
    BY <1>1, <1>2, <2>2, QuietTurn, GiveUpTurn, ForwardTurn, FailedTurn, MarkerTurn
       DEF TurnStep, Activity, Runtime, Loopback
  <2>3. QED  BY <2>1, <2>2
<1>3. CASE UNCHANGED vars
  <2>1. \A k : Events(t, k)' = Events(t, k)  BY <1>3 DEF vars, Events, Event
  <2>2. QED  BY <1>1, <1>3, <2>1, OtherTurn DEF vars
<1>4. QED  BY <1>1, <1>2, <1>3, ReaderTurn DEF Next, TurnStep

\* The turns' invariant holds in every state.
LEMMA TurnInvariant == Spec => [](StreamInv /\ TurnInv)
BY InitStream, InitTurn, NextStream, NextTurn, PTL DEF Spec

\* A set whose elements are all the same has one at most.
LEMMA AtMostOne ==
  ASSUME NEW S, \A i, j \in S : i = j
  PROVE  Cardinality(S) <= 1
<1>1. CASE S = {}  BY <1>1, FS_EmptySet
<1>2. CASE S # {}
  <2>1. PICK x : S = {x}  BY <1>2
  <2>2. Cardinality(S) = 1  BY <2>1, FS_Singleton
  <2>3. QED  BY <2>2
<1>3. QED  BY <1>1, <1>2

\* A turn gets exactly one end marker, from whichever branch or exception its
\* handler leaves the loop, unless a call of Redis failed, and no event of the
\* runtime after it.
THEOREM StreamEndsOnce == Spec => []EndOnce
<1>1. TurnInv => EndOnce
  <2>1. ASSUME TurnInv, NEW t \in Turn
        PROVE  /\ t \notin faulty =>
                    /\ Cardinality(Events(t, "end")) <= 1
                    /\ handler[t] \in {"closed", "returned"} => Events(t, "end") # {}
               /\ \A i \in Events(t, "end"), j \in Events(t, "delta") : j < i
    BY <2>1, AtMostOne DEF TurnInv, StageOK, MarkerOK
  <2>2. QED  BY <2>1 DEF EndOnce
<1>2. QED  BY <1>1, TurnInvariant, PTL

\* What the activity reports to the workflow is what the readers are told before
\* they stop: the end marker without an error, or an error before any marker;
\* but for turns never spawned, turns with a failed call of Redis, and turns
\* that the activity gave up although their runtime had reported done.
THEOREM StreamTellsResult == Spec => []ResultMatchesStream
<1>1. TurnInv => ResultMatchesStream
  <2>1. ASSUME TurnInv, NEW t \in Turn \ faulty, result[t] = "success"
        PROVE  Events(t, "end") # {} /\ Events(t, "error") = {}
    BY <2>1 DEF TurnInv, StageOK, MarkerOK, ErrorOK
  <2>2. QED  BY <2>1 DEF TurnInv, ResultMatchesStream, ErrorOK
<1>2. QED  BY <1>1, TurnInvariant, PTL
=============================================================================
