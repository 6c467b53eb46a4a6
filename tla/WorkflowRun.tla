---------------------------- MODULE WorkflowRun -----------------------------
(***************************************************************************)
(* One run of DSLWorkflow (allama/dsl/workflow.py) from its start to its   *)
(* close: the set-up, two independent tasks, the return value and the      *)
(* error handler workflow.  One task executes a child workflow, alone or   *)
(* once per item of a loop, in batches.  The other one is interactive      *)
(* (allama_ee/interactions): it runs an action and waits for a response    *)
(* that reaches the run as an update, whenever somebody sends one.         *)
(*                                                                         *)
(* The module DSLScheduler says in which order the tasks of a graph run;   *)
(* here the two tasks are ready at once, without error paths, and a        *)
(* failure of one makes the scheduler cancel the other.                    *)
(***************************************************************************)
EXTENDS Integers, Sequences, FiniteSets

CONSTANTS
  MaxCount,      \* bound: items of the loop
  BatchSize,     \* the batch_size argument of the task
  MaxResponses   \* bound: responses sent to the interaction

\* Nothing in the code refuses a batch_size below one, with which the loop
\* would start empty batches for ever.
ASSUME LoopAssumption ==
  /\ MaxCount \in Nat \ {0}
  /\ BatchSize \in Nat \ {0}
  /\ MaxResponses \in Nat

Item == 0 .. MaxCount - 1

VARIABLES
  conf,        \* the arguments of the subflow task
  pc,          \* where the run is
  outcome,     \* how it closed
  cancelled,   \* somebody asked to cancel the run
  configured,  \* what the handler lookup answered
  handler,     \* the error handler workflow
  sub,         \* where the subflow task is
  total,       \* prepared.count
  start,       \* batch_start
  child,       \* the child workflow of each item
  results,     \* all_results
  ask,         \* where the interactive task is
  state,       \* the state of the interaction in the workflow
  row,         \* the interaction's row in the database
  returned,    \* the response the task returned
  accepted,    \* history: number of responses answered with "success"
  early        \* history: accepted when the task began to wait

lvars == <<conf, total, start, child, results>>
svars == <<sub, total, start, child, results>>
ivars == <<ask, state, row, returned, early>>
hvars == <<outcome, configured, handler>>
vars  == <<conf, pc, outcome, cancelled, configured, handler, sub, total, start,
           child, results, ask, state, row, returned, accepted, early>>

Ended    == {"done", "failed", "cancelled"}
Status   == {"none", "idle", "pending", "completed", "error"}
Response == 0 .. MaxResponses   \* 0: no response yet

-----------------------------------------------------------------------------
(***************************************************************************)
(* Closing.  Temporal terminates the children that run under the default   *)
(* parent close policy; detached children are abandoned and go on.         *)
(***************************************************************************)
Waited == conf.wait = "wait"

TerminateChildren ==
  [i \in Item |-> IF child[i] = "running" /\ Waited THEN "terminated" ELSE child[i]]

Close(o) ==
  /\ pc' = "closed"
  /\ outcome' = o
  /\ child' = TerminateChildren
  /\ handler' = IF handler = "running" THEN "terminated" ELSE handler

\* What a step of run() leaves alone when it closes the run.
RunUnchanged == UNCHANGED <<conf, cancelled, sub, total, start, results, ivars, accepted>>

Goto(p) ==
  /\ pc' = p
  /\ UNCHANGED <<outcome, handler, child>>

-----------------------------------------------------------------------------
(***************************************************************************)
(* Set-up.  Each step is an activity that may fail, or is skipped when the *)
(* caller passed the value.  Only the failure to normalise the trigger     *)
(* inputs becomes an application error: the others are activity errors,    *)
(* which the except clauses of the code do not convert, and close the run. *)
(***************************************************************************)
GetDefinition ==
  /\ pc = "definition"
  /\ Goto("lock") \/ Close("setup")
  /\ RunUnchanged /\ UNCHANGED configured

ResolveLock ==
  /\ pc = "lock"
  /\ Goto("inputs") \/ Close("setup")
  /\ RunUnchanged /\ UNCHANGED configured

GetTriggerInputs ==
  /\ pc = "inputs"
  /\ Goto("normalise") \/ Close("platform")
  /\ RunUnchanged /\ UNCHANGED configured

NormalizeInputs ==
  /\ pc = "normalise"
  /\ Goto("anchor") \/ Goto("lookup")
  /\ RunUnchanged /\ UNCHANGED configured

ResolveTimeAnchor ==
  /\ pc = "anchor"
  /\ \/ /\ Goto("tasks")
        /\ sub' = "timers"
        /\ ask' = "create"
     \/ /\ Close("platform")
        /\ UNCHANGED <<sub, ask>>
  /\ UNCHANGED <<conf, cancelled, configured, total, start, results, state, row,
                 returned, accepted, early>>

-----------------------------------------------------------------------------
(***************************************************************************)
(* The subflow task.                                                       *)
(***************************************************************************)
Running == pc \in {"tasks", "stopping"}

SubMoves(p) ==
  /\ sub' = p
  /\ UNCHANGED <<conf, pc, hvars, cancelled, ivars, accepted>>

\* wait_until or start_delay; only the parsing of a date can fail.
HandleTimers ==
  /\ pc = "tasks" /\ sub = "timers"
  /\ SubMoves("prepare") \/ SubMoves("failed")
  /\ UNCHANGED <<total, start, child, results>>

PrepareSubflow ==
  /\ pc = "tasks" /\ sub = "prepare"
  /\ \/ /\ SubMoves("loop")
        /\ total' \in IF conf.loop = "single" THEN {1} ELSE 0 .. MaxCount
     \/ /\ SubMoves("failed")
        /\ UNCHANGED total
  /\ UNCHANGED <<start, child, results>>

LoopWidth ==
  CASE conf.loop = "sequential" -> 1
    [] conf.loop = "batch"      -> BatchSize
    [] conf.loop = "parallel"   -> total
    [] conf.loop = "single"     -> 1

CurrentBatchSize ==
  IF LoopWidth < total - start THEN LoopWidth ELSE total - start

Batch == start .. start + CurrentBatchSize - 1

StartBatch ==
  /\ pc = "tasks" /\ sub = "loop"
  /\ start < total
  /\ SubMoves("gather")
  /\ child' = [i \in Item |-> IF i \in Batch THEN "running" ELSE child[i]]
  /\ UNCHANGED <<total, start, results>>

ChildEnds(i) ==
  /\ child[i] = "running"
  /\ \E end \in {"completed", "failed"}
                  \union (IF sub = "cancelling" THEN {"cancelled"} ELSE {}) :
       child' = [child EXCEPT ![i] = end]
  /\ UNCHANGED <<conf, pc, hvars, cancelled, sub, total, start, results, ivars, accepted>>

\* What one entry of the gather stands for: a detached child has answered with
\* its workflow id when it is started, however it ends.
GatherResult(i) ==
  IF Waited THEN IF child[i] = "completed" THEN "value" ELSE "error" ELSE "id"

BatchResults == [k \in 1 .. CurrentBatchSize |-> GatherResult(start + k - 1)]

\* asyncio.gather answers when every child of the batch has.
Gathered == Waited => \A i \in Batch : child[i] # "running"

\* Mutant: the failures of a batch are looked at only after the loop.
BatchFailedNever == FALSE

BatchFailed ==
  /\ conf.fail = "all"
  /\ \E i \in Batch : GatherResult(i) = "error"

\* Mutant: batch_start advances by the batch size, also after a short batch.
EndBatchFullWidth ==
  /\ pc = "tasks" /\ sub = "gather"
  /\ Gathered
  /\ IF BatchFailed
       THEN /\ SubMoves("failed")
            /\ UNCHANGED <<start, results>>
       ELSE /\ SubMoves("loop")
            /\ results' = results \o BatchResults
            /\ start' = start + LoopWidth
  /\ UNCHANGED <<total, child>>

EndBatch ==
  /\ pc = "tasks" /\ sub = "gather"
  /\ Gathered
  /\ IF BatchFailed
       THEN /\ SubMoves("failed")
            /\ UNCHANGED <<start, results>>
       ELSE /\ SubMoves("loop")
            /\ results' = results \o BatchResults
            /\ start' = start + CurrentBatchSize
  /\ UNCHANGED <<total, child>>

EndLoop ==
  /\ pc = "tasks" /\ sub = "loop"
  /\ start >= total
  /\ SubMoves(IF conf.loop = "single" THEN "done" ELSE "sync")
  /\ UNCHANGED <<total, start, child, results>>

Synchronize ==
  /\ pc = "tasks" /\ sub = "sync"
  /\ SubMoves("done") \/ SubMoves("failed")
  /\ UNCHANGED <<total, start, child, results>>

\* The cancellation of the gather reaches the task when its children ended.
SubCancelled ==
  /\ pc = "stopping" /\ sub = "cancelling"
  /\ \A i \in Item : child[i] # "running"
  /\ SubMoves("cancelled")
  /\ UNCHANGED <<total, start, child, results>>

-----------------------------------------------------------------------------
(***************************************************************************)
(* The interactive task.  An attempt of an activity that failed has no     *)
(* effect later.                                                           *)
(***************************************************************************)
AskUnchanged == UNCHANGED <<conf, pc, hvars, cancelled, svars, accepted>>

UpdateInteraction(status, payload) == row' = [status |-> status, data |-> payload]

\* The row when the activity that writes it is cancelled or its run closes: it
\* may still have been written.
WrittenRow ==
  {row} \union
  CASE ask = "create"   -> {[row EXCEPT !.status = "idle"]}
    [] ask = "pending"  -> {[row EXCEPT !.status = "pending"]}
    [] ask = "record"   -> {[status |-> "completed", data |-> returned]}
    [] ask = "erroring" -> {[row EXCEPT !.status = "error"]}
    [] OTHER            -> {}

PrepareInteraction ==
  /\ pc = "tasks" /\ ask = "create"
  /\ \/ /\ ask' = "action"
        /\ row' = [row EXCEPT !.status = "idle"]
        /\ state' = [state EXCEPT !.status = "idle"]
     \/ /\ ask' = "failed"
        /\ row' \in WrittenRow
        /\ UNCHANGED state
  /\ AskUnchanged /\ UNCHANGED <<returned, early>>

\* The action ends and wait_for_response begins: the state is pending before
\* the row is.
RunAction ==
  /\ pc = "tasks" /\ ask = "action"
  /\ \/ /\ ask' = "pending"
        /\ state' = [state EXCEPT !.status = "pending"]
        /\ early' = accepted
     \/ /\ ask' = "failed"
        /\ UNCHANGED <<state, early>>
  /\ AskUnchanged /\ UNCHANGED <<row, returned>>

\* Mutant: the response is stored and the state keeps its status.
HandleInteractionUnmarked ==
  /\ pc # "closed"
  /\ state.status # "none"
  /\ accepted < MaxResponses
  /\ accepted' = accepted + 1
  /\ state' = [state EXCEPT !.data = accepted']
  /\ UNCHANGED <<conf, pc, hvars, cancelled, svars, ask, row, returned, early>>

\* A response is taken whenever the interaction has a state.
HandleInteraction ==
  /\ pc # "closed"
  /\ state.status # "none"
  /\ accepted < MaxResponses
  /\ accepted' = accepted + 1
  /\ state' = [status |-> "completed", data |-> accepted']
  /\ UNCHANGED <<conf, pc, hvars, cancelled, svars, ask, row, returned, early>>

SetPending ==
  /\ pc = "tasks" /\ ask = "pending"
  /\ \/ /\ ask' = "wait"
        /\ UpdateInteraction("pending", row.data)
     \/ /\ ask' = "erroring"
        /\ UNCHANGED row
  /\ AskUnchanged /\ UNCHANGED <<state, returned, early>>

IsActivated == state.status = "completed"

\* The payload is read when the update is scheduled, the value the task returns
\* when it is done: "record" holds the first one.
ReceiveResponse ==
  /\ pc = "tasks" /\ ask = "wait"
  /\ IsActivated
  /\ ask' = "record"
  /\ returned' = state.data
  /\ AskUnchanged /\ UNCHANGED <<state, row, early>>

\* Mutant: the row is completed without the payload.
RecordResponseBare ==
  /\ pc = "tasks" /\ ask = "record"
  /\ \/ /\ ask' = "done"
        /\ UpdateInteraction("completed", row.data)
        /\ returned' = state.data
     \/ /\ ask' = "erroring"
        /\ UNCHANGED <<row, returned>>
  /\ AskUnchanged /\ UNCHANGED <<state, early>>

RecordResponse ==
  /\ pc = "tasks" /\ ask = "record"
  /\ \/ /\ ask' = "done"
        /\ UpdateInteraction("completed", returned)
        /\ returned' = state.data
     \/ /\ ask' = "erroring"
        /\ UNCHANGED <<row, returned>>
  /\ AskUnchanged /\ UNCHANGED <<state, early>>

\* The last update of a failed interaction, which may fail as well.
SetError ==
  /\ Running /\ ask = "erroring"
  /\ ask' = "failed"
  /\ UpdateInteraction("error", row.data) \/ UNCHANGED row
  /\ AskUnchanged /\ UNCHANGED <<state, returned, early>>

-----------------------------------------------------------------------------
(***************************************************************************)
(* The scheduler's end.  A task that failed makes it cancel the pending    *)
(* tasks and wait for them.  A cancelled activity fails the task that      *)
(* awaits it; a timer and a wait condition raise CancelledError, which the *)
(* except clauses of the tasks do not catch.  The timers of a task are its *)
(* sleep and the activity that parses wait_until, so either may happen.    *)
(***************************************************************************)
SubWhenCancelled ==
  CASE sub = "timers"              -> {"cancelled", "failed"}
    [] sub = "loop"                -> {"cancelled"}
    [] sub \in {"prepare", "sync"} -> {"failed"}
    [] sub = "gather"              -> {IF Waited THEN "cancelling" ELSE "cancelled"}
    [] OTHER                       -> {sub}

AskWhenCancelled ==
  CASE ask \in {"create", "action", "erroring"} -> "failed"
    [] ask \in {"pending", "record"}            -> "erroring"
    [] ask = "wait"                             -> "cancelled"
    [] OTHER                                    -> ask

TaskExceptions == "failed" \in {sub, ask}

StopScheduler ==
  /\ pc = "tasks"
  /\ TaskExceptions
  /\ pc' = "stopping"
  /\ sub' \in SubWhenCancelled
  /\ ask' = AskWhenCancelled
  /\ row' \in WrittenRow
  /\ UNCHANGED <<conf, hvars, cancelled, total, start, child, results, state,
                 returned, accepted, early>>

\* Mutant: the cancelled tasks are not awaited.
StoppedSchedulerAtOnce ==
  /\ pc = "stopping"
  /\ Goto("lookup")
  /\ RunUnchanged /\ UNCHANGED configured

StoppedScheduler ==
  /\ pc = "stopping"
  /\ {sub, ask} \subseteq Ended
  /\ Goto("lookup")
  /\ RunUnchanged /\ UNCHANGED configured

CompletedScheduler ==
  /\ pc = "tasks"
  /\ {sub, ask} \subseteq {"done"}
  /\ Goto("return")
  /\ RunUnchanged /\ UNCHANGED configured

HandleReturn ==
  /\ pc = "return"
  /\ Close("completed") \/ Goto("lookup")
  /\ RunUnchanged /\ UNCHANGED configured

-----------------------------------------------------------------------------
(***************************************************************************)
(* The error handler, for application errors only.  An error of the lookup *)
(* or of the handler replaces the original one.                            *)
(***************************************************************************)
GetErrorHandler ==
  /\ pc = "lookup"
  /\ \/ Close("lookup") /\ UNCHANGED configured
     \/ Close("original") /\ configured' = "no"
     \/ Goto("handler") /\ configured' = "yes"
  /\ RunUnchanged

\* The handler's definition is fetched and its workflow started.
RunErrorHandler ==
  /\ pc = "handler" /\ handler = "none"
  /\ \/ Close("handler")
     \/ /\ handler' = "running"
        /\ UNCHANGED <<pc, outcome, child>>
  /\ RunUnchanged /\ UNCHANGED configured

HandlerEnds ==
  /\ pc = "handler" /\ handler = "running"
  /\ \E end \in {"completed", "failed"} \union (IF cancelled THEN {"cancelled"} ELSE {}) :
       /\ handler' = end
       /\ outcome' = CASE end = "completed" -> "original"
                       [] end = "failed"    -> "handler"
                       [] end = "cancelled" -> "cancelled"
  /\ pc' = "closed"
  /\ child' = TerminateChildren
  /\ RunUnchanged /\ UNCHANGED configured

-----------------------------------------------------------------------------
(***************************************************************************)
(* The end from outside.  A cancellation interrupts what run() awaits: the *)
(* activities whose errors are converted make it an application error, the *)
(* handler is asked to stop, and anything else ends the run, which does    *)
(* not wait for the scheduler's tasks.  The execution timeout and          *)
(* terminate_workflow_execution close the run as it is.                    *)
(***************************************************************************)
CancelExecution ==
  /\ pc # "closed" /\ ~cancelled
  /\ cancelled' = TRUE
  /\ \/ /\ pc \in {"normalise", "return"}
        /\ Goto("lookup")
        /\ UNCHANGED row
     \/ /\ pc = "handler" /\ handler = "running"
        /\ UNCHANGED <<pc, outcome, handler, child, row>>
     \/ /\ pc \notin {"normalise", "return"}
        /\ handler # "running"
        /\ Close("cancelled")
        /\ row' \in WrittenRow
  /\ UNCHANGED <<conf, configured, sub, total, start, results, ask, state, returned,
                 accepted, early>>

Terminate ==
  /\ pc # "closed"
  /\ Close("terminated")
  /\ row' \in WrittenRow
  /\ UNCHANGED <<conf, cancelled, configured, sub, total, start, results, ask, state,
                 returned, accepted, early>>

-----------------------------------------------------------------------------
Init ==
  /\ conf \in {c \in [loop : {"single", "sequential", "batch", "parallel"},
                      fail : {"all", "isolated"}, wait : {"wait", "detach"}] :
                 c.loop = "single" => c.fail = "all"}
  /\ pc = "definition"
  /\ outcome = "none"
  /\ cancelled = FALSE
  /\ configured = "unknown"
  /\ handler = "none"
  /\ sub = "none"
  /\ total = 0
  /\ start = 0
  /\ child = [i \in Item |-> "none"]
  /\ results = <<>>
  /\ ask = "none"
  /\ state = [status |-> "none", data |-> 0]
  /\ row = [status |-> "none", data |-> 0]
  /\ returned = 0
  /\ accepted = 0
  /\ early = 0

SetUp == GetDefinition \/ ResolveLock \/ GetTriggerInputs \/ NormalizeInputs \/ ResolveTimeAnchor

SubflowStep ==
  \/ HandleTimers \/ PrepareSubflow \/ StartBatch \/ EndBatch \/ EndLoop \/ Synchronize
  \/ SubCancelled
  \/ \E i \in Item : ChildEnds(i)

InteractionStep ==
  PrepareInteraction \/ RunAction \/ SetPending \/ ReceiveResponse \/ RecordResponse \/ SetError

SchedulerStep == StopScheduler \/ StoppedScheduler \/ CompletedScheduler \/ HandleReturn

HandlerStep == GetErrorHandler \/ RunErrorHandler \/ HandlerEnds

Progress == SetUp \/ SubflowStep \/ InteractionStep \/ SchedulerStep \/ HandlerStep

Next == Progress \/ HandleInteraction \/ CancelExecution \/ Terminate

Spec == Init /\ [][Next]_vars

\* The activities have a timeout and a bound on their attempts and the children
\* are workflows that end; nobody has to respond, cancel or terminate.
FairSpec == Spec /\ WF_vars(Progress)

-----------------------------------------------------------------------------
\* Types; batch_start never runs past the items, and there is one result for
\* each item before it.
TypeOK ==
  /\ pc \in {"definition", "lock", "inputs", "normalise", "anchor", "tasks", "stopping",
             "return", "lookup", "handler", "closed"}
  /\ outcome \in {"none", "setup", "platform", "completed", "lookup", "original",
                  "handler", "cancelled", "terminated"}
  /\ cancelled \in BOOLEAN
  /\ configured \in {"unknown", "yes", "no"}
  /\ handler \in {"none", "running", "completed", "failed", "cancelled", "terminated"}
  /\ sub \in Ended \union {"none", "timers", "prepare", "loop", "gather", "sync", "cancelling"}
  /\ total \in 0 .. MaxCount
  /\ start \in 0 .. total
  /\ child \in [Item -> {"none", "running", "completed", "failed", "cancelled", "terminated"}]
  /\ results \in Seq({"value", "error", "id"})
  /\ Len(results) = start
  /\ ask \in Ended \union {"none", "create", "action", "pending", "wait", "record", "erroring"}
  /\ state \in [status : Status, data : Response]
  /\ row \in [status : Status, data : Response]
  /\ returned \in Response
  /\ accepted \in Response
  /\ early \in 0 .. accepted

(***************************************************************************)
(* The loop over child workflows.  Every item that was gathered has its    *)
(* result at its own index; no child outside the current batch runs, and   *)
(* under fail_strategy "all" none is started once a waited one failed; a   *)
(* task that is done has a result for each item.  Waited children outlive  *)
(* the task only when the run is cancelled or terminated.                  *)
(***************************************************************************)
LoopResults ==
  /\ \A i \in 0 .. start - 1 : results[i + 1] = GatherResult(i)
  /\ \A i \in Item : child[i] # "none" => i < start + LoopWidth /\ i < total
  /\ Waited => \A i \in Item : child[i] = "running" => i >= start
  /\ (Waited /\ conf.fail = "all") =>
       \A i \in Item : child[i] = "failed" => i >= start
  /\ (sub = "done") => start = total
  /\ (Waited /\ sub \in Ended) => \A i \in Item : child[i] # "running"
  /\ \A i \in Item : child[i] = "terminated" => outcome \in {"cancelled", "terminated"}

(***************************************************************************)
(* The error handler of run().  It runs only for an application error,     *)
(* when the tasks and the children they wait for have ended; a run that    *)
(* closes with its original error had no handler or one that completed,    *)
(* and a completed run had no task that failed and no handler.             *)
(***************************************************************************)
ErrorHandled ==
  /\ handler # "none" =>
       /\ configured = "yes"
       /\ {sub, ask} \subseteq Ended \union {"none"}
       /\ Waited => \A i \in Item : child[i] # "running"
  /\ outcome = "original" => (handler = "completed") \/ (configured = "no")
  /\ outcome = "completed" => sub = "done" /\ ask = "done" /\ handler = "none"
  /\ outcome \in {"setup", "platform"} => handler = "none" /\ sub = "none"
  /\ (TaskExceptions /\ pc = "closed") =>
       outcome \in {"original", "lookup", "handler", "cancelled", "terminated"}

(***************************************************************************)
(* A response to an interaction.  A task that is done recorded a response  *)
(* that arrived after it began to wait, and returns that one or one that   *)
(* arrived while it was being recorded.  A row that is shown as pending    *)
(* during the run belongs to a task that waits, records a response or is   *)
(* about to report an error, unless the task was cancelled or its last     *)
(* update failed.                                                          *)
(***************************************************************************)
InteractionAnswered ==
  /\ (ask = "done") =>
       /\ row.status = "completed"
       /\ early < row.data /\ row.data <= returned /\ returned <= accepted
  /\ (row.status = "completed") => row.data > early
  /\ (row.status = "pending" /\ pc # "closed" /\ ask \notin {"cancelled", "failed"}) =>
       ask \in {"wait", "record", "erroring"}

(***************************************************************************)
(* Every run closes, unless its interactive task waits for ever for a      *)
(* response, no task failed and none was accepted since it began to wait.  *)
(***************************************************************************)
RunEnds ==
  \/ <>(pc = "closed")
  \/ <>[](ask = "wait" /\ accepted = early /\ sub # "failed")
=============================================================================
