------------------------- MODULE WorkflowRun_proofs -------------------------
(***************************************************************************)
(* Proofs about one run of DSLWorkflow, for any number of items, any batch *)
(* size and any number of responses.                                       *)
(***************************************************************************)
EXTENDS WorkflowRun, TLAPS

-----------------------------------------------------------------------------
(***************************************************************************)
(* The inductive invariant, in three parts.                                *)
(***************************************************************************)
Conf == {c \in [loop : {"single", "sequential", "batch", "parallel"},
                fail : {"all", "isolated"}, wait : {"wait", "detach"}] :
           c.loop = "single" => c.fail = "all"}

SettingUp == pc \in {"definition", "lock", "inputs", "normalise", "anchor"}

\* run() takes its phases in order: the tasks begin after the set-up, the
\* return value is computed when both are done and the error handler is looked
\* up when both have ended or never began.
PhaseOK ==
  /\ SettingUp => sub = "none" /\ ask = "none"
  /\ pc = "return" => sub = "done" /\ ask = "done"
  /\ pc \in {"lookup", "handler"} => {sub, ask} \subseteq Ended \union {"none"}
  /\ (outcome = "none") <=> (pc # "closed")
  /\ pc = "handler" => configured = "yes" /\ handler \in {"none", "running"}
  /\ pc \notin {"handler", "closed"} => handler = "none"

\* The number of items is set once, before the first child is started.
LoopUnstarted ==
  sub \in {"none", "timers", "prepare"} =>
    total = 0 /\ start = 0 /\ \A i \in Item : child[i] = "none"

RunInv ==
  /\ conf \in Conf
  /\ TypeOK
  /\ PhaseOK
  /\ LoopUnstarted

\* The loop: the property, and that waited children run in a batch only.
LoopInv ==
  /\ LoopResults
  /\ sub = "sync" => start = total
  /\ Waited /\ sub \notin {"gather", "cancelling"} => \A i \in Item : child[i] # "running"

\* The property, and that nothing but the set-up's own errors ends a set-up.
HandlerInv ==
  /\ ErrorHandled
  /\ outcome \in {"setup", "platform"} => ask = "none"

\* What the task waits for: a response after early; the row follows the task.
AskInv ==
  /\ InteractionAnswered
  /\ state.data <= accepted
  /\ ask \in {"pending", "wait"} /\ state.status = "completed" => early < state.data
  /\ ask = "record" =>
       /\ state.status = "completed"
       /\ early < returned /\ returned <= state.data
  /\ pc # "closed" /\ ask \in {"none", "create"} => row.status = "none"
  /\ pc # "closed" /\ ask \in {"action", "pending"} => row.status = "idle"

-----------------------------------------------------------------------------
(***************************************************************************)
(* The sizes of the loop.                                                  *)
(***************************************************************************)
\* A batch is a part of the items from batch_start on, and not empty while
\* there are any left.
LEMMA BatchSizes ==
  ASSUME RunInv
  PROVE  /\ total \in Nat /\ start \in Nat /\ start <= total /\ total <= MaxCount
         /\ MaxCount \in Nat
         /\ LoopWidth \in Nat /\ (total > 0 => LoopWidth > 0)
         /\ CurrentBatchSize \in Nat /\ CurrentBatchSize <= LoopWidth
         /\ start + CurrentBatchSize <= total
         /\ \A i \in Int : i \in Batch <=> start <= i /\ i < start + CurrentBatchSize
         /\ Batch \subseteq Item
<1>1. /\ total \in Nat /\ start \in Nat /\ start <= total /\ total <= MaxCount
      /\ MaxCount \in Nat /\ BatchSize \in Nat \ {0}
  BY LoopAssumption DEF RunInv, TypeOK
<1>2. conf.loop \in {"single", "sequential", "batch", "parallel"}
  BY DEF RunInv, Conf
<1>3. LoopWidth \in Nat /\ (total > 0 => LoopWidth > 0)
  BY <1>1, <1>2 DEF LoopWidth
<1>4. /\ CurrentBatchSize \in Nat /\ CurrentBatchSize <= LoopWidth
      /\ start + CurrentBatchSize <= total
  BY <1>1, <1>3 DEF CurrentBatchSize
<1>5. \A i \in Int : i \in Batch <=> start <= i /\ i < start + CurrentBatchSize
  BY <1>1, <1>4 DEF Batch
<1>6. Batch \subseteq Item  BY <1>1, <1>4 DEF Batch, Item
<1>7. QED  BY <1>1, <1>3, <1>4, <1>5, <1>6

\* What is appended is one result for each child of the batch.
LEMMA BatchAppended ==
  ASSUME RunInv
  PROVE  /\ results \o BatchResults \in Seq({"value", "error", "id"})
         /\ Len(results \o BatchResults) = start + CurrentBatchSize
         /\ \A i \in 0 .. start - 1 : (results \o BatchResults)[i + 1] = results[i + 1]
         /\ \A i \in start .. start + CurrentBatchSize - 1 :
              (results \o BatchResults)[i + 1] = GatherResult(i)
<1>1. /\ start \in Nat /\ CurrentBatchSize \in Nat
      /\ results \in Seq({"value", "error", "id"}) /\ Len(results) = start
  BY BatchSizes DEF RunInv, TypeOK
<1>2. \A i : GatherResult(i) \in {"value", "error", "id"}  BY DEF GatherResult
<1>3. /\ BatchResults \in Seq({"value", "error", "id"})
      /\ Len(BatchResults) = CurrentBatchSize
      /\ \A k \in 1 .. CurrentBatchSize : BatchResults[k] = GatherResult(start + k - 1)
  BY <1>1, <1>2 DEF BatchResults
<1> HIDE DEF BatchResults
<1>4. ASSUME NEW i \in start .. start + CurrentBatchSize - 1
      PROVE  (results \o BatchResults)[i + 1] = GatherResult(i)
  <2>1. /\ i + 1 \in 1 .. Len(results) + Len(BatchResults) /\ i + 1 > Len(results)
        /\ (i + 1) - Len(results) \in 1 .. CurrentBatchSize
        /\ start + ((i + 1) - Len(results)) - 1 = i
    BY <1>1, <1>3
  <2>2. (results \o BatchResults)[i + 1] = BatchResults[(i + 1) - Len(results)]
    BY <1>1, <1>3, <2>1
  <2>3. QED  BY <1>3, <2>1, <2>2
<1>5. /\ results \o BatchResults \in Seq({"value", "error", "id"})
      /\ Len(results \o BatchResults) = start + CurrentBatchSize
  BY <1>1, <1>3
<1>6. ASSUME NEW i \in 0 .. start - 1
      PROVE  (results \o BatchResults)[i + 1] = results[i + 1]
  <2>1. i + 1 \in 1 .. Len(results) /\ i + 1 \in 1 .. Len(results) + Len(BatchResults)
    BY <1>1, <1>3
  <2>2. QED  BY <1>1, <1>3, <2>1
<1>7. QED  BY <1>4, <1>5, <1>6

-----------------------------------------------------------------------------
(***************************************************************************)
(* Types and phases.                                                       *)
(***************************************************************************)
\* Terminating children leaves their states states.
LEMMA TerminateType ==
  ASSUME TypeOK
  PROVE  TerminateChildren \in
           [Item -> {"none", "running", "completed", "failed", "cancelled", "terminated"}]
BY DEF TypeOK, TerminateChildren

\* A row that may have been written is a row.
LEMMA WrittenType ==
  ASSUME TypeOK, NEW w \in WrittenRow
  PROVE  w \in [status : Status, data : Response]
BY DEF TypeOK, WrittenRow, Status

\* The initial state.
LEMMA InitRun == Init => RunInv
<1> SUFFICES ASSUME Init PROVE RunInv
  OBVIOUS
<1>1. TypeOK
  <2>1. 0 \in Response /\ "none" \in Status  BY LoopAssumption DEF Response, Status
  <2>2. total \in 0 .. MaxCount /\ start \in 0 .. total /\ Len(results) = start
    BY LoopAssumption DEF Init
  <2>3. results \in Seq({"value", "error", "id"})  BY DEF Init
  <2>4. early \in 0 .. accepted  BY DEF Init
  <2>5. QED  BY <2>1, <2>2, <2>3, <2>4 DEF Init, TypeOK
<1>2. PhaseOK /\ LoopUnstarted  BY DEF Init, PhaseOK, LoopUnstarted, SettingUp
<1>3. QED  BY <1>1, <1>2 DEF Init, RunInv, Conf

\* A run that closes or goes on, without a step of its tasks.
LEMMA CloseRun ==
  ASSUME RunInv, NEW o \in {"setup", "platform", "completed", "lookup", "original",
                            "handler", "cancelled", "terminated"},
         Close(o), row' \in WrittenRow, configured' \in {"unknown", "yes", "no"},
         cancelled' \in BOOLEAN,
         UNCHANGED <<conf, sub, total, start, results, ask, state, returned, early, accepted>>
  PROVE  RunInv'
<1>1. TypeOK  BY DEF RunInv
<1>2. TypeOK'
  BY <1>1, TerminateType, WrittenType DEF TypeOK, Close
<1>3. PhaseOK'  BY DEF Close, PhaseOK, SettingUp
<1>4. LoopUnstarted'
  BY DEF RunInv, LoopUnstarted, Close, TerminateChildren
<1>5. QED  BY <1>2, <1>3, <1>4 DEF RunInv

\* The steps of the set-up.
LEMMA SetUpRun ==
  ASSUME RunInv, SetUp
  PROVE  RunInv'
<1>1. TypeOK /\ PhaseOK /\ LoopUnstarted  BY DEF RunInv
<1>2. row \in WrittenRow  BY DEF WrittenRow
<1>3. CASE GetDefinition
  <2>1. CASE Close("setup")
    BY <1>1, <1>2, <1>3, <2>1, CloseRun DEF GetDefinition, RunUnchanged, ivars, TypeOK
  <2>2. CASE Goto("lock")
    BY <1>1, <1>3, <2>2 DEF GetDefinition, RunUnchanged, ivars, TypeOK, Goto, RunInv,
                            PhaseOK, LoopUnstarted, SettingUp
  <2>3. QED  BY <1>3, <2>1, <2>2 DEF GetDefinition
<1>4. CASE ResolveLock
  <2>1. CASE Close("setup")
    BY <1>1, <1>2, <1>4, <2>1, CloseRun DEF ResolveLock, RunUnchanged, ivars, TypeOK
  <2>2. CASE Goto("inputs")
    BY <1>1, <1>4, <2>2 DEF ResolveLock, RunUnchanged, ivars, TypeOK, Goto, RunInv,
                            PhaseOK, LoopUnstarted, SettingUp
  <2>3. QED  BY <1>4, <2>1, <2>2 DEF ResolveLock
<1>5. CASE GetTriggerInputs
  <2>1. CASE Close("platform")
    BY <1>1, <1>2, <1>5, <2>1, CloseRun DEF GetTriggerInputs, RunUnchanged, ivars, TypeOK
  <2>2. CASE Goto("normalise")
    BY <1>1, <1>5, <2>2 DEF GetTriggerInputs, RunUnchanged, ivars, TypeOK, Goto, RunInv,
                            PhaseOK, LoopUnstarted, SettingUp
  <2>3. QED  BY <1>5, <2>1, <2>2 DEF GetTriggerInputs
<1>6. CASE NormalizeInputs
  BY <1>1, <1>6 DEF NormalizeInputs, RunUnchanged, ivars, TypeOK, Goto, RunInv,
                    PhaseOK, LoopUnstarted, SettingUp
<1>7. CASE ResolveTimeAnchor
  <2>1. CASE Close("platform")
    BY <1>1, <1>2, <1>7, <2>1, CloseRun DEF ResolveTimeAnchor, Goto, TypeOK, Close
  <2>2. CASE Goto("tasks") /\ sub' = "timers" /\ ask' = "create"
    BY <1>1, <1>7, <2>2 DEF ResolveTimeAnchor, TypeOK, Goto, RunInv,
                            PhaseOK, LoopUnstarted, SettingUp
  <2>3. QED  BY <1>7, <2>1, <2>2 DEF ResolveTimeAnchor
<1>8. QED  BY <1>3, <1>4, <1>5, <1>6, <1>7 DEF SetUp

\* The steps of the subflow task.
LEMMA SubflowRun ==
  ASSUME RunInv, SubflowStep
  PROVE  RunInv'
<1>1. conf \in Conf /\ TypeOK /\ PhaseOK /\ LoopUnstarted  BY DEF RunInv
<1> USE DEF SubMoves, ivars, hvars
<1>2. CASE HandleTimers
  BY <1>1, <1>2 DEF HandleTimers, TypeOK, RunInv, PhaseOK, LoopUnstarted, SettingUp, Ended
<1>3. CASE PrepareSubflow
  BY <1>1, <1>3, LoopAssumption
     DEF PrepareSubflow, TypeOK, RunInv, PhaseOK, LoopUnstarted, SettingUp, Ended
<1>4. CASE StartBatch
  BY <1>1, <1>4 DEF StartBatch, TypeOK, RunInv, PhaseOK, LoopUnstarted, SettingUp, Ended
<1>5. CASE EndBatch
  <2>1. CASE BatchFailed
    BY <1>1, <1>5, <2>1
       DEF EndBatch, TypeOK, RunInv, PhaseOK, LoopUnstarted, SettingUp, Ended
  <2>2. CASE ~ BatchFailed
    <3>1. /\ results' \in Seq({"value", "error", "id"}) /\ Len(results') = start'
          /\ start' \in 0 .. total
      <4>1. results' = results \o BatchResults /\ start' = start + CurrentBatchSize
        BY <1>5, <2>2 DEF EndBatch
      <4>2. start + CurrentBatchSize \in 0 .. total  BY BatchSizes
      <4>3. QED  BY <4>1, <4>2, BatchAppended
    <3>2. QED
      BY <1>1, <1>5, <2>2, <3>1
         DEF EndBatch, TypeOK, RunInv, PhaseOK, LoopUnstarted, SettingUp
  <2>3. QED  BY <2>1, <2>2
<1>6. CASE EndLoop
  BY <1>1, <1>6 DEF EndLoop, TypeOK, RunInv, PhaseOK, LoopUnstarted, SettingUp, Ended
<1>7. CASE Synchronize
  BY <1>1, <1>7 DEF Synchronize, TypeOK, RunInv, PhaseOK, LoopUnstarted, SettingUp, Ended
<1>8. CASE SubCancelled
  BY <1>1, <1>8 DEF SubCancelled, TypeOK, RunInv, PhaseOK, LoopUnstarted, SettingUp, Ended
<1>9. ASSUME NEW i \in Item, ChildEnds(i) PROVE RunInv'
  BY <1>1, <1>9 DEF ChildEnds, TypeOK, RunInv, PhaseOK, LoopUnstarted, SettingUp
<1>10. QED  BY <1>2, <1>3, <1>4, <1>5, <1>6, <1>7, <1>8, <1>9 DEF SubflowStep

\* The steps of the interactive task, and responses.
LEMMA InteractionRun ==
  ASSUME RunInv, InteractionStep \/ HandleInteraction
  PROVE  RunInv'
<1>1. TypeOK /\ PhaseOK /\ LoopUnstarted  BY DEF RunInv
<1> USE DEF AskUnchanged, svars, hvars, UpdateInteraction
<1>2. TypeOK'
  <2>1. CASE PrepareInteraction
    BY <1>1, <2>1, WrittenType DEF PrepareInteraction, TypeOK, Ended, Status
  <2>2. CASE RunAction
    BY <1>1, <2>2 DEF RunAction, TypeOK, Ended, Status, Response
  <2>3. CASE SetPending
    BY <1>1, <2>3 DEF SetPending, TypeOK, Ended, Status
  <2>4. CASE ReceiveResponse
    BY <1>1, <2>4 DEF ReceiveResponse, TypeOK, Ended
  <2>5. CASE RecordResponse
    BY <1>1, <2>5 DEF RecordResponse, TypeOK, Ended, Status
  <2>6. CASE SetError
    BY <1>1, <2>6 DEF SetError, TypeOK, Ended, Status
  <2>7. CASE HandleInteraction
    <3>1. accepted' \in Response /\ early' \in 0 .. accepted'
      BY <1>1, <2>7, LoopAssumption DEF HandleInteraction, TypeOK, Response
    <3>2. state' \in [status : Status, data : Response]
      BY <2>7, <3>1 DEF HandleInteraction, Status
    <3>3. QED  BY <1>1, <2>7, <3>1, <3>2 DEF HandleInteraction, TypeOK
  <2>8. QED
    BY <2>1, <2>2, <2>3, <2>4, <2>5, <2>6, <2>7 DEF InteractionStep
<1>3. /\ UNCHANGED <<conf, pc, outcome, configured, handler, sub, total, start, child>>
      /\ pc \in {"tasks", "stopping"} \/ UNCHANGED ask
  BY DEF InteractionStep, PrepareInteraction, RunAction, SetPending, ReceiveResponse,
         RecordResponse, SetError, HandleInteraction, Running
<1>4. PhaseOK' /\ LoopUnstarted'
  BY <1>1, <1>3 DEF PhaseOK, LoopUnstarted, SettingUp
<1>5. QED  BY <1>2, <1>3, <1>4 DEF RunInv

\* The end of the scheduler.
LEMMA SchedulerRun ==
  ASSUME RunInv, SchedulerStep
  PROVE  RunInv'
<1>1. TypeOK /\ PhaseOK /\ LoopUnstarted  BY DEF RunInv
<1>2. row \in WrittenRow  BY DEF WrittenRow
<1>3. CASE StopScheduler
  <2>1. /\ sub' \in Ended \union {"none", "cancelling"}
        /\ ask' \in Ended \union {"none", "erroring"}
        /\ sub' = "none" => sub = "none"
    BY <1>1, <1>3
       DEF StopScheduler, SubWhenCancelled, AskWhenCancelled, TypeOK, Ended
  <2>2. TypeOK'
    BY <1>1, <1>3, <2>1, WrittenType DEF StopScheduler, TypeOK, hvars, Ended
  <2>3. PhaseOK' /\ LoopUnstarted'
    BY <1>1, <1>3, <2>1
       DEF StopScheduler, PhaseOK, LoopUnstarted, SettingUp, hvars, Ended
  <2>4. QED  BY <1>3, <2>2, <2>3 DEF RunInv, StopScheduler
<1>4. CASE StoppedScheduler
  BY <1>1, <1>4
     DEF StoppedScheduler, RunUnchanged, ivars, Goto, TypeOK, RunInv, PhaseOK,
         LoopUnstarted, SettingUp
<1>5. CASE CompletedScheduler
  BY <1>1, <1>5
     DEF CompletedScheduler, RunUnchanged, ivars, Goto, TypeOK, RunInv, PhaseOK,
         LoopUnstarted, SettingUp
<1>6. CASE HandleReturn
  <2>1. CASE Close("completed")
    BY <1>1, <1>2, <1>6, <2>1, CloseRun DEF HandleReturn, RunUnchanged, ivars, TypeOK
  <2>2. CASE Goto("lookup")
    BY <1>1, <1>6, <2>2
       DEF HandleReturn, RunUnchanged, ivars, Goto, TypeOK, RunInv, PhaseOK,
           LoopUnstarted, SettingUp, Ended
  <2>3. QED  BY <1>6, <2>1, <2>2 DEF HandleReturn
<1>7. QED  BY <1>3, <1>4, <1>5, <1>6 DEF SchedulerStep

\* The error handler.
LEMMA HandlerRun ==
  ASSUME RunInv, HandlerStep
  PROVE  RunInv'
<1>1. TypeOK /\ PhaseOK /\ LoopUnstarted  BY DEF RunInv
<1>2. row \in WrittenRow  BY DEF WrittenRow
<1>3. CASE GetErrorHandler
  <2>1. CASE Close("lookup") /\ UNCHANGED configured
    BY <1>1, <1>2, <1>3, <2>1, CloseRun DEF GetErrorHandler, RunUnchanged, ivars, TypeOK
  <2>2. CASE Close("original") /\ configured' = "no"
    BY <1>1, <1>2, <1>3, <2>2, CloseRun DEF GetErrorHandler, RunUnchanged, ivars, TypeOK
  <2>3. CASE Goto("handler") /\ configured' = "yes"
    BY <1>1, <1>3, <2>3
       DEF GetErrorHandler, RunUnchanged, ivars, Goto, TypeOK, RunInv, PhaseOK,
           LoopUnstarted, SettingUp
  <2>4. QED  BY <1>3, <2>1, <2>2, <2>3 DEF GetErrorHandler
<1>4. CASE RunErrorHandler
  <2>1. CASE Close("handler")
    BY <1>1, <1>2, <1>4, <2>1, CloseRun DEF RunErrorHandler, RunUnchanged, ivars, TypeOK
  <2>2. CASE handler' = "running" /\ UNCHANGED <<pc, outcome, child>>
    BY <1>1, <1>4, <2>2
       DEF RunErrorHandler, RunUnchanged, ivars, TypeOK, RunInv, PhaseOK,
           LoopUnstarted, SettingUp
  <2>3. QED  BY <1>4, <2>1, <2>2 DEF RunErrorHandler
<1>5. CASE HandlerEnds
  <2>1. PICK end \in {"completed", "failed"} \union (IF cancelled THEN {"cancelled"} ELSE {}) :
          /\ handler' = end
          /\ outcome' = CASE end = "completed" -> "original"
                          [] end = "failed"    -> "handler"
                          [] end = "cancelled" -> "cancelled"
    BY <1>5 DEF HandlerEnds
  <2>2. /\ handler' \in {"completed", "failed", "cancelled"}
        /\ outcome' \in {"original", "handler", "cancelled"}
    BY <2>1
  <2>3. TypeOK'
    BY <1>1, <1>5, <2>2, TerminateType DEF HandlerEnds, RunUnchanged, ivars, TypeOK
  <2>4. PhaseOK'  BY <1>5, <2>2 DEF HandlerEnds, PhaseOK, SettingUp
  <2>5. LoopUnstarted'
    BY <1>1, <1>5 DEF HandlerEnds, RunUnchanged, LoopUnstarted, TerminateChildren
  <2>6. QED  BY <1>5, <2>3, <2>4, <2>5 DEF RunInv, HandlerEnds, RunUnchanged
<1>6. QED  BY <1>3, <1>4, <1>5 DEF HandlerStep

\* A cancellation or a termination from outside.
LEMMA OutsideRun ==
  ASSUME RunInv, CancelExecution \/ Terminate
  PROVE  RunInv'
<1>1. TypeOK /\ PhaseOK /\ LoopUnstarted  BY DEF RunInv
<1>2. CASE Terminate
  BY <1>1, <1>2, CloseRun DEF Terminate, TypeOK
<1>3. CASE CancelExecution
  <2>1. CASE Close("cancelled") /\ row' \in WrittenRow
    BY <1>1, <1>3, <2>1, CloseRun DEF CancelExecution, TypeOK
  <2>2. CASE pc \in {"normalise", "return"} /\ Goto("lookup") /\ UNCHANGED row
    BY <1>1, <1>3, <2>2
       DEF CancelExecution, Goto, TypeOK, RunInv, PhaseOK, LoopUnstarted, SettingUp, Ended
  <2>3. CASE UNCHANGED <<pc, outcome, handler, child, row>>
    BY <1>1, <1>3, <2>3
       DEF CancelExecution, TypeOK, RunInv, PhaseOK, LoopUnstarted, SettingUp
  <2>4. QED  BY <1>3, <2>1, <2>2, <2>3 DEF CancelExecution
<1>4. QED  BY <1>2, <1>3

\* Every step keeps types and phases.
LEMMA NextRun == RunInv /\ [Next]_vars => RunInv'
<1> SUFFICES ASSUME RunInv, [Next]_vars PROVE RunInv'
  OBVIOUS
<1>1. CASE Next
  BY <1>1, SetUpRun, SubflowRun, InteractionRun, SchedulerRun, HandlerRun, OutsideRun
     DEF Next, Progress
<1>2. CASE UNCHANGED vars
  BY <1>2 DEF vars, RunInv, TypeOK, PhaseOK, LoopUnstarted, SettingUp
<1>3. QED  BY <1>1, <1>2

\* The state keeps its shape, batch_start never runs past the items and there
\* is one result for each item before it; the phases of run() are in order.
THEOREM RunPhases == Spec => []RunInv
BY InitRun, NextRun, PTL DEF Spec

\* Types, for every number of items, every batch size and every response.
THEOREM RunTypeCorrect == Spec => []TypeOK
<1>1. RunInv => TypeOK  BY DEF RunInv
<1>2. QED  BY <1>1, RunPhases, PTL
-----------------------------------------------------------------------------
(***************************************************************************)
(* The loop over child workflows.                                          *)
(***************************************************************************)
WaitedRunning == Waited /\ \E i \in Item : child[i] = "running"

\* A step that starts and ends no child and gathers nothing.
LEMMA LoopFrame ==
  ASSUME RunInv, LoopInv, UNCHANGED lvars,
         outcome' = outcome \/ outcome = "none",
         sub' \in {"done", "sync"} => start = total,
         sub' \notin {"gather", "cancelling"} => ~ WaitedRunning
  PROVE  LoopInv'
<1>1. /\ UNCHANGED <<conf, total, start, child, results>>
      /\ Waited' = Waited /\ LoopWidth' = LoopWidth
  BY DEF lvars, Waited, LoopWidth
<1>2. \A i : GatherResult(i)' = GatherResult(i)
  BY <1>1 DEF GatherResult
<1>3. (\A i \in 0 .. start - 1 : results[i + 1] = GatherResult(i))'
  BY <1>1, <1>2 DEF LoopInv, LoopResults
<1>4. (sub = "done" => start = total)' /\ (sub = "sync" => start = total)'
  BY <1>1
<1>5. (Waited /\ sub \notin {"gather", "cancelling"} => \A i \in Item : child[i] # "running")'
  BY <1>1 DEF WaitedRunning
<1>6. (Waited /\ sub \in Ended => \A i \in Item : child[i] # "running")'
  BY <1>5 DEF Ended
<1>7. (\A i \in Item : child[i] = "terminated" => outcome \in {"cancelled", "terminated"})'
  BY <1>1 DEF LoopInv, LoopResults
<1>8. (/\ \A i \in Item : child[i] # "none" => i < start + LoopWidth /\ i < total
       /\ Waited => \A i \in Item : child[i] = "running" => i >= start
       /\ Waited /\ conf.fail = "all" => \A i \in Item : child[i] = "failed" => i >= start)'
  BY <1>1 DEF LoopInv, LoopResults
<1>9. QED  BY <1>3, <1>4, <1>5, <1>6, <1>7, <1>8 DEF LoopInv, LoopResults

\* A gathered result stays the result of its child, whose end is not undone.
LEMMA ResultsKept ==
  ASSUME RunInv, LoopInv, UNCHANGED <<conf, start, results>>,
         \A i \in Item : Waited /\ i < start =>
           (child'[i] = "completed" <=> child[i] = "completed")
  PROVE  (\A i \in 0 .. start - 1 : results[i + 1] = GatherResult(i))'
<1>1. Waited' = Waited  BY DEF Waited
<1>2. ASSUME NEW i \in 0 .. start - 1  PROVE results'[i + 1] = GatherResult(i)'
  <2>1. i \in Item /\ i < start  BY BatchSizes DEF Item
  <2>2. GatherResult(i)' = GatherResult(i)  BY <1>1, <2>1 DEF GatherResult
  <2>3. QED  BY <2>2 DEF LoopInv, LoopResults
<1>3. QED  BY <1>2

\* The run closes: with waited children only when it is cancelled or
\* terminated, and then they are terminated.
LEMMA LoopClose ==
  ASSUME RunInv, LoopInv, outcome = "none", child' = TerminateChildren,
         outcome' \in {"cancelled", "terminated"} \/ ~ WaitedRunning,
         UNCHANGED <<conf, sub, total, start, results>>
  PROVE  LoopInv'
<1>1. Waited' = Waited /\ LoopWidth' = LoopWidth  BY DEF Waited, LoopWidth
<1>2. ASSUME NEW i \in Item
      PROVE  /\ child'[i] = IF child[i] = "running" /\ Waited THEN "terminated" ELSE child[i]
             /\ Waited => child'[i] # "running"
             /\ child[i] # "terminated"
             /\ child'[i] = "terminated" => outcome' \in {"cancelled", "terminated"}
  <2>1. child'[i] = IF child[i] = "running" /\ Waited THEN "terminated" ELSE child[i]
    BY DEF TerminateChildren
  <2>2. child[i] # "terminated"  BY DEF LoopInv, LoopResults
  <2>3. QED  BY <2>1, <2>2 DEF WaitedRunning
<1>3. (\A i \in 0 .. start - 1 : results[i + 1] = GatherResult(i))'
  BY <1>2, ResultsKept
<1>4. (\A i \in Item : child[i] # "none" => i < start + LoopWidth /\ i < total)'
  BY <1>1, <1>2 DEF LoopInv, LoopResults
<1>5. (Waited => \A i \in Item : child[i] = "running" => i >= start)'
  BY <1>1, <1>2
<1>6. (Waited /\ conf.fail = "all" => \A i \in Item : child[i] = "failed" => i >= start)'
  BY <1>1, <1>2 DEF LoopInv, LoopResults
<1>7. (Waited => \A i \in Item : child[i] # "running")'
  BY <1>1, <1>2
<1>8. (\A i \in Item : child[i] = "terminated" => outcome \in {"cancelled", "terminated"})'
  BY <1>2
<1>9. (sub = "done" => start = total)' /\ (sub = "sync" => start = total)'
  BY DEF LoopInv, LoopResults
<1>10. QED  BY <1>3, <1>4, <1>5, <1>6, <1>7, <1>8, <1>9 DEF LoopInv, LoopResults

\* The initial state.
LEMMA InitLoop == Init => LoopInv
<1> SUFFICES ASSUME Init PROVE LoopInv
  OBVIOUS
<1>1. \A i \in 0 .. start - 1 : results[i + 1] = GatherResult(i)  BY DEF Init
<1>2. QED  BY <1>1 DEF Init, LoopInv, LoopResults, Ended

\* The next batch is started.
LEMMA StartBatchLoop ==
  ASSUME RunInv, LoopInv, StartBatch
  PROVE  LoopInv'
<1>1. /\ UNCHANGED <<conf, total, start, results, outcome>> /\ sub = "loop" /\ sub' = "gather"
      /\ start < total
  BY DEF StartBatch, SubMoves, hvars
<1>2. Waited' = Waited /\ LoopWidth' = LoopWidth  BY <1>1 DEF Waited, LoopWidth
<1>3. ASSUME NEW i \in Item
      PROVE  /\ child'[i] = IF i \in Batch THEN "running" ELSE child[i]
             /\ i \in Batch => start <= i /\ i < start + LoopWidth /\ i < total
             /\ i < start => i \notin Batch
  <2>1. child'[i] = IF i \in Batch THEN "running" ELSE child[i]  BY DEF StartBatch
  <2>2. i \in Int  BY BatchSizes DEF Item
  <2>3. i \in Batch => start <= i /\ i < start + CurrentBatchSize  BY <2>2, BatchSizes
  <2>4. QED  BY <2>1, <2>2, <2>3, BatchSizes
<1>4. (\A i \in 0 .. start - 1 : results[i + 1] = GatherResult(i))'
  BY <1>1, <1>3, ResultsKept
<1>5. (\A i \in Item : child[i] # "none" => i < start + LoopWidth /\ i < total)'
  BY <1>1, <1>2, <1>3 DEF LoopInv, LoopResults
<1>6. (Waited => \A i \in Item : child[i] = "running" => i >= start)'
  <2>1. Waited => \A i \in Item : child[i] # "running"  BY <1>1 DEF LoopInv
  <2>2. ASSUME Waited, NEW i \in Item, child'[i] = "running" PROVE i >= start
    <3>1. i \in Batch  BY <1>3, <2>1, <2>2
    <3>2. i \in Int /\ start \in Int  BY BatchSizes DEF Item
    <3>3. QED  BY <1>3, <3>1, <3>2
  <2>3. QED  BY <1>1, <1>2, <2>2
<1>7. (Waited /\ conf.fail = "all" => \A i \in Item : child[i] = "failed" => i >= start)'
  BY <1>1, <1>2, <1>3 DEF LoopInv, LoopResults
<1>8. (\A i \in Item : child[i] = "terminated" => outcome \in {"cancelled", "terminated"})'
  BY <1>1, <1>3 DEF LoopInv, LoopResults
<1>9. QED  BY <1>1, <1>4, <1>5, <1>6, <1>7, <1>8 DEF LoopInv, LoopResults, Ended
\* When the gather has answered no waited child runs, in the batch or elsewhere.
LEMMA GatheredEnded ==
  ASSUME RunInv, LoopInv, Gathered
  PROVE  ~ WaitedRunning
<1> SUFFICES ASSUME Waited, NEW i \in Item, child[i] = "running"  PROVE FALSE
  BY DEF WaitedRunning
<1>1. i >= start /\ i < start + LoopWidth /\ i < total  BY DEF LoopInv, LoopResults
<1>2. i \in Int  BY BatchSizes DEF Item
<1>3. i < start + CurrentBatchSize  BY <1>1, <1>2, BatchSizes DEF CurrentBatchSize
<1>4. i \in Batch  BY <1>1, <1>2, <1>3, BatchSizes
<1>5. QED  BY <1>4 DEF Gathered

\* The results of a batch are appended, or the batch fails the task.
LEMMA EndBatchLoop ==
  ASSUME RunInv, LoopInv, EndBatch
  PROVE  LoopInv'
<1>1. /\ UNCHANGED <<conf, total, child, outcome>> /\ sub = "gather" /\ Gathered
  BY DEF EndBatch, SubMoves, hvars
<1>2. Waited' = Waited /\ LoopWidth' = LoopWidth  BY <1>1 DEF Waited, LoopWidth
<1>3. ~ WaitedRunning  BY <1>1, GatheredEnded
<1>4. CASE BatchFailed
  BY <1>1, <1>3, <1>4, LoopFrame DEF EndBatch, SubMoves, hvars, lvars
<1>5. CASE ~ BatchFailed
  <2>1. results' = results \o BatchResults /\ start' = start + CurrentBatchSize /\ sub' = "loop"
    BY <1>5 DEF EndBatch, SubMoves
  <2>2. (\A i \in 0 .. start - 1 : results[i + 1] = GatherResult(i))'
    <3>1. ASSUME NEW i \in 0 .. start' - 1  PROVE results'[i + 1] = GatherResult(i)'
      <4>1. GatherResult(i)' = GatherResult(i)  BY <1>1, <1>2 DEF GatherResult
      <4>2. i \in 0 .. start - 1 \/ i \in start .. start + CurrentBatchSize - 1
        BY <2>1, BatchSizes
      <4>3. CASE i \in 0 .. start - 1
        BY <2>1, <4>1, <4>3, BatchAppended DEF LoopInv, LoopResults
      <4>4. CASE i \in start .. start + CurrentBatchSize - 1
        BY <2>1, <4>1, <4>4, BatchAppended
      <4>5. QED  BY <4>2, <4>3, <4>4
    <3>2. QED  BY <3>1
  <2>3. (\A i \in Item : child[i] # "none" => i < start + LoopWidth /\ i < total)'
    <3>1. ASSUME NEW i \in Item, child[i] # "none"
          PROVE  i < start + CurrentBatchSize + LoopWidth /\ i < total
      <4>1. i < start + LoopWidth /\ i < total  BY <3>1 DEF LoopInv, LoopResults
      <4>2. i \in Int  BY BatchSizes DEF Item
      <4>3. QED  BY <4>1, <4>2, BatchSizes
    <3>2. QED  BY <1>1, <1>2, <2>1, <3>1
  <2>4. (Waited => \A i \in Item : child[i] # "running")'
    BY <1>1, <1>2, <1>3 DEF WaitedRunning
  <2>5. (Waited /\ conf.fail = "all" => \A i \in Item : child[i] = "failed" => i >= start)'
    <3>1. ASSUME Waited, conf.fail = "all", NEW i \in Item, child[i] = "failed"
          PROVE  i >= start + CurrentBatchSize
      <4>1. i >= start  BY <3>1 DEF LoopInv, LoopResults
      <4>2. i \notin Batch  BY <1>5, <3>1 DEF BatchFailed, GatherResult
      <4>3. i \in Int  BY BatchSizes DEF Item
      <4>4. QED  BY <4>1, <4>2, <4>3, BatchSizes
    <3>2. QED  BY <1>1, <1>2, <2>1, <3>1
  <2>6. (\A i \in Item : child[i] = "terminated" => outcome \in {"cancelled", "terminated"})'
    BY <1>1 DEF LoopInv, LoopResults
  <2>7. QED
    BY <2>1, <2>2, <2>3, <2>4, <2>5, <2>6 DEF LoopInv, LoopResults, Ended
<1>6. QED  BY <1>4, <1>5

\* A child ends.
LEMMA ChildEndsLoop ==
  ASSUME RunInv, LoopInv, NEW c \in Item, ChildEnds(c)
  PROVE  LoopInv'
<1>1. /\ UNCHANGED <<conf, total, start, results, outcome, sub>> /\ child[c] = "running"
  BY DEF ChildEnds, hvars
<1>2. PICK end \in {"completed", "failed", "cancelled"} : child' = [child EXCEPT ![c] = end]
  BY DEF ChildEnds
<1>3. Waited' = Waited /\ LoopWidth' = LoopWidth  BY <1>1 DEF Waited, LoopWidth
<1>4. \A i \in Item : child'[i] = IF i = c THEN end ELSE child[i]
  BY <1>2 DEF RunInv, TypeOK
<1>5. Waited => c >= start  BY <1>1 DEF LoopInv, LoopResults
<1>6. (\A i \in 0 .. start - 1 : results[i + 1] = GatherResult(i))'
  <2>1. ASSUME NEW i \in Item, Waited, i < start  PROVE child'[i] = child[i]
    <3>1. i # c  BY <1>5, <2>1, BatchSizes DEF Item
    <3>2. QED  BY <1>4, <3>1
  <2>2. QED  BY <1>1, <2>1, ResultsKept
<1>7. (\A i \in Item : child[i] # "none" => i < start + LoopWidth /\ i < total)'
  BY <1>1, <1>3, <1>4 DEF LoopInv, LoopResults
<1>8. (Waited => \A i \in Item : child[i] = "running" => i >= start)'
  BY <1>1, <1>3, <1>4 DEF LoopInv, LoopResults
<1>9. (Waited /\ conf.fail = "all" => \A i \in Item : child[i] = "failed" => i >= start)'
  BY <1>1, <1>3, <1>4, <1>5 DEF LoopInv, LoopResults
<1>10. (\A i \in Item : child[i] = "terminated" => outcome \in {"cancelled", "terminated"})'
  BY <1>1, <1>4 DEF LoopInv, LoopResults
<1>11. /\ (Waited /\ sub \in Ended => \A i \in Item : child[i] # "running")'
       /\ (Waited /\ sub \notin {"gather", "cancelling"} =>
             \A i \in Item : child[i] # "running")'
  BY <1>1, <1>3, <1>4 DEF LoopInv, LoopResults
<1>12. QED
  BY <1>1, <1>6, <1>7, <1>8, <1>9, <1>10, <1>11 DEF LoopInv, LoopResults

\* The steps of the subflow task.
LEMMA SubflowLoop ==
  ASSUME RunInv, LoopInv, SubflowStep
  PROVE  LoopInv'
<1>1. sub \notin {"gather", "cancelling"} => ~ WaitedRunning
  BY DEF LoopInv, WaitedRunning
<1>2. CASE HandleTimers
  BY <1>1, <1>2, LoopFrame DEF HandleTimers, SubMoves, hvars, lvars
<1>3. CASE PrepareSubflow
  <2>1. /\ start = 0 /\ results' = results /\ start' = 0 /\ child' = child
        /\ \A i \in Item : child[i] = "none"
        /\ sub' \in {"loop", "failed"}
    BY <1>3 DEF PrepareSubflow, SubMoves, RunInv, LoopUnstarted
  <2>2. (\A i \in 0 .. start - 1 : results[i + 1] = GatherResult(i))'  BY <2>1
  <2>3. QED  BY <2>1, <2>2 DEF LoopInv, LoopResults
<1>4. CASE EndLoop
  <2>1. start = total  BY <1>4, BatchSizes DEF EndLoop
  <2>2. sub' \notin {"gather", "cancelling"}  BY <1>4 DEF EndLoop, SubMoves
  <2>3. QED  BY <1>1, <1>4, <2>1, <2>2, LoopFrame DEF EndLoop, SubMoves, hvars, lvars
<1>5. CASE Synchronize
  BY <1>1, <1>5, LoopFrame DEF Synchronize, SubMoves, hvars, lvars, LoopInv
<1>6. CASE SubCancelled
  <2>1. ~ WaitedRunning  BY <1>6 DEF SubCancelled, WaitedRunning
  <2>2. QED  BY <1>6, <2>1, LoopFrame DEF SubCancelled, SubMoves, hvars, lvars
<1>7. QED
  BY <1>2, <1>3, <1>4, <1>5, <1>6, StartBatchLoop, EndBatchLoop, ChildEndsLoop
     DEF SubflowStep
\* The steps that are not the subflow task's.
LEMMA OtherLoop ==
  ASSUME RunInv, LoopInv,
         \/ SetUp \/ InteractionStep \/ HandleInteraction \/ SchedulerStep
         \/ HandlerStep \/ CancelExecution \/ Terminate
  PROVE  LoopInv'
<1>1. sub \notin {"gather", "cancelling"} => ~ WaitedRunning
  BY DEF LoopInv, WaitedRunning
<1>2. sub \in {"done", "sync"} => start = total  BY DEF LoopInv, LoopResults
<1>3. pc # "closed" => outcome = "none"  BY DEF RunInv, PhaseOK
<1>4. SettingUp \/ pc \in {"return", "lookup", "handler"} => ~ WaitedRunning
  BY <1>1 DEF RunInv, PhaseOK, Ended
<1>5. ASSUME UNCHANGED <<conf, total, start, child, results, outcome, sub>>  PROVE LoopInv'
  BY <1>1, <1>2, <1>5, LoopFrame DEF lvars
<1>6. ASSUME NEW o, Close(o), pc # "closed",
             UNCHANGED <<conf, total, start, results, sub>>,
             o \in {"cancelled", "terminated"} \/ ~ WaitedRunning
      PROVE  LoopInv'
  BY <1>3, <1>6, LoopClose DEF Close
<1>7. CASE SetUp
  <2>1. pc # "closed" /\ ~ WaitedRunning
    BY <1>4, <1>7 DEF SetUp, SettingUp, GetDefinition, ResolveLock, GetTriggerInputs,
                      NormalizeInputs, ResolveTimeAnchor
  <2>2. CASE ResolveTimeAnchor
    <3>1. CASE Close("platform") /\ UNCHANGED <<sub, ask>>
      BY <1>6, <2>1, <2>2, <3>1 DEF ResolveTimeAnchor
    <3>2. CASE Goto("tasks") /\ sub' = "timers"
      BY <2>1, <2>2, <3>2, LoopFrame DEF ResolveTimeAnchor, Goto, lvars
    <3>3. QED  BY <2>2, <3>1, <3>2 DEF ResolveTimeAnchor
  <2>3. CASE GetDefinition \/ ResolveLock \/ GetTriggerInputs \/ NormalizeInputs
    <3>1. RunUnchanged /\ ((\E p : Goto(p)) \/ (\E o : Close(o)))
      BY <2>3 DEF GetDefinition, ResolveLock, GetTriggerInputs, NormalizeInputs
    <3>2. CASE \E p : Goto(p)
      BY <1>5, <3>1, <3>2 DEF RunUnchanged, Goto
    <3>3. CASE \E o : Close(o)
      BY <1>6, <2>1, <3>1, <3>3 DEF RunUnchanged
    <3>4. QED  BY <3>1, <3>2, <3>3
  <2>4. QED  BY <1>7, <2>2, <2>3 DEF SetUp
<1>8. CASE InteractionStep \/ HandleInteraction
  <2>1. UNCHANGED <<conf, hvars, svars>>
    BY <1>8 DEF InteractionStep, PrepareInteraction, RunAction, SetPending, ReceiveResponse,
                RecordResponse, SetError, HandleInteraction, AskUnchanged
  <2>2. QED  BY <1>5, <2>1 DEF hvars, svars
<1>9. CASE SchedulerStep
  <2>1. CASE StopScheduler
    <3>1. /\ sub' \in {"done", "sync"} => sub = "done"
          /\ sub' \notin {"gather", "cancelling"} =>
               sub \notin {"gather", "cancelling"} \/ ~ Waited
      BY <2>1 DEF StopScheduler, SubWhenCancelled
    <3>2. ~ Waited => ~ WaitedRunning  BY DEF WaitedRunning
    <3>3. QED
      BY <1>1, <1>2, <2>1, <3>1, <3>2, LoopFrame DEF StopScheduler, lvars, hvars
  <2>2. CASE StoppedScheduler \/ CompletedScheduler
    BY <1>5, <2>2 DEF StoppedScheduler, CompletedScheduler, Goto, RunUnchanged
  <2>3. CASE HandleReturn
    <3>1. CASE Goto("lookup")
      BY <1>5, <2>3, <3>1 DEF HandleReturn, Goto, RunUnchanged
    <3>2. CASE Close("completed")
      BY <1>4, <1>6, <2>3, <3>2 DEF HandleReturn, RunUnchanged
    <3>3. QED  BY <2>3, <3>1, <3>2 DEF HandleReturn
  <2>4. QED  BY <1>9, <2>1, <2>2, <2>3 DEF SchedulerStep
<1>10. CASE HandlerStep
  <2>1. pc \in {"lookup", "handler"} /\ RunUnchanged
    BY <1>10 DEF HandlerStep, GetErrorHandler, RunErrorHandler, HandlerEnds
  <2>2. CASE \E o : Close(o)
    BY <1>4, <1>6, <2>1, <2>2 DEF RunUnchanged
  <2>3. CASE UNCHANGED <<outcome, child>>
    BY <1>5, <2>1, <2>3 DEF RunUnchanged
  <2>4. CASE child' = TerminateChildren
    BY <1>3, <1>4, <2>1, <2>4, LoopClose DEF RunUnchanged
  <2>5. QED
    BY <1>10, <2>2, <2>3, <2>4
       DEF HandlerStep, GetErrorHandler, RunErrorHandler, HandlerEnds, Goto
<1>11. CASE CancelExecution
  <2>1. CASE Close("cancelled")
    BY <1>6, <1>11, <2>1 DEF CancelExecution
  <2>2. CASE UNCHANGED <<outcome, handler, child>>
    BY <1>5, <1>11, <2>2 DEF CancelExecution
  <2>3. QED  BY <1>11, <2>1, <2>2 DEF CancelExecution, Goto
<1>12. CASE Terminate
  BY <1>6, <1>12 DEF Terminate
<1>13. QED  BY <1>7, <1>8, <1>9, <1>10, <1>11, <1>12

\* Every step keeps the loop's invariant.
LEMMA NextLoop == RunInv /\ LoopInv /\ [Next]_vars => LoopInv'
<1> SUFFICES ASSUME RunInv, LoopInv, [Next]_vars PROVE LoopInv'
  OBVIOUS
<1>1. CASE Next
  BY <1>1, SubflowLoop, OtherLoop DEF Next, Progress
<1>2. CASE UNCHANGED vars
  <2>1. UNCHANGED lvars /\ sub' = sub /\ outcome' = outcome
    BY <1>2 DEF vars, lvars
  <2>2. /\ sub \notin {"gather", "cancelling"} => ~ WaitedRunning
        /\ sub \in {"done", "sync"} => start = total
    BY DEF LoopInv, LoopResults, WaitedRunning
  <2>3. QED  BY <2>1, <2>2, LoopFrame
<1>3. QED  BY <1>1, <1>2

\* The loop's invariant holds in every state.
LEMMA LoopInvariant == Spec => [](RunInv /\ LoopInv)
BY InitRun, InitLoop, NextRun, NextLoop, PTL DEF Spec

\* Every gathered item has its result at its own index, whatever the batches
\* were; under fail_strategy "all" no batch is started after a failed child; a
\* task that is done has all results, and no waited child outlives its task
\* unless the run is cancelled or terminated.
THEOREM LoopGathersInOrder == Spec => []LoopResults
<1>1. LoopInv => LoopResults  BY DEF LoopInv
<1>2. QED  BY <1>1, LoopInvariant, PTL

-----------------------------------------------------------------------------
(***************************************************************************)
(* The error handler.                                                      *)
(***************************************************************************)
\* In a run that goes on the phases and the loop say all there is to say.
LEMMA OpenHandler ==
  ASSUME RunInv, LoopInv, pc # "closed"
  PROVE  HandlerInv
<1>1. outcome = "none"  BY DEF RunInv, PhaseOK
<1>2. ASSUME handler # "none"
      PROVE  /\ configured = "yes" /\ {sub, ask} \subseteq Ended \union {"none"}
             /\ Waited => \A i \in Item : child[i] # "running"
  <2>1. pc = "handler"  BY <1>2 DEF RunInv, PhaseOK
  <2>2. configured = "yes" /\ {sub, ask} \subseteq Ended \union {"none"}
    BY <2>1 DEF RunInv, PhaseOK
  <2>3. sub \notin {"gather", "cancelling"}  BY <2>2 DEF Ended
  <2>4. QED  BY <2>2, <2>3 DEF LoopInv
<1>3. QED  BY <1>1, <1>2 DEF HandlerInv, ErrorHandled

\* A run that closes, by its own end or from outside.
LEMMA CloseHandler ==
  ASSUME RunInv, LoopInv, RunInv', LoopInv', pc # "closed", pc' = "closed", Next
  PROVE  HandlerInv'
<1> USE DEF RunUnchanged, Goto, Close, ivars, hvars
<1>1. HandlerInv  BY OpenHandler
<1>2. /\ UNCHANGED <<conf, sub, ask>>
      /\ \/ outcome' \in {"setup", "platform"} /\ SettingUp /\ handler' = handler
         \/ outcome' = "completed" /\ pc = "return" /\ handler' = handler
         \/ outcome' = "lookup" /\ pc = "lookup" /\ handler' = handler
         \/ outcome' = "original" /\ configured' = "no" /\ pc = "lookup" /\ handler' = handler
         \/ outcome' = "handler" /\ handler' = "none"
         \/ /\ outcome' \in {"original", "handler", "cancelled"} /\ pc = "handler"
            /\ handler # "none" /\ configured' = configured
            /\ outcome' = "original" => handler' = "completed"
         \/ /\ outcome' \in {"cancelled", "terminated"} /\ configured' = configured
            /\ handler' # "none" => handler # "none"
  <2>1. CASE SetUp
    BY <2>1 DEF SetUp, SettingUp, GetDefinition, ResolveLock, GetTriggerInputs,
                NormalizeInputs, ResolveTimeAnchor, RunInv, PhaseOK
  <2>2. CASE SubflowStep
    BY <2>2 DEF SubflowStep, HandleTimers, PrepareSubflow, StartBatch, EndBatch, EndLoop,
                Synchronize, SubCancelled, ChildEnds, SubMoves
  <2>3. CASE InteractionStep \/ HandleInteraction
    BY <2>3 DEF InteractionStep, PrepareInteraction, RunAction, SetPending, ReceiveResponse,
                RecordResponse, SetError, HandleInteraction, AskUnchanged
  <2>4. CASE SchedulerStep
    BY <2>4 DEF SchedulerStep, StopScheduler, StoppedScheduler, CompletedScheduler,
                HandleReturn, RunInv, PhaseOK
  <2>5. CASE GetErrorHandler
    BY <2>5 DEF GetErrorHandler, RunInv, PhaseOK
  <2>6. CASE RunErrorHandler
    BY <2>6 DEF RunErrorHandler
  <2>7. CASE HandlerEnds
    BY <2>7 DEF HandlerEnds
  <2>8. CASE CancelExecution
    BY <2>8 DEF CancelExecution
  <2>9. CASE Terminate
    BY <2>9 DEF Terminate
  <2>10. QED
    BY <2>1, <2>2, <2>3, <2>4, <2>5, <2>6, <2>7, <2>8, <2>9 DEF Next, Progress, HandlerStep
<1>3. (Waited /\ sub \in Ended \union {"none"} => \A i \in Item : child[i] # "running")'
  BY DEF LoopInv, Ended
<1>4. /\ SettingUp => sub = "none" /\ ask = "none" /\ handler = "none"
      /\ pc = "return" => sub = "done" /\ ask = "done" /\ handler = "none"
      /\ pc = "lookup" => handler = "none"
      /\ handler # "none" => configured = "yes" /\ {sub, ask} \subseteq Ended \union {"none"}
  BY DEF RunInv, PhaseOK, SettingUp
<1>5. pc = "handler" => configured = "yes" /\ {sub, ask} \subseteq Ended \union {"none"}
  BY DEF RunInv, PhaseOK
<1>6. handler' # "none" => configured' = "yes" /\ {sub, ask}' \subseteq Ended \union {"none"}
  BY <1>2, <1>4, <1>5
<1>7. QED
  BY <1>2, <1>3, <1>4, <1>6 DEF HandlerInv, ErrorHandled, TaskExceptions, SettingUp
\* Every step keeps the handler's invariant: a closed run does not change, but
\* for the children it abandoned.
LEMMA NextHandler ==
  ASSUME RunInv, LoopInv, HandlerInv, RunInv', LoopInv', [Next]_vars
  PROVE  HandlerInv'
<1>1. CASE pc' # "closed"
  <2>1. (pc # "closed" => HandlerInv)'  BY OpenHandler, RunInv', LoopInv', PTL
  <2>2. QED  BY <1>1, <2>1
<1>2. CASE pc # "closed" /\ pc' = "closed"
  <2>1. Next  BY <1>2 DEF vars
  <2>2. QED  BY <1>2, <2>1, CloseHandler
<1>3. CASE pc = "closed" /\ pc' = "closed"
  <2>1. UNCHANGED <<conf, outcome, handler, configured, sub, ask>>
    <3>1. CASE Next
      BY <1>3, <3>1
         DEF Next, Progress, SetUp, GetDefinition, ResolveLock, GetTriggerInputs,
             NormalizeInputs, ResolveTimeAnchor, SubflowStep, HandleTimers, PrepareSubflow,
             StartBatch, EndBatch, EndLoop, Synchronize, SubCancelled, ChildEnds, ivars, hvars,
             InteractionStep, PrepareInteraction, RunAction, SetPending, ReceiveResponse,
             RecordResponse, SetError, Running, SchedulerStep, StopScheduler,
             StoppedScheduler, CompletedScheduler, HandleReturn, HandlerStep,
             GetErrorHandler, RunErrorHandler, HandlerEnds, HandleInteraction,
             CancelExecution, Terminate
    <3>2. QED  BY <3>1 DEF vars
  <2>2. (Waited /\ sub \in Ended \union {"none"} => \A i \in Item : child[i] # "running")'
    BY DEF LoopInv, Ended
  <2>3. QED
    BY <1>3, <2>1, <2>2 DEF HandlerInv, ErrorHandled, TaskExceptions
<1>4. QED  BY <1>1, <1>2, <1>3

\* The initial state.
LEMMA InitHandler == Init => HandlerInv
BY DEF Init, HandlerInv, ErrorHandled, TaskExceptions

\* The error handler runs only for an application error, when the tasks and
\* the children they wait for have ended; a run with its original error had no
\* handler or one that completed, and a completed run had no failed task.
THEOREM HandlerAfterTasks == Spec => []ErrorHandled
<1>1. HandlerInv => ErrorHandled  BY DEF HandlerInv
<1>2. RunInv /\ LoopInv /\ RunInv' /\ LoopInv' /\ HandlerInv /\ [Next]_vars => HandlerInv'
  BY NextHandler
<1>3. QED  BY <1>1, <1>2, InitHandler, LoopInvariant, PTL DEF Spec

-----------------------------------------------------------------------------
(***************************************************************************)
(* The interactive task.                                                   *)
(***************************************************************************)
\* The initial state.
LEMMA InitAsk == Init => AskInv
BY DEF Init, AskInv, InteractionAnswered

\* A write that may have happened completes the row with a response that the
\* task waited for, and is none of the task's when it does not write.
LEMMA WrittenAnswer ==
  ASSUME RunInv, AskInv, NEW w \in WrittenRow
  PROVE  /\ w.status = "completed" => w.data > early
         /\ ask \in {"none", "done"} => w = row
<1>1. row \in [status : Status, data : Response]  BY DEF RunInv, TypeOK
<1>2. /\ row.status = "completed" => row.data > early
      /\ ask = "record" => early < returned
  BY DEF AskInv, InteractionAnswered
<1>3. returned \in Int /\ early \in Int  BY LoopAssumption DEF RunInv, TypeOK, Response
<1>4. QED  BY <1>1, <1>2, <1>3 DEF WrittenRow

\* A step that does not touch the interaction, or closes the run.
LEMMA AskFrame ==
  ASSUME RunInv, AskInv, row' = row \/ (row' \in WrittenRow /\ pc' = "closed"),
         pc = "closed" => pc' = "closed",
         UNCHANGED <<ask, state, returned, early, accepted>>
  PROVE  AskInv'
<1>1. /\ row'.status = "completed" => row'.data > early
      /\ ask \in {"none", "done"} => row' = row
  BY WrittenAnswer DEF AskInv, InteractionAnswered
<1>2. (ask = "done" =>
         /\ row.status = "completed"
         /\ early < row.data /\ row.data <= returned /\ returned <= accepted)'
  BY <1>1 DEF AskInv, InteractionAnswered
<1>3. QED  BY <1>1, <1>2 DEF AskInv, InteractionAnswered

\* The steps of the interactive task.
LEMMA InteractionAsk ==
  ASSUME RunInv, AskInv, InteractionStep \/ HandleInteraction
  PROVE  AskInv'
<1>1. /\ row \in [status : Status, data : Response]
      /\ state \in [status : Status, data : Response]
      /\ state.data \in Int /\ row.data \in Int
      /\ early \in Int /\ returned \in Int /\ accepted \in Int
      /\ 0 <= early /\ early <= accepted
  BY LoopAssumption DEF RunInv, TypeOK, Response
<1> USE DEF AskUnchanged, svars, hvars, UpdateInteraction
<1>2. CASE PrepareInteraction
  BY <1>1, <1>2, WrittenAnswer
     DEF PrepareInteraction, AskInv, InteractionAnswered
<1>3. CASE RunAction
  BY <1>1, <1>3 DEF RunAction, AskInv, InteractionAnswered
<1>4. CASE SetPending
  BY <1>1, <1>4 DEF SetPending, AskInv, InteractionAnswered
<1>5. CASE ReceiveResponse
  BY <1>1, <1>5 DEF ReceiveResponse, AskInv, InteractionAnswered, IsActivated
<1>6. CASE RecordResponse
  BY <1>1, <1>6 DEF RecordResponse, AskInv, InteractionAnswered
<1>7. CASE SetError
  BY <1>1, <1>7 DEF SetError, AskInv, InteractionAnswered
<1>8. CASE HandleInteraction
  BY <1>1, <1>8 DEF HandleInteraction, AskInv, InteractionAnswered
<1>9. QED
  BY <1>2, <1>3, <1>4, <1>5, <1>6, <1>7, <1>8 DEF InteractionStep

\* The scheduler cancels the interactive task.
LEMMA StopAsk ==
  ASSUME RunInv, AskInv, StopScheduler
  PROVE  AskInv'
<1>1. /\ row'.status = "completed" => row'.data > early
      /\ ask \in {"none", "done"} => row' = row
      /\ UNCHANGED <<state, returned, early, accepted>>
      /\ pc = "tasks" /\ pc' = "stopping"
  BY WrittenAnswer DEF StopScheduler
<1>2. /\ ask' \in {"failed", "erroring", "cancelled", "done", "none"}
      /\ ask' \in {"done", "none"} => ask' = ask
  BY DEF StopScheduler, AskWhenCancelled, RunInv, TypeOK, Ended
<1>3. (ask = "done" =>
         /\ row.status = "completed"
         /\ early < row.data /\ row.data <= returned /\ returned <= accepted)'
  BY <1>1, <1>2 DEF AskInv, InteractionAnswered
<1>4. QED  BY <1>1, <1>2, <1>3 DEF AskInv, InteractionAnswered

\* Every step keeps the interaction's invariant.
LEMMA NextAsk ==
  ASSUME RunInv, AskInv, [Next]_vars
  PROVE  AskInv'
<1>1. CASE UNCHANGED vars
  BY <1>1, AskFrame DEF vars
<1>2. CASE SetUp
  <2>1. CASE ResolveTimeAnchor /\ Goto("tasks")
    BY <2>1 DEF ResolveTimeAnchor, Goto, Close, AskInv, InteractionAnswered, RunInv,
                PhaseOK, SettingUp
  <2>2. CASE ~ (ResolveTimeAnchor /\ Goto("tasks"))
    BY <1>2, <2>2, AskFrame
       DEF SetUp, GetDefinition, ResolveLock, GetTriggerInputs, NormalizeInputs,
           ResolveTimeAnchor, RunUnchanged, ivars
  <2>3. QED  BY <2>1, <2>2
<1>3. CASE SubflowStep
  BY <1>3, AskFrame
     DEF SubflowStep, HandleTimers, PrepareSubflow, StartBatch, EndBatch, EndLoop,
         Synchronize, SubCancelled, ChildEnds, SubMoves, ivars
<1>4. CASE SchedulerStep
  BY <1>4, StopAsk, AskFrame
     DEF SchedulerStep, StoppedScheduler, CompletedScheduler, HandleReturn, RunUnchanged, ivars
<1>5. CASE HandlerStep
  BY <1>5, AskFrame
     DEF HandlerStep, GetErrorHandler, RunErrorHandler, HandlerEnds, RunUnchanged, ivars
<1>6. CASE CancelExecution
  BY <1>6, AskFrame DEF CancelExecution, Close
<1>7. CASE Terminate
  BY <1>7, AskFrame DEF Terminate, Close
<1>8. QED
  BY <1>1, <1>2, <1>3, <1>4, <1>5, <1>6, <1>7, InteractionAsk DEF Next, Progress

\* A task that is done recorded a response that arrived after it began to wait
\* and returns that one or a later one, whatever else was sent and whenever.
THEOREM ResponseAnswersTask == Spec => []InteractionAnswered
<1>1. AskInv => InteractionAnswered  BY DEF AskInv
<1>2. RunInv /\ AskInv /\ [Next]_vars => AskInv'  BY NextAsk
<1>3. QED  BY <1>1, <1>2, InitAsk, RunPhases, PTL DEF Spec
=============================================================================
