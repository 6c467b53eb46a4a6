---------------------- MODULE WorkflowSchedules_proofs ----------------------
(***************************************************************************)
(* Proofs about the two stores of the schedules, for any number of         *)
(* schedules, any requests and any bound on their number.                  *)
(***************************************************************************)
EXTENDS WorkflowSchedules, TLAPS

-----------------------------------------------------------------------------
(***************************************************************************)
(* The inductive invariant.  Of a schedule that was neither overtaken nor  *)
(* met by a failed Temporal call at most one change is under way, and the  *)
(* two stores differ by exactly that change, or by what delete_workflow    *)
(* has deleted in Temporal.                                                *)
(***************************************************************************)
\* delete_workflow keeps a list only while it runs, and a deleted workflow
\* has no rows.
Phases ==
  /\ workflow = "live" => doomed = {}
  /\ workflow = "deleted" => \A s \in Schedule : ~ db[s].live

OnePending(s) == \A c, d \in Pending(s) : c = d

PendingOp(s, op) == \E c \in Pending(s) : c.op = op

\* A schedule without a row is gone from Temporal or about to be deleted.
GoneIsDeleted(s) ==
  ~ db[s].live => /\ temporal[s].live => PendingOp(s, "delete")
                  /\ ~ PendingOp(s, "create")

\* delete_workflow has dealt with every schedule that is not on its list.
DoomedIsDeleted(s) ==
  workflow = "deleting" =>
    /\ s \notin doomed /\ temporal[s].live => PendingOp(s, "delete")
    /\ ~ PendingOp(s, "create")

\* What delete_workflow has deleted in Temporal does not come back.
CleanedIsGone(s) ==
  s \in cleaned => ~ temporal[s].live /\ ~ PendingOp(s, "create")

PausedAgrees(t, r) == t.paused <=> r.status = "offline"

\* A schedule with a row is in Temporal as the row says, or will be when its
\* pending change has run, unless delete_workflow has deleted it there.
RowIsMirrored(s) ==
  db[s].live =>
    /\ ~ PendingOp(s, "delete")
    /\ s \notin cleaned =>
         /\ Pending(s) = {} => temporal[s].live /\ PausedAgrees(temporal[s], db[s])
         /\ \A c \in Pending(s) :
              /\ c.op = "create" => db[s].status = "online"
              /\ c.op = "update" =>
                   /\ temporal[s].live
                   /\ PausedAgrees(BridgeUpdated(temporal[s], c.params), db[s])

Tracked(s) ==
  /\ OnePending(s)
  /\ GoneIsDeleted(s)
  /\ DoomedIsDeleted(s)
  /\ CleanedIsGone(s)
  /\ RowIsMirrored(s)

SInv ==
  /\ TypeOK
  /\ Phases
  /\ \A s \in Schedule \ (failed \union raced) : Tracked(s)

-----------------------------------------------------------------------------
(***************************************************************************)
(* Types.                                                                  *)
(***************************************************************************)
\* A row made from the params of a create is a row.
LEMMA CreatedRow ==
  ASSUME NEW p \in ScheduleCreate
  PROVE  Created(p) \in Rows
BY DEF ScheduleCreate, Created, Rows, Status

\* What the bridge writes is a schedule of Temporal, with one trigger.
LEMMA BridgeSpecType ==
  ASSUME NEW p \in ScheduleCreate
  PROVE  /\ BridgeSpec(p) \in Temporals
         /\ BridgeSpec(p).cron = "none" \/ BridgeSpec(p).every = "none"
         /\ ~ BridgeSpec(p).paused
         /\ BridgeSpec(p).live
BY DEF ScheduleCreate, BridgeSpec, Temporals, Everys, Crons

\* An update keeps a schedule a schedule, and gives it no second trigger.
LEMMA BridgeUpdatedType ==
  ASSUME NEW t \in Temporals, NEW p \in ScheduleUpdate
  PROVE  /\ BridgeUpdated(t, p) \in Temporals
         /\ BridgeUpdated(t, p).live
         /\ t.cron = "none" \/ t.every = "none" =>
              BridgeUpdated(t, p).cron = "none" \/ BridgeUpdated(t, p).every = "none"
BY DEF ScheduleUpdate, BridgeUpdated, Temporals, Everys, Crons, Keep, Status

\* The absent row and the absent schedule.
LEMMA AbsentTypes ==
  /\ NoRow \in Rows /\ ~ NoRow.live
  /\ NoTemporal \in Temporals /\ ~ NoTemporal.live
  /\ NoTemporal.cron = "none"
BY DEF NoRow, Rows, NoTemporal, Temporals, Status, Crons, Everys

\* The initial state is typed.
LEMMA InitType == Init => TypeOK
BY AbsentTypes, BoundsAssumption DEF Init, TypeOK

\* Requests keep the types.
LEMMA RequestType ==
  ASSUME TypeOK
  PROVE  /\ \A s \in Schedule, p \in Creates : CreateSchedule(s, p) => TypeOK'
         /\ \A s \in Schedule, p \in Updates : UpdateSchedule(s, p) => TypeOK'
         /\ \A s \in Schedule : DeleteSchedule(s) => TypeOK'
         /\ \A S \in SUBSET Schedule, p \in Creates : ImportWorkflow(S, p) => TypeOK'
         /\ DeleteWorkspace => TypeOK'
         /\ DeleteWorkflow => TypeOK'
<1>1. calls < MaxCalls => calls + 1 \in 0 .. MaxCalls /\ calls \in Nat
  BY BoundsAssumption DEF TypeOK
<1>2. Live \subseteq Schedule  BY DEF Live
<1>3. ASSUME NEW s \in Schedule, NEW p \in Creates, CreateSchedule(s, p)
      PROVE  TypeOK'
  <2>1. p \in ScheduleCreate  BY BoundsAssumption
  <2>2. [op |-> "create", id |-> s, n |-> calls, params |-> p] \in Callback
    BY <1>1, <1>3, <2>1 DEF Callback, CreateSchedule
  <2>3. QED  BY <1>1, <1>3, <2>1, <2>2, CreatedRow DEF CreateSchedule, TypeOK
<1>4. ASSUME NEW s \in Schedule, NEW p \in Updates, UpdateSchedule(s, p)
      PROVE  TypeOK'
  <2>1. p \in ScheduleUpdate  BY BoundsAssumption
  <2>2. [op |-> "update", id |-> s, n |-> calls, params |-> p] \in Callback
    BY <1>1, <1>4, <2>1 DEF Callback, UpdateSchedule
  <2>3. [live |-> TRUE, status |-> Keep(p.status, db[s].status),
         cron |-> Keep(p.cron, db[s].cron), every |-> Keep(p.every, db[s].every)] \in Rows
    BY <2>1 DEF TypeOK, Rows, Keep, ScheduleUpdate
  <2>4. QED  BY <1>1, <1>4, <2>2, <2>3 DEF UpdateSchedule, TypeOK, Overtaken
<1>5. ASSUME NEW s \in Schedule, DeleteSchedule(s)
      PROVE  TypeOK'
  <2>1. [op |-> "delete", id |-> s, n |-> calls] \in Callback
    BY <1>1, <1>5 DEF Callback, DeleteSchedule
  <2>2. QED  BY <1>1, <1>5, <2>1, AbsentTypes DEF DeleteSchedule, TypeOK, Overtaken
<1>6. ASSUME NEW S \in SUBSET Schedule, NEW p \in Creates, ImportWorkflow(S, p)
      PROVE  TypeOK'
  <2>1. p \in ScheduleCreate  BY BoundsAssumption
  <2>2. \A s \in Schedule :
          /\ [op |-> "create", id |-> s, n |-> calls, params |-> p] \in Callback
          /\ [op |-> "delete", id |-> s, n |-> calls] \in Callback
    BY <1>1, <1>6, <2>1 DEF Callback, ImportWorkflow
  <2>3. callbacks' \subseteq Callback
    BY <1>2, <1>6, <2>2 DEF ImportWorkflow, TypeOK
  <2>4. db' \in [Schedule -> Rows]
    BY <1>6, <2>1, AbsentTypes, CreatedRow DEF ImportWorkflow, TypeOK
  <2>5. QED  BY <1>1, <1>2, <1>6, <2>3, <2>4 DEF ImportWorkflow, TypeOK, Overtaken
<1>7. ASSUME DeleteWorkspace
      PROVE  TypeOK'
  <2>1. \A s \in Schedule : [op |-> "delete", id |-> s, n |-> calls] \in Callback
    BY <1>1, <1>7 DEF Callback, DeleteWorkspace
  <2>2. callbacks' \subseteq Callback
    BY <1>2, <1>7, <2>1 DEF DeleteWorkspace, TypeOK
  <2>3. QED  BY <1>1, <1>2, <1>7, <2>2, AbsentTypes DEF DeleteWorkspace, TypeOK, Overtaken
<1>8. ASSUME DeleteWorkflow
      PROVE  TypeOK'
  BY <1>1, <1>2, <1>8 DEF DeleteWorkflow, TypeOK, Overtaken
<1>9. QED  BY <1>3, <1>4, <1>5, <1>6, <1>7, <1>8

\* What a callback carries.
LEMMA CallbackType ==
  ASSUME TypeOK, NEW c \in callbacks
  PROVE  /\ c.id \in Schedule
         /\ c.op = "create" => c.params \in ScheduleCreate
         /\ c.op = "update" => c.params \in ScheduleUpdate
<1>1. c \in Callback  BY DEF TypeOK
<1>2. CASE c \in [op : {"create"}, id : Schedule, n : Nat, params : ScheduleCreate]
  BY <1>2
<1>3. CASE c \in [op : {"update"}, id : Schedule, n : Nat, params : ScheduleUpdate]
  BY <1>3
<1>4. CASE c \in [op : {"delete"}, id : Schedule, n : Nat]
  BY <1>4
<1>5. QED  BY <1>1, <1>2, <1>3, <1>4 DEF Callback

\* Callbacks and the steps of delete_workflow keep the types.
LEMMA CallbackStepType ==
  ASSUME TypeOK
  PROVE  /\ \A c \in callbacks : RunCallback(c) => TypeOK'
         /\ Cleanup => TypeOK'
         /\ DeleteWorkflowAborted => TypeOK'
<1>1. ASSUME NEW c \in callbacks, RunCallback(c)
      PROVE  TypeOK'
  <2>1. c.id \in Schedule  BY CallbackType
  <2>2. CASE RunCreate(c)
    BY <2>1, <2>2, CallbackType, BridgeSpecType DEF RunCreate, TypeOK
  <2>3. CASE RunUpdate(c)
    <3>1. temporal[c.id] \in Temporals  BY <2>1 DEF TypeOK
    <3>2. BridgeUpdated(temporal[c.id], c.params) \in Temporals
      BY <2>3, <3>1, CallbackType, BridgeUpdatedType DEF RunUpdate
    <3>3. QED  BY <2>1, <2>3, <3>2 DEF RunUpdate, TypeOK
  <2>4. CASE RunDelete(c)
    BY <2>1, <2>4, AbsentTypes DEF RunDelete, TypeOK
  <2>5. CASE LoseCallback(c)
    BY <2>1, <2>5 DEF LoseCallback, TypeOK
  <2>6. QED  BY <1>1, <2>2, <2>3, <2>4, <2>5 DEF RunCallback
<1>2. ASSUME Cleanup
      PROVE  TypeOK'
  <2>1. CASE CascadeRows
    BY <2>1, AbsentTypes DEF CascadeRows, TypeOK
  <2>2. ASSUME NEW s \in Schedule, CleanupTemporal(s)
        PROVE  TypeOK'
    BY <2>2, AbsentTypes DEF CleanupTemporal, TypeOK
  <2>3. QED  BY <1>2, <2>1, <2>2 DEF Cleanup
<1>3. ASSUME DeleteWorkflowAborted
      PROVE  TypeOK'
  BY <1>3 DEF DeleteWorkflowAborted, TypeOK, Live
<1>4. QED  BY <1>1, <1>2, <1>3

\* Every step keeps the types.
LEMMA NextType == TypeOK /\ [Next]_vars => TypeOK'
<1> SUFFICES ASSUME TypeOK, [Next]_vars PROVE TypeOK'
  OBVIOUS
<1>1. CASE Next  BY <1>1, RequestType, CallbackStepType DEF Next
<1>2. CASE UNCHANGED vars  BY <1>2 DEF vars, TypeOK
<1>3. QED  BY <1>1, <1>2

\* Rows, Temporal schedules and callbacks keep their shape; in particular no
\* blank cron expression ever reaches Temporal.
THEOREM SchedulesTypeCorrect == Spec => []TypeOK
BY InitType, NextType, PTL DEF Spec

-----------------------------------------------------------------------------
(***************************************************************************)
(* One trigger.  With the types the property is inductive by itself.       *)
(***************************************************************************)
\* Every step leaves each schedule of Temporal with one trigger.
LEMMA NextNoDoubleTrigger ==
  ASSUME TypeOK, NoDoubleTrigger, [Next]_vars
  PROVE  NoDoubleTrigger'
<1>1. ASSUME NEW c \in callbacks, RunCallback(c)
      PROVE  NoDoubleTrigger'
  <2>1. c.id \in Schedule /\ temporal[c.id] \in Temporals
    BY CallbackType DEF TypeOK
  <2>2. CASE RunCreate(c)
    BY <2>1, <2>2, CallbackType, BridgeSpecType DEF RunCreate, TypeOK, NoDoubleTrigger
  <2>3. CASE RunUpdate(c)
    <3>1. BridgeUpdated(temporal[c.id], c.params).cron = "none"
            \/ BridgeUpdated(temporal[c.id], c.params).every = "none"
      BY <2>1, <2>3, CallbackType, BridgeUpdatedType DEF RunUpdate, NoDoubleTrigger
    <3>2. QED  BY <2>1, <2>3, <3>1 DEF RunUpdate, TypeOK, NoDoubleTrigger
  <2>4. CASE RunDelete(c)
    BY <2>1, <2>4, AbsentTypes DEF RunDelete, TypeOK, NoDoubleTrigger
  <2>5. CASE LoseCallback(c)
    BY <2>5 DEF LoseCallback, NoDoubleTrigger
  <2>6. QED  BY <1>1, <2>2, <2>3, <2>4, <2>5 DEF RunCallback
<1>2. ASSUME NEW s \in Schedule, CleanupTemporal(s)
      PROVE  NoDoubleTrigger'
  BY <1>2, AbsentTypes DEF CleanupTemporal, TypeOK, NoDoubleTrigger
<1>3. CASE UNCHANGED temporal
  BY <1>3 DEF NoDoubleTrigger
<1>4. QED
  BY <1>1, <1>2, <1>3
     DEF Next, vars, Cleanup, CreateSchedule, UpdateSchedule, DeleteSchedule,
         ImportWorkflow, DeleteWorkspace, DeleteWorkflow, CascadeRows,
         DeleteWorkflowAborted

\* bridge.update_schedule clears the other trigger: through every sequence of
\* creates and updates, in whatever order their callbacks run, a schedule never
\* fires both by a cron expression and by an interval.
THEOREM SchedulesFireOnce == Spec => []NoDoubleTrigger
<1>1. Init => NoDoubleTrigger
  BY AbsentTypes DEF Init, NoDoubleTrigger
<1>2. TypeOK /\ NoDoubleTrigger /\ [Next]_vars => NoDoubleTrigger'
  BY NextNoDoubleTrigger
<1>3. QED  BY <1>1, <1>2, SchedulesTypeCorrect, PTL DEF Spec

-----------------------------------------------------------------------------
(***************************************************************************)
(* The stores agree.                                                       *)
(***************************************************************************)
\* A schedule that a step does not touch stays tracked.
LEMMA Untouched ==
  ASSUME NEW s, Tracked(s), db'[s] = db[s], temporal'[s] = temporal[s],
         Pending(s)' = Pending(s), workflow' = workflow,
         s \in doomed' <=> s \in doomed, s \in cleaned' <=> s \in cleaned
  PROVE  Tracked(s)'
BY DEF Tracked, OnePending, GoneIsDeleted, DoomedIsDeleted, CleanedIsGone, RowIsMirrored,
       PendingOp, PausedAgrees

\* A schedule whose only pending change is its creation is tracked.
LEMMA CreationTracked ==
  ASSUME NEW s, NEW c, Pending(s)' = {c}, c.op = "create", workflow' = "live",
         db'[s].live, db'[s].status = "online", s \notin cleaned'
  PROVE  Tracked(s)'
<1>1. OnePending(s)' /\ ~ PendingOp(s, "delete")'  BY DEF OnePending, PendingOp
<1>2. GoneIsDeleted(s)' /\ DoomedIsDeleted(s)' /\ CleanedIsGone(s)'
  BY DEF GoneIsDeleted, DoomedIsDeleted, CleanedIsGone
<1>3. Pending(s)' # {} /\ \A d \in Pending(s)' : d.op = "create"  OBVIOUS
<1>4. RowIsMirrored(s)'  BY <1>1, <1>3 DEF RowIsMirrored
<1>5. QED  BY <1>1, <1>2, <1>4 DEF Tracked

\* A schedule without a row whose only pending change is its deletion is tracked.
LEMMA DeletionTracked ==
  ASSUME NEW s, NEW c, Pending(s)' = {c}, c.op = "delete", ~ db'[s].live,
         Tracked(s), temporal' = temporal, cleaned' = cleaned
  PROVE  Tracked(s)'
<1>1. OnePending(s)' /\ PendingOp(s, "delete")' /\ ~ PendingOp(s, "create")'
  BY DEF OnePending, PendingOp
<1>2. QED  BY <1>1 DEF Tracked, GoneIsDeleted, DoomedIsDeleted, CleanedIsGone, RowIsMirrored

\* A create: the schedule is new, and so is its callback.
LEMMA CreateTracked ==
  ASSUME SInv, NEW s \in Schedule, NEW p \in Creates, CreateSchedule(s, p)
  PROVE  SInv'
<1>1. TypeOK /\ TypeOK'  BY RequestType DEF SInv
<1> DEFINE c == [op |-> "create", id |-> s, n |-> calls, params |-> p]
<1>2. callbacks' = callbacks \union {c}  BY DEF CreateSchedule
<1>3. Phases'  BY <1>1 DEF SInv, Phases, CreateSchedule, TypeOK
<1>4. ASSUME NEW q \in Schedule, q \notin failed' \union raced'
      PROVE  Tracked(q)'
  <2>1. q \notin failed \union raced  BY <1>4 DEF CreateSchedule
  <2>2. CASE q = s
    <3>1. Pending(s)' = {c}  BY <1>2 DEF CreateSchedule, Fresh, Pending
    <3>2. workflow' = "live"  BY <1>1, <1>4, <2>2 DEF CreateSchedule, TypeOK
    <3>3. db'[s].live /\ db'[s].status = "online"
      BY <1>1 DEF CreateSchedule, Created, TypeOK
    <3>4. c.op = "create"  OBVIOUS
    <3>5. s \notin cleaned'  BY DEF CreateSchedule, Fresh
    <3> HIDE DEF c
    <3>6. QED  BY <2>2, <3>1, <3>2, <3>3, <3>4, <3>5, CreationTracked
  <2>3. CASE q # s
    <3>1. Pending(q)' = Pending(q)  BY <1>2, <2>3 DEF Pending
    <3>2. QED  BY <1>1, <2>1, <2>3, <3>1, Untouched DEF SInv, CreateSchedule, TypeOK
  <2>4. QED  BY <2>2, <2>3
<1>5. QED  BY <1>1, <1>3, <1>4 DEF SInv

\* An update of a schedule without pending changes.
LEMMA UpdateTracked ==
  ASSUME SInv, NEW s \in Schedule, NEW p \in Updates, UpdateSchedule(s, p)
  PROVE  SInv'
<1>1. TypeOK /\ TypeOK'  BY RequestType DEF SInv
<1> DEFINE c == [op |-> "update", id |-> s, n |-> calls, params |-> p]
<1>2. callbacks' = callbacks \union {c}  BY DEF UpdateSchedule
<1>3. Phases'  BY <1>1 DEF SInv, Phases, UpdateSchedule, TypeOK
<1>4. ASSUME NEW q \in Schedule, q \notin failed' \union raced'
      PROVE  Tracked(q)'
  <2>1. q \notin failed \union raced  BY <1>4 DEF UpdateSchedule, Overtaken
  <2>2. Tracked(q)  BY <2>1 DEF SInv
  <2>3. CASE q = s
    <3>1. Pending(s) = {}  BY <1>4, <2>3 DEF UpdateSchedule, Overtaken
    <3>2. Pending(s)' = {c}  BY <1>2, <3>1 DEF Pending
    <3>3. /\ db[s].live /\ db'[s].live
          /\ db'[s].status = Keep(p.status, db[s].status)
      BY <1>1 DEF UpdateSchedule, TypeOK
    <3>4. UNCHANGED <<workflow, doomed, temporal, cleaned>>  BY DEF UpdateSchedule
    <3>5. ASSUME s \notin cleaned
          PROVE  /\ temporal[s].live
                 /\ PausedAgrees(BridgeUpdated(temporal[s], p), db'[s])
      <4>1. temporal[s].live /\ PausedAgrees(temporal[s], db[s])
        BY <2>2, <2>3, <3>1, <3>3, <3>5 DEF Tracked, RowIsMirrored
      <4>2. p.status \in {"online", "offline", "unset"}
        BY BoundsAssumption DEF ScheduleUpdate, Status
      <4>3. QED
        BY <3>3, <4>1, <4>2 DEF PausedAgrees, BridgeUpdated, Keep
    <3>6. ~ PendingOp(s, "create")' /\ ~ PendingOp(s, "delete")'
      BY <3>2 DEF PendingOp
    <3>7. OnePending(s)' /\ GoneIsDeleted(s)'
      BY <3>2, <3>3 DEF OnePending, GoneIsDeleted
    <3>8. DoomedIsDeleted(s)' /\ CleanedIsGone(s)'
      BY <2>2, <2>3, <3>1, <3>4, <3>6 DEF Tracked, DoomedIsDeleted, CleanedIsGone, PendingOp
    <3>9. RowIsMirrored(s)'
      <4>1. Pending(s)' # {} /\ \A d \in Pending(s)' : d.op = "update" /\ d.params = p
        BY <3>2
      <4>2. s \notin cleaned' =>
              temporal'[s].live /\ PausedAgrees(BridgeUpdated(temporal'[s], p), db'[s])
        BY <3>4, <3>5
      <4>3. QED  BY <3>6, <4>1, <4>2 DEF RowIsMirrored, PausedAgrees
    <3>10. QED  BY <2>3, <3>7, <3>8, <3>9 DEF Tracked
  <2>4. CASE q # s
    <3>1. Pending(q)' = Pending(q)  BY <1>2, <2>4 DEF Pending
    <3>2. QED  BY <1>1, <2>2, <2>4, <3>1, Untouched DEF UpdateSchedule, TypeOK
  <2>5. QED  BY <2>3, <2>4
<1>5. QED  BY <1>1, <1>3, <1>4 DEF SInv

\* A deletion of a schedule without pending changes.
LEMMA DeleteTracked ==
  ASSUME SInv, NEW s \in Schedule, DeleteSchedule(s)
  PROVE  SInv'
<1>1. TypeOK /\ TypeOK'  BY RequestType DEF SInv
<1> DEFINE c == [op |-> "delete", id |-> s, n |-> calls]
<1>2. callbacks' = callbacks \union {c}  BY DEF DeleteSchedule
<1>3. Phases'  BY <1>1, AbsentTypes DEF SInv, Phases, DeleteSchedule, TypeOK
<1>4. ASSUME NEW q \in Schedule, q \notin failed' \union raced'
      PROVE  Tracked(q)'
  <2>1. Tracked(q)  BY <1>4 DEF DeleteSchedule, Overtaken, SInv
  <2>2. CASE q = s
    <3>1. Pending(s) = {}  BY <1>4, <2>2 DEF DeleteSchedule, Overtaken
    <3>2. Pending(s)' = {c}  BY <1>2, <3>1 DEF Pending
    <3>3. ~ db'[s].live  BY <1>1, AbsentTypes DEF DeleteSchedule, TypeOK
    <3>4. c.op = "delete"  OBVIOUS
    <3>5. temporal' = temporal /\ cleaned' = cleaned  BY DEF DeleteSchedule
    <3> HIDE DEF c
    <3>6. QED  BY <2>1, <2>2, <3>2, <3>3, <3>4, <3>5, DeletionTracked
  <2>3. CASE q # s
    <3>1. Pending(q)' = Pending(q)  BY <1>2, <2>3 DEF Pending
    <3>2. QED  BY <1>1, <2>1, <2>3, <3>1, Untouched DEF DeleteSchedule, TypeOK
  <2>4. QED  BY <2>2, <2>3
<1>5. QED  BY <1>1, <1>3, <1>4 DEF SInv

\* A pull: the rows of before and the new ones are different schedules.
LEMMA ImportTracked ==
  ASSUME SInv, NEW S \in SUBSET Schedule, NEW p \in Creates, ImportWorkflow(S, p)
  PROVE  SInv'
<1>1. TypeOK /\ TypeOK'  BY RequestType DEF SInv
<1> DEFINE del(q) == [op |-> "delete", id |-> q, n |-> calls]
           new(q) == [op |-> "create", id |-> q, n |-> calls, params |-> p]
<1>2. callbacks' = callbacks \union {del(q) : q \in Live} \union {new(q) : q \in S}
  BY DEF ImportWorkflow
<1>3. \A q \in Schedule : db'[q] = IF q \in S THEN Created(p)
                                   ELSE IF q \in Live THEN NoRow ELSE db[q]
  BY DEF ImportWorkflow
<1>4. workflow' = workflow /\ doomed' = doomed /\ temporal' = temporal
      /\ failed' = failed /\ cleaned' = cleaned /\ workflow # "deleted"
  BY DEF ImportWorkflow
<1>5. Phases'  BY <1>4 DEF SInv, Phases
<1>6. ASSUME NEW q \in Schedule, q \notin failed' \union raced'
      PROVE  Tracked(q)'
  <2>1. Tracked(q)  BY <1>6 DEF ImportWorkflow, Overtaken, SInv
  <2>2. CASE q \in S
    <3>1. Pending(q) = {} /\ q \notin Live
      BY <2>2 DEF ImportWorkflow, Fresh, Live
    <3>2. Pending(q)' = {new(q)}  BY <1>2, <2>2, <3>1 DEF Pending
    <3>3. workflow' = "live"  BY <1>1, <1>4, <1>6, <2>2 DEF ImportWorkflow, TypeOK
    <3>4. db'[q].live /\ db'[q].status = "online"  BY <1>3, <2>2 DEF Created
    <3>5. new(q).op = "create"  OBVIOUS
    <3>6. q \notin cleaned'  BY <2>2 DEF ImportWorkflow, Fresh
    <3> HIDE DEF new
    <3>7. QED  BY <3>2, <3>3, <3>4, <3>5, <3>6, CreationTracked
  <2>3. CASE q \notin S /\ q \in Live
    <3>1. Pending(q) = {}  BY <1>6, <2>3 DEF ImportWorkflow, Overtaken
    <3>2. Pending(q)' = {del(q)}  BY <1>2, <2>3, <3>1 DEF Pending
    <3>3. ~ db'[q].live  BY <1>3, <2>3, AbsentTypes
    <3>4. del(q).op = "delete"  OBVIOUS
    <3> HIDE DEF del
    <3>5. QED  BY <1>4, <2>1, <3>2, <3>3, <3>4, DeletionTracked
  <2>4. CASE q \notin S /\ q \notin Live
    <3>1. Pending(q)' = Pending(q)  BY <1>2, <2>4 DEF Pending
    <3>2. QED  BY <1>3, <1>4, <2>1, <2>4, <3>1, Untouched
  <2>5. QED  BY <2>2, <2>3, <2>4
<1>7. QED  BY <1>1, <1>5, <1>6 DEF SInv

\* The deletion of the workspace deletes every row, whatever delete_workflow
\* was doing.
LEMMA WorkspaceTracked ==
  ASSUME SInv, DeleteWorkspace
  PROVE  SInv'
<1>1. TypeOK /\ TypeOK'  BY RequestType DEF SInv
<1> DEFINE del(q) == [op |-> "delete", id |-> q, n |-> calls]
<1>2. callbacks' = callbacks \union {del(q) : q \in Live}  BY DEF DeleteWorkspace
<1>3. \A q \in Schedule : ~ db'[q].live  BY AbsentTypes DEF DeleteWorkspace
<1>4. workflow' = "deleted" /\ temporal' = temporal /\ cleaned' = cleaned
  BY DEF DeleteWorkspace
<1>5. Phases'  BY <1>3, <1>4 DEF Phases
<1>6. ASSUME NEW q \in Schedule, q \notin failed' \union raced'
      PROVE  Tracked(q)'
  <2>1. Tracked(q)  BY <1>6 DEF DeleteWorkspace, Overtaken, SInv
  <2>2. CASE q \in Live
    <3>1. Pending(q) = {}  BY <1>6, <2>2 DEF DeleteWorkspace, Overtaken
    <3>2. Pending(q)' = {del(q)}  BY <1>2, <2>2, <3>1 DEF Pending
    <3>3. del(q).op = "delete"  OBVIOUS
    <3> HIDE DEF del
    <3>4. QED  BY <1>3, <1>4, <2>1, <3>2, <3>3, DeletionTracked
  <2>3. CASE q \notin Live
    <3>1. Pending(q)' = Pending(q) /\ ~ db[q].live  BY <1>2, <2>3 DEF Pending, Live
    <3>2. QED
      BY <1>3, <1>4, <2>1, <3>1
         DEF Tracked, OnePending, GoneIsDeleted, DoomedIsDeleted, CleanedIsGone,
             RowIsMirrored, PendingOp
  <2>4. QED  BY <2>2, <2>3
<1>7. QED  BY <1>1, <1>5, <1>6 DEF SInv

\* delete_workflow begins: every row is listed.
LEMMA ListingTracked ==
  ASSUME SInv, DeleteWorkflow
  PROVE  SInv'
<1>1. TypeOK /\ TypeOK'  BY RequestType DEF SInv
<1>2. /\ workflow' = "deleting" /\ doomed' = Live
      /\ UNCHANGED <<db, temporal, callbacks, cleaned, failed>>
  BY DEF DeleteWorkflow
<1>3. Phases'  BY <1>2 DEF Phases
<1>4. ASSUME NEW q \in Schedule, q \notin failed' \union raced'
      PROVE  Tracked(q)'
  <2>1. Tracked(q)  BY <1>4 DEF DeleteWorkflow, Overtaken, SInv
  <2>2. Pending(q)' = Pending(q)  BY <1>2 DEF Pending
  <2>3. q \in Live => Pending(q) = {}  BY <1>4 DEF DeleteWorkflow, Overtaken
  <2>4. q \in Live <=> db[q].live  BY DEF Live
  <2>5. OnePending(q)' /\ GoneIsDeleted(q)' /\ CleanedIsGone(q)' /\ RowIsMirrored(q)'
    BY <1>2, <2>1, <2>2
       DEF Tracked, OnePending, GoneIsDeleted, CleanedIsGone, RowIsMirrored, PendingOp,
           PausedAgrees
  <2>6. DoomedIsDeleted(q)'
    BY <1>2, <2>1, <2>2, <2>3, <2>4 DEF Tracked, GoneIsDeleted, DoomedIsDeleted, PendingOp
  <2>7. QED  BY <2>5, <2>6 DEF Tracked
<1>5. QED  BY <1>1, <1>3, <1>4 DEF SInv

\* delete_workflow deletes one schedule of its list in Temporal.
LEMMA CleanupTracked ==
  ASSUME SInv, NEW s \in Schedule, CleanupTemporal(s)
  PROVE  SInv'
<1>1. TypeOK /\ TypeOK'  BY CallbackStepType DEF SInv, Cleanup
<1>2. /\ s \in doomed /\ doomed' = doomed \ {s}
      /\ UNCHANGED <<workflow, db, callbacks, raced>>
  BY DEF CleanupTemporal
<1>3. workflow # "live"  BY <1>2 DEF SInv, Phases
<1>4. Phases'  BY <1>2, <1>3 DEF SInv, Phases
<1>5. ASSUME NEW q \in Schedule, q \notin failed' \union raced'
      PROVE  Tracked(q)'
  <2>1. Tracked(q)  BY <1>5 DEF CleanupTemporal, SInv
  <2>2. Pending(q)' = Pending(q)  BY <1>2 DEF Pending
  <2>3. CASE q = s
    <3>1. ~ temporal'[s].live /\ s \in cleaned'
      BY <1>1, <1>5, <2>3, AbsentTypes DEF CleanupTemporal, TypeOK
    <3>2. workflow = "deleting" \/ ~ db[s].live
      BY <1>1, <1>3 DEF SInv, Phases, TypeOK
    <3>3. ~ PendingOp(s, "create")
      BY <2>1, <2>3, <3>2 DEF Tracked, GoneIsDeleted, DoomedIsDeleted
    <3>4. QED
      BY <1>2, <1>3, <2>1, <2>2, <2>3, <3>1, <3>3
         DEF Tracked, OnePending, GoneIsDeleted, DoomedIsDeleted, CleanedIsGone,
             RowIsMirrored, PendingOp
  <2>4. CASE q # s
    <3>1. temporal'[q] = temporal[q] /\ (q \in cleaned' <=> q \in cleaned)
      BY <1>1, <2>4 DEF CleanupTemporal, TypeOK
    <3>2. QED  BY <1>2, <2>1, <2>2, <2>4, <3>1, Untouched
  <2>5. QED  BY <2>3, <2>4
<1>6. QED  BY <1>1, <1>4, <1>5 DEF SInv

\* The database deletes the rows with the workflow: the list is empty, so
\* every schedule is gone from Temporal or about to be.
LEMMA CascadeTracked ==
  ASSUME SInv, CascadeRows
  PROVE  SInv'
<1>1. TypeOK /\ TypeOK'  BY CallbackStepType DEF SInv, Cleanup
<1>2. /\ workflow = "deleting" /\ workflow' = "deleted" /\ doomed = {}
      /\ UNCHANGED <<temporal, callbacks, cleaned, failed, raced>>
  BY DEF CascadeRows
<1>3. \A q \in Schedule : ~ db'[q].live  BY AbsentTypes DEF CascadeRows
<1>4. Phases'  BY <1>2, <1>3 DEF Phases
<1>5. ASSUME NEW q \in Schedule, q \notin failed' \union raced'
      PROVE  Tracked(q)'
  <2>1. Tracked(q)  BY <1>2, <1>5 DEF SInv
  <2>2. Pending(q)' = Pending(q)  BY <1>2 DEF Pending
  <2>3. QED
    BY <1>2, <1>3, <2>1, <2>2
       DEF Tracked, OnePending, GoneIsDeleted, DoomedIsDeleted, CleanedIsGone,
           RowIsMirrored, PendingOp
<1>6. QED  BY <1>1, <1>4, <1>5 DEF SInv

\* delete_workflow fails: the rows stay, and what it has not deleted in
\* Temporal is as it was.
LEMMA AbortTracked ==
  ASSUME SInv, DeleteWorkflowAborted
  PROVE  SInv'
<1>1. TypeOK /\ TypeOK'  BY CallbackStepType DEF SInv
<1>2. /\ workflow' = "live" /\ doomed' = {}
      /\ UNCHANGED <<db, temporal, callbacks, cleaned, failed, raced>>
  BY DEF DeleteWorkflowAborted
<1>3. Phases'  BY <1>2 DEF Phases
<1>4. ASSUME NEW q \in Schedule, q \notin failed' \union raced'
      PROVE  Tracked(q)'
  <2>1. Tracked(q)  BY <1>2, <1>4 DEF SInv
  <2>2. Pending(q)' = Pending(q)  BY <1>2 DEF Pending
  <2>3. QED
    BY <1>2, <2>1, <2>2
       DEF Tracked, OnePending, GoneIsDeleted, DoomedIsDeleted, CleanedIsGone, RowIsMirrored,
           PendingOp, PausedAgrees
<1>5. QED  BY <1>1, <1>3, <1>4 DEF SInv

-----------------------------------------------------------------------------
\* A callback concerns one schedule: the invariant holds after it when that
\* schedule is tracked, or has failed.
LEMMA CallbackFrame ==
  ASSUME SInv, NEW c \in callbacks, RunCallback(c),
         c.id \notin failed' \union raced' => Tracked(c.id)'
  PROVE  SInv'
<1>1. TypeOK /\ TypeOK'  BY CallbackStepType DEF SInv
<1>2. /\ callbacks' = callbacks \ {c} /\ UNCHANGED <<workflow, doomed, db, cleaned, raced>>
      /\ failed \subseteq failed'
      /\ \A q \in Schedule : q # c.id => temporal'[q] = temporal[q]
  BY <1>1 DEF RunCallback, RunCreate, RunUpdate, RunDelete, LoseCallback, TypeOK
<1>3. Phases'  BY <1>2 DEF SInv, Phases
<1>4. ASSUME NEW q \in Schedule, q \notin failed' \union raced', q # c.id
      PROVE  Tracked(q)'
  <2>1. Tracked(q)  BY <1>2, <1>4 DEF SInv
  <2>2. Pending(q)' = Pending(q)  BY <1>2, <1>4 DEF Pending
  <2>3. QED  BY <1>2, <1>4, <2>1, <2>2, Untouched
<1>5. QED  BY <1>1, <1>3, <1>4 DEF SInv

\* The callback of a tracked schedule is its only one.
LEMMA LastCallback ==
  ASSUME NEW c \in callbacks, Tracked(c.id), callbacks' = callbacks \ {c}
  PROVE  Pending(c.id) = {c} /\ Pending(c.id)' = {}
BY DEF Tracked, OnePending, Pending

\* A creation that succeeds leaves the schedule as its row says.
LEMMA RunCreateTracked ==
  ASSUME SInv, NEW c \in callbacks, RunCreate(c)
  PROVE  SInv'
<1>1. TypeOK /\ Phases  BY DEF SInv
<1> DEFINE s == c.id
<1>2. s \in Schedule /\ c.params \in ScheduleCreate
  BY <1>1, CallbackType DEF RunCreate
<1>3. ASSUME s \notin failed' \union raced'
      PROVE  Tracked(s)'
  <2>1. Tracked(s)  BY <1>2, <1>3 DEF RunCreate, SInv
  <2>2. Pending(s) = {c} /\ Pending(s)' = {}  BY <2>1, LastCallback DEF RunCreate
  <2>3. PendingOp(s, "create")  BY <2>2 DEF PendingOp, RunCreate
  <2>4. workflow = "live" /\ db[s].live /\ db[s].status = "online"
    BY <1>1, <1>2, <2>1, <2>2, <2>3
       DEF Tracked, GoneIsDeleted, DoomedIsDeleted, CleanedIsGone, RowIsMirrored, TypeOK,
           Phases, RunCreate
  <2>5. temporal'[s].live /\ ~ temporal'[s].paused
    BY <1>1, <1>2, <1>3, BridgeSpecType DEF RunCreate, TypeOK
  <2>6. workflow' = workflow /\ db' = db /\ s \notin cleaned'
    BY <2>1, <2>3 DEF RunCreate, Tracked, CleanedIsGone
  <2>7. QED
    BY <2>2, <2>4, <2>5, <2>6
       DEF Tracked, OnePending, GoneIsDeleted, DoomedIsDeleted, CleanedIsGone, RowIsMirrored,
           PendingOp, PausedAgrees
<1>4. QED  BY <1>3, CallbackFrame DEF RunCallback

\* An update that succeeds leaves the schedule as its row says.
LEMMA RunUpdateTracked ==
  ASSUME SInv, NEW c \in callbacks, RunUpdate(c)
  PROVE  SInv'
<1>1. TypeOK /\ Phases  BY DEF SInv
<1> DEFINE s == c.id
<1>2. s \in Schedule /\ c.params \in ScheduleUpdate
  BY <1>1, CallbackType DEF RunUpdate
<1>3. ASSUME s \notin failed' \union raced'
      PROVE  Tracked(s)'
  <2>1. Tracked(s)  BY <1>2, <1>3 DEF RunUpdate, SInv
  <2>2. Pending(s) = {c} /\ Pending(s)' = {}  BY <2>1, LastCallback DEF RunUpdate
  <2>3. temporal[s].live /\ temporal'[s] = BridgeUpdated(temporal[s], c.params)
    BY <1>1, <1>2, <1>3 DEF RunUpdate, TypeOK
  <2>4. temporal'[s].live
    BY <1>1, <1>2, <2>3, BridgeUpdatedType DEF TypeOK
  <2>5. ~ PendingOp(s, "delete")  BY <2>2 DEF PendingOp, RunUpdate
  <2>6. db[s].live /\ (workflow = "deleting" => s \in doomed)
    BY <2>1, <2>3, <2>5 DEF Tracked, GoneIsDeleted, DoomedIsDeleted
  <2>7. s \notin cleaned /\ PausedAgrees(temporal'[s], db[s])
    BY <2>1, <2>2, <2>3, <2>6 DEF Tracked, CleanedIsGone, RowIsMirrored, RunUpdate
  <2>8. UNCHANGED <<workflow, doomed, db, cleaned>>  BY DEF RunUpdate
  <2>9. OnePending(s)' /\ ~ PendingOp(s, "create")' /\ ~ PendingOp(s, "delete")'
    BY <2>2 DEF OnePending, PendingOp
  <2>10. RowIsMirrored(s)'
    BY <2>2, <2>4, <2>7, <2>8, <2>9 DEF RowIsMirrored, PausedAgrees
  <2>11. QED
    BY <2>6, <2>7, <2>8, <2>9, <2>10
       DEF Tracked, GoneIsDeleted, DoomedIsDeleted, CleanedIsGone
<1>4. QED  BY <1>3, CallbackFrame DEF RunCallback

\* A deletion finds no row, and leaves nothing.
LEMMA RunDeleteTracked ==
  ASSUME SInv, NEW c \in callbacks, RunDelete(c)
  PROVE  SInv'
<1>1. TypeOK  BY DEF SInv
<1> DEFINE s == c.id
<1>2. s \in Schedule  BY <1>1, CallbackType
<1>3. ASSUME s \notin failed' \union raced'
      PROVE  Tracked(s)'
  <2>1. Tracked(s)  BY <1>2, <1>3 DEF RunDelete, SInv
  <2>2. Pending(s) = {c} /\ Pending(s)' = {}  BY <2>1, LastCallback DEF RunDelete
  <2>3. PendingOp(s, "delete")  BY <2>2 DEF PendingOp, RunDelete
  <2>4. ~ db[s].live  BY <2>1, <2>3 DEF Tracked, RowIsMirrored
  <2>5. ~ temporal'[s].live /\ db' = db
    BY <1>1, <1>2, AbsentTypes DEF RunDelete, TypeOK
  <2>6. QED
    BY <2>2, <2>4, <2>5
       DEF Tracked, OnePending, GoneIsDeleted, DoomedIsDeleted, CleanedIsGone,
           RowIsMirrored, PendingOp
<1>4. QED  BY <1>3, CallbackFrame DEF RunCallback

\* A lost callback is a failure of its schedule.
LEMMA LoseTracked ==
  ASSUME SInv, NEW c \in callbacks, LoseCallback(c)
  PROVE  SInv'
<1>1. c.id \in failed'  BY DEF LoseCallback
<1>2. QED  BY <1>1, CallbackFrame DEF RunCallback

-----------------------------------------------------------------------------
\* The initial state has the invariant.
LEMMA InitSInv == Init => SInv
<1> SUFFICES ASSUME Init PROVE SInv
  OBVIOUS
<1>1. TypeOK  BY InitType
<1>2. Phases  BY DEF Init, Phases
<1>3. ASSUME NEW s \in Schedule
      PROVE  Tracked(s)
  <2>1. Pending(s) = {}  BY DEF Init, Pending
  <2>2. QED
    BY <2>1, AbsentTypes
       DEF Init, Tracked, OnePending, GoneIsDeleted, DoomedIsDeleted, CleanedIsGone,
           RowIsMirrored, PendingOp
<1>4. QED  BY <1>1, <1>2, <1>3 DEF SInv

\* Every step keeps the invariant.
LEMMA NextSInv == SInv /\ [Next]_vars => SInv'
<1> SUFFICES ASSUME SInv, [Next]_vars PROVE SInv'
  OBVIOUS
<1>1. CASE Next
  <2>1. CASE Cleanup  BY <2>1, CleanupTracked, CascadeTracked DEF Cleanup
  <2>2. CASE \E c \in callbacks : RunCallback(c)
    BY <2>2, RunCreateTracked, RunUpdateTracked, RunDeleteTracked, LoseTracked
       DEF RunCallback
  <2>3. QED
    BY <1>1, <2>1, <2>2, CreateTracked, UpdateTracked, DeleteTracked, ImportTracked,
       WorkspaceTracked, ListingTracked, AbortTracked DEF Next
<1>2. CASE UNCHANGED vars
  <2>1. TypeOK' /\ Phases'  BY <1>2 DEF vars, SInv, TypeOK, Phases
  <2>2. ASSUME NEW q \in Schedule, q \notin failed' \union raced'
        PROVE  Tracked(q)'
    <3>1. Tracked(q) /\ Pending(q)' = Pending(q)  BY <1>2, <2>2 DEF vars, SInv, Pending
    <3>2. QED  BY <1>2, <3>1, Untouched DEF vars
  <2>3. QED  BY <2>1, <2>2 DEF SInv
<1>3. QED  BY <1>1, <1>2

\* Of a schedule that was neither overtaken nor met by a failed Temporal call
\* at most one change is under way, and the row and the schedule in Temporal
\* differ by exactly that change, or by its deletion by delete_workflow.
THEOREM SchedulesTracked == Spec => []SInv
BY InitSInv, NextSInv, PTL DEF Spec

\* Once its callbacks have run, a schedule that is in Temporal has a row, and a
\* schedule with a row is in Temporal and paused exactly when the row says
\* offline: creates, updates, pulls, deletions of the workflow and of the
\* workspace included, unless a Temporal call failed, two changes of the
\* schedule overlapped or a delete_workflow died before its commit.
THEOREM SchedulesStoresAgree == Spec => []StoresAgree
<1>1. SInv => StoresAgree
  <2> SUFFICES ASSUME SInv, NEW s \in Schedule \ (failed \union raced),
                      Pending(s) = {}, workflow # "deleting"
               PROVE  /\ temporal[s].live => db[s].live
                      /\ db[s].live /\ s \notin cleaned =>
                           /\ temporal[s].live
                           /\ temporal[s].paused <=> db[s].status = "offline"
    BY DEF StoresAgree
  <2>1. Tracked(s)  BY DEF SInv
  <2>2. ~ PendingOp(s, "delete")  BY DEF PendingOp
  <2>3. temporal[s].live => db[s].live  BY <2>1, <2>2 DEF Tracked, GoneIsDeleted
  <2>4. db[s].live /\ s \notin cleaned => temporal[s].live /\ PausedAgrees(temporal[s], db[s])
    BY <2>1 DEF Tracked, RowIsMirrored
  <2>5. QED  BY <2>3, <2>4 DEF PausedAgrees
<1>2. QED  BY <1>1, SchedulesTracked, PTL
=============================================================================
