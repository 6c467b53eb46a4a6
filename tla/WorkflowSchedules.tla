-------------------------- MODULE WorkflowSchedules --------------------------
(***************************************************************************)
(* The schedules of one workflow (allama/workflow/schedules/service.py,    *)
(* bridge.py), kept in two stores: a row in the database and a schedule in *)
(* Temporal, which is the one that starts runs.  A request commits its row *)
(* and registers an after-commit callback that changes Temporal            *)
(* (allama/db/session_events.py).  Callbacks are put on the event loop and *)
(* nobody waits for them: they run in any order, their errors are logged   *)
(* and they are lost with the process.                                     *)
(***************************************************************************)
EXTENDS Integers, FiniteSets

CONSTANTS
  Schedule,   \* schedule ids; a create takes a fresh one
  Creates,    \* the params of create requests that are tried
  Updates,    \* the params of update requests that are tried
  MaxCalls    \* bound: committed requests

VARIABLES
  workflow,   \* "live", "deleting", "deleted"
  doomed,     \* schedules delete_workflow has listed and not yet dealt with
  db,         \* the rows
  temporal,   \* the schedules in Temporal
  callbacks,  \* after-commit callbacks that have not run
  calls,      \* number of committed requests
  cleaned,    \* history: schedules that delete_workflow deleted in Temporal
  failed,     \* history: schedules with a Temporal call that failed or was lost
  raced       \* history: schedules changed while a callback of theirs was
              \* pending, or created while the workflow was being deleted

vars == <<workflow, doomed, db, temporal, callbacks, calls, cleaned, failed, raced>>

(***************************************************************************)
(* A cron expression is absent, empty (accepted by the validators of       *)
(* ScheduleCreate and ScheduleUpdate) or real.  The offset, start_at and   *)
(* end_at are copied like every and are left out.                          *)
(***************************************************************************)
Crons  == {"none", "blank", "cron"}
Everys == {"none", "every"}
Status == {"online", "offline"}

Rows == [live : BOOLEAN, status : Status, cron : Crons, every : Everys]
Temporals == [live : BOOLEAN, paused : BOOLEAN, cron : {"none", "cron"}, every : Everys]

NoRow      == [live |-> FALSE, status |-> "online", cron |-> "none", every |-> "none"]
NoTemporal == [live |-> FALSE, paused |-> FALSE, cron |-> "none", every |-> "none"]

\* ScheduleCreate: cron and every must not both be absent.
ScheduleCreate == {p \in [cron : Crons, every : Everys] :
                     p.cron # "none" \/ p.every # "none"}

\* ScheduleUpdate: the fields of model_dump(exclude_unset=True).
ScheduleUpdate == [status : Status \union {"unset"}, cron : Crons \union {"unset"},
                   every : Everys \union {"unset"}, inputs : BOOLEAN]

ASSUME BoundsAssumption ==
  /\ Creates \subseteq ScheduleCreate
  /\ Updates \subseteq ScheduleUpdate
  /\ MaxCalls \in Nat

Keep(new, old) == IF new = "unset" THEN old ELSE new

-----------------------------------------------------------------------------
(***************************************************************************)
(* Requests.  Each ends with the commit of its transaction and leaves its  *)
(* callbacks behind; a transaction that is rolled back leaves nothing.     *)
(***************************************************************************)
Pending(s) == {c \in callbacks : c.id = s}

\* A fresh id: one without any trace, so that ids can be used again.
Fresh == {s \in Schedule : /\ ~ db[s].live /\ ~ temporal[s].live
                           /\ Pending(s) = {} /\ s \notin doomed
                           /\ s \notin cleaned \union failed \union raced}

Created(p) == [live |-> TRUE, status |-> "online", cron |-> p.cron, every |-> p.every]

\* create_schedule ignores the status of its params: a schedule starts online.
CreateSchedule(s, p) ==
  /\ workflow # "deleted"
  /\ calls < MaxCalls
  /\ s \in Fresh
  /\ db' = [db EXCEPT ![s] = Created(p)]
  /\ callbacks' = callbacks \union {[op |-> "create", id |-> s, n |-> calls, params |-> p]}
  /\ calls' = calls + 1
  /\ raced' = IF workflow = "deleting" THEN raced \union {s} ELSE raced
  /\ UNCHANGED <<workflow, doomed, temporal, cleaned, failed>>

Overtaken(S) == raced \union {s \in S : Pending(s) # {}}

UpdateSchedule(s, p) ==
  /\ calls < MaxCalls
  /\ db[s].live
  /\ db' = [db EXCEPT ![s] = [live |-> TRUE, status |-> Keep(p.status, @.status),
                              cron |-> Keep(p.cron, @.cron),
                              every |-> Keep(p.every, @.every)]]
  /\ callbacks' = callbacks \union {[op |-> "update", id |-> s, n |-> calls, params |-> p]}
  /\ calls' = calls + 1
  /\ raced' = Overtaken({s})
  /\ UNCHANGED <<workflow, doomed, temporal, cleaned, failed>>

\* Mutant: the callback is not registered.
DeleteScheduleRowOnly(s) ==
  /\ calls < MaxCalls
  /\ db[s].live
  /\ db' = [db EXCEPT ![s] = NoRow]
  /\ calls' = calls + 1
  /\ raced' = Overtaken({s})
  /\ UNCHANGED <<workflow, doomed, temporal, callbacks, cleaned, failed>>

\* A row that is not found raises AllamaNotFoundError, which the handler for
\* NoResultFound does not catch: nothing is deleted in Temporal.
DeleteSchedule(s) ==
  /\ calls < MaxCalls
  /\ db[s].live
  /\ db' = [db EXCEPT ![s] = NoRow]
  /\ callbacks' = callbacks \union {[op |-> "delete", id |-> s, n |-> calls]}
  /\ calls' = calls + 1
  /\ raced' = Overtaken({s})
  /\ UNCHANGED <<workflow, doomed, temporal, cleaned, failed>>

(***************************************************************************)
(* A pull of the workflow from its repository replaces all its schedules   *)
(* in one transaction; deleting the workspace removes them the same way.   *)
(***************************************************************************)
Live == {s \in Schedule : db[s].live}

ImportWorkflow(S, p) ==
  /\ workflow # "deleted"
  /\ calls < MaxCalls
  /\ S \subseteq Fresh
  /\ db' = [s \in Schedule |-> IF s \in S THEN Created(p)
                               ELSE IF s \in Live THEN NoRow ELSE db[s]]
  /\ callbacks' = callbacks
       \union {[op |-> "delete", id |-> s, n |-> calls] : s \in Live}
       \union {[op |-> "create", id |-> s, n |-> calls, params |-> p] : s \in S}
  /\ calls' = calls + 1
  /\ raced' = Overtaken(Live) \union (IF workflow = "deleting" THEN S ELSE {})
  /\ UNCHANGED <<workflow, doomed, temporal, cleaned, failed>>

DeleteWorkspace ==
  /\ workflow # "deleted"
  /\ calls < MaxCalls
  /\ workflow' = "deleted"
  /\ db' = [s \in Schedule |-> NoRow]
  /\ callbacks' = callbacks \union {[op |-> "delete", id |-> s, n |-> calls] : s \in Live}
  /\ calls' = calls + 1
  /\ raced' = Overtaken(Live)
  /\ UNCHANGED <<doomed, temporal, cleaned, failed>>

(***************************************************************************)
(* delete_workflow: lists the schedules, deletes them one by one in        *)
(* Temporal, and then deletes the workflow, which takes every row with it, *)
(* those created in the meantime included.                                 *)
(***************************************************************************)
DeleteWorkflow ==
  /\ workflow = "live"
  /\ calls < MaxCalls
  /\ workflow' = "deleting"
  /\ doomed' = Live
  /\ calls' = calls + 1
  /\ raced' = Overtaken(Live)
  /\ UNCHANGED <<db, temporal, callbacks, cleaned, failed>>

\* Mutant: the schedules in Temporal are left to the database's cascade.
CleanupTemporalSkipped(s) ==
  /\ s \in doomed
  /\ doomed' = doomed \ {s}
  /\ UNCHANGED <<workflow, db, temporal, callbacks, calls, cleaned, failed, raced>>

CleanupTemporal(s) ==
  /\ s \in doomed
  /\ doomed' = doomed \ {s}
  /\ \/ /\ temporal' = [temporal EXCEPT ![s] = NoTemporal]
        /\ cleaned' = cleaned \union {s}
        /\ failed' = failed
     \/ failed' = failed \union {s} /\ UNCHANGED <<temporal, cleaned>>
  /\ UNCHANGED <<workflow, db, callbacks, calls, raced>>

CascadeRows ==
  /\ workflow = "deleting"
  /\ doomed = {}
  /\ workflow' = "deleted"
  /\ db' = [s \in Schedule |-> NoRow]
  /\ UNCHANGED <<doomed, temporal, callbacks, calls, cleaned, failed, raced>>

\* The request dies before its commit: the rows stay, also those whose
\* schedules are gone from Temporal.
DeleteWorkflowAborted ==
  /\ workflow = "deleting"
  /\ workflow' = "live"
  /\ doomed' = {}
  /\ UNCHANGED <<db, temporal, callbacks, calls, cleaned, failed, raced>>

-----------------------------------------------------------------------------
(***************************************************************************)
(* Callbacks.                                                              *)
(***************************************************************************)
\* Mutant: a blank expression is taken for one.
BridgeSpecBlank(p) ==
  [live |-> TRUE, paused |-> FALSE, cron |-> p.cron,
   every |-> IF p.cron # "none" THEN "none" ELSE p.every]

\* bridge.create_schedule: the cron expression, or the interval.
BridgeSpec(p) ==
  [live |-> TRUE, paused |-> FALSE,
   cron  |-> IF p.cron = "cron" THEN "cron" ELSE "none",
   every |-> IF p.cron = "cron" THEN "none" ELSE p.every]

RunCreate(c) ==
  /\ c \in callbacks /\ c.op = "create"
  /\ callbacks' = callbacks \ {c}
  /\ IF c.params.cron # "cron" /\ c.params.every = "none"
     THEN failed' = failed \union {c.id} /\ temporal' = temporal
     ELSE temporal' = [temporal EXCEPT ![c.id] = BridgeSpec(c.params)]
          /\ failed' = failed
  /\ UNCHANGED <<workflow, doomed, db, calls, cleaned, raced>>

\* Mutant: switching to an interval keeps the cron expression.
BridgeUpdatedKeepsCron(t, p) ==
  LET cronEnabled == p.cron = "cron"
  IN  [live   |-> TRUE,
       paused |-> IF p.status = "unset" THEN t.paused ELSE p.status # "online",
       cron   |-> IF cronEnabled THEN "cron"
                  ELSE IF p.cron # "unset" THEN "none" ELSE t.cron,
       every  |-> IF cronEnabled THEN "none" ELSE Keep(p.every, t.every)]

\* bridge._update_schedule on the description it is given.
BridgeUpdated(t, p) ==
  LET cronEnabled == p.cron = "cron"
      toInterval  == ~ cronEnabled /\ p.every = "every"
  IN  [live   |-> TRUE,
       paused |-> IF p.status = "unset" THEN t.paused ELSE p.status # "online",
       cron   |-> IF cronEnabled THEN "cron"
                  ELSE IF toInterval \/ p.cron # "unset" THEN "none" ELSE t.cron,
       every  |-> IF cronEnabled THEN "none" ELSE Keep(p.every, t.every)]

\* An update that sets inputs raises in the updater (it takes the payload of
\* the action for its decoded arguments): nothing of it reaches Temporal.
RunUpdate(c) ==
  /\ c \in callbacks /\ c.op = "update"
  /\ callbacks' = callbacks \ {c}
  /\ IF temporal[c.id].live /\ ~ c.params.inputs
     THEN temporal' = [temporal EXCEPT ![c.id] = BridgeUpdated(@, c.params)]
          /\ failed' = failed
     ELSE failed' = failed \union {c.id} /\ temporal' = temporal
  /\ UNCHANGED <<workflow, doomed, db, calls, cleaned, raced>>

\* A schedule that is not there is as good as deleted.
RunDelete(c) ==
  /\ c \in callbacks /\ c.op = "delete"
  /\ callbacks' = callbacks \ {c}
  /\ temporal' = [temporal EXCEPT ![c.id] = NoTemporal]
  /\ UNCHANGED <<workflow, doomed, db, calls, cleaned, failed, raced>>

\* Temporal cannot be reached, or the process ends with the callback pending.
LoseCallback(c) ==
  /\ c \in callbacks
  /\ callbacks' = callbacks \ {c}
  /\ failed' = failed \union {c.id}
  /\ UNCHANGED <<workflow, doomed, db, temporal, calls, cleaned, raced>>

-----------------------------------------------------------------------------
Init ==
  /\ workflow = "live"
  /\ doomed = {}
  /\ db = [s \in Schedule |-> NoRow]
  /\ temporal = [s \in Schedule |-> NoTemporal]
  /\ callbacks = {}
  /\ calls = 0
  /\ cleaned = {}
  /\ failed = {}
  /\ raced = {}

RunCallback(c) == RunCreate(c) \/ RunUpdate(c) \/ RunDelete(c) \/ LoseCallback(c)

Cleanup == CascadeRows \/ \E s \in Schedule : CleanupTemporal(s)

Next ==
  \/ \E s \in Schedule, p \in Creates : CreateSchedule(s, p)
  \/ \E s \in Schedule, p \in Updates : UpdateSchedule(s, p)
  \/ \E s \in Schedule : DeleteSchedule(s)
  \/ \E S \in SUBSET Schedule, p \in Creates : ImportWorkflow(S, p)
  \/ DeleteWorkspace
  \/ DeleteWorkflow
  \/ Cleanup
  \/ DeleteWorkflowAborted
  \/ \E c \in callbacks : RunCallback(c)

Spec == Init /\ [][Next]_vars

\* The event loop runs every callback it was given, and a request that is
\* deleting the workflow goes on with it.
FairSpec ==
  /\ Spec
  /\ \A s \in Schedule : WF_vars(\E c \in Pending(s) : RunCallback(c))
  /\ WF_vars(Cleanup \/ DeleteWorkflowAborted)

-----------------------------------------------------------------------------
(***************************************************************************)
(* Properties.                                                             *)
(***************************************************************************)
Callback ==
  [op : {"create"}, id : Schedule, n : Nat, params : ScheduleCreate]
    \union [op : {"update"}, id : Schedule, n : Nat, params : ScheduleUpdate]
    \union [op : {"delete"}, id : Schedule, n : Nat]

\* The state keeps its shape; no blank cron expression reaches Temporal.
TypeOK ==
  /\ workflow \in {"live", "deleting", "deleted"}
  /\ doomed \subseteq Schedule
  /\ db \in [Schedule -> Rows]
  /\ temporal \in [Schedule -> Temporals]
  /\ callbacks \subseteq Callback
  /\ calls \in 0 .. MaxCalls
  /\ cleaned \subseteq Schedule
  /\ failed \subseteq Schedule
  /\ raced \subseteq Schedule

(***************************************************************************)
(* service.py, bridge.py, management.py, delete_workflow: whatever         *)
(* sequence of creates, updates, imports and deletions was committed, once *)
(* its callbacks have run a schedule that is in Temporal has a row, and a  *)
(* schedule with a row is in Temporal and paused exactly when the row says *)
(* offline.  Three things can part the stores, and nothing else does: a    *)
(* Temporal call of the schedule that failed or was lost, two changes of   *)
(* the schedule that overlapped, and a delete_workflow that deleted the    *)
(* schedule in Temporal and died before its commit: its row then stays     *)
(* online and never fires.                                                 *)
(***************************************************************************)
StoresAgree ==
  \A s \in Schedule \ (failed \union raced) :
    Pending(s) = {} /\ workflow # "deleting" =>
      /\ temporal[s].live => db[s].live
      /\ db[s].live /\ s \notin cleaned =>
           temporal[s].live /\ (temporal[s].paused <=> db[s].status = "offline")

\* A schedule never fires both by a cron expression and by an interval (the
\* comment in bridge.update_schedule on double-triggering), through every
\* order of creates and updates, late and overtaking callbacks included.
NoDoubleTrigger ==
  \A s \in Schedule : temporal[s].cron = "none" \/ temporal[s].every = "none"

\* A schedule whose row is gone stops firing, unless a Temporal call failed,
\* the deletion overtook an earlier change, or the schedule was created while
\* delete_workflow was running: its row goes with the workflow, and nobody
\* deletes it in Temporal.
DeletedSchedulesStop ==
  \A s \in Schedule :
    ~ db[s].live ~> (~ temporal[s].live \/ s \in failed \union raced \/ db[s].live)
=============================================================================
