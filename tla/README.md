# Allama: a TLA+ verification project

Allama is a workflow automation platform. A workflow is a graph of actions,
written in a YAML DSL; a run of it is a Temporal workflow (`DSLWorkflow`) whose
control flow is decided by a scheduler (`DSLScheduler`), and whose actions run
as activities on executor workers, each of which keeps a pool of warm worker
processes (`WorkerPool`). Around that core, workflows are started by schedules,
wait for people (interactions), and run agents whose tool calls may need an
approval and whose output is streamed to a chat. This directory models these
parts, checks them with TLC on small instances and proves the safety invariants
of all of them with TLAPS for every instance, those of the scheduler with scatters
under hypotheses on the workflow that section 4 names.

## 1. The system

| Component | State it keeps | Operations | What makes it hard |
|---|---|---|---|
| DSL scheduler (`allama/dsl/scheduler.py`) | queue, indegrees, edge markers, completed tasks, exceptions, streams, open streams, gather results | `start`, `_schedule_task` and its handlers for success, error, skip, scatter, gather | one coroutine per task, all mutating the same tables between awaits; joins, skip propagation, nested streams, a barrier |
| DSL validation (`allama/dsl/common.py`) | none | `validate_structure`: entry points, scopes of scatters, edges | which graphs the scheduler may be given |
| DSL workflow (`allama/dsl/workflow.py`) | execution context, interaction states, error-handler state | set-up, execute a task, timers, child workflows, return, error handler | failures of every activity, batches of child workflows, cancellation |
| Interactions (`allama_ee/interactions`) | state in the workflow, row in the database | prepare, wait, respond, record | a response racing the task it answers |
| Executor worker pool (`allama/executor/backends/pool/pool.py`) | list of workers, tasks per worker, recycling flags, waiting count | start, execute, release, recycle, shutdown | cancellation at every await, recycling outside the lock, process crashes, failed respawns |
| Agent approvals (`allama_ee/agent`, `allama/agent/session`) | approval rows, the manager's state, the session's history and current run | request, record, submit, apply, execute, rewrite the history | updates that arrive at any time, runs that share a session, crashes between effects |
| Agent streams (`allama/agent/executor`, `allama/agent/stream`) | a Redis stream and a cursor per session, a process per turn | spawn, forward, end marker, read, reconnect | three processes that end in any order, several readers of one cursor |
| Schedules (`allama/workflow/schedules`) | rows and Temporal schedules | create, update, delete, import, cascade | two stores, and callbacks nobody waits for |
| Pool worker process, action runners | a thread pool behind a socket; caches | serve one task | isolation of tasks |
| Registry, cases, tables, secrets, storage, webhooks, expressions, API, UI | database rows | CRUD, evaluation | transactions of the database |

How they interact. The workflow builds the scheduler and awaits `start()`; the
scheduler calls back `execute_task` for every ready action, which awaits an
activity, child workflows, an agent workflow or an interaction; the activity
reaches an executor, whose backend calls `WorkerPool.execute`. Results come back
as return values of what was awaited, so the scheduler sees only "answers" and
"failures" at its suspension points. The pool is shared by all activities of an
executor process. Responses and approval decisions reach a running workflow as
Temporal updates, at any time between two of its steps.

Correctness, component by component:

- scheduler: every dependency is counted once; a task starts at most once and
  only when all its dependencies are decided; no join is stranded; a gather is a
  barrier over all streams of its scatter; no stream's error is lost; the run
  ends, and does not end as a success when a raising gather saw an error;
- workflow run: every child workflow's result lands at its own index, a failed
  batch is the last one, the error handler runs after everything has ended, the
  run closes;
- interactions: what the task returns is a response that came after it began to
  wait, and the row says so;
- pool: a worker's load is exact and bounded; a worker is recycled by one
  request and never with a task on it; the number of waiting requests is exact;
  no worker is lost and no process outlives the pool; a request ends unless its
  own worker stops reading; for its callers it is a pool of slots;
- approvals: a tool runs only when this call was approved, and once; rows and
  history say what was done; decisions reach the run and end its wait;
- streams: one end marker per turn; the result of a turn and what its readers are
  told before the end marker agree; the cursor skips nothing; the response ends;
- schedules: the two stores agree when nothing is pending; never two triggers; a
  deleted schedule stops.

`PROJECT.json` lists the hazards behind these properties, each at its line.

## 2. Modules

| Module | Models | Notes |
|---|---|---|
| `DSLScheduler` | `scheduler.py` and what it uses of `schemas.py`, `common.py`, `concurrency.py`, `action.py`, `workflow.py` | the scheduler of one run, for any set of workflows |
| `DSLValidation` | `common.py` | which workflows are accepted; used by `MCDSLScheduler` |
| `MCDSLScheduler` | | the workflows of the runs, all of them accepted by the validator (an ASSUME) |
| `DSLScheduler_proofs` | | type correctness, the accounting of dependencies, and that no join is stranded |
| `ScatterScopes_proofs` | | the same accounting in the streams of scatters, and the barrier of a gather |
| `ScatterErrors_proofs` | | every stream is closed, its error is gathered, and a gather that raises fails the run |
| `WorkflowRun`, `MCWorkflowRun` | `dsl/workflow.py`, `allama_ee/interactions` | one run from set-up to close |
| `WorkflowRun_proofs` | | phases, loop, error handler, interaction |
| `WorkerPool`, `MCWorkerPool` | `pool.py` | any number of requests, workers, slots |
| `SlotPool` | | abstract specification: slots granted and given back |
| `WorkerPool_proofs` | | the pool's inductive invariant, the refinement of `SlotPool`, and what the pool can lose |
| `AgentApprovals`, `MCAgentApprovals` | `durable.py`, `approvals/service.py`, `session/service.py`, the approved-tools activity | the approval protocol of one session |
| `AgentApprovals_proofs` | | routing, rounds and history of approvals |
| `AgentStream`, `MCAgentStream` | `executor/activity.py`, `executor/loopback.py`, `stream/connector.py`, `session/router.py` | the event stream of one session |
| `AgentStream_proofs` | | cursor, end marker and result of a turn |
| `WorkflowSchedules`, `MCWorkflowSchedules` | `schedules/service.py`, `bridge.py`, `db/session_events.py`, the deletions and the import | the schedules of one workflow |
| `WorkflowSchedules_proofs` | | the two stores |

### DSLScheduler

A workflow is a record: references, dependencies (a reference and an edge type),
kind (`action`, `scatter`, `gather`), join strategy, and what the environment
may do to it (`runIf`, `mayFail` after a suspension, `mayFailSync` before the
first one). A task is a reference and a stream; a stream is the path of
(scatter, index) pairs from the root, index -1 being a skip stream. The root
`"<root>:0"` is the empty path.

The variables are the fields of the class. `edges` and `indegrees` are partial
functions, as the dicts are; a missing edge reads as PENDING. `pending` is the
set of running coroutines of `start()` together with the await each is suspended
at, and `loop` is where `start()` itself is. `results` keeps of the action
results only the gather slots: unset, item or error. Results of ordinary
actions, contexts and storage keys are left out; the properties do not tell them
apart.

All coroutines share one event loop, so a step is what one coroutine does
between two awaits:

| Action | Code |
|---|---|
| `ScheduleTask` | `_schedule_task` from its start to the first await: force-skip, reachability, `run_if` |
| `RunIfResolved`, `ExecuteResolved`, `ActivityFails` | the awaited activity answers or fails |
| `ScatterInputResolved`, `ScatterNext` | `_handle_scatter`: evaluation of the collection, then one turn of the cooperative loop per item |
| `GatherItemResolved`, `FinalizeGatherResolved`, `NoopGatherResolved`, `FinalizeEmptyResolved` | the awaits of `_handle_gather` and `_handle_gather_result` |
| `StartQueued`, `AllTasksCompleted`, `StopOnException`, `Cancelled`, `ReturnExceptions` | the loop of `start()` and its cancellation of what is still running |

`_queue_tasks` is the operator `QueueTasks`; it never suspends, because the queue
is unbounded. `Resolvable` stands for a fact about Temporal: answers of
activities are delivered between activations, and the scatter loop runs within
one, so nothing a stream has started can be answered before the loop ends. What
fails without suspending can run during the loop, which is the subject of one of
the violation runs. A collection of two items stands there for one that is long
enough for a stream to get through its body while the loop yields.

### DSLValidation

`validate_structure` as a predicate on the same records: there is an entry point,
there are no more gathers than scatters, and, when there are scatters, the graph
is acyclic, no gather is in the root scope and every edge stays in its scope or
crosses it at a scatter or a gather. References and dependencies are sets in the
records, so duplicates cannot be expressed; expressions that mention other
actions are left out. The module shows what the validator lets through as well:
a cycle when there is no scatter, two gathers in one scope, a branch that ends
inside a scope. The scatter run takes every accepted workflow on four actions
except the last two kinds, about which the properties do not hold.

### WorkflowRun

`pc` is the await of `run()`, `sub` and `ask` those of two independent tasks, one
that executes a child workflow (alone or in a loop) and one that is interactive.
The order in which the tasks of a graph run is `DSLScheduler`'s subject; here the
two are ready at once, a failure of one makes the scheduler cancel the other and
wait for it, and the interactive task has no timers. A subflow task that is cancelled
in its timers ends as cancelled (in a sleep) or as failed (while the activity that parses
`wait_until` runs). `conf` ranges over all loop,
fail and wait strategies. `retry_until`, the contents of results and the contexts
are left out.

- Set-up: only the failure to normalise the trigger inputs becomes an application
  error, for which the error handler runs; the errors of the other activities
  close the run. A cancellation by a user that arrives while the inputs are
  normalised or the return value is evaluated is converted into an application
  error too and so runs the error handler.
- Loop: `LoopWidth`, `CurrentBatchSize`, `StartBatch`, `EndBatch` are the loop over
  batches. A `batch_size` of at least one is assumed: the code does not check it,
  and with zero the loop would start empty batches for ever.
- Interaction: `HandleInteraction` is the update handler, which accepts a response
  whenever the interaction has a state. `RunAction` overwrites an early response
  with PENDING, and the decorator passes no timeout to `wait_for_response`, so that
  TIMED_OUT is unreachable. `row` follows the database with every update that may
  fail; an attempt of an activity that timed out writes nothing later.
- Close: Temporal terminates the children that run under the default parent close
  policy; detached ones go on.

### WorkerPool and SlotPool

A request is an `execute()` call; `pc` is the await it is suspended at and `on`
the worker it holds or recycles. Code under `_lock` does not suspend, so a
critical section is one step and a cancellation can arrive only at a program
counter: while waiting (`StopWaiting`), while the task runs (`Release`, since the
`finally` block releases whatever happened) and inside the recycle
(`CancelRecycle`). A `Worker` is a `WorkerInfo` object with its process;
`Worker` bounds how many are ever created, and at the bound a respawn can only
fail. `lost` is a history variable: workers whose process crashed or whose
recycle was cancelled, and the replacements of the latter. Metrics, logging and
the round-robin index are left out: any worker of minimal load may be taken.
A task is what the host sees of it: after its timeout on the host it may go on in the
worker process, where `WithinCapacity` does not count it.

`SlotPool` is what a caller relies on: a slot is granted below the limit on a
worker nobody retired, given back once, and a worker is retired only by the
request that leaves it idle. The refinement mapping reads a running request as
holding a slot, a recycling one as ended, and the flagged workers as retired.

### WorkflowSchedules

`db` and `temporal` are the two stores, `callbacks` the after-commit callbacks
that have not run. A request is one step, its commit; a callback runs later, in any
order, fails or is lost with the process. `delete_workflow` is not a callback: it
lists, deletes in Temporal one by one and then lets the cascade remove the rows,
with other requests in between; when it dies before its commit (`DeleteWorkflowAborted`)
the rows stay. Three history variables record what can part the stores: `failed` the
schedules with a Temporal call that failed or was lost, `raced` those with overlapping
changes (a schedule created while its workflow is being deleted among them), and `cleaned`
those that `delete_workflow` has deleted in Temporal. A cron expression is absent, empty (the
validators accept the empty string and refuse other blanks) or real; offsets and
dates are copied like the interval and are left out. Temporal's description of a
schedule is assumed to return cron expressions as they were given.

### AgentApprovals

One session, with the run that a DSL workflow starts and runs that chat messages
start; nothing in the code keeps them apart. `approvals`, `ready` and `expected` are
the fields of the `ApprovalManager` of each run, `rows` the approval table,
`history` the persisted lines: tool uses, their error results, the text of an
interruption and the results of a round. It is a function from surrogate ids to
lines, because rows are deleted from the middle and new ones get the next id
(`lastId` is the newest). Submissions go to the run that the
session row names when the endpoint reads it, arrive later or never, and are
validated on arrival. Every workflow step that writes is an activity that is not
retried or is idempotent; `Fail` ends a run anywhere between them. A late attempt of the
retried `record_approval_requests` is not modelled.

The handler persists each session line in its own transaction: `RequestApproval` writes
the line of a denied tool_use and `PersistError`, later, the line of its error result.
`unanswered` holds the calls between the two. The runtime is taken to send the lines it
still has before it reports done, so that the activity of a run which goes on has
persisted both; a run that fails leaves its tool_use unanswered.

### AgentStream

Per turn an activity (`exec`), the runtime process (`proc`) and the loopback
handler (`handler`); per session the stream, the cursor and the readers. The handler
follows `handle_connection`: `opening` (no `_stream` yet), `connected` (the read loop),
`breaking` (a branch that emits the end marker before it leaves the loop), `finally` and
`closed`. `_emit_stream_done` is called before the break of the branches for done and for
errors, and again in the `finally` block; a closed connection and an exception reach only
the second call. The flag `_stream_done_emitted` (`marked`) is what makes it one marker, and
it is set before the write. A call of Redis may fail: without a `_stream` nothing is written,
an error event or an end marker that cannot be written is given up (`faulty`). What has not
been read from the connection of a process that is gone can still be read.

`"$"` is resolved at every read, as Redis does. A batch is all there is to read: the limit
of 100 messages is never reached. Left out: the trimming of the stream to about 10000
events (`maxlen`), which the streams of the model do not reach; and the retry in `xadd` of a
write that Redis had executed (or of an `expire` that failed after it), which writes the
event, an end marker too, a second time.

## 3. Runs

| Run | Bounds | What it shows |
|---|---|---|
| `scheduler_graphs` | all acyclic graphs on three actions and all diamonds on four with every mix of success and error edges, both join strategies and `run_if`; one scatter of two items in which anything may fail or be skipped | dependencies are counted once, a task runs once and when it is ready, no join is stranded |
| `scheduler_scatter` | a scatter beside another branch with raising and collecting gathers, a scatter inside a scatter, and every accepted workflow on a scatter, its gather and two actions along one branch; two items | barrier, closing of streams, gathering of errors, termination |
| `pool` | three requests, four `WorkerInfo` objects, two workers of two slots that are recycled after every task, with crashes, failed respawns and cancellations | counters, capacity, exclusive recycling, no lost worker or process but by a crash or a cancelled recycle, refinement of `SlotPool`, every request ends unless its worker stops reading |
| `workflow_run` | three items, batches of two, two responses | loop results, error handler, interaction row, the run closes |
| `schedules` | two schedules, three committed requests out of five kinds of create, seven of update, delete, import, and both deletions of everything | the stores agree, no double trigger, deleted schedules stop |
| `agent_approvals` | two runs, two tool calls, three submissions | decisions honoured, tools run once, rows and history right, decisions reach the run and end its wait |
| `agent_stream` | one turn after an earlier one or none, its response and a GET, one event beside errors and markers | end marker, result and stream agree, the cursor skips nothing, the response ends |

Five runs are expected to be violated; each states what a comment or docstring of
the repository says:

| Run | What happens |
|---|---|
| `scheduler_two_branch_gather` | a gather with join strategy `all` and one skipped branch is unreachable; its stream is never closed |
| `scheduler_skipped_scatter` | a join after the gather of a skipped scatter never runs |
| `scheduler_sync_failing_body` | a gather looks its scatter up before the scatter has entered it |
| `scheduler_inner_scatter_fails` | an inner gather closes the outer stream with the error in its own slots; the outer gather is finalized by the last stream, with an unset slot and no error, and the run succeeds although every gather raises |
| `pool_cancelled_recycle` | a cancelled recycle leaves a worker flagged and unused for ever |

Several properties are as strong as the code allows and say where it stops:

- `StoresAgree` excepts schedules with a failed or lost Temporal call, with overlapping
  changes, and those that an aborted `delete_workflow` has deleted in Temporal, whose rows
  stay online and never fire; `DeletedSchedulesStop` has the first two exceptions, a schedule
  created while its workflow is being deleted among the second;
- `ApprovalsReachRun` holds for the run a DSL workflow started and not for chat runs, whose
  `curr_run_id` is overwritten. It excepts a session whose newest chat turn is starting or
  failed before its first activity: `run_turn` commits `curr_run_id` before it starts the
  workflow, so after a failed start the session names a run that does not exist until another
  turn starts;
- `HistoryAnswered` excepts the tool_use of a run that failed between its two lines;
- `RecordsAgree` excepts calls decided anew while their decision was being applied;
- `ResultMatchesStream` excepts turns that were never spawned, which tell the stream nothing,
  and turns whose runtime had reported done when the activity saw the process exit, a fatal
  error or the timeout: their readers may be told of a success and the workflow of a failure;
- `ResponseEnds` needs a reader that does not read from `"$"`, and a handler that has left its
  loop or a connected runtime that is gone or has a fatal error. A runtime that hangs with
  its connection open is outside: the activity times out and writes an error event, then
  waits in the exit of its server for the connection, and does not reach `_cleanup`;
- `RequestsEnd` excepts a request whose own worker stops reading;
- `RunEnds` excepts a run whose interactive task waits and got no response since it began to.

Bounds. Two items per scatter are enough for streams to interleave and for
"not the last one to close" to happen; two levels of nesting are enough for a
stream to have a parent that is itself a stream. Three requests on two workers
that are recycled after one task make requests wait while one worker is recycled
and the other is busy; four `WorkerInfo` objects allow both workers to be replaced
once, and a failing respawn after that. Three items in batches of two end with a
short batch; two responses are one before and one during the wait, or two during
the recording. Two tool calls are two requests in one turn, or one round after
another, or one for each run. Three requests on a schedule are a create, a change
and a deletion, whose callbacks can overtake one another. Two turns of a stream
are beyond five minutes of TLC; the earlier turn that is in the stream at the
start, with the cursor anywhere, takes the place of the first one.

Fairness. `scheduler_scatter` and `workflow_run` assume that some enabled step is
eventually taken: activities have a start-to-close timeout and bounded attempts,
children are workflows that end, and the event loop runs every ready callback;
nobody has to respond, cancel or terminate. `pool` assumes weak fairness of each
request's own steps except the release of a running task: the slot poll has a 30 s
deadline, the termination 5 s before SIGKILL and the spawn its startup timeout. A running
task has no such bound: of its suspensions the connection and the response have timeouts, but
`drain()` (`pool.py:1104`) and `wait_closed()` (`pool.py:1205`) have none, so a worker that
does not read can hold it for ever. Fairness of `RequestStep` as a whole does not force a
request to acquire a slot that others keep taking, or never give back; it ends by the
deadline then. `schedules` assumes that the event loop
runs (or loses) every callback and that a request that deletes a workflow goes on
or dies. `agent_approvals` assumes that Temporal schedules a workflow that can take
a step; nobody has to submit a decision. `agent_stream` assumes that the activity and
the handler take the steps that are theirs alone, that a call of Redis returns or raises,
that a reader with something to read goes on, and that the connection of a process that is
gone gets closed. Nothing is assumed of a runtime that runs: it may send nothing and never
end. Connecting, timeouts, crashes and disconnections are not assumed either.

Every property has a mutant, a plausible bug of a modelled function, that TLC
finds under the same configuration.

## 4. Proofs

`SchedulerTypeCorrect`: `Spec => []TypeOK` for every set of workflows, with
scatters, nesting, cycles and all failures. TypeOK alone is not inductive: the
scatter loop numbers its streams with the length of the list in `task_streams`,
so the invariant also says that a coroutine inside the loop has its entry there
(`ScatterTracked`).

`GraphAccounting`: for workflows without scatters, of any size and shape,
`IndegreeExact`, `ReadyMeansDecided` and `RunsOnce` always hold. The heart is
`QueueTasksExact`, stated for tasks of any stream: if none of a task's outgoing
edges was decided before, `_queue_tasks` lowers every successor's indegree by
exactly the number of edges that it decides, and enqueues the successors whose
last dependency that was. The strengthening is what makes the premise true: an
edge is decided only when its source has completed, and a running task has not.

`PoolInvariant` and its corollaries `PoolTypeCorrect`, `PoolCountersExact`,
`PoolWithinCapacity`, `PoolRecycleExclusive`: for any number of requests and
workers, any limits, with crashes and cancellations. The invariant adds that a
flagged worker is idle and that a recycler has flagged its worker: hence the
second, forced release of a cancelled recycle meets a counter that is already
zero and is absorbed by the clamp, and no acquisition can reach a worker while
it is terminated.

`PoolImplementsSlots`: `Spec => Slots!Spec` under the same assumptions. Initial
states map to initial states, and each action maps to an action of `SlotPool` or
to a stutter: `Acquire` to `Grant`, `Wait` to `Queue`, `StopWaiting` and `Refuse` to
`TurnAway`, `Release` to `GiveBack` (which retires the worker when the recycle is
decided), and everything inside a recycle to a stutter, because the flag is never
taken back. It needs the pool's invariant: the code compares a counter with the
limit, and only `ActiveExact` makes that the number of users.

`PoolRecyclingHasOwner` and `PoolNoOrphanProcess` rest on a second invariant,
`LossInv`, which follows every process: it is in the list, awaited by the recycler
that started it, or lost by a crash or a cancelled recycle; two recyclers never
await the same replacement, and a closed pool has no busy request.

`GraphNoStrandedJoin`: in an acyclic workflow without scatters every action has run
or was skipped when `start()` returns without exceptions. `LiveInv` says that there
are only tasks of the root stream and that nothing gets lost: as long as no exception
is recorded, a completed task has decided all its outgoing edges, and a task whose
incoming edges are all decided is queued, running or completed. The argument over the graph needs no induction: of the actions that have not
completed, one depends on none of the others (`WellFoundedDeps`), so all its edges
are decided, and it cannot be missing when queue and coroutines are empty.

`ScatterScopes_proofs`: `IndegreeExact`, `ReadyMeansDecided`, `RunsOnce` and
`GatherBarrier` for workflows with scatters, for any nesting and any number of streams,
under the hypothesis `Scoped`. It says that every action has a scope, the scatter whose
streams it runs in, as `validate_structure` assigns it; that dependencies have no cycle; and
three things the validator does not ask for: a scope has at most one gather, a scatter or
gather with several dependencies joins them with `any`, and only actions fail, after a
suspension. Without the last two the code strays from its comments (the runs
`scheduler_two_branch_gather`, `scheduler_sync_failing_body` and
`scheduler_inner_scatter_fails`). Actions may still fail, be skipped by their conditions or
by their dependencies, scatters may be empty or skipped, and gathers may raise. Of the 27
workflows of `scheduler_scatter` 23 satisfy the hypothesis, and so does that of
`scheduler_skipped_scatter`. Invariant and argument (`ScopeInv`):

- the edges of a task are decided by one of three: the task itself when it ends, its scatter
  for the entries of a stream, or the gather of another stream that finalises it.
  `SourcesSpent` says that each leaves a trace (a completed task, a stream below, a scatter
  whose open streams are zero), `OwnUndecided` and `ClosersUnique` that the one who is about
  to decide them is the only one. That is the premise of `QueueTasksExact`;
- `Placed` says that a task runs in a stream of its scope. The exception is the skip stream of
  a scatter that was itself skipped, which no gather closes; in skip streams everything is
  skipped (`SkipsSkip`), so that nothing starts there;
- `OpenCounts`: the streams of a scatter whose gather has not ended are no more than
  `open_streams`. When the counter is zero there are none, which is the barrier. The counter
  may be larger: a gather that is cancelled while it evaluates its item has ended, and has not
  closed its stream.

`ScatterErrors_proofs`: what becomes of the streams of a scatter, for any number of streams.
Both hypotheses add to `Scoped` that a scope has no dead ends (`NoDeadEnds`): every scatter
has a gather, and every branch of its scope leads to it. The validator also accepts a branch
that ends inside the scope, and nobody gathers the errors of such a branch. Then

- `Gathered` asks that the branches of a scope exclude each other (`OneBranch`): an action is
  followed by one action on success and one on error, a scatter or an inner gather by one.
  With two branches at a time that an `any` gather joins, the item of one branch can
  overwrite the error of the other;
- `Closable` asks that an inner scatter is not skipped in an execution stream
  (`InnerScattersRun`): it has no `run_if`, it comes right after a scatter or a gather, and
  it contains no third scatter. A skipped scatter sends its gather into a skip stream that
  nobody closes, what follows that gather never runs, and the outer stream stays open: this
  is the behaviour that `scheduler_skipped_scatter` shows for a scatter of the root.

Each of the 23 scoped workflows of `scheduler_scatter`, with the nested one, satisfies both.
The outermost scatter may be skipped or empty; actions fail, are skipped and have error
handlers.

`GatheredStreamErrors`: `_handle_error_path` records the error of a stream and skips what
depends on the failed action; the gather, which another coroutine runs later, finds the error
and puts it into the stream's slot. What has to be shown is that the gather of a failed stream
is skipped, so that it does not write an item instead, and that no later write reaches the
slot. The invariant follows a token (`TokensUnique`): in an execution stream one task at a
time has been reached and not ended, or is a scatter whose streams are not yet gathered. An
action hands the token on or, when it is skipped or fails without a handler, loses it; a
stream that has failed has none (`FailedIdle`), so nothing in it is reachable any more. `SlotsHold` says that the
slot of a failed stream holds its error from when its gather has closed it, as long as
somebody may still finalize the gather.

`ClosableStreamsClosed`: `NothingLost` is `LiveInv` for streams. As long as no exception is
recorded, whoever has ended has decided its edges, an action itself, a scatter in the streams
it made, the last gather of a scatter in the parent stream; what is ready runs; and
`open_streams` is no more than the number of unclosed streams (`OpenExact`, the converse of
`OpenCounts`). Suppose `start()` has returned and a stream is open. Of the scatters with open
streams take one of highest rank, so that inner scatters are gathered, and in one of its
unclosed streams the action of lowest rank that has not completed. All it depends on has
decided, so it is queued, running or completed, which it cannot be.

`RaisedErrorsFail` puts both together: a stream that failed is closed, so its slot holds the
error; the counter of its scatter is zero, and `Raises` says that the gather of an error slot
that raises is then being finalized or has recorded its exception.

`WorkflowSchedules_proofs`: `SchedulesFireOnce` needs that no create or update callback
carries two triggers. `SchedulesStoresAgree` rests on `SInv`: of a schedule that is
neither in `failed` nor in `raced` at most one change is under way, and `Tracked`
says for each kind of change what the two stores look like before it; a schedule in
`cleaned` is gone from Temporal for good (`CleanedIsGone`), whether or not its row goes
too. This is why exactly these three exceptions are in the property.

`AgentApprovals_proofs`: `ApprovalsAreRouted` needs only that the session names a chat
run while that run is starting, or failed there, and no longer (`CurrNamed`); these are
the exceptions of the property. The
other theorems rest on `RoundInv`: a round has one call, a later request replacing an
earlier one, and no two runs share it (`CallsOwned`); what the manager of a round holds
was accepted for this call (`RoundOpen`), and the tools to be run, their rows and their
executions agree with it (`ToolsAgree`); what the history tells of a call follows from
decisions that were accepted (`ResultTold`, `CallTold`). `HistoryInv` adds where things
are in the history: a call has one tool_use and one answer behind it, the error result
or the line of its round, or it is in `unanswered` of its run and has none (`UsesAnswered`,
`LinesOwed`), and the interruption of a round is behind
the round's tool_use (`InterruptsPlaced`), so that the rewrite of a run deletes its own
interruption and leaves the uses and answers of other runs.

`WorkflowRun_proofs`: `RunInv` orders the phases and ties the loop's counters to them;
`LoopInv` adds that waited children run only in a batch, with which `EndBatch` puts
results exactly at the indices of its batch; `HandlerInv` adds that nothing but the
set-up's own errors ends a set-up; `AskInv` adds that a response which completes a
waiting task arrived after the early ones, which were overwritten, and that the row
follows the task step by step.

`AgentStream_proofs`: the cursor is behind the events because everything up to the
position of each response, and up to where a blocked read started, is covered
(`CursorInv`); `"$"` moves that start forward, which is the exception in the property.
For the end marker, `TurnInv` relates, stage by stage, the activity, the runtime and
the handler of a turn with what the turn has put into the stream: the flag is set exactly
when the marker was written, so the second call site adds none and, when the first was not
passed, does write it; and an error of the handler is in the stream before the flag is.

Assumptions: workflows are well-formed records over finite sets of references
(`WorkflowsAssumption`), bounds are natural numbers (`BoundsAssumption`), requests are
finitely many, and `batch_size` is at least one (`LoopAssumption`, see `WorkflowRun`
above). The theorems on graphs name their hypotheses: `ScatterFree`, and
`WellFoundedDeps` for the last one; the workflows of `scheduler_graphs` include many that
satisfy both. Those on streams have `Scoped`, `Gathered` and `Closable`.

Only model-checked: all liveness (`Termination`, `RequestsEnd`, `RunEnds`,
`DeletedSchedulesStop`, `DecisionNotLost`, `ResponseEnds`), which is out of the
prover's reach; and `NoStrandedJoin` in workflows with scatters, where a join behind a
skipped scatter is the exception (`scheduler_skipped_scatter`).

## 5. Not modelled, and the plan

Left out for good: expressions, storage, registry synchronisation, CRUD
services, authentication, webhooks, the API and the user interface, which are most
of the repository's lines; they have no concurrency of their own beyond the
transactions of the database. The same holds for session CRUD, forks and message
adapters of the agents. The pool worker process and the action runners are
sequential for one task; the tarball cache of the runners is guarded by a lock per key.
`retry_until`, the contents of results and the evaluation of a gather's items are
left out because results are.

Left to prove: what holds of the streams of workflows that are scoped but not `Gathered` or
`Closable`, where errors may be overwritten and streams stay open; there the properties have to
name the branches and the skipped scatters they except.
