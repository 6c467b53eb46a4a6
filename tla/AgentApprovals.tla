--------------------------- MODULE AgentApprovals ---------------------------
(***************************************************************************)
(* Tool approvals of an agent session.  A DurableAgentWorkflow             *)
(* (allama_ee/agent/workflows/durable.py) runs the agent until it asks for *)
(* an approval, records the request, waits for the decisions, records      *)
(* them, executes or refuses the tools, rewrites the session's history and *)
(* runs the agent again.  Decisions are submitted through the session row, *)
(* which names the workflow they are sent to.                              *)
(*                                                                         *)
(* One session.  A run is named by its workflow id: the run that a DSL     *)
(* workflow starts has the id of the session, a run that a chat message    *)
(* starts has an id of its own, and nothing keeps the runs apart.          *)
(***************************************************************************)
EXTENDS Integers, Sequences, FiniteSets

CONSTANTS
  ChatRun,         \* runs started by run_turn
  MaxCalls,        \* bound: tool calls that need an approval
  MaxSubmissions   \* bound: submissions of decisions

ASSUME BoundsAssumption ==
  /\ "session" \notin ChatRun /\ "none" \notin ChatRun
  /\ MaxCalls \in Nat
  /\ MaxSubmissions \in Nat

Run  == ChatRun \union {"session"}
Call == 1 .. MaxCalls
Decision == {"approve", "deny"}
Decisions == UNION {[S -> Decision] : S \in SUBSET Call}

VARIABLES
  curr,       \* the session's curr_run_id, "none" before there is a row
  pc,         \* where each run is
  items,      \* per run: approval_items of the agent activity
  unanswered, \* per run: calls whose tool_use is persisted, and no answer yet
  approvals,  \* per run: _approvals of its ApprovalManager
  ready,      \* per run: the manager's status is READY
  expected,   \* per run: the keys of _expected_tool_calls
  decided,    \* per run: the decisions given to apply_approval_decisions
  approved,   \* per run: the approved tools given to the executing activity
  todo,       \* per run: approved tools not executed yet
  calls,      \* number of tool calls that asked for an approval
  rows,       \* the approval rows
  history,    \* the session's history: its rows by surrogate id
  lastId,     \* the surrogate id of the newest row
  inbox,      \* submissions on their way to a workflow
  submitted,  \* number of submissions
  executed,   \* history: how often each tool was executed
  accepted,   \* history: the decisions accepted for each call
  changed     \* history: calls decided anew after their decision was read

mvars == <<approvals, ready, expected>>
lines == <<history, lastId>>
dvars == <<decided, approved, todo>>
hvars == <<executed, accepted, changed>>
vars  == <<curr, pc, items, unanswered, approvals, ready, expected, decided, approved, todo,
           calls, rows, history, lastId, inbox, submitted, executed, accepted, changed>>

Closed == {"idle", "done", "failed"}
Active(r) == pc[r] \notin Closed

\* A line of the history.  The results of a round are one line.
Entry == [kind : {"use", "error"}, call : Call]
           \union [kind : {"interrupt"}, by : Run]
           \union [kind : {"result"}, ran : SUBSET Call, denied : SUBSET Call]

\* The rows with the ids of keep stay, and the new ones get the next ids.
WriteHistory(keep, new) ==
  /\ history' = [i \in keep \union (lastId + 1 .. lastId + Len(new)) |->
                   IF i \in keep THEN history[i] ELSE new[i - lastId]]
  /\ lastId' = lastId + Len(new)

AppendHistory(new) == WriteHistory(DOMAIN history, new)

-----------------------------------------------------------------------------
(***************************************************************************)
(* Starting a run.  run_turn commits curr_run_id before it starts the      *)
(* workflow; the first activity of every workflow then sets it to the id   *)
(* of the session.                                                         *)
(***************************************************************************)
StartAgentAction ==
  /\ curr = "none"
  /\ \A r \in Run : pc[r] = "idle"
  /\ pc' = [pc EXCEPT !["session"] = "starting"]
  /\ UNCHANGED <<curr, items, unanswered, mvars, dvars, calls, rows, lines, inbox,
                 submitted, hvars>>

RunTurn(r) ==
  /\ r \in ChatRun
  /\ pc[r] = "idle"
  /\ pc["session"] # "idle" => curr # "none"
  /\ curr' = r
  /\ pc' = [pc EXCEPT ![r] = "starting"]
  /\ UNCHANGED <<items, unanswered, mvars, dvars, calls, rows, lines, inbox,
                 submitted, hvars>>

\* Mutant: the activity sets curr_run_id only on a row it creates.
CreateSessionOnlyNew(r) ==
  /\ pc[r] = "starting"
  /\ curr' = IF curr = "none" THEN "session" ELSE curr
  /\ pc' = [pc EXCEPT ![r] = "agent"]
  /\ UNCHANGED <<items, unanswered, mvars, dvars, calls, rows, lines, inbox,
                 submitted, hvars>>

CreateSession(r) ==
  /\ pc[r] = "starting"
  /\ curr' = "session"
  /\ pc' = [pc EXCEPT ![r] = "agent"]
  /\ UNCHANGED <<items, unanswered, mvars, dvars, calls, rows, lines, inbox,
                 submitted, hvars>>

-----------------------------------------------------------------------------
(***************************************************************************)
(* The agent activity.  The hook that runs before a tool sends one request *)
(* per call and denies the call.  The SDK writes the tool_use and then the *)
(* error result to its session file, and each line is persisted in a       *)
(* transaction of its own: the activity may fail in between, and other     *)
(* calls of the same message may come in between.  A second request        *)
(* replaces the first one in approval_items.                               *)
(*                                                                         *)
(* The request and the line of its tool_use, which come in either order,   *)
(* are one step: nothing reads the one without the other before the        *)
(* activity returns.                                                       *)
(***************************************************************************)
NextCall == calls + 1

RequestApproval(r) ==
  /\ pc[r] = "agent"
  /\ NextCall \in Call
  /\ calls' = NextCall
  /\ items' = [items EXCEPT ![r] = {NextCall}]
  /\ unanswered' = [unanswered EXCEPT ![r] = @ \union {NextCall}]
  /\ AppendHistory(<<[kind |-> "use", call |-> NextCall]>>)
  /\ UNCHANGED <<curr, pc, mvars, dvars, rows, inbox, submitted, hvars>>

\* The line of a denied call's error result is persisted.
PersistError(r, c) ==
  /\ pc[r] = "agent"
  /\ c \in unanswered[r]
  /\ AppendHistory(<<[kind |-> "error", call |-> c]>>)
  /\ unanswered' = [unanswered EXCEPT ![r] = @ \ {c}]
  /\ UNCHANGED <<curr, pc, items, mvars, dvars, calls, rows, inbox, submitted,
                 hvars>>

\* Mutant: the manager is reset when the requests have been recorded.
InterruptedUnreset(r) ==
  /\ pc[r] = "agent"
  /\ items[r] # {}
  /\ unanswered[r] = {}
  /\ AppendHistory(<<[kind |-> "interrupt", by |-> r]>>)
  /\ expected' = [expected EXCEPT ![r] = items[r]]
  /\ pc' = [pc EXCEPT ![r] = "recording"]
  /\ UNCHANGED <<curr, items, unanswered, approvals, ready, dvars, calls, rows, inbox,
                 submitted, hvars>>

\* The activity returns with a request, and prepare() resets the manager
\* before it records.  The runtime has sent the lines that were left before it
\* said that it was done, the text of the interruption last.
Interrupted(r) ==
  /\ pc[r] = "agent"
  /\ items[r] # {}
  /\ unanswered[r] = {}
  /\ AppendHistory(<<[kind |-> "interrupt", by |-> r]>>)
  /\ approvals' = [approvals EXCEPT ![r] = <<>>]
  /\ ready' = [ready EXCEPT ![r] = FALSE]
  /\ expected' = [expected EXCEPT ![r] = items[r]]
  /\ pc' = [pc EXCEPT ![r] = "recording"]
  /\ UNCHANGED <<curr, items, unanswered, dvars, calls, rows, inbox, submitted, hvars>>

Completed(r) ==
  /\ pc[r] = "agent"
  /\ items[r] = {}
  /\ unanswered[r] = {}
  /\ pc' = [pc EXCEPT ![r] = "done"]
  /\ UNCHANGED <<curr, items, unanswered, mvars, dvars, calls, rows, lines, inbox,
                 submitted, hvars>>

\* Mutant: the manager's status is set to IDLE once the rows are there.
RecordRequestsThenReset(r) ==
  /\ pc[r] = "recording"
  /\ rows' = [c \in Call |-> IF c \in expected[r] THEN "pending" ELSE rows[c]]
  /\ ready' = [ready EXCEPT ![r] = FALSE]
  /\ pc' = [pc EXCEPT ![r] = "waiting"]
  /\ UNCHANGED <<curr, items, unanswered, approvals, expected, dvars, calls, lines,
                 inbox, submitted, hvars>>

\* record_approval_requests: an upsert, so that its retries change nothing.  An
\* attempt that was given up and writes after a later one is not modelled.
RecordRequests(r) ==
  /\ pc[r] = "recording"
  /\ rows' = [c \in Call |-> IF c \in expected[r] THEN "pending" ELSE rows[c]]
  /\ pc' = [pc EXCEPT ![r] = "waiting"]
  /\ UNCHANGED <<curr, items, unanswered, mvars, dvars, calls, lines, inbox, submitted,
                 hvars>>

-----------------------------------------------------------------------------
(***************************************************************************)
(* Submissions.  The endpoint reads curr_run_id and sends an update to the *)
(* workflow of that name; it arrives later, or never.                      *)
(***************************************************************************)
Submit(m) ==
  /\ submitted < MaxSubmissions
  /\ curr # "none"
  /\ DOMAIN m # {} /\ DOMAIN m \subseteq 1 .. calls
  /\ inbox' = inbox \union {[to |-> curr, decisions |-> m]}
  /\ submitted' = submitted + 1
  /\ UNCHANGED <<curr, pc, items, unanswered, mvars, dvars, calls, rows, lines, hvars>>

\* validate_responses: decisions for exactly the expected calls.
ValidResponses(r, m) == expected[r] # {} /\ DOMAIN m = expected[r]

\* set_approvals, whenever the workflow is running.  The expected calls are
\* never cleared: a decision is accepted again after it was used.
SetApprovals(u) ==
  /\ u \in inbox
  /\ Active(u.to)
  /\ ValidResponses(u.to, u.decisions)
  /\ inbox' = inbox \ {u}
  /\ approvals' = [approvals EXCEPT ![u.to] = u.decisions]
  /\ ready' = [ready EXCEPT ![u.to] = TRUE]
  /\ accepted' = [c \in Call |-> IF c \in DOMAIN u.decisions
                                 THEN accepted[c] \union {u.decisions[c]}
                                 ELSE accepted[c]]
  /\ changed' = IF pc[u.to] = "applying" THEN changed \union DOMAIN u.decisions
                ELSE changed
  /\ UNCHANGED <<curr, pc, items, unanswered, expected, dvars, calls, rows, lines,
                 submitted, executed>>

\* Refused by the validator, or no such workflow is running.
RejectApprovals(u) ==
  /\ u \in inbox
  /\ Active(u.to) => ~ ValidResponses(u.to, u.decisions)
  /\ inbox' = inbox \ {u}
  /\ UNCHANGED <<curr, pc, items, unanswered, mvars, dvars, calls, rows, lines,
                 submitted, hvars>>

-----------------------------------------------------------------------------
(***************************************************************************)
(* wait(), handle_decisions(), the lists of tools and their execution.     *)
(***************************************************************************)
HandleDecisions(r) ==
  /\ pc[r] = "waiting"
  /\ ready[r]
  /\ decided' = [decided EXCEPT ![r] = approvals[r]]
  /\ pc' = [pc EXCEPT ![r] = "applying"]
  /\ UNCHANGED <<curr, items, unanswered, mvars, approved, todo, calls, rows, lines,
                 inbox, submitted, hvars>>

\* Mutant: everything that was asked for is on the list of approved tools.
ApprovedToolsAll(r) == items[r]

\* _build_tool_lists_from_approvals reads the manager again, not what was
\* handed to the activity; a call without a decision counts as denied.
ApprovedTools(r) == {c \in items[r] : c \in DOMAIN approvals[r]
                                       /\ approvals[r][c] = "approve"}

\* Mutant: only approvals are written to the rows.
DecidedRowApprovedOnly(r, c) == IF decided[r][c] = "approve" THEN "approved" ELSE rows[c]

DecidedRow(r, c) == IF decided[r][c] = "approve" THEN "approved" ELSE "rejected"

ApplyDecisions(r) ==
  /\ pc[r] = "applying"
  /\ rows' = [c \in Call |-> IF c \in DOMAIN decided[r] THEN DecidedRow(r, c)
                             ELSE rows[c]]
  /\ approved' = [approved EXCEPT ![r] = ApprovedTools(r)]
  /\ todo' = [todo EXCEPT ![r] = ApprovedTools(r)]
  /\ pc' = [pc EXCEPT ![r] = "tools"]
  /\ UNCHANGED <<curr, items, unanswered, mvars, decided, calls, lines, inbox, submitted,
                 hvars>>

\* Mutant: the activity is attempted again when the worker dies.
ExecuteToolRetried(r, c) ==
  /\ pc[r] = "tools"
  /\ c \in todo[r]
  /\ executed' = [executed EXCEPT ![c] = @ + 1]
  /\ todo' \in {todo, [todo EXCEPT ![r] = @ \ {c}]}
  /\ UNCHANGED <<curr, pc, items, unanswered, mvars, decided, approved, calls, rows,
                 lines, inbox, submitted, accepted, changed>>

\* One approved tool; a tool that raises has an error as its result.
ExecuteTool(r, c) ==
  /\ pc[r] = "tools"
  /\ c \in todo[r]
  /\ executed' = [executed EXCEPT ![c] = @ + 1]
  /\ todo' = [todo EXCEPT ![r] = @ \ {c}]
  /\ UNCHANGED <<curr, pc, items, unanswered, mvars, decided, approved, calls, rows,
                 lines, inbox, submitted, accepted, changed>>

(***************************************************************************)
(* replace_interrupt_with_tool_results, in one transaction: behind the     *)
(* last tool_use of these calls every interruption and every error result  *)
(* of these calls is deleted, and the line with the results is appended.   *)
(***************************************************************************)
AssistantIndex(S) ==
  CHOOSE i \in DOMAIN history :
    /\ history[i].kind = "use" /\ history[i].call \in S
    /\ \A j \in DOMAIN history :
         history[j].kind = "use" /\ history[j].call \in S => j <= i

\* Mutant: the error results of the calls are not deleted.
InterruptEntryTextOnly(e, S) == e.kind = "interrupt"

InterruptEntry(e, S) ==
  \/ e.kind = "interrupt"
  \/ e.kind = "error" /\ e.call \in S
  \/ e.kind = "result" /\ e.denied \intersect S # {}

ReplaceInterrupt(S, result) ==
  WriteHistory({i \in DOMAIN history : i > AssistantIndex(S) =>
                                         ~ InterruptEntry(history[i], S)},
               <<result>>)

\* The activity ends and the workflow reloads the history for the next turn.
ToolsExecuted(r) ==
  /\ pc[r] = "tools"
  /\ todo[r] = {}
  /\ ReplaceInterrupt(items[r],
       [kind |-> "result", ran |-> approved[r], denied |-> items[r] \ approved[r]])
  /\ items' = [items EXCEPT ![r] = {}]
  /\ pc' = [pc EXCEPT ![r] = "agent"]
  /\ UNCHANGED <<curr, unanswered, mvars, dvars, calls, rows, inbox, submitted, hvars>>

\* An activity fails (none that has effects is retried), its worker dies or
\* the execution timeout of the workflow passes.
Fail(r) ==
  /\ Active(r)
  /\ pc' = [pc EXCEPT ![r] = "failed"]
  /\ UNCHANGED <<curr, items, unanswered, mvars, dvars, calls, rows, lines, inbox,
                 submitted, hvars>>

-----------------------------------------------------------------------------
Init ==
  /\ curr = "none"
  /\ pc = [r \in Run |-> "idle"]
  /\ items = [r \in Run |-> {}]
  /\ unanswered = [r \in Run |-> {}]
  /\ approvals = [r \in Run |-> <<>>]
  /\ ready = [r \in Run |-> FALSE]
  /\ expected = [r \in Run |-> {}]
  /\ decided = [r \in Run |-> <<>>]
  /\ approved = [r \in Run |-> {}]
  /\ todo = [r \in Run |-> {}]
  /\ calls = 0
  /\ rows = [c \in Call |-> "none"]
  /\ history = <<>>
  /\ lastId = 0
  /\ inbox = {}
  /\ submitted = 0
  /\ executed = [c \in Call |-> 0]
  /\ accepted = [c \in Call |-> {}]
  /\ changed = {}

\* What the workflow does by itself.
Step(r) ==
  \/ CreateSession(r)
  \/ Interrupted(r)
  \/ Completed(r)
  \/ RecordRequests(r)
  \/ HandleDecisions(r)
  \/ ApplyDecisions(r)
  \/ \E c \in Call : ExecuteTool(r, c)
  \/ ToolsExecuted(r)

Next ==
  \/ StartAgentAction
  \/ \E r \in ChatRun : RunTurn(r)
  \/ \E r \in Run : Step(r) \/ RequestApproval(r) \/ Fail(r)
  \/ \E r \in Run, c \in Call : PersistError(r, c)
  \/ \E m \in Decisions : Submit(m)
  \/ \E u \in inbox : SetApprovals(u) \/ RejectApprovals(u)

Spec == Init /\ [][Next]_vars

\* Temporal schedules a workflow that can take a step.
FairSpec == Spec /\ \A r \in Run : WF_vars(Step(r))

-----------------------------------------------------------------------------
(***************************************************************************)
(* Properties.                                                             *)
(***************************************************************************)
Phases == Closed \union {"starting", "agent", "recording", "waiting",
                        "applying", "tools"}

\* Types; and _approvals only has keys of _expected_tool_calls: a decision of
\* an earlier round is never taken for one of this round.
TypeOK ==
  /\ curr \in Run \union {"none"}
  /\ pc \in [Run -> Phases]
  /\ items \in [Run -> SUBSET Call]
  /\ unanswered \in [Run -> SUBSET Call]
  /\ ready \in [Run -> BOOLEAN]
  /\ expected \in [Run -> SUBSET Call]
  /\ approvals \in [Run -> Decisions]
  /\ decided \in [Run -> Decisions]
  /\ \A r \in Run : DOMAIN approvals[r] \subseteq expected[r]
  /\ approved \in [Run -> SUBSET Call]
  /\ todo \in [Run -> SUBSET Call]
  /\ calls \in 0 .. MaxCalls
  /\ rows \in [Call -> {"none", "pending", "approved", "rejected"}]
  /\ lastId \in Nat
  /\ DOMAIN history \subseteq 1 .. lastId
  /\ \A i \in DOMAIN history : history[i] \in Entry
  /\ \A u \in inbox : u.to \in Run /\ u.decisions \in Decisions
  /\ executed \in [Call -> Nat]
  /\ accepted \in [Call -> SUBSET Decision]

Results == {history[i] : i \in {j \in DOMAIN history : history[j].kind = "result"}}

(***************************************************************************)
(* durable.py, _build_tool_lists_from_approvals: a tool that needs an      *)
(* approval runs only when somebody approved this very call, and the agent *)
(* is told that a call was denied only when somebody denied it, whatever   *)
(* late, repeated or misdirected submissions arrive.                       *)
(***************************************************************************)
DecisionsHonoured ==
  /\ \A c \in Call : executed[c] > 0 => "approve" \in accepted[c]
  /\ \A e \in Results :
       /\ \A c \in e.ran : executed[c] > 0
       /\ \A c \in e.denied : executed[c] = 0 /\ "deny" \in accepted[c]

(***************************************************************************)
(* executor/activity.py, execute_approved_tools_activity: an approved tool *)
(* runs at most once, although its decision may be submitted again, the    *)
(* workflow may fail anywhere and other runs share the session.            *)
(***************************************************************************)
ExecutedOnce == \A c \in Call : executed[c] <= 1

(***************************************************************************)
(* approvals/service.py, apply_approval_decisions: the approval row says   *)
(* what was done with the call, except for a call that was decided anew    *)
(* between the reading of its decision for the row and for the execution.  *)
(***************************************************************************)
RecordsAgree ==
  \A e \in Results :
    /\ \A c \in e.ran \ changed : rows[c] = "approved"
    /\ \A c \in e.denied \ changed : rows[c] = "rejected"

Answers(e, c) ==
  \/ e.kind = "error" /\ e.call = c
  \/ e.kind = "result" /\ c \in e.ran \union e.denied

(***************************************************************************)
(* session/service.py, replace_interrupt_with_tool_results, and            *)
(* loopback.py, _persist_session_line: a tool_use of the history is        *)
(* followed by exactly one answer, the error or the result; there is none  *)
(* only while its agent activity runs and the line of the error is not     *)
(* persisted yet, or when the run failed before it was: then the tool_use  *)
(* stays unanswered.  And a run that goes on after a round finds no        *)
(* interruption of its own in the history.                                 *)
(***************************************************************************)
HistoryAnswered ==
  /\ \A i \in DOMAIN history :
       history[i].kind = "use" =>
         LET c == history[i].call
             answers == {j \in DOMAIN history : Answers(history[j], c)}
         IN  /\ Cardinality(answers) <= 1
             /\ \A j \in answers : j > i
             /\ answers = {} => \E r \in Run : /\ c \in unanswered[r]
                                              /\ pc[r] \in {"agent", "failed"}
  /\ \A r \in Run : pc[r] = "agent" =>
       ~ \E i \in DOMAIN history :
            history[i].kind = "interrupt" /\ history[i].by = r

(***************************************************************************)
(* session/activities.py, create_session_activity ("to enable approval     *)
(* submission to locate the running workflow"): while the run that a DSL   *)
(* workflow started waits, the session names it, also when chat turns were *)
(* started since, with one exception: the newest chat turn has not come to *)
(* its first activity, because it is just starting or because it failed    *)
(* before.  run_turn commits curr_run_id before it starts the workflow, so *)
(* after a failed start the session names a run that does not exist, and   *)
(* the decisions for the waiting run do not arrive until another turn has  *)
(* started.  For a waiting run that a chat turn started the property does  *)
(* not hold: its curr_run_id is overwritten.                               *)
(***************************************************************************)
ApprovalsReachRun ==
  pc["session"] = "waiting" =>
    \/ curr = "session"
    \/ curr \in ChatRun /\ pc[curr] \in {"starting", "failed"}

(***************************************************************************)
(* approvals/service.py, prepare and wait: a decision that the workflow    *)
(* accepted ends the wait, also when it arrives before the requests are    *)
(* recorded.                                                               *)
(***************************************************************************)
DecisionNotLost ==
  \A r \in Run :
    (pc[r] \in {"recording", "waiting"} /\ \E c \in expected[r] : accepted[c] # {})
      ~> pc[r] \notin {"recording", "waiting"}
=============================================================================
