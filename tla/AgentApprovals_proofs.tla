----------------------- MODULE AgentApprovals_proofs -----------------------
(***************************************************************************)
(* Proofs about tool approvals, for any number of chat runs, tool calls    *)
(* and submissions.                                                        *)
(***************************************************************************)
EXTENDS AgentApprovals, FiniteSetTheorems, TLAPS

-----------------------------------------------------------------------------
(***************************************************************************)
(* The inductive invariant.                                                *)
(***************************************************************************)
\* The session names a chat run only until that run's first activity, and
\* names some run once the run of the DSL workflow is under way.
CurrNamed ==
  /\ curr \in ChatRun => pc[curr] \in {"starting", "failed"}
  /\ curr = "none" => pc["session"] \in {"idle", "starting", "failed"}

InRound(r) == pc[r] \in {"recording", "waiting", "applying", "tools"}

\* A call belongs to one run, and has not been executed before it was asked for.
CallsOwned ==
  /\ \A r \in Run : items[r] \subseteq 1 .. calls
  /\ \A r \in Run : \A c, d \in items[r] : c = d
  /\ \A r, q \in Run : r # q => items[r] \intersect items[q] = {}
  /\ \A c \in Call : c > calls => executed[c] = 0

\* What the manager of a run holds, phase by phase.
RoundOpen(r) ==
  /\ pc[r] \in {"idle", "starting"} => items[r] = {}
  /\ InRound(r) => items[r] # {} /\ expected[r] = items[r]
  /\ ready[r] => DOMAIN approvals[r] = expected[r]
  /\ \A c \in DOMAIN approvals[r] : approvals[r][c] \in accepted[c]
  /\ pc[r] \in {"applying", "tools"} => ready[r] /\ DOMAIN decided[r] = items[r]
  /\ pc[r] = "applying" => \A c \in items[r] \ changed : decided[r][c] = approvals[r][c]
  /\ pc[r] \in {"agent", "recording", "waiting", "applying"} =>
       \A c \in items[r] : executed[c] = 0

\* While the tools are executed: the lists, the rows and the executions agree.
ToolsAgree(r) ==
  pc[r] = "tools" =>
    /\ approved[r] \subseteq items[r] /\ todo[r] \subseteq approved[r]
    /\ \A c \in approved[r] :
         /\ "approve" \in accepted[c]
         /\ executed[c] = IF c \in todo[r] THEN 0 ELSE 1
         /\ c \notin changed => rows[c] = "approved"
    /\ \A c \in items[r] \ approved[r] :
         /\ "deny" \in accepted[c]
         /\ executed[c] = 0
         /\ c \notin changed => rows[c] = "rejected"

\* A result in the history is of a round that is over, and true.
ResultTold(e) ==
  /\ e.ran \union e.denied \subseteq 1 .. calls
  /\ \A r \in Run : (e.ran \union e.denied) \intersect items[r] = {}
  /\ \A c \in e.ran : executed[c] > 0 /\ (c \notin changed => rows[c] = "approved")
  /\ \A c \in e.denied :
       /\ executed[c] = 0 /\ "deny" \in accepted[c]
       /\ c \notin changed => rows[c] = "rejected"

CallTold(c) == executed[c] <= 1 /\ (executed[c] > 0 => "approve" \in accepted[c])

RoundInv ==
  /\ TypeOK
  /\ CallsOwned
  /\ \A r \in Run : RoundOpen(r) /\ ToolsAgree(r)
  /\ \A e \in Results : ResultTold(e)
  /\ \A c \in Call : CallTold(c)

Use(e, c) == e.kind = "use" /\ e.call = c

\* The only tool_use of a call and its only answer, behind it.
AnsweredAt(c, i, j) ==
  /\ i < j
  /\ \A k \in DOMAIN history : Use(history[k], c) <=> k = i
  /\ \A k \in DOMAIN history : Answers(history[k], c) <=> k = j

\* The only tool_use of a call that has no answer.
OpenAt(c, i) ==
  /\ \A k \in DOMAIN history : Use(history[k], c) <=> k = i
  /\ \A k \in DOMAIN history : ~ Answers(history[k], c)

Owed(c) == \E r \in Run : c \in unanswered[r]

\* A line that is owed is owed by one run, which has not come to a round.
LinesOwed ==
  /\ \A r \in Run : unanswered[r] \subseteq 1 .. calls
  /\ \A r \in Run : unanswered[r] # {} => pc[r] \in {"agent", "failed"}
  /\ \A r, q \in Run : r # q => unanswered[r] \intersect unanswered[q] = {}
  /\ \A r, q \in Run : r # q => items[r] \intersect unanswered[q] = {}

\* Every call that was asked for has one tool_use in the history, and exactly
\* one answer behind it or none while the line is owed.
UsesAnswered ==
  /\ \A i \in DOMAIN history :
       history[i].kind \in {"use", "error"} => history[i].call \in 1 .. calls
  /\ \A c \in 1 .. calls : Owed(c) => \E i \in DOMAIN history : OpenAt(c, i)
  /\ \A c \in 1 .. calls : ~ Owed(c) =>
       \E i, j \in DOMAIN history : AnsweredAt(c, i, j)

\* The interruption of a round is behind the round's tool_use.
InterruptsPlaced ==
  \A i \in DOMAIN history : history[i].kind = "interrupt" =>
    LET r == history[i].by
    IN  /\ pc[r] \notin {"idle", "starting", "agent"}
        /\ InRound(r) =>
             \A j \in DOMAIN history : \A c \in items[r] : Use(history[j], c) => j < i

HistoryInv ==
  /\ RoundInv
  /\ LinesOwed
  /\ UsesAnswered
  /\ InterruptsPlaced

-----------------------------------------------------------------------------
(***************************************************************************)
(* Types.                                                                  *)
(***************************************************************************)
\* A map of decisions is about calls.
LEMMA DecisionsType ==
  ASSUME NEW m \in Decisions
  PROVE  DOMAIN m \subseteq Call /\ \A c \in DOMAIN m : m[c] \in Decision
<1>1. PICK S \in SUBSET Call : m \in [S -> Decision]  BY DEF Decisions
<1>2. QED  BY <1>1

\* The empty map is one.
LEMMA NoDecisions == <<>> \in Decisions /\ DOMAIN <<>> = {}
<1>1. <<>> \in [{} -> Decision]  OBVIOUS
<1>2. {} \in SUBSET Call  OBVIOUS
<1>3. QED  BY <1>1, <1>2 DEF Decisions

\* The history after one line was written.
LEMMA WriteOne ==
  ASSUME TypeOK, NEW keep \in SUBSET DOMAIN history, NEW e, WriteHistory(keep, <<e>>)
  PROVE  /\ lastId' = lastId + 1
         /\ DOMAIN history' = keep \union {lastId'}
         /\ history'[lastId'] = e
         /\ \A i \in keep : history'[i] = history[i] /\ i \in 1 .. lastId
         /\ lastId' \notin DOMAIN history /\ \A i \in DOMAIN history : i < lastId'
<1>1. lastId \in Nat /\ DOMAIN history \subseteq 1 .. lastId  BY DEF TypeOK
<1>2. keep \subseteq 1 .. lastId  BY <1>1
<1>3. Len(<<e>>) = 1 /\ <<e>>[1] = e  OBVIOUS
<1>4. lastId + 1 .. lastId + 1 = {lastId + 1}  BY <1>1
<1>5. lastId + 1 \notin keep /\ (lastId + 1) - lastId = 1  BY <1>2, <1>1
<1>6. lastId + 1 \notin DOMAIN history /\ \A i \in DOMAIN history : i < lastId + 1  BY <1>1
<1>7. QED  BY <1>1, <1>3, <1>4, <1>5, <1>2, <1>6 DEF WriteHistory

\* A history that a line was written to is typed.
LEMMA WriteTyped ==
  ASSUME TypeOK, NEW keep \in SUBSET DOMAIN history, NEW e \in Entry,
         WriteHistory(keep, <<e>>)
  PROVE  /\ lastId' \in Nat /\ DOMAIN history' \subseteq 1 .. lastId'
         /\ \A i \in DOMAIN history' : history'[i] \in Entry
<1>1. /\ lastId' = lastId + 1 /\ DOMAIN history' = keep \union {lastId'}
      /\ history'[lastId'] = e
      /\ \A i \in keep : history'[i] = history[i] /\ i \in 1 .. lastId
  BY WriteOne
<1>2. lastId \in Nat /\ \A i \in keep : history[i] \in Entry  BY DEF TypeOK
<1>3. QED  BY <1>1, <1>2

\* The initial state is typed.
LEMMA InitType == Init => TypeOK
<1> SUFFICES ASSUME Init PROVE TypeOK
  OBVIOUS
<1>1. <<>> \in Decisions /\ DOMAIN <<>> = {}  BY NoDecisions
<1>2. /\ approvals \in [Run -> Decisions] /\ decided \in [Run -> Decisions]
      /\ \A r \in Run : DOMAIN approvals[r] \subseteq expected[r]
      /\ DOMAIN history = {}
  BY <1>1 DEF Init
<1>3. QED  BY <1>2, BoundsAssumption DEF Init, TypeOK, Phases, Closed, Run

\* Starting and ending a run keeps the types.
LEMMA RunType ==
  ASSUME TypeOK, NEW r \in Run
  PROVE  /\ StartAgentAction => TypeOK'
         /\ RunTurn(r) => TypeOK'
         /\ CreateSession(r) => TypeOK'
         /\ Completed(r) => TypeOK'
         /\ Fail(r) => TypeOK'
<1>1. "session" \in Run /\ {"starting", "agent", "done", "failed"} \subseteq Phases
  BY DEF Run, Phases, Closed
<1>2. StartAgentAction => TypeOK'
  BY <1>1 DEF TypeOK, StartAgentAction, mvars, dvars, hvars, lines
<1>3. RunTurn(r) => TypeOK'
  BY <1>1 DEF TypeOK, RunTurn, mvars, dvars, hvars, lines
<1>4. CreateSession(r) => TypeOK'
  BY <1>1 DEF TypeOK, CreateSession, mvars, dvars, hvars, lines
<1>5. Completed(r) => TypeOK'
  BY <1>1 DEF TypeOK, Completed, mvars, dvars, hvars, lines
<1>6. Fail(r) => TypeOK'
  BY <1>1 DEF TypeOK, Fail, mvars, dvars, hvars, lines
<1>7. QED  BY <1>2, <1>3, <1>4, <1>5, <1>6

\* The agent's requests and their recording keep the types.
LEMMA RequestType ==
  ASSUME TypeOK, NEW r \in Run
  PROVE  /\ RequestApproval(r) => TypeOK'
         /\ \A c \in Call : PersistError(r, c) => TypeOK'
         /\ Interrupted(r) => TypeOK'
         /\ RecordRequests(r) => TypeOK'
<1>1. ASSUME RequestApproval(r) PROVE TypeOK'
  <2> DEFINE e == [kind |-> "use", call |-> NextCall]
  <2>1. NextCall \in Call /\ WriteHistory(DOMAIN history, <<e>>)
    BY <1>1 DEF RequestApproval, AppendHistory
  <2>2. e \in Entry  BY <2>1 DEF Entry
  <2>3. /\ lastId' \in Nat /\ DOMAIN history' \subseteq 1 .. lastId'
        /\ \A i \in DOMAIN history' : history'[i] \in Entry
    <3> HIDE DEF e
    <3>1. QED  BY <2>1, <2>2, WriteTyped
  <2>4. calls' \in 0 .. MaxCalls
    BY <1>1, <2>1, BoundsAssumption DEF RequestApproval, Call, NextCall
  <2>5. QED
    BY <1>1, <2>1, <2>3, <2>4 DEF TypeOK, RequestApproval, mvars, dvars, hvars
<1>2. ASSUME NEW c \in Call, PersistError(r, c) PROVE TypeOK'
  <2> DEFINE e == [kind |-> "error", call |-> c]
  <2>1. e \in Entry /\ WriteHistory(DOMAIN history, <<e>>)
    BY <1>2 DEF Entry, PersistError, AppendHistory
  <2>2. /\ lastId' \in Nat /\ DOMAIN history' \subseteq 1 .. lastId'
        /\ \A i \in DOMAIN history' : history'[i] \in Entry
    <3> HIDE DEF e
    <3>1. QED  BY <2>1, WriteTyped
  <2>3. QED  BY <1>2, <2>2 DEF TypeOK, PersistError, mvars, dvars, hvars
<1>3. ASSUME Interrupted(r) PROVE TypeOK'
  <2> DEFINE e == [kind |-> "interrupt", by |-> r]
  <2>1. e \in Entry  BY DEF Entry
  <2>2. /\ lastId' \in Nat /\ DOMAIN history' \subseteq 1 .. lastId'
        /\ \A i \in DOMAIN history' : history'[i] \in Entry
    <3>1. WriteHistory(DOMAIN history, <<e>>)  BY <1>3 DEF Interrupted, AppendHistory
    <3> HIDE DEF e
    <3>2. QED  BY <2>1, <3>1, WriteTyped
  <2>3. "recording" \in Phases  BY DEF Phases
  <2>4. /\ approvals' \in [Run -> Decisions]
        /\ \A q \in Run : DOMAIN approvals'[q] \subseteq expected'[q]
    BY <1>3, NoDecisions DEF Interrupted, TypeOK
  <2>5. QED
    BY <1>3, <2>2, <2>3, <2>4 DEF TypeOK, Interrupted, dvars, hvars
<1>4. ASSUME RecordRequests(r) PROVE TypeOK'
  <2>1. "waiting" \in Phases  BY DEF Phases
  <2>2. QED  BY <1>4, <2>1 DEF TypeOK, RecordRequests, mvars, dvars, hvars, lines
<1>5. QED  BY <1>1, <1>3, <1>4, <1>2

\* Submissions keep the types.
LEMMA SubmissionType ==
  ASSUME TypeOK
  PROVE  /\ \A m \in Decisions : Submit(m) => TypeOK'
         /\ \A u \in inbox : SetApprovals(u) => TypeOK'
         /\ \A u \in inbox : RejectApprovals(u) => TypeOK'
<1>1. ASSUME NEW m \in Decisions, Submit(m) PROVE TypeOK'
  BY <1>1 DEF TypeOK, Submit, mvars, dvars, hvars, lines
<1>2. ASSUME NEW u \in inbox, SetApprovals(u) PROVE TypeOK'
  <2>1. u.to \in Run /\ u.decisions \in Decisions  BY DEF TypeOK
  <2>2. \A c \in DOMAIN u.decisions : u.decisions[c] \in Decision  BY <2>1, DecisionsType
  <2>3. accepted' \in [Call -> SUBSET Decision]
    BY <1>2, <2>2 DEF SetApprovals, TypeOK
  <2>4. /\ approvals' \in [Run -> Decisions]
        /\ \A r \in Run : DOMAIN approvals'[r] \subseteq expected'[r]
    BY <1>2, <2>1 DEF SetApprovals, ValidResponses, TypeOK
  <2>5. QED  BY <1>2, <2>1, <2>3, <2>4 DEF TypeOK, SetApprovals, dvars, lines
<1>3. ASSUME NEW u \in inbox, RejectApprovals(u) PROVE TypeOK'
  BY <1>3 DEF TypeOK, RejectApprovals, mvars, dvars, hvars, lines
<1>4. QED  BY <1>1, <1>2, <1>3

\* Applying decisions and executing tools keeps the types.
LEMMA ToolsType ==
  ASSUME TypeOK, NEW r \in Run
  PROVE  /\ HandleDecisions(r) => TypeOK'
         /\ ApplyDecisions(r) => TypeOK'
         /\ \A c \in Call : ExecuteTool(r, c) => TypeOK'
         /\ ToolsExecuted(r) => TypeOK'
<1>1. {"applying", "tools", "agent"} \subseteq Phases  BY DEF Phases
<1>2. ASSUME HandleDecisions(r) PROVE TypeOK'
  BY <1>1, <1>2 DEF TypeOK, HandleDecisions, mvars, hvars, lines
<1>3. ASSUME ApplyDecisions(r) PROVE TypeOK'
  <2>1. ApprovedTools(r) \subseteq Call  BY DEF ApprovedTools, TypeOK
  <2>2. rows' \in [Call -> {"none", "pending", "approved", "rejected"}]
    BY <1>3 DEF ApplyDecisions, DecidedRow, TypeOK
  <2>3. QED  BY <1>1, <1>3, <2>1, <2>2 DEF TypeOK, ApplyDecisions, mvars, hvars, lines
<1>4. ASSUME NEW c \in Call, ExecuteTool(r, c) PROVE TypeOK'
  BY <1>4 DEF TypeOK, ExecuteTool, mvars, lines
<1>5. ASSUME ToolsExecuted(r) PROVE TypeOK'
  <2> DEFINE e == [kind |-> "result", ran |-> approved[r], denied |-> items[r] \ approved[r]]
             keep == {i \in DOMAIN history : i > AssistantIndex(items[r]) =>
                                               ~ InterruptEntry(history[i], items[r])}
  <2>1. e \in Entry  BY DEF Entry, TypeOK
  <2>2. WriteHistory(keep, <<e>>)  BY <1>5 DEF ToolsExecuted, ReplaceInterrupt
  <2>3. /\ lastId' \in Nat /\ DOMAIN history' \subseteq 1 .. lastId'
        /\ \A i \in DOMAIN history' : history'[i] \in Entry
    <3>1. keep \in SUBSET DOMAIN history  OBVIOUS
    <3> HIDE DEF e, keep
    <3>2. QED  BY <2>1, <2>2, <3>1, WriteTyped
  <2>4. QED  BY <1>1, <1>5, <2>3 DEF TypeOK, ToolsExecuted, mvars, dvars, hvars
<1>6. QED  BY <1>2, <1>3, <1>4, <1>5

\* Every step keeps the types.
LEMMA NextType == TypeOK /\ [Next]_vars => TypeOK'
<1> SUFFICES ASSUME TypeOK, [Next]_vars PROVE TypeOK'
  OBVIOUS
<1>1. CASE Next
  <2>1. ChatRun \subseteq Run /\ Run # {}  BY DEF Run
  <2>2. QED
    BY <1>1, <2>1, RunType, RequestType, SubmissionType, ToolsType DEF Next, Step
<1>2. CASE UNCHANGED vars  BY <1>2 DEF vars, TypeOK
<1>3. QED  BY <1>1, <1>2

\* The state keeps its shape; in particular the ApprovalManager never holds a
\* decision for a call it does not expect, so none of an earlier round.
THEOREM ApprovalsTypeCorrect == Spec => []TypeOK
BY InitType, NextType, PTL DEF Spec

-----------------------------------------------------------------------------
(***************************************************************************)
(* Where submissions go.                                                   *)
(***************************************************************************)
\* Every step keeps curr_run_id right.
LEMMA NextCurrNamed ==
  ASSUME TypeOK, CurrNamed, [Next]_vars
  PROVE  CurrNamed'
<1>1. "session" \in Run /\ ChatRun \subseteq Run /\ "session" \notin ChatRun
      /\ "none" \notin Run
  BY BoundsAssumption DEF Run
<1>2. CASE StartAgentAction
  BY <1>1, <1>2 DEF StartAgentAction, CurrNamed, TypeOK
<1>3. ASSUME NEW r \in ChatRun, RunTurn(r) PROVE CurrNamed'
  BY <1>1, <1>3 DEF RunTurn, CurrNamed, TypeOK
<1>4. ASSUME NEW r \in Run, CreateSession(r) PROVE CurrNamed'
  BY <1>1, <1>4 DEF CreateSession, CurrNamed, TypeOK
<1>5. ASSUME NEW r \in Run, Fail(r) PROVE CurrNamed'
  BY <1>1, <1>5 DEF Fail, CurrNamed, TypeOK
<1>6. ASSUME NEW r \in Run, Interrupted(r) \/ Completed(r) \/ RecordRequests(r)
                            \/ HandleDecisions(r) \/ ApplyDecisions(r) \/ ToolsExecuted(r)
      PROVE  CurrNamed'
  <2>1. /\ pc[r] \in {"agent", "recording", "waiting", "applying", "tools"}
        /\ curr' = curr /\ \A q \in Run : q # r => pc'[q] = pc[q]
    BY <1>6 DEF Interrupted, Completed, RecordRequests, HandleDecisions,
                ApplyDecisions, ToolsExecuted, TypeOK
  <2>2. QED  BY <1>1, <2>1 DEF CurrNamed
<1>7. CASE UNCHANGED <<curr, pc>>
  BY <1>7 DEF CurrNamed
<1>8. QED
  BY <1>2, <1>3, <1>4, <1>5, <1>6, <1>7
     DEF Next, Step, vars, RequestApproval, PersistError, ExecuteTool, Submit, SetApprovals,
         RejectApprovals

\* create_session_activity: while the run of a DSL workflow waits for
\* decisions, the session names it, or names the newest chat turn, and then
\* that turn is just starting or failed before its first activity.
THEOREM ApprovalsAreRouted == Spec => []ApprovalsReachRun
<1>1. Init => CurrNamed
  BY BoundsAssumption DEF Init, CurrNamed, Run
<1>2. TypeOK /\ CurrNamed /\ [Next]_vars => CurrNamed'  BY NextCurrNamed
<1>3. TypeOK /\ CurrNamed => ApprovalsReachRun
  BY DEF TypeOK, CurrNamed, ApprovalsReachRun, Run
<1>4. QED  BY <1>1, <1>2, <1>3, ApprovalsTypeCorrect, PTL DEF Spec

-----------------------------------------------------------------------------
(***************************************************************************)
(* Rounds.  What a step does not concern stays as it is.                   *)
(***************************************************************************)
\* What was accepted and what was changed only grows.
Grows ==
  /\ \A c \in Call : accepted[c] \subseteq accepted'[c]
  /\ changed \subseteq changed'

SameRun(q) ==
  /\ pc'[q] = pc[q] /\ items'[q] = items[q] /\ approvals'[q] = approvals[q]
  /\ ready'[q] = ready[q] /\ expected'[q] = expected[q] /\ decided'[q] = decided[q]
  /\ approved'[q] = approved[q] /\ todo'[q] = todo[q]

SameCall(c) == executed'[c] = executed[c] /\ rows'[c] = rows[c]

\* The round of a run that a step leaves alone.
LEMMA RunUntouched ==
  ASSUME TypeOK, NEW q \in Run, RoundOpen(q), ToolsAgree(q), SameRun(q), Grows,
         \A c \in items[q] : SameCall(c)
  PROVE  RoundOpen(q)' /\ ToolsAgree(q)'
<1>1. DOMAIN approvals[q] \subseteq Call /\ items[q] \subseteq Call
  BY DecisionsType DEF TypeOK
<1>2. RoundOpen(q)'
  BY <1>1 DEF RoundOpen, InRound, SameRun, SameCall, Grows
<1>3. ToolsAgree(q)'
  <2> SUFFICES ASSUME pc[q] = "tools" PROVE ToolsAgree(q)'
    BY DEF ToolsAgree, SameRun
  <2>1. approved[q] \subseteq items[q] /\ todo[q] \subseteq approved[q]
    BY DEF ToolsAgree
  <2>2. ASSUME NEW c \in approved[q]
        PROVE  /\ "approve" \in accepted'[c]
               /\ executed'[c] = IF c \in todo[q] THEN 0 ELSE 1
               /\ c \notin changed' => rows'[c] = "approved"
    BY <1>1, <2>1 DEF ToolsAgree, SameCall, Grows
  <2>3. ASSUME NEW c \in items[q] \ approved[q]
        PROVE  /\ "deny" \in accepted'[c]
               /\ executed'[c] = 0
               /\ c \notin changed' => rows'[c] = "rejected"
    BY <1>1, <2>1 DEF ToolsAgree, SameCall, Grows
  <2>4. QED  BY <2>1, <2>2, <2>3 DEF ToolsAgree, SameRun
<1>4. QED  BY <1>2, <1>3

\* The result of a round that is over.
LEMMA ResultUntouched ==
  ASSUME TypeOK, NEW e \in Results, ResultTold(e), calls' \in Nat, calls <= calls', Grows,
         \A r \in Run : (e.ran \union e.denied) \intersect items'[r] = {},
         \A c \in e.ran \union e.denied : SameCall(c)
  PROVE  ResultTold(e)'
<1>1. calls \in Nat /\ calls <= MaxCalls  BY BoundsAssumption DEF TypeOK
<1>2. 1 .. calls \subseteq 1 .. calls' /\ 1 .. calls \subseteq Call
  BY <1>1, BoundsAssumption DEF Call
<1>3. e.ran \union e.denied \subseteq Call  BY <1>2 DEF ResultTold
<1>4. e.ran \union e.denied \subseteq 1 .. calls'  BY <1>2 DEF ResultTold
<1>5. ASSUME NEW c \in e.ran
      PROVE  executed'[c] > 0 /\ (c \notin changed' => rows'[c] = "approved")
  BY DEF ResultTold, SameCall, Grows
<1>6. ASSUME NEW c \in e.denied
      PROVE  /\ executed'[c] = 0 /\ "deny" \in accepted'[c]
             /\ c \notin changed' => rows'[c] = "rejected"
  BY <1>3 DEF ResultTold, SameCall, Grows
<1>7. QED  BY <1>4, <1>5, <1>6 DEF ResultTold

\* A line that is not a result leaves the results alone.
LEMMA ResultsWritten ==
  ASSUME TypeOK, NEW keep \in SUBSET DOMAIN history, NEW e, WriteHistory(keep, <<e>>)
  PROVE  Results' \subseteq Results \union (IF e.kind = "result" THEN {e} ELSE {})
<1>1. /\ DOMAIN history' = keep \union {lastId'} /\ history'[lastId'] = e
      /\ \A i \in keep : history'[i] = history[i]
  BY WriteOne
<1>2. QED  BY <1>1 DEF Results

\* A step that only moves a run, to a phase that says nothing of a round.
LEMMA MoveRound ==
  ASSUME RoundInv, TypeOK', NEW r \in Run, NEW v \in {"starting", "agent", "done", "failed"},
         pc' = [pc EXCEPT ![r] = v],
         v \in {"starting", "agent"} => pc[r] \in {"idle", "starting"},
         UNCHANGED <<items, mvars, dvars, calls, rows, history, hvars>>
  PROVE  RoundInv'
<1>1. TypeOK /\ Grows /\ (\A c \in Call : SameCall(c)) /\ Results' = Results
  BY DEF RoundInv, Grows, SameCall, hvars, Results
<1>2. CallsOwned' /\ \A c \in Call : CallTold(c)'
  BY DEF RoundInv, CallsOwned, CallTold, hvars
<1>3. ASSUME NEW e \in Results PROVE ResultTold(e)'
  BY DEF RoundInv, ResultTold, hvars
<1>4. ASSUME NEW q \in Run PROVE RoundOpen(q)' /\ ToolsAgree(q)'
  <2>1. CASE q # r
    <3>1. SameRun(q)  BY <1>1, <2>1 DEF SameRun, mvars, dvars, TypeOK
    <3>2. \A c \in items[q] : SameCall(c)  BY <1>1 DEF TypeOK
    <3>3. QED  BY <1>1, <3>1, <3>2, RunUntouched DEF RoundInv
  <2>2. CASE q = r
    <3>1. pc'[r] = v  BY <1>1 DEF TypeOK
    <3>2. v \in {"starting", "agent"} => items[r] = {}  BY DEF RoundInv, RoundOpen
    <3>3. RoundOpen(r)  BY DEF RoundInv
    <3>4. RoundOpen(r)'
      BY <3>1, <3>2, <3>3 DEF RoundOpen, InRound, mvars, dvars, hvars
    <3>5. ToolsAgree(r)'  BY <3>1 DEF ToolsAgree
    <3>6. QED  BY <2>2, <3>4, <3>5
  <2>3. QED  BY <2>1, <2>2
<1>5. QED  BY <1>1, <1>2, <1>3, <1>4 DEF RoundInv

\* A step that changes nothing of a round.
LEMMA StutterRound ==
  ASSUME RoundInv, TypeOK', Results' \subseteq Results,
         UNCHANGED <<pc, items, mvars, dvars, calls, rows, hvars>>
  PROVE  RoundInv'
<1>1. CallsOwned' /\ \A c \in Call : CallTold(c)'
  BY DEF RoundInv, CallsOwned, CallTold, hvars
<1>2. \A e \in Results' : ResultTold(e)'
  BY DEF RoundInv, ResultTold, hvars
<1>3. ASSUME NEW q \in Run PROVE RoundOpen(q)' /\ ToolsAgree(q)'
  BY DEF RoundInv, RoundOpen, ToolsAgree, InRound, mvars, dvars, hvars
<1>4. QED  BY <1>1, <1>2, <1>3 DEF RoundInv

-----------------------------------------------------------------------------
(***************************************************************************)
(* Rounds.  Step by step.                                                  *)
(***************************************************************************)
\* The agent asks: the call is new to every run and to every result.
LEMMA RequestRound ==
  ASSUME RoundInv, NEW r \in Run, RequestApproval(r)
  PROVE  RoundInv'
<1>1. TypeOK /\ TypeOK' /\ Grows /\ \A c \in Call : SameCall(c)
  BY RequestType DEF RoundInv, Grows, SameCall, RequestApproval, hvars
<1>2. /\ calls \in Nat /\ calls' = calls + 1 /\ NextCall = calls + 1 /\ NextCall \in Call
      /\ items' = [items EXCEPT ![r] = {NextCall}] /\ pc[r] = "agent" /\ pc' = pc
  BY <1>1, BoundsAssumption DEF RequestApproval, NextCall, TypeOK
<1>3. items'[r] = {NextCall} /\ \A q \in Run : q # r => items'[q] = items[q]
  BY <1>1, <1>2 DEF TypeOK
<1>4. \A q \in Run : NextCall \notin items[q]
  BY <1>2 DEF RoundInv, CallsOwned
<1>5. CallsOwned'
  <2>1. \A q \in Run : items'[q] \subseteq 1 .. calls'
    BY <1>2, <1>3 DEF RoundInv, CallsOwned
  <2>2. \A q \in Run : \A c, d \in items'[q] : c = d
    BY <1>3 DEF RoundInv, CallsOwned
  <2>3. \A p, q \in Run : p # q => items'[p] \intersect items'[q] = {}
    BY <1>3, <1>4 DEF RoundInv, CallsOwned
  <2>4. \A c \in Call : c > calls' => executed'[c] = 0
    BY <1>1, <1>2 DEF RoundInv, CallsOwned, SameCall, Call
  <2>5. QED  BY <2>1, <2>2, <2>3, <2>4 DEF CallsOwned
<1>6. \A c \in Call : CallTold(c)'
  BY DEF RoundInv, CallTold, RequestApproval, hvars
<1>7. ASSUME NEW q \in Run PROVE RoundOpen(q)' /\ ToolsAgree(q)'
  <2>1. CASE q # r
    <3>1. SameRun(q)
      BY <1>2, <1>3, <2>1 DEF SameRun, RequestApproval, mvars, dvars
    <3>2. \A c \in items[q] : SameCall(c)  BY <1>1 DEF TypeOK
    <3>3. QED  BY <1>1, <3>1, <3>2, RunUntouched DEF RoundInv
  <2>2. CASE q = r
    <3>1. executed'[NextCall] = 0  BY <1>1, <1>2 DEF RoundInv, CallsOwned, SameCall
    <3>2. RoundOpen(r)  BY DEF RoundInv
    <3>3. RoundOpen(r)'
      BY <1>2, <1>3, <3>1, <3>2
         DEF RoundOpen, InRound, RequestApproval, mvars, dvars, hvars
    <3>4. ToolsAgree(r)'  BY <1>2 DEF ToolsAgree
    <3>5. QED  BY <2>2, <3>3, <3>4
  <2>3. QED  BY <2>1, <2>2
<1>8. ASSUME NEW e \in Results' PROVE ResultTold(e)'
  <2> DEFINE d == [kind |-> "use", call |-> NextCall]
  <2>1. e \in Results
    <3>1. WriteHistory(DOMAIN history, <<d>>) /\ d.kind # "result"
      BY DEF RequestApproval, AppendHistory
    <3> HIDE DEF d
    <3>2. QED  BY <1>1, <3>1, ResultsWritten
  <2>2. ResultTold(e)  BY <2>1 DEF RoundInv
  <2>3. \A q \in Run : (e.ran \union e.denied) \intersect items'[q] = {}
    BY <1>2, <1>3, <2>2 DEF ResultTold
  <2>4. e.ran \union e.denied \subseteq Call
    BY <1>1, <1>2, <2>2, BoundsAssumption DEF ResultTold, Call, TypeOK
  <2>5. calls' \in Nat /\ calls <= calls'  BY <1>2
  <2>6. QED  BY <1>1, <2>1, <2>2, <2>3, <2>4, <2>5, ResultUntouched
<1>9. QED  BY <1>1, <1>5, <1>6, <1>7, <1>8 DEF RoundInv

\* The error result of a denied call is no result of a round.
LEMMA PersistRound ==
  ASSUME RoundInv, NEW r \in Run, NEW c \in Call, PersistError(r, c)
  PROVE  RoundInv'
<1> DEFINE d == [kind |-> "error", call |-> c]
<1>1. TypeOK /\ TypeOK'  BY RequestType DEF RoundInv
<1>2. WriteHistory(DOMAIN history, <<d>>) /\ d.kind # "result"
  BY DEF PersistError, AppendHistory
<1>3. Results' \subseteq Results
  <2> HIDE DEF d
  <2>1. QED  BY <1>1, <1>2, ResultsWritten
<1>4. UNCHANGED <<pc, items, mvars, dvars, calls, rows, hvars>>  BY DEF PersistError
<1>5. QED  BY <1>1, <1>3, <1>4, StutterRound

\* The round begins: prepare() resets the manager.
LEMMA InterruptedRound ==
  ASSUME RoundInv, NEW r \in Run, Interrupted(r)
  PROVE  RoundInv'
<1>1. TypeOK /\ TypeOK' /\ Grows /\ \A c \in Call : SameCall(c)
  BY RequestType DEF RoundInv, Grows, SameCall, Interrupted, hvars
<1>2. CallsOwned' /\ \A c \in Call : CallTold(c)'
  BY DEF RoundInv, CallsOwned, CallTold, Interrupted, hvars
<1>3. ASSUME NEW q \in Run PROVE RoundOpen(q)' /\ ToolsAgree(q)'
  <2>1. CASE q # r
    <3>1. SameRun(q)  BY <1>1, <2>1 DEF SameRun, Interrupted, dvars, TypeOK
    <3>2. \A c \in items[q] : SameCall(c)  BY <1>1 DEF TypeOK
    <3>3. QED  BY <1>1, <3>1, <3>2, RunUntouched DEF RoundInv
  <2>2. CASE q = r
    <3>1. /\ pc[r] = "agent" /\ pc'[r] = "recording" /\ items' = items
          /\ items[r] # {} /\ expected'[r] = items[r] /\ ready'[r] = FALSE
          /\ approvals'[r] = <<>>
      BY <1>1 DEF Interrupted, TypeOK
    <3>2. \A c \in items[r] : executed'[c] = 0
      BY <3>1 DEF RoundInv, RoundOpen, Interrupted, hvars
    <3>3. RoundOpen(r)'
      BY <3>1, <3>2, NoDecisions DEF RoundOpen, InRound
    <3>4. ToolsAgree(r)'  BY <3>1 DEF ToolsAgree
    <3>5. QED  BY <2>2, <3>3, <3>4
  <2>3. QED  BY <2>1, <2>2
<1>4. ASSUME NEW e \in Results' PROVE ResultTold(e)'
  <2> DEFINE d == [kind |-> "interrupt", by |-> r]
  <2>1. e \in Results
    <3>1. WriteHistory(DOMAIN history, <<d>>) /\ d.kind # "result"
      BY DEF Interrupted, AppendHistory
    <3> HIDE DEF d
    <3>2. QED  BY <1>1, <3>1, ResultsWritten
  <2>2. ResultTold(e)  BY <2>1 DEF RoundInv
  <2>3. QED  BY <2>2 DEF ResultTold, Interrupted, hvars
<1>5. QED  BY <1>1, <1>2, <1>3, <1>4 DEF RoundInv

\* The rows of a round's calls are written: no other round has them.
LEMMA RecordRound ==
  ASSUME RoundInv, NEW r \in Run, RecordRequests(r)
  PROVE  RoundInv'
<1>1. TypeOK /\ TypeOK' /\ Grows /\ Results' = Results
  BY RequestType DEF RoundInv, Grows, RecordRequests, hvars, lines, Results
<1>2. CallsOwned' /\ \A c \in Call : CallTold(c)'
  BY DEF RoundInv, CallsOwned, CallTold, RecordRequests, hvars
<1>3. expected[r] = items[r] /\ pc[r] = "recording"
  BY DEF RoundInv, RoundOpen, InRound, RecordRequests
<1>4. \A c \in Call \ items[r] : SameCall(c)
  BY <1>3 DEF SameCall, RecordRequests, hvars
<1>5. ASSUME NEW q \in Run PROVE RoundOpen(q)' /\ ToolsAgree(q)'
  <2>1. CASE q # r
    <3>1. SameRun(q)  BY <1>1, <2>1 DEF SameRun, RecordRequests, mvars, dvars, TypeOK
    <3>2. \A c \in items[q] : SameCall(c)
      BY <1>1, <1>4, <2>1 DEF RoundInv, CallsOwned, TypeOK
    <3>3. QED  BY <1>1, <3>1, <3>2, RunUntouched DEF RoundInv
  <2>2. CASE q = r
    <3>1. pc'[r] = "waiting"  BY <1>1 DEF RecordRequests, TypeOK
    <3>2. RoundOpen(r)  BY DEF RoundInv
    <3>3. RoundOpen(r)'
      BY <1>3, <3>1, <3>2 DEF RoundOpen, InRound, RecordRequests, mvars, dvars, hvars
    <3>4. ToolsAgree(r)'  BY <3>1 DEF ToolsAgree
    <3>5. QED  BY <2>2, <3>3, <3>4
  <2>3. QED  BY <2>1, <2>2
<1>6. ASSUME NEW e \in Results PROVE ResultTold(e)'
  <2>1. ResultTold(e)  BY DEF RoundInv
  <2>2. calls' = calls /\ calls \in Nat /\ calls <= MaxCalls /\ items' = items
    BY <1>1, BoundsAssumption DEF RecordRequests, TypeOK
  <2>3. \A c \in e.ran \union e.denied : SameCall(c)
    BY <1>4, <2>1, <2>2, BoundsAssumption DEF ResultTold, Call
  <2>4. \A q \in Run : (e.ran \union e.denied) \intersect items'[q] = {}
    BY <2>1, <2>2 DEF ResultTold
  <2>5. QED  BY <1>1, <2>1, <2>2, <2>3, <2>4, ResultUntouched
<1>7. QED  BY <1>1, <1>2, <1>5, <1>6 DEF RoundInv

\* Decisions are accepted, in whatever phase the run is.
LEMMA AcceptRound ==
  ASSUME RoundInv, NEW u \in inbox, SetApprovals(u)
  PROVE  RoundInv'
<1> DEFINE r == u.to
           m == u.decisions
<1>1. TypeOK /\ TypeOK' /\ r \in Run /\ m \in Decisions /\ Results' = Results
  <2>1. TypeOK /\ TypeOK'  BY SubmissionType DEF RoundInv
  <2>2. r \in Run /\ m \in Decisions  BY <2>1 DEF TypeOK
  <2>3. QED  BY <2>1, <2>2 DEF SetApprovals, lines, Results
<1>2. DOMAIN m \subseteq Call /\ DOMAIN m = expected[r]
  BY <1>1, DecisionsType DEF SetApprovals, ValidResponses
<1>3. Grows /\ \A c \in Call : SameCall(c)
  BY DEF Grows, SameCall, SetApprovals
<1>4. CallsOwned'
  BY DEF RoundInv, CallsOwned, SetApprovals
<1>5. ASSUME NEW c \in Call PROVE CallTold(c)'
  BY <1>3 DEF RoundInv, CallTold, SameCall, Grows
<1>6. ASSUME NEW q \in Run PROVE RoundOpen(q)' /\ ToolsAgree(q)'
  <2>1. \A c \in items[q] : SameCall(c)  BY <1>1, <1>3 DEF TypeOK
  <2>2. CASE q # r
    <3>1. SameRun(q)  BY <1>1, <2>2 DEF SameRun, SetApprovals, dvars, TypeOK
    <3>2. QED  BY <1>1, <1>3, <2>1, <3>1, RunUntouched DEF RoundInv
  <2>3. CASE q = r
    <3>1. /\ approvals'[r] = m /\ ready'[r] = TRUE /\ expected' = expected
          /\ items' = items /\ pc' = pc /\ decided' = decided
          /\ approved' = approved /\ todo' = todo
      BY <1>1 DEF SetApprovals, TypeOK, dvars
    <3>2. \A c \in DOMAIN m : m[c] \in accepted'[c]  BY <1>2 DEF SetApprovals
    <3>3. RoundOpen(r) /\ ToolsAgree(r)  BY <1>1 DEF RoundInv
    <3>4. pc[r] = "applying" => items[r] \subseteq changed'
      BY <1>2, <3>3 DEF SetApprovals, RoundOpen, InRound
    <3> HIDE DEF r, m
    <3>5. RoundOpen(r)'
      BY <1>2, <2>1, <2>3, <3>1, <3>2, <3>3, <3>4 DEF RoundOpen, InRound, SameCall
    <3>6. ASSUME pc[r] = "tools" PROVE ToolsAgree(r)'
      <4>1. approved[r] \subseteq items[r] /\ todo[r] \subseteq approved[r]
            /\ items[r] \subseteq Call
        BY <1>1, <3>3, <3>6 DEF ToolsAgree, TypeOK
      <4>2. ASSUME NEW c \in approved[r]
            PROVE  /\ "approve" \in accepted'[c]
                   /\ executed'[c] = IF c \in todo[r] THEN 0 ELSE 1
                   /\ c \notin changed' => rows'[c] = "approved"
        BY <1>3, <3>3, <3>6, <4>1 DEF ToolsAgree, SameCall, Grows
      <4>3. ASSUME NEW c \in items[r] \ approved[r]
            PROVE  /\ "deny" \in accepted'[c]
                   /\ executed'[c] = 0
                   /\ c \notin changed' => rows'[c] = "rejected"
        BY <1>3, <3>3, <3>6, <4>1 DEF ToolsAgree, SameCall, Grows
      <4>4. QED  BY <3>1, <4>1, <4>2, <4>3 DEF ToolsAgree
    <3>7. QED  BY <2>3, <3>1, <3>5, <3>6 DEF ToolsAgree
  <2>4. QED  BY <2>2, <2>3
<1>7. ASSUME NEW e \in Results PROVE ResultTold(e)'
  <2>1. ResultTold(e)  BY DEF RoundInv
  <2>2. calls' = calls /\ calls \in Nat /\ calls <= MaxCalls /\ items' = items
    BY <1>1, BoundsAssumption DEF SetApprovals, TypeOK
  <2>3. \A c \in e.ran \union e.denied : SameCall(c)
    BY <1>3, <2>1, <2>2, BoundsAssumption DEF ResultTold, Call
  <2>4. \A q \in Run : (e.ran \union e.denied) \intersect items'[q] = {}
    BY <2>1, <2>2 DEF ResultTold
  <2>5. QED  BY <1>1, <1>3, <2>1, <2>2, <2>3, <2>4, ResultUntouched
<1>8. QED  BY <1>1, <1>4, <1>5, <1>6, <1>7 DEF RoundInv

\* The decisions are read for the rows.
LEMMA HandleRound ==
  ASSUME RoundInv, NEW r \in Run, HandleDecisions(r)
  PROVE  RoundInv'
<1>1. TypeOK /\ TypeOK' /\ Grows /\ Results' = Results /\ \A c \in Call : SameCall(c)
  BY ToolsType DEF RoundInv, Grows, SameCall, HandleDecisions, hvars, lines, Results
<1>2. CallsOwned' /\ \A c \in Call : CallTold(c)'
  BY DEF RoundInv, CallsOwned, CallTold, HandleDecisions, hvars
<1>3. ASSUME NEW e \in Results PROVE ResultTold(e)'
  BY DEF RoundInv, ResultTold, HandleDecisions, hvars
<1>4. ASSUME NEW q \in Run PROVE RoundOpen(q)' /\ ToolsAgree(q)'
  <2>1. CASE q # r
    <3>1. SameRun(q)  BY <1>1, <2>1 DEF SameRun, HandleDecisions, mvars, TypeOK
    <3>2. \A c \in items[q] : SameCall(c)  BY <1>1 DEF TypeOK
    <3>3. QED  BY <1>1, <3>1, <3>2, RunUntouched DEF RoundInv
  <2>2. CASE q = r
    <3>1. pc[r] = "waiting" /\ ready[r] /\ pc'[r] = "applying" /\ decided'[r] = approvals[r]
      BY <1>1 DEF HandleDecisions, TypeOK
    <3>2. RoundOpen(r)  BY DEF RoundInv
    <3>3. RoundOpen(r)'
      BY <3>1, <3>2 DEF RoundOpen, InRound, HandleDecisions, mvars, hvars
    <3>4. ToolsAgree(r)'  BY <3>1 DEF ToolsAgree
    <3>5. QED  BY <2>2, <3>3, <3>4
  <2>3. QED  BY <2>1, <2>2
<1>5. QED  BY <1>1, <1>2, <1>3, <1>4 DEF RoundInv

\* The rows are written from the decisions that were read, the lists of tools
\* from the manager: they agree on every call that was not decided anew.
LEMMA ApplyRound ==
  ASSUME RoundInv, NEW r \in Run, ApplyDecisions(r)
  PROVE  RoundInv'
<1>1. TypeOK /\ TypeOK' /\ Grows /\ Results' = Results
  BY ToolsType DEF RoundInv, Grows, ApplyDecisions, hvars, lines, Results
<1>2. CallsOwned' /\ \A c \in Call : CallTold(c)'
  BY DEF RoundInv, CallsOwned, CallTold, ApplyDecisions, hvars
<1>3. /\ pc[r] = "applying" /\ RoundOpen(r) /\ DOMAIN decided[r] = items[r]
      /\ DOMAIN approvals[r] = items[r] /\ items[r] \subseteq Call
  BY <1>1 DEF RoundInv, RoundOpen, InRound, ApplyDecisions, TypeOK
<1>4. \A c \in Call \ items[r] : SameCall(c)
  BY <1>3 DEF SameCall, ApplyDecisions, hvars
<1>5. ASSUME NEW q \in Run PROVE RoundOpen(q)' /\ ToolsAgree(q)'
  <2>1. CASE q # r
    <3>1. SameRun(q)  BY <1>1, <2>1 DEF SameRun, ApplyDecisions, mvars, TypeOK
    <3>2. \A c \in items[q] : SameCall(c)
      BY <1>1, <1>4, <2>1 DEF RoundInv, CallsOwned, TypeOK
    <3>3. QED  BY <1>1, <3>1, <3>2, RunUntouched DEF RoundInv
  <2>2. CASE q = r
    <3>1. /\ pc'[r] = "tools" /\ approved'[r] = ApprovedTools(r)
          /\ todo'[r] = ApprovedTools(r)
          /\ UNCHANGED <<items, approvals, ready, expected, decided, accepted,
                         changed, executed>>
      BY <1>1 DEF ApplyDecisions, TypeOK, mvars, hvars
    <3>2. RoundOpen(r)'  BY <1>3, <3>1 DEF RoundOpen, InRound
    <3>3. ApprovedTools(r) = {c \in items[r] : approvals[r][c] = "approve"}
      BY <1>3 DEF ApprovedTools
    <3>4. ASSUME NEW c \in items[r]
          PROVE  /\ approvals[r][c] \in {"approve", "deny"}
                 /\ approvals[r][c] \in accepted[c]
                 /\ executed[c] = 0
                 /\ c \notin changed =>
                      rows'[c] = IF approvals[r][c] = "approve" THEN "approved" ELSE "rejected"
      <4>1. approvals[r] \in Decisions  BY <1>1 DEF TypeOK
      <4>2. approvals[r][c] \in Decision  BY <1>3, <4>1, DecisionsType
      <4>3. rows'[c] = DecidedRow(r, c)  BY <1>3 DEF ApplyDecisions
      <4>4. c \notin changed => decided[r][c] = approvals[r][c]  BY <1>3 DEF RoundOpen
      <4>5. QED  BY <1>3, <4>2, <4>3, <4>4 DEF DecidedRow, Decision, RoundOpen
    <3>5. ToolsAgree(r)'
      BY <3>1, <3>3, <3>4 DEF ToolsAgree
    <3>6. QED  BY <2>2, <3>2, <3>5
  <2>3. QED  BY <2>1, <2>2
<1>6. ASSUME NEW e \in Results PROVE ResultTold(e)'
  <2>1. ResultTold(e)  BY DEF RoundInv
  <2>2. calls' = calls /\ calls \in Nat /\ calls <= MaxCalls /\ items' = items
    BY <1>1, BoundsAssumption DEF ApplyDecisions, TypeOK
  <2>3. \A c \in e.ran \union e.denied : SameCall(c)
    BY <1>4, <2>1, <2>2, BoundsAssumption DEF ResultTold, Call
  <2>4. \A q \in Run : (e.ran \union e.denied) \intersect items'[q] = {}
    BY <2>1, <2>2 DEF ResultTold
  <2>5. QED  BY <1>1, <2>1, <2>2, <2>3, <2>4, ResultUntouched
<1>7. QED  BY <1>1, <1>2, <1>5, <1>6 DEF RoundInv

\* A tool on the list has not been executed before.
LEMMA ExecuteRound ==
  ASSUME RoundInv, NEW r \in Run, NEW c \in Call, ExecuteTool(r, c)
  PROVE  RoundInv'
<1>1. TypeOK /\ TypeOK' /\ Grows /\ Results' = Results
  BY ToolsType DEF RoundInv, Grows, ExecuteTool, lines, Results
<1>2. /\ pc[r] = "tools" /\ c \in todo[r] /\ c \in items[r] /\ c \in approved[r]
      /\ executed[c] = 0 /\ "approve" \in accepted[c] /\ c \in 1 .. calls
  BY DEF RoundInv, ToolsAgree, ExecuteTool, CallsOwned
<1>3. /\ executed'[c] = 1 /\ \A d \in Call : d # c => executed'[d] = executed[d]
      /\ todo'[r] = todo[r] \ {c} /\ \A q \in Run : q # r => todo'[q] = todo[q]
      /\ UNCHANGED <<pc, items, approvals, ready, expected, decided, approved,
                     calls, rows, accepted, changed>>
  BY <1>1, <1>2 DEF ExecuteTool, mvars, TypeOK
<1>4. CallsOwned'
  <2>1. calls \in Nat  BY <1>1, BoundsAssumption DEF TypeOK
  <2>2. \A d \in Call : d > calls' => executed'[d] = 0
    BY <1>2, <1>3, <2>1 DEF RoundInv, CallsOwned, Call
  <2>3. QED  BY <1>3, <2>2 DEF RoundInv, CallsOwned
<1>5. ASSUME NEW d \in Call PROVE CallTold(d)'
  <2>1. CASE d = c  BY <1>2, <1>3, <2>1 DEF CallTold
  <2>2. CASE d # c  BY <1>3, <2>2 DEF RoundInv, CallTold
  <2>3. QED  BY <2>1, <2>2
<1>6. \A d \in Call \ {c} : SameCall(d)  BY <1>3 DEF SameCall
<1>7. ASSUME NEW q \in Run PROVE RoundOpen(q)' /\ ToolsAgree(q)'
  <2>1. CASE q # r
    <3>1. SameRun(q)  BY <1>3, <2>1 DEF SameRun
    <3>2. \A d \in items[q] : SameCall(d)
      BY <1>1, <1>2, <1>6, <2>1 DEF RoundInv, CallsOwned, TypeOK
    <3>3. QED  BY <1>1, <3>1, <3>2, RunUntouched DEF RoundInv
  <2>2. CASE q = r
    <3>1. RoundOpen(r) /\ ToolsAgree(r) /\ items[r] \subseteq Call
      BY <1>1 DEF RoundInv, TypeOK
    <3>2. RoundOpen(r)'  BY <1>2, <1>3, <3>1 DEF RoundOpen, InRound
    <3>3. /\ approved[r] \subseteq items[r] /\ todo'[r] \subseteq approved[r]
      BY <1>2, <1>3, <3>1 DEF ToolsAgree
    <3>4. ASSUME NEW d \in approved[r]
          PROVE  executed'[d] = IF d \in todo'[r] THEN 0 ELSE 1
      <4>1. CASE d = c  BY <1>3, <4>1
      <4>2. CASE d # c
        <5>1. executed[d] = IF d \in todo[r] THEN 0 ELSE 1  BY <1>2, <3>1 DEF ToolsAgree
        <5>2. executed'[d] = executed[d] /\ (d \in todo'[r] <=> d \in todo[r])
          BY <1>3, <3>1, <3>3, <4>2
        <5>3. QED  BY <5>1, <5>2
      <4>3. QED  BY <4>1, <4>2
    <3>5. ASSUME NEW d \in items[r] \ approved[r]
          PROVE  executed'[d] = 0
      BY <1>2, <1>3, <3>1, <3>3 DEF ToolsAgree
    <3>6. ToolsAgree(r)'
      BY <1>2, <1>3, <3>1, <3>3, <3>4, <3>5 DEF ToolsAgree
    <3>7. QED  BY <2>2, <3>2, <3>6
  <2>3. QED  BY <2>1, <2>2
<1>8. ASSUME NEW e \in Results PROVE ResultTold(e)'
  <2>1. ResultTold(e)  BY DEF RoundInv
  <2>2. calls' = calls /\ calls \in Nat /\ calls <= MaxCalls /\ items' = items
    BY <1>1, <1>3, BoundsAssumption DEF TypeOK
  <2>3. \A d \in e.ran \union e.denied : SameCall(d)
    BY <1>2, <1>6, <2>1, <2>2, BoundsAssumption DEF ResultTold, Call
  <2>4. \A q \in Run : (e.ran \union e.denied) \intersect items'[q] = {}
    BY <2>1, <2>2 DEF ResultTold
  <2>5. QED  BY <1>1, <2>1, <2>2, <2>3, <2>4, ResultUntouched
<1>9. QED  BY <1>1, <1>4, <1>5, <1>7, <1>8 DEF RoundInv

\* The round ends: its result is written.
LEMMA FinishRound ==
  ASSUME RoundInv, NEW r \in Run, ToolsExecuted(r)
  PROVE  RoundInv'
<1> DEFINE d == [kind |-> "result", ran |-> approved[r], denied |-> items[r] \ approved[r]]
           keep == {i \in DOMAIN history : i > AssistantIndex(items[r]) =>
                                             ~ InterruptEntry(history[i], items[r])}
<1>1. TypeOK /\ TypeOK' /\ Grows /\ \A c \in Call : SameCall(c)
  BY ToolsType DEF RoundInv, Grows, SameCall, ToolsExecuted, hvars
<1>2. /\ pc[r] = "tools" /\ todo[r] = {} /\ pc'[r] = "agent" /\ items'[r] = {}
      /\ \A q \in Run : q # r => pc'[q] = pc[q] /\ items'[q] = items[q]
      /\ UNCHANGED <<approvals, ready, expected, decided, approved, todo, calls,
                     rows, executed, accepted, changed>>
  BY <1>1 DEF ToolsExecuted, TypeOK, mvars, dvars, hvars
<1>3. /\ approved[r] \subseteq items[r] /\ items[r] \subseteq 1 .. calls
      /\ \A c \in approved[r] : executed[c] = 1 /\ (c \notin changed => rows[c] = "approved")
      /\ \A c \in items[r] \ approved[r] :
           /\ "deny" \in accepted[c] /\ executed[c] = 0
           /\ c \notin changed => rows[c] = "rejected"
  BY <1>2 DEF RoundInv, ToolsAgree, CallsOwned
<1>4. CallsOwned'
  BY <1>2 DEF RoundInv, CallsOwned
<1>5. \A c \in Call : CallTold(c)'
  BY <1>2 DEF RoundInv, CallTold
<1>6. ASSUME NEW q \in Run PROVE RoundOpen(q)' /\ ToolsAgree(q)'
  <2>1. CASE q # r
    <3>1. SameRun(q)  BY <1>2, <2>1 DEF SameRun
    <3>2. \A c \in items[q] : SameCall(c)  BY <1>1 DEF TypeOK
    <3>3. QED  BY <1>1, <3>1, <3>2, RunUntouched DEF RoundInv
  <2>2. CASE q = r
    <3>1. RoundOpen(r)  BY DEF RoundInv
    <3>2. RoundOpen(r)'  BY <1>2, <3>1 DEF RoundOpen, InRound
    <3>3. ToolsAgree(r)'  BY <1>2 DEF ToolsAgree
    <3>4. QED  BY <2>2, <3>2, <3>3
  <2>3. QED  BY <2>1, <2>2
<1>7. Results' \subseteq Results \union {d}
  <2>1. WriteHistory(keep, <<d>>) /\ keep \in SUBSET DOMAIN history /\ d.kind = "result"
    BY DEF ToolsExecuted, ReplaceInterrupt
  <2> HIDE DEF d, keep
  <2>2. QED  BY <1>1, <2>1, ResultsWritten
<1>8. ASSUME NEW e \in Results PROVE ResultTold(e)'
  <2>1. ResultTold(e)  BY DEF RoundInv
  <2>2. calls' = calls /\ calls \in Nat /\ calls <= MaxCalls
    BY <1>1, <1>2, BoundsAssumption DEF TypeOK
  <2>3. \A c \in e.ran \union e.denied : SameCall(c)
    BY <1>1, <2>1, <2>2, BoundsAssumption DEF ResultTold, Call
  <2>4. \A q \in Run : (e.ran \union e.denied) \intersect items'[q] = {}
    BY <1>2, <2>1 DEF ResultTold
  <2>5. QED  BY <1>1, <2>1, <2>2, <2>3, <2>4, ResultUntouched
<1>9. ASSUME NEW e, e = d PROVE ResultTold(e)'
  <2>1. e.ran = approved[r] /\ e.denied = items[r] \ approved[r]  BY <1>9
  <2>2. ASSUME NEW q \in Run
        PROVE  (approved[r] \union (items[r] \ approved[r])) \intersect items'[q] = {}
    BY <1>2, <1>3 DEF RoundInv, CallsOwned
  <2>3. QED  BY <1>2, <1>3, <2>1, <2>2 DEF ResultTold
<1>10. QED  BY <1>1, <1>4, <1>5, <1>6, <1>7, <1>8, <1>9 DEF RoundInv

\* The initial state has the invariant.
LEMMA InitRound == Init => RoundInv
<1> SUFFICES ASSUME Init PROVE RoundInv
  OBVIOUS
<1>1. TypeOK  BY InitType
<1>2. CallsOwned /\ \A c \in Call : CallTold(c)
  BY DEF Init, CallsOwned, CallTold
<1>3. ASSUME NEW r \in Run PROVE RoundOpen(r) /\ ToolsAgree(r)
  BY NoDecisions DEF Init, RoundOpen, ToolsAgree, InRound
<1>4. Results = {}
  BY NoDecisions DEF Init, Results
<1>5. QED  BY <1>1, <1>2, <1>3, <1>4 DEF RoundInv

\* Every step keeps the invariant.
LEMMA NextRound == RoundInv /\ [Next]_vars => RoundInv'
<1> SUFFICES ASSUME RoundInv, [Next]_vars PROVE RoundInv'
  OBVIOUS
<1>1. TypeOK /\ TypeOK'  BY NextType DEF RoundInv
<1>2. CASE StartAgentAction
  <2>1. "session" \in Run  BY DEF Run
  <2>2. /\ pc' = [pc EXCEPT !["session"] = "starting"] /\ pc["session"] = "idle"
        /\ UNCHANGED <<items, mvars, dvars, calls, rows, history, hvars>>
    BY <1>2, <2>1 DEF StartAgentAction, lines
  <2>3. QED  BY <1>1, <2>1, <2>2, MoveRound
<1>3. ASSUME NEW r \in ChatRun, RunTurn(r) PROVE RoundInv'
  <2>1. /\ pc' = [pc EXCEPT ![r] = "starting"] /\ pc[r] = "idle"
        /\ UNCHANGED <<items, mvars, dvars, calls, rows, history, hvars>>
    BY <1>3 DEF RunTurn, lines
  <2>2. QED  BY <1>1, <2>1, MoveRound DEF Run
<1>4. ASSUME NEW r \in Run, CreateSession(r) PROVE RoundInv'
  <2>1. /\ pc' = [pc EXCEPT ![r] = "agent"] /\ pc[r] = "starting"
        /\ UNCHANGED <<items, mvars, dvars, calls, rows, history, hvars>>
    BY <1>4 DEF CreateSession, lines
  <2>2. QED  BY <1>1, <2>1, MoveRound
<1>5. ASSUME NEW r \in Run, Completed(r) PROVE RoundInv'
  <2>1. /\ pc' = [pc EXCEPT ![r] = "done"]
        /\ UNCHANGED <<items, mvars, dvars, calls, rows, history, hvars>>
    BY <1>5 DEF Completed, lines
  <2>2. QED  BY <1>1, <2>1, MoveRound
<1>6. ASSUME NEW r \in Run, Fail(r) PROVE RoundInv'
  <2>1. /\ pc' = [pc EXCEPT ![r] = "failed"]
        /\ UNCHANGED <<items, mvars, dvars, calls, rows, history, hvars>>
    BY <1>6 DEF Fail, lines
  <2>2. QED  BY <1>1, <2>1, MoveRound
<1>7. CASE UNCHANGED <<pc, items, mvars, dvars, calls, rows, history, hvars>>
  <2>1. Results' = Results  BY <1>7 DEF Results
  <2>2. QED  BY <1>1, <1>7, <2>1, StutterRound
<1>8. CASE Next
  <2>1. ASSUME NEW m \in Decisions, Submit(m) PROVE RoundInv'
    BY <1>7, <2>1 DEF Submit, lines
  <2>2. ASSUME NEW u \in inbox, RejectApprovals(u) PROVE RoundInv'
    BY <1>7, <2>2 DEF RejectApprovals, lines
  <2>3. ASSUME NEW r \in Run, Step(r) PROVE RoundInv'
    BY <1>4, <1>5, <2>3, InterruptedRound, RecordRound, HandleRound, ApplyRound,
       ExecuteRound, FinishRound DEF Step
  <2>4. QED
    BY <1>2, <1>3, <1>6, <1>8, <2>1, <2>2, <2>3, RequestRound, PersistRound, AcceptRound DEF Next
<1>9. CASE UNCHANGED vars
  BY <1>7, <1>9 DEF vars, mvars, dvars, hvars
<1>10. QED  BY <1>8, <1>9

\* Rounds of different runs never share a call; while a round is open its
\* manager, its rows and its executions agree; what the history says of the
\* rounds that are over is true.
THEOREM ApprovalRounds == Spec => []RoundInv
BY InitRound, NextRound, PTL DEF Spec

\* _build_tool_lists_from_approvals: a tool runs only when somebody approved
\* this very call, and the agent is told that a call was denied only when
\* somebody denied it, whatever late, repeated or misdirected submissions arrive.
THEOREM ApprovalsHonoured == Spec => []DecisionsHonoured
<1>1. RoundInv => DecisionsHonoured
  BY DEF RoundInv, ResultTold, CallTold, DecisionsHonoured
<1>2. QED  BY <1>1, ApprovalRounds, PTL

\* execute_approved_tools_activity: an approved tool runs at most once.
THEOREM ApprovalsExecuteOnce == Spec => []ExecutedOnce
<1>1. RoundInv => ExecutedOnce
  BY DEF RoundInv, CallTold, ExecutedOnce
<1>2. QED  BY <1>1, ApprovalRounds, PTL

\* apply_approval_decisions: the approval row says what was done with the
\* call, except for a call that was decided anew while its row was written.
THEOREM ApprovalRecordsAgree == Spec => []RecordsAgree
<1>1. RoundInv => RecordsAgree
  BY DEF RoundInv, ResultTold, RecordsAgree
<1>2. QED  BY <1>1, ApprovalRounds, PTL

-----------------------------------------------------------------------------
(***************************************************************************)
(* The history.                                                            *)
(***************************************************************************)
\* A run that has no interruption in the history, that ends, or whose round
\* goes on.
Carries(q) ==
  \/ pc[q] \in {"idle", "starting", "agent"}
  \/ pc'[q] \in {"done", "failed"}
  \/ pc'[q] = pc[q] /\ items'[q] = items[q]
  \/ InRound(q) /\ InRound(q)' /\ items'[q] = items[q]

\* Lines are owed only by a run in its agent activity, or by one that failed.
StillOwes(q) == unanswered[q] # {} => pc'[q] \in {"agent", "failed"}

\* Steps that write nothing to the history.
LEMMA HistoryUntouched ==
  ASSUME HistoryInv, RoundInv', UNCHANGED <<history, calls, items, unanswered>>,
         \A q \in Run : Carries(q) /\ StillOwes(q)
  PROVE  HistoryInv'
<1>1. UsesAnswered'
  BY DEF HistoryInv, UsesAnswered, AnsweredAt, OpenAt, Owed
<1>2. LinesOwed'
  BY DEF HistoryInv, LinesOwed, StillOwes
<1>3. ASSUME NEW i \in DOMAIN history, history[i].kind = "interrupt",
             NEW r, r = history[i].by
      PROVE  /\ pc'[r] \notin {"idle", "starting", "agent"}
             /\ InRound(r)' => \A j \in DOMAIN history : \A c \in items'[r] :
                                 Use(history[j], c) => j < i
  <2>1. r \in Run
    <3>1. history[i] \in Entry  BY DEF HistoryInv, RoundInv, TypeOK
    <3>2. QED  BY <1>3, <3>1 DEF Entry
  <2>2. /\ pc[r] \notin {"idle", "starting", "agent"}
        /\ InRound(r) => \A j \in DOMAIN history : \A c \in items[r] :
                           Use(history[j], c) => j < i
    BY <1>3 DEF HistoryInv, InterruptsPlaced
  <2>3. Carries(r)  BY <2>1
  <2>4. QED  BY <2>2, <2>3 DEF Carries, InRound
<1>4. InterruptsPlaced'
  BY <1>3 DEF InterruptsPlaced, InRound
<1>5. QED  BY <1>1, <1>4, <1>2 DEF HistoryInv

\* A line that says nothing of a call leaves the lines of that call alone.
LEMMA CallUntouched ==
  ASSUME TypeOK, NEW c, NEW keep \in SUBSET DOMAIN history, NEW d,
         WriteHistory(keep, <<d>>),
         ~ Use(d, c), ~ Answers(d, c),
         \A k \in DOMAIN history \ keep : ~ Use(history[k], c) /\ ~ Answers(history[k], c)
  PROVE  /\ \A i \in DOMAIN history : OpenAt(c, i) =>
                                         i \in DOMAIN history' /\ OpenAt(c, i)'
         /\ \A i, j \in DOMAIN history : AnsweredAt(c, i, j) =>
              i \in DOMAIN history' /\ j \in DOMAIN history' /\ AnsweredAt(c, i, j)'
<1>1. /\ DOMAIN history' = keep \union {lastId'} /\ history'[lastId'] = d
      /\ \A i \in keep : history'[i] = history[i]
      /\ lastId' \notin DOMAIN history
  BY WriteOne
<1>2. ASSUME NEW i \in DOMAIN history, OpenAt(c, i)
      PROVE  i \in DOMAIN history' /\ OpenAt(c, i)'
  <2>1. i \in keep  BY <1>2 DEF OpenAt
  <2>2. QED  BY <1>1, <1>2, <2>1 DEF OpenAt
<1>3. ASSUME NEW i \in DOMAIN history, NEW j \in DOMAIN history, AnsweredAt(c, i, j)
      PROVE  i \in DOMAIN history' /\ j \in DOMAIN history' /\ AnsweredAt(c, i, j)'
  <2>1. i \in keep /\ j \in keep  BY <1>3 DEF AnsweredAt
  <2>2. QED  BY <1>1, <1>3, <2>1 DEF AnsweredAt
<1>4. QED  BY <1>2, <1>3

\* A new call: its tool_use is the last line, and its answer is owed.
LEMMA RequestHistory ==
  ASSUME HistoryInv, RoundInv', NEW r \in Run, RequestApproval(r)
  PROVE  HistoryInv'
<1>0. PICK n : n = NextCall  OBVIOUS
<1> DEFINE d == [kind |-> "use", call |-> n]
<1>1. TypeOK /\ TypeOK' /\ RoundInv  BY DEF HistoryInv, RoundInv
<1>2. /\ lastId \in Nat /\ calls \in Nat /\ calls' = calls + 1 /\ n = calls + 1
      /\ 1 .. calls' = 1 .. calls \union {n} /\ n \notin 1 .. calls
  <2>1. lastId \in Nat /\ calls \in Nat /\ calls' = calls + 1 /\ n = calls + 1
    BY <1>0, <1>1, BoundsAssumption DEF TypeOK, RequestApproval, NextCall
  <2>2. QED  BY <2>1
<1>3. /\ WriteHistory(DOMAIN history, <<d>>)
      /\ DOMAIN history' = DOMAIN history \union {lastId'} /\ history'[lastId'] = d
      /\ \A i \in DOMAIN history : history'[i] = history[i]
      /\ lastId' \notin DOMAIN history
  <2>1. WriteHistory(DOMAIN history, <<d>>)  BY <1>0 DEF RequestApproval, AppendHistory
  <2> HIDE DEF d
  <2>2. QED  BY <1>1, <2>1, WriteOne
<1>4. /\ \A c : Use(d, c) <=> c = n
      /\ \A c : ~ Answers(d, c)
      /\ d.kind = "use" /\ d.call = n
  BY DEF Use, Answers
<1> HIDE DEF d
<1>5. ASSUME NEW i \in DOMAIN history
      PROVE  ~ Use(history[i], n) /\ ~ Answers(history[i], n)
  <2>1. history[i].kind \in {"use", "error"} => history[i].call # n
    BY <1>2 DEF HistoryInv, UsesAnswered
  <2>2. history[i].kind = "result" => n \notin history[i].ran \union history[i].denied
    <3>1. history[i].kind = "result" => history[i] \in Results  BY DEF Results
    <3>2. QED  BY <1>1, <1>2, <3>1 DEF RoundInv, ResultTold
  <2>3. QED  BY <2>1, <2>2 DEF Use, Answers
<1>6. /\ unanswered'[r] = unanswered[r] \union {n} /\ items'[r] = {n}
      /\ \A q \in Run : q # r => unanswered'[q] = unanswered[q] /\ items'[q] = items[q]
      /\ pc' = pc /\ pc[r] = "agent"
  BY <1>0, <1>1 DEF RequestApproval, TypeOK
<1>7. \A q \in Run : n \notin unanswered[q] /\ n \notin items[q]
  BY <1>1, <1>2 DEF HistoryInv, LinesOwed, RoundInv, CallsOwned
<1>8. LinesOwed'
  <2>1. \A q \in Run : unanswered'[q] \subseteq 1 .. calls'
    BY <1>2, <1>6 DEF HistoryInv, LinesOwed
  <2>2. \A q \in Run : unanswered'[q] # {} => pc'[q] \in {"agent", "failed"}
    BY <1>6 DEF HistoryInv, LinesOwed
  <2>3. \A p, q \in Run : p # q => unanswered'[p] \intersect unanswered'[q] = {}
    BY <1>6, <1>7 DEF HistoryInv, LinesOwed
  <2>4. \A p, q \in Run : p # q => items'[p] \intersect unanswered'[q] = {}
    BY <1>6, <1>7 DEF HistoryInv, LinesOwed
  <2>5. QED  BY <2>1, <2>2, <2>3, <2>4 DEF LinesOwed
<1>9. UsesAnswered'
  <2>1. ASSUME NEW i \in DOMAIN history', history'[i].kind \in {"use", "error"}
        PROVE  history'[i].call \in 1 .. calls'
    BY <1>2, <1>3, <1>4, <2>1 DEF HistoryInv, UsesAnswered
  <2>2. Owed(n)' /\ \E i \in DOMAIN history' : OpenAt(n, i)'
    <3>1. PICK i : i = lastId'  OBVIOUS
    <3>2. OpenAt(n, i)'  BY <1>3, <1>4, <1>5, <3>1 DEF OpenAt
    <3>3. QED  BY <1>3, <1>6, <3>1, <3>2 DEF Owed
  <2>3. ASSUME NEW c \in 1 .. calls
        PROVE  /\ Owed(c)' => \E i \in DOMAIN history' : OpenAt(c, i)'
               /\ ~ Owed(c)' => \E i, j \in DOMAIN history' : AnsweredAt(c, i, j)'
    <3>1. c # n /\ ~ Use(d, c) /\ ~ Answers(d, c)  BY <1>2, <1>4
    <3>2. Owed(c)' <=> Owed(c)  BY <1>6, <3>1 DEF Owed
    <3>3. QED
      BY <1>1, <1>3, <3>1, <3>2, CallUntouched DEF HistoryInv, UsesAnswered
  <2>4. QED  BY <1>2, <2>1, <2>2, <2>3 DEF UsesAnswered
<1>10. InterruptsPlaced'
  <2> SUFFICES ASSUME NEW i \in DOMAIN history', history'[i].kind = "interrupt",
                      NEW q, q = history'[i].by
               PROVE  /\ pc'[q] \notin {"idle", "starting", "agent"}
                      /\ InRound(q)' => \A j \in DOMAIN history' : \A c \in items'[q] :
                                          Use(history'[j], c) => j < i
    BY DEF InterruptsPlaced, InRound
  <2>1. i \in DOMAIN history /\ history'[i] = history[i]  BY <1>3, <1>4
  <2>2. q \in Run
    <3>1. history[i] \in Entry  BY <1>1, <2>1 DEF TypeOK
    <3>2. QED  BY <2>1, <3>1 DEF Entry
  <2>3. /\ pc[q] \notin {"idle", "starting", "agent"} /\ pc' = pc
        /\ InRound(q) => \A j \in DOMAIN history : \A c \in items[q] :
                           Use(history[j], c) => j < i
    BY <2>1 DEF HistoryInv, InterruptsPlaced, RequestApproval
  <2>4. q # r /\ items'[q] = items[q]
    BY <1>1, <2>2, <2>3 DEF RequestApproval, TypeOK
  <2>5. n \notin items[q]
    BY <1>1, <1>2, <2>2 DEF RoundInv, CallsOwned
  <2>6. QED
    BY <1>3, <1>4, <2>3, <2>4, <2>5 DEF InRound
<1>11. QED  BY <1>9, <1>10, <1>8 DEF HistoryInv

\* The answer that was owed is the last line.
LEMMA PersistHistory ==
  ASSUME HistoryInv, RoundInv', NEW r \in Run, NEW n \in Call, PersistError(r, n)
  PROVE  HistoryInv'
<1> DEFINE d == [kind |-> "error", call |-> n]
<1>1. TypeOK /\ TypeOK' /\ RoundInv  BY DEF HistoryInv, RoundInv
<1>2. /\ unanswered'[r] = unanswered[r] \ {n} /\ n \in unanswered[r]
      /\ \A q \in Run : q # r => unanswered'[q] = unanswered[q]
      /\ UNCHANGED <<pc, items, calls>> /\ pc[r] = "agent"
  BY <1>1 DEF PersistError, TypeOK
<1>3. /\ WriteHistory(DOMAIN history, <<d>>)
      /\ DOMAIN history' = DOMAIN history \union {lastId'} /\ history'[lastId'] = d
      /\ \A i \in DOMAIN history : history'[i] = history[i] /\ i < lastId'
      /\ lastId' \notin DOMAIN history
  <2>1. WriteHistory(DOMAIN history, <<d>>)  BY DEF PersistError, AppendHistory
  <2> HIDE DEF d
  <2>2. QED  BY <1>1, <2>1, WriteOne
<1>4. /\ \A c : ~ Use(d, c)
      /\ \A c : Answers(d, c) <=> c = n
      /\ d.kind = "error" /\ d.call = n
  BY DEF Use, Answers
<1> HIDE DEF d
<1>5. n \in 1 .. calls /\ \A q \in Run : q # r => n \notin unanswered[q]
  BY <1>2 DEF HistoryInv, LinesOwed
<1>6. LinesOwed'
  <2>1. \A q \in Run : unanswered'[q] \subseteq unanswered[q]  BY <1>2
  <2>2. QED  BY <1>2, <2>1 DEF HistoryInv, LinesOwed
<1>7. UsesAnswered'
  <2>1. ASSUME NEW i \in DOMAIN history', history'[i].kind \in {"use", "error"}
        PROVE  history'[i].call \in 1 .. calls
    BY <1>3, <1>4, <1>5, <2>1 DEF HistoryInv, UsesAnswered
  <2>2. ~ Owed(n)' /\ \E i, j \in DOMAIN history' : AnsweredAt(n, i, j)'
    <3>1. PICK i \in DOMAIN history : OpenAt(n, i)
      BY <1>2, <1>5 DEF HistoryInv, UsesAnswered, Owed
    <3>2. PICK j : j = lastId'  OBVIOUS
    <3>3. AnsweredAt(n, i, j)'  BY <1>3, <1>4, <3>1, <3>2 DEF OpenAt, AnsweredAt
    <3>4. ~ Owed(n)'  BY <1>2, <1>5 DEF Owed
    <3>5. QED  BY <1>3, <3>2, <3>3, <3>4
  <2>3. ASSUME NEW c \in 1 .. calls, c # n
        PROVE  /\ Owed(c)' => \E i \in DOMAIN history' : OpenAt(c, i)'
               /\ ~ Owed(c)' => \E i, j \in DOMAIN history' : AnsweredAt(c, i, j)'
    <3>1. ~ Use(d, c) /\ ~ Answers(d, c)  BY <1>4, <2>3
    <3>2. Owed(c)' <=> Owed(c)  BY <1>2, <2>3 DEF Owed
    <3>3. QED
      BY <1>1, <1>3, <3>1, <3>2, CallUntouched DEF HistoryInv, UsesAnswered
  <2>4. QED  BY <1>2, <2>1, <2>2, <2>3 DEF UsesAnswered
<1>8. InterruptsPlaced'
  <2> SUFFICES ASSUME NEW i \in DOMAIN history', history'[i].kind = "interrupt",
                      NEW q, q = history'[i].by
               PROVE  /\ pc'[q] \notin {"idle", "starting", "agent"}
                      /\ InRound(q)' => \A j \in DOMAIN history' : \A c \in items'[q] :
                                          Use(history'[j], c) => j < i
    BY DEF InterruptsPlaced, InRound
  <2>1. i \in DOMAIN history /\ history'[i] = history[i]  BY <1>3, <1>4
  <2>2. /\ pc[q] \notin {"idle", "starting", "agent"}
        /\ InRound(q) => \A j \in DOMAIN history : \A c \in items[q] :
                           Use(history[j], c) => j < i
    BY <2>1 DEF HistoryInv, InterruptsPlaced
  <2>3. QED  BY <1>2, <1>3, <1>4, <2>2 DEF InRound
<1>9. QED  BY <1>6, <1>7, <1>8 DEF HistoryInv

\* The text of the interruption is the last line.
LEMMA InterruptedHistory ==
  ASSUME HistoryInv, RoundInv', NEW r \in Run, Interrupted(r)
  PROVE  HistoryInv'
<1> DEFINE d == [kind |-> "interrupt", by |-> r]
<1>1. TypeOK /\ TypeOK' /\ RoundInv  BY DEF HistoryInv, RoundInv
<1>2. lastId \in Nat /\ calls' = calls /\ items' = items /\ pc[r] = "agent"
      /\ pc' = [pc EXCEPT ![r] = "recording"]
  BY <1>1 DEF TypeOK, Interrupted
<1>3. /\ WriteHistory(DOMAIN history, <<d>>) /\ lastId' = lastId + 1
      /\ DOMAIN history' = DOMAIN history \union {lastId'} /\ history'[lastId'] = d
      /\ \A i \in DOMAIN history : history'[i] = history[i] /\ i \in 1 .. lastId
  <2>1. WriteHistory(DOMAIN history, <<d>>)  BY DEF Interrupted, AppendHistory
  <2> HIDE DEF d
  <2>2. QED  BY <1>1, <2>1, WriteOne
<1>4. (\A c : ~ Use(d, c) /\ ~ Answers(d, c)) /\ d.kind = "interrupt" /\ d.by = r
  BY DEF Use, Answers
<1> HIDE DEF d
<1>5. \A i \in DOMAIN history : i < lastId' /\ i # lastId'  BY <1>2, <1>3
<1>6. UsesAnswered'
  <2>1. \A c : Owed(c)' <=> Owed(c)  BY DEF Owed, Interrupted
  <2>2. ASSUME NEW c \in 1 .. calls
        PROVE  /\ Owed(c)' => \E i \in DOMAIN history' : OpenAt(c, i)'
               /\ ~ Owed(c)' => \E i, j \in DOMAIN history' : AnsweredAt(c, i, j)'
    BY <1>1, <1>3, <1>4, <2>1, CallUntouched DEF HistoryInv, UsesAnswered
  <2>3. QED  BY <1>2, <1>3, <1>4, <2>2 DEF HistoryInv, UsesAnswered
<1>7. LinesOwed'
  <2>1. unanswered' = unanswered /\ unanswered[r] = {}
        /\ \A q \in Run : q # r => pc'[q] = pc[q]
    BY <1>1, <1>2 DEF Interrupted, TypeOK
  <2>2. QED  BY <1>2, <2>1 DEF HistoryInv, LinesOwed
<1>8. InterruptsPlaced'
  <2> SUFFICES ASSUME NEW i \in DOMAIN history', history'[i].kind = "interrupt",
                      NEW q, q = history'[i].by
               PROVE  /\ pc'[q] \notin {"idle", "starting", "agent"}
                      /\ InRound(q)' => \A j \in DOMAIN history' : \A c \in items'[q] :
                                          Use(history'[j], c) => j < i
    BY DEF InterruptsPlaced, InRound
  <2>1. CASE i = lastId'
    <3>1. q = r /\ pc'[r] = "recording"  BY <1>1, <1>2, <1>3, <1>4, <2>1 DEF TypeOK
    <3>2. QED  BY <1>3, <1>4, <1>5, <2>1, <3>1
  <2>2. CASE i # lastId'
    <3>1. i \in DOMAIN history /\ history'[i] = history[i]  BY <1>3, <2>2
    <3>2. q \in Run
      <4>1. history[i] \in Entry  BY <1>1, <3>1 DEF TypeOK
      <4>2. QED  BY <3>1, <4>1 DEF Entry
    <3>3. /\ pc[q] \notin {"idle", "starting", "agent"}
          /\ InRound(q) => \A j \in DOMAIN history : \A c \in items[q] :
                             Use(history[j], c) => j < i
      BY <3>1 DEF HistoryInv, InterruptsPlaced
    <3>4. q # r /\ pc'[q] = pc[q]  BY <1>1, <1>2, <3>2, <3>3 DEF TypeOK
    <3>5. QED  BY <1>2, <1>3, <1>4, <3>3, <3>4 DEF InRound
  <2>3. QED  BY <2>1, <2>2
<1>9. QED  BY <1>6, <1>8, <1>7 DEF HistoryInv

\* replace_interrupt_with_tool_results: the error of the round's call gives
\* way to the result, the interruptions go, and nothing else does.
LEMMA FinishHistory ==
  ASSUME HistoryInv, RoundInv', NEW r \in Run, ToolsExecuted(r)
  PROVE  HistoryInv'
<1>1. TypeOK /\ TypeOK' /\ RoundInv  BY DEF HistoryInv, RoundInv
<1>2. /\ pc[r] = "tools" /\ lastId \in Nat /\ calls' = calls
      /\ pc' = [pc EXCEPT ![r] = "agent"] /\ items' = [items EXCEPT ![r] = {}]
  BY <1>1 DEF TypeOK, ToolsExecuted
<1>3. PICK c0 \in 1 .. calls : items[r] = {c0}
  <2>1. items[r] # {} /\ items[r] \subseteq 1 .. calls /\ \A c, d \in items[r] : c = d
    BY <1>1, <1>2 DEF RoundInv, RoundOpen, InRound, CallsOwned
  <2>2. QED  BY <2>1
<1>4. PICK i0, j0 \in DOMAIN history : AnsweredAt(c0, i0, j0)
  <2>1. unanswered[r] = {} /\ \A q \in Run : q # r => c0 \notin unanswered[q]
    BY <1>2, <1>3 DEF HistoryInv, LinesOwed
  <2>2. ~ Owed(c0)  BY <2>1 DEF Owed
  <2>3. QED  BY <1>3, <2>2 DEF HistoryInv, UsesAnswered
<1>5. AssistantIndex(items[r]) = i0
  <2>1. \A k \in DOMAIN history : history[k].kind = "use" /\ history[k].call \in items[r]
                                    <=> k = i0
    BY <1>3, <1>4 DEF AnsweredAt, Use
  <2>2. i0 \in Int  BY <1>1, <1>4 DEF TypeOK
  <2>3. QED  BY <1>4, <2>1, <2>2 DEF AssistantIndex
<1> DEFINE keep == {i \in DOMAIN history : i > i0 => ~ InterruptEntry(history[i], {c0})}
<1>6. PICK d : d = [kind |-> "result", ran |-> approved[r],
                    denied |-> items[r] \ approved[r]]
  OBVIOUS
<1>7. d.kind = "result" /\ d.ran \union d.denied = {c0}
  <2>1. approved[r] \subseteq items[r]  BY <1>1, <1>2 DEF RoundInv, ToolsAgree
  <2>2. QED  BY <1>3, <1>6, <2>1
<1>8. /\ WriteHistory(keep, <<d>>) /\ lastId' = lastId + 1
      /\ DOMAIN history' = keep \union {lastId'} /\ history'[lastId'] = d
      /\ \A i \in keep : history'[i] = history[i] /\ i \in 1 .. lastId
  <2>1. WriteHistory(keep, <<d>>)
    BY <1>3, <1>5, <1>6 DEF ToolsExecuted, ReplaceInterrupt
  <2>2. keep \in SUBSET DOMAIN history  OBVIOUS
  <2> HIDE DEF keep
  <2>3. QED  BY <1>1, <2>1, <2>2, WriteOne
<1>9. /\ \A c : ~ Use(d, c)
      /\ \A c : Answers(d, c) <=> c = c0
  BY <1>7 DEF Use, Answers
<1>10. \A i \in DOMAIN history : i < lastId' /\ i # lastId'  BY <1>1, <1>2, <1>8 DEF TypeOK
<1>11. ASSUME NEW i \in DOMAIN history, history[i].kind = "result"
       PROVE  c0 \notin history[i].ran \union history[i].denied
  <2>1. ResultTold(history[i])  BY <1>1, <1>11 DEF RoundInv, Results
  <2>2. QED  BY <1>3, <2>1 DEF ResultTold
<1>12. ASSUME NEW i \in DOMAIN history, i \notin keep
       PROVE  /\ i > i0
              /\ history[i].kind = "interrupt" \/ (history[i].kind = "error" /\ history[i].call = c0)
  BY <1>11, <1>12 DEF InterruptEntry
<1>13. UsesAnswered'
  <2>1. ASSUME NEW c \in 1 .. calls, c # c0
        PROVE  /\ Owed(c)' => \E i \in DOMAIN history' : OpenAt(c, i)'
               /\ ~ Owed(c)' => \E i, j \in DOMAIN history' : AnsweredAt(c, i, j)'
    <3>1. Owed(c)' <=> Owed(c)  BY DEF Owed, ToolsExecuted
    <3>2. ASSUME NEW k \in DOMAIN history \ keep
          PROVE  ~ Use(history[k], c) /\ ~ Answers(history[k], c)
      BY <1>12, <2>1 DEF Use, Answers
    <3>3. ~ Use(d, c) /\ ~ Answers(d, c) /\ keep \in SUBSET DOMAIN history
      BY <1>9, <2>1
    <3> HIDE DEF keep
    <3>4. QED
      BY <1>1, <1>8, <3>1, <3>2, <3>3, CallUntouched DEF HistoryInv, UsesAnswered
  <2>2. \E i, j \in DOMAIN history' : AnsweredAt(c0, i, j)'
    <3>1. Use(history[i0], c0) /\ Answers(history[j0], c0) /\ i0 < j0
      BY <1>4 DEF AnsweredAt
    <3>2. i0 \in keep  BY <1>12, <3>1 DEF Use
    <3>3. \A k \in DOMAIN history' : Use(history'[k], c0) <=> k = i0
      BY <1>4, <1>8, <1>9, <1>10, <3>2 DEF AnsweredAt
    <3>4. j0 \notin keep
      <4>1. history[j0].kind = "error" /\ history[j0].call = c0
        BY <1>11, <3>1 DEF Answers
      <4>2. j0 > i0  BY <1>1, <3>1 DEF TypeOK
      <4>3. QED  BY <4>1, <4>2 DEF InterruptEntry
    <3>5. PICK l : l = lastId'  OBVIOUS
    <3>6. \A k \in DOMAIN history' : Answers(history'[k], c0) <=> k = l
      BY <1>4, <1>8, <1>9, <1>10, <3>4, <3>5 DEF AnsweredAt
    <3>7. AnsweredAt(c0, i0, l)'  BY <1>10, <3>3, <3>5, <3>6 DEF AnsweredAt
    <3>8. QED  BY <1>8, <3>2, <3>5, <3>7
  <2>3. ~ Owed(c0)'
    BY <1>2, <1>3 DEF Owed, ToolsExecuted, HistoryInv, LinesOwed
  <2>4. ASSUME NEW i \in DOMAIN history', history'[i].kind \in {"use", "error"}
        PROVE  history'[i].call \in 1 .. calls
    <3>1. i \in keep /\ history'[i] = history[i]  BY <1>7, <1>8, <2>4
    <3>2. QED  BY <2>4, <3>1 DEF HistoryInv, UsesAnswered
  <2>5. QED  BY <1>2, <2>1, <2>4, <2>2, <2>3 DEF UsesAnswered
<1>14. InterruptsPlaced'
  <2> SUFFICES ASSUME NEW i \in DOMAIN history', history'[i].kind = "interrupt",
                      NEW q, q = history'[i].by
               PROVE  /\ pc'[q] \notin {"idle", "starting", "agent"}
                      /\ InRound(q)' => \A j \in DOMAIN history' : \A c \in items'[q] :
                                          Use(history'[j], c) => j < i
    BY DEF InterruptsPlaced, InRound
  <2>1. i \in keep /\ history'[i] = history[i]  BY <1>7, <1>8
  <2>2. q \in Run
    <3>1. history[i] \in Entry  BY <1>1, <2>1 DEF TypeOK
    <3>2. QED  BY <2>1, <3>1 DEF Entry
  <2>3. /\ pc[q] \notin {"idle", "starting", "agent"}
        /\ InRound(q) => \A j \in DOMAIN history : \A c \in items[q] :
                           Use(history[j], c) => j < i
    BY <2>1 DEF HistoryInv, InterruptsPlaced
  <2>4. q # r
    <3>1. Use(history[i0], c0)  BY <1>4 DEF AnsweredAt
    <3>2. q = r => i > i0
      <4>1. q = r => i0 < i  BY <1>2, <1>3, <1>4, <2>3, <3>1 DEF InRound
      <4>2. i0 \in Int /\ i \in Int  BY <1>1, <1>4, <2>1 DEF TypeOK
      <4>3. QED  BY <4>1, <4>2
    <3>3. ~ (i > i0)  BY <2>1 DEF InterruptEntry
    <3>4. QED  BY <3>2, <3>3
  <2>5. pc'[q] = pc[q] /\ items'[q] = items[q]
    BY <1>1, <1>2, <2>2, <2>4 DEF TypeOK
  <2>6. QED  BY <1>8, <1>9, <2>3, <2>5 DEF InRound
<1>15. LinesOwed'
  <2>1. /\ unanswered' = unanswered /\ unanswered[r] = {}
        /\ \A q \in Run : items'[q] \subseteq items[q]
        /\ \A q \in Run : q # r => pc'[q] = pc[q]
    BY <1>1, <1>2 DEF ToolsExecuted, TypeOK, HistoryInv, LinesOwed
  <2>2. QED  BY <1>2, <2>1 DEF HistoryInv, LinesOwed
<1>16. QED  BY <1>13, <1>14, <1>15 DEF HistoryInv

\* Every step keeps the history in order.
LEMMA NextHistory == HistoryInv /\ [Next]_vars => HistoryInv'
<1> SUFFICES ASSUME HistoryInv, [Next]_vars PROVE HistoryInv'
  OBVIOUS
<1>1. TypeOK /\ RoundInv /\ RoundInv'  BY NextRound DEF HistoryInv, RoundInv
<1>2. ASSUME UNCHANGED <<history, calls, items, unanswered>>, NEW r \in Run,
             \A q \in Run : q # r => pc'[q] = pc[q],
             Carries(r), StillOwes(r)
      PROVE  HistoryInv'
  <2>1. \A q \in Run : Carries(q) /\ StillOwes(q)
    BY <1>2 DEF Carries, StillOwes, HistoryInv, LinesOwed
  <2>2. QED  BY <1>1, <1>2, <2>1, HistoryUntouched
<1>3. CASE StartAgentAction
  <2>1. "session" \in Run  BY DEF Run
  <2>2. QED  BY <1>1, <1>2, <1>3, <2>1 DEF StartAgentAction, Carries, StillOwes, HistoryInv, LinesOwed, lines, TypeOK
<1>4. ASSUME NEW r \in ChatRun, RunTurn(r) PROVE HistoryInv'
  <2>1. r \in Run  BY DEF Run
  <2>2. QED  BY <1>1, <1>2, <1>4, <2>1 DEF RunTurn, Carries, StillOwes, HistoryInv, LinesOwed, lines, TypeOK
<1>5. ASSUME NEW r \in Run,
             CreateSession(r) \/ Completed(r) \/ Fail(r)
      PROVE  HistoryInv'
  BY <1>1, <1>2, <1>5
     DEF CreateSession, Completed, Fail, Carries, StillOwes, HistoryInv, LinesOwed, lines, TypeOK
<1>6. ASSUME NEW r \in Run,
             RecordRequests(r) \/ HandleDecisions(r) \/ ApplyDecisions(r)
      PROVE  HistoryInv'
  BY <1>1, <1>2, <1>6
     DEF RecordRequests, HandleDecisions, ApplyDecisions, Carries, InRound, StillOwes,
         HistoryInv, LinesOwed, lines, TypeOK
<1>7. CASE UNCHANGED <<history, calls, pc, items, unanswered>>
  BY <1>1, <1>7, HistoryUntouched DEF Carries, StillOwes, HistoryInv, LinesOwed
<1>8. CASE Next
  <2>1. ASSUME NEW r \in Run, NEW c \in Call, ExecuteTool(r, c) PROVE HistoryInv'
    BY <1>7, <2>1 DEF ExecuteTool, lines
  <2>2. ASSUME NEW m \in Decisions, Submit(m) PROVE HistoryInv'
    BY <1>7, <2>2 DEF Submit, lines
  <2>3. ASSUME NEW u \in inbox, SetApprovals(u) \/ RejectApprovals(u) PROVE HistoryInv'
    BY <1>7, <2>3 DEF SetApprovals, RejectApprovals, lines
  <2>4. ASSUME NEW r \in Run, Step(r) PROVE HistoryInv'
    BY <1>1, <1>5, <1>6, <2>1, <2>4, InterruptedHistory, FinishHistory DEF Step
  <2>5. QED
    BY <1>1, <1>3, <1>4, <1>5, <1>8, <2>2, <2>3, <2>4, RequestHistory, PersistHistory DEF Next
<1>9. CASE UNCHANGED vars
  BY <1>7, <1>9 DEF vars
<1>10. QED  BY <1>8, <1>9

\* replace_interrupt_with_tool_results and _persist_session_line: a tool_use of
\* the history is followed by exactly one answer, or by none before the line of
\* its error result is persisted; and a run that goes on after a round finds no
\* interruption of its own, although runs share the session's history.
THEOREM ApprovalHistoryAnswered == Spec => []HistoryAnswered
<1>1. Init => HistoryInv
  <2> SUFFICES ASSUME Init PROVE HistoryInv
    OBVIOUS
  <2>1. DOMAIN history = {} /\ 1 .. calls = {}  BY NoDecisions DEF Init
  <2>2. LinesOwed  BY DEF Init, LinesOwed
  <2>3. QED  BY <2>1, <2>2, InitRound DEF HistoryInv, UsesAnswered, InterruptsPlaced
<1>2. HistoryInv => HistoryAnswered
  <2> SUFFICES ASSUME HistoryInv PROVE HistoryAnswered
    OBVIOUS
  <2>1. ASSUME NEW i \in DOMAIN history, history[i].kind = "use",
               NEW c, c = history[i].call,
               NEW answers, answers = {j \in DOMAIN history : Answers(history[j], c)}
        PROVE  /\ Cardinality(answers) <= 1
               /\ \A j \in answers : j > i
               /\ answers = {} => \E r \in Run : /\ c \in unanswered[r]
                                                /\ pc[r] \in {"agent", "failed"}
    <3>1. c \in 1 .. calls /\ Use(history[i], c)
      BY <2>1 DEF HistoryInv, UsesAnswered, Use
    <3>2. CASE Owed(c)
      <4>1. answers = {}  BY <2>1, <3>1, <3>2 DEF HistoryInv, UsesAnswered, OpenAt
      <4>2. Cardinality(answers) = 0  BY <4>1, FS_EmptySet
      <4>3. \E r \in Run : c \in unanswered[r] /\ pc[r] \in {"agent", "failed"}
        BY <3>2 DEF Owed, HistoryInv, LinesOwed
      <4>4. QED  BY <4>1, <4>2, <4>3
    <3>3. CASE ~ Owed(c)
      <4>1. PICK k, j \in DOMAIN history : AnsweredAt(c, k, j)
        BY <3>1, <3>3 DEF HistoryInv, UsesAnswered
      <4>2. k = i  BY <3>1, <4>1 DEF AnsweredAt
      <4>3. answers = {j}  BY <2>1, <4>1 DEF AnsweredAt
      <4>4. Cardinality(answers) = 1  BY <4>3, FS_Singleton
      <4>5. i < j /\ i \in Int /\ j \in Int
        BY <4>1, <4>2 DEF AnsweredAt, HistoryInv, RoundInv, TypeOK
      <4>6. QED  BY <4>3, <4>4, <4>5
    <3>4. QED  BY <3>2, <3>3
  <2>2. \A r \in Run : pc[r] = "agent" =>
          ~ \E i \in DOMAIN history : history[i].kind = "interrupt" /\ history[i].by = r
    BY DEF HistoryInv, InterruptsPlaced
  <2>3. QED  BY <2>1, <2>2 DEF HistoryAnswered
<1>3. QED  BY <1>1, <1>2, NextHistory, PTL DEF Spec
=============================================================================
