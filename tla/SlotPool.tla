------------------------------ MODULE SlotPool ------------------------------
(***************************************************************************)
(* What the worker pool promises to the callers of execute(): a set of     *)
(* workers with MaxConcurrent slots each.  A request gets a slot, waits    *)
(* for one or is turned away; it gives its slot back once.  A worker is    *)
(* retired by the request that leaves it idle, and a retired worker never  *)
(* serves again.  How workers are spawned, replaced, lost and counted is   *)
(* not visible here.                                                       *)
(***************************************************************************)
EXTENDS Integers, FiniteSets

CONSTANTS Request, Worker, NoWorker, MaxConcurrent

VARIABLES
  open,     \* "none", "started", "failed", "stopped"
  phase,    \* "idle", "waiting", "holding" or "ended", per request
  slot,     \* the worker whose slot a request holds
  retired   \* the workers that serve no more

svars == <<open, phase, slot, retired>>

Users(w) == {r \in Request : phase[r] = "holding" /\ slot[r] = w}

Init ==
  /\ open = "none"
  /\ phase = [r \in Request |-> "idle"]
  /\ slot = [r \in Request |-> NoWorker]
  /\ retired = {}

Open ==
  /\ open = "none"
  /\ open' \in {"started", "failed"}
  /\ UNCHANGED <<phase, slot, retired>>

Queue(r) ==
  /\ open = "started"
  /\ phase[r] = "idle"
  /\ phase' = [phase EXCEPT ![r] = "waiting"]
  /\ UNCHANGED <<open, slot, retired>>

Grant(r, w) ==
  /\ open = "started"
  /\ phase[r] \in {"idle", "waiting"}
  /\ w \notin retired
  /\ Cardinality(Users(w)) < MaxConcurrent
  /\ phase' = [phase EXCEPT ![r] = "holding"]
  /\ slot' = [slot EXCEPT ![r] = w]
  /\ UNCHANGED <<open, retired>>

TurnAway(r) ==
  /\ \/ phase[r] = "waiting"
     \/ phase[r] = "idle" /\ open \in {"failed", "stopped"}
  /\ phase' = [phase EXCEPT ![r] = "ended"]
  /\ UNCHANGED <<open, slot, retired>>

GiveBack(r) ==
  /\ phase[r] = "holding"
  /\ phase' = [phase EXCEPT ![r] = "ended"]
  /\ slot' = [slot EXCEPT ![r] = NoWorker]
  /\ \/ retired' = retired
     \/ Users(slot[r]) = {r} /\ retired' = retired \union {slot[r]}
  /\ UNCHANGED open

Close ==
  /\ open = "started"
  /\ \A r \in Request : phase[r] \in {"idle", "ended"}
  /\ open' = "stopped"
  /\ UNCHANGED <<phase, slot, retired>>

Next ==
  \/ Open
  \/ Close
  \/ \E r \in Request : Queue(r) \/ TurnAway(r) \/ GiveBack(r)
  \/ \E r \in Request, w \in Worker : Grant(r, w)

Spec == Init /\ [][Next]_svars
=============================================================================
