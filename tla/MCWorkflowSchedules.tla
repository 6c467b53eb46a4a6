------------------------ MODULE MCWorkflowSchedules ------------------------
(***************************************************************************)
(* Representative requests for model checking WorkflowSchedules: every     *)
(* kind of trigger a create accepts, and updates that pause, resume,       *)
(* switch and remove triggers, alone or combined, with and without inputs. *)
(***************************************************************************)
EXTENDS WorkflowSchedules

SomeCreates ==
  {[cron |-> "cron", every |-> "none"], [cron |-> "none", every |-> "every"],
   [cron |-> "cron", every |-> "every"], [cron |-> "blank", every |-> "none"],
   [cron |-> "blank", every |-> "every"]}

Set(status, cron, every, inputs) ==
  [status |-> status, cron |-> cron, every |-> every, inputs |-> inputs]

SomeUpdates ==
  {Set("offline", "unset", "unset", FALSE), Set("online", "unset", "unset", FALSE),
   Set("offline", "unset", "unset", TRUE), Set("unset", "cron", "unset", FALSE),
   Set("unset", "unset", "every", FALSE), Set("offline", "none", "every", FALSE),
   Set("unset", "none", "unset", FALSE)}
=============================================================================
