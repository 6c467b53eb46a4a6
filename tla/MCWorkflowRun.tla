--------------------------- MODULE MCWorkflowRun ----------------------------
(***************************************************************************)
(* TLC instance of WorkflowRun: three items are two batches of which the   *)
(* last is short; two responses are one before and one during the wait, or *)
(* two during the wait.                                                    *)
(***************************************************************************)
EXTENDS WorkflowRun
=============================================================================
