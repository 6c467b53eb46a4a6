-------------------------- MODULE MCAgentApprovals --------------------------
(***************************************************************************)
(* One session with the run of a DSL workflow and one chat run.            *)
(***************************************************************************)
EXTENDS AgentApprovals

ChatRuns == {"chat"}
=============================================================================
