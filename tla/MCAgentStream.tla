--------------------------- MODULE MCAgentStream ---------------------------
(***************************************************************************)
(* One turn, after an earlier one or none, and a GET on the stream.        *)
(***************************************************************************)
EXTENDS AgentStream
=============================================================================
