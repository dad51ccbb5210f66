------------------------------ MODULE MCAgentRun ------------------------------
(***************************************************************************)
(* Model-checking instance of AgentRun: two steps of at most two tool      *)
(* calls each, so that calls of one step interleave, a denial or an error  *)
(* of one meets the other, and a second step follows the first.            *)
(***************************************************************************)
EXTENDS AgentRun
===============================================================================
