------------------------------ MODULE MCRunStream ------------------------------
(***************************************************************************)
(* Model-checking instance of RunStream: two steps, two open tool calls, a *)
(* reader at most three events behind.                                     *)
(***************************************************************************)
EXTENDS RunStream
===============================================================================
