---------------------------- MODULE MCToolCalls -----------------------------
(***************************************************************************)
(* ToolCalls with the bounds its configurations give.                      *)
(***************************************************************************)
EXTENDS ToolCalls, TLC

CallSymmetry == Permutations(Calls)
=============================================================================
