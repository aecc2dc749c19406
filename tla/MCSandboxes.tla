---------------------------- MODULE MCSandboxes ----------------------------
(***************************************************************************)
(* Sandboxes with the bounds its configurations give.                      *)
(***************************************************************************)
EXTENDS Sandboxes, TLC
=============================================================================
