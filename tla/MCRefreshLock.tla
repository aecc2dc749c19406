--------------------------- MODULE MCRefreshLock ---------------------------
(***************************************************************************)
(* RefreshLock on small sets of backends and refreshes, all alike.         *)
(***************************************************************************)
EXTENDS RefreshLock, TLC

Alike == Permutations(Backends) \cup Permutations(Refreshes)
=============================================================================
