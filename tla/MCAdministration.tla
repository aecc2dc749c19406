-------------------------- MODULE MCAdministration --------------------------
(***************************************************************************)
(* What runs and what an admin's action ends: an upstream's runtime        *)
(* (UpstreamLifecycle) and, beside it, the clients' sessions               *)
(* (ClientSessions).  Of a behaviour one of the two moves.  The symmetry   *)
(* their configuration gives.                                              *)
(***************************************************************************)
EXTENDS UpstreamLifecycle, ClientSessions, TLC

VARIABLE moving

allVars == <<vars, sessionVars, moving>>

AllInit ==
  /\ moving \in {"lifecycle", "sessions"} /\ Init /\ SessionsInit
  /\ moving # "lifecycle" => kind = "remote" /\ ~saved.stopped
  /\ moving # "sessions" => \A s \in Sessions : owner[s] = Nobody

LifecycleMoves == moving = "lifecycle" /\ Next /\ UNCHANGED <<sessionVars, moving>>

\* The bound on revocations: of one caller's sign-in.
OneIsCut == \A c, d \in Callers : cut[c].how # "none" /\ cut[d].how # "none" => c = d

SessionsMove ==
  /\ moving = "sessions" /\ SessionsNext /\ UNCHANGED <<vars, moving>>
  /\ OneIsCut'

AllSpec == AllInit /\ [][LifecycleMoves \/ SessionsMove]_allVars

\* Jobs and callers have the same names.
Symmetry == Permutations(Calls) \cup Permutations(Callers) \cup Permutations(Sessions)
=============================================================================
