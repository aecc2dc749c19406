------------------------------ MODULE MCSlots -------------------------------
(***************************************************************************)
(* SessionSingleFlight with every call on the same slot, whichever that is,*)
(* and, beside it, UpstreamConfig.  Of a behaviour one of the two moves.   *)
(***************************************************************************)
EXTENDS SessionSingleFlight, UpstreamConfig, TLC

VARIABLE moving    \* the slot, or "config"

allVars == <<vars, configVars, moving>>

AllInit ==
  /\ moving \in Slots \cup {"config"} /\ Init /\ ConfigInit
  /\ moving # "config" => there = Roles

SlotMoves ==
  /\ moving \in Slots /\ Next /\ UNCHANGED <<configVars, moving>>
  /\ \A c \in Calls : slot'[c] \in {NoOne, moving}
  /\ aborts' # aborts => aborts'[moving] # aborts[moving]

ConfigMoves == moving = "config" /\ ConfigNext /\ UNCHANGED <<vars, moving>>

AllSpec == AllInit /\ [][SlotMoves \/ ConfigMoves]_allVars

\* A call is told apart from another only by what it asked, and an admin's
\* request too, under the same names.
Symmetry == Permutations(Calls)
=============================================================================
