----------------------- MODULE MCSessionSingleFlight -----------------------
(***************************************************************************)
(* What must end: the calls on an upstream's shared slot and a user's slot *)
(* that one Stop tears down together, and, beside them, the shutdown.  Of  *)
(* a behaviour one of the two moves.                                       *)
(***************************************************************************)
EXTENDS SessionSingleFlight, Shutdown

VARIABLE moving    \* "slots" or "shutdown"

allVars == <<vars, shutdownVars, moving>>

AllInit ==
  /\ moving \in {"slots", "shutdown"} /\ Init /\ ShutdownInit
  /\ moving = "slots" => slow = {}

SlotsMove == moving = "slots" /\ Next /\ UNCHANGED <<shutdownVars, moving>>
ShutdownMoves == moving = "shutdown" /\ ShutdownNext /\ UNCHANGED <<vars, moving>>

\* Nothing of a component that has not begun need ever move.
AllSpec == AllInit /\ [][SlotsMove \/ ShutdownMoves]_allVars /\ Fairness /\ ShutdownFairness

\* Every step and every kill is awaited by the one write.
OneOuter == [n \in Nested |-> CHOOSE w \in Writes : TRUE]
=============================================================================
