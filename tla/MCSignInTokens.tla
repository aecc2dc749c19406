--------------------------- MODULE MCSignInTokens --------------------------
(***************************************************************************)
(* SignInTokens with the jobs that meet at one sign-in: a reconnect, and   *)
(* now the periodic refresh, now a live session.  Beside it, the traffic   *)
(* of a sandbox (IdlePause).  Of a behaviour one of the two moves.         *)
(***************************************************************************)
EXTENDS SignInTokens, IdlePause, TLC

CONSTANTS j1, j2

VARIABLE moving

allVars == <<vars, idleVars, moving>>

TwoJobs == {j1, j2}
OthersAndReconnect == j1 :> {"periodic", "session"} @@ j2 :> {"reconnect"}

AllInit ==
  /\ moving \in {"tokens", "sandbox"} /\ Init /\ IdleInit
  /\ moving # "sandbox" => deadline = Idle

TokensMove == moving = "tokens" /\ Next /\ UNCHANGED <<idleVars, moving>>
SandboxMoves == moving = "sandbox" /\ IdleNext /\ UNCHANGED <<vars, moving>>

AllSpec == AllInit /\ [][TokensMove \/ SandboxMoves]_allVars
=============================================================================
