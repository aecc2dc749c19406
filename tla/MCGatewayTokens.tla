-------------------------- MODULE MCGatewayTokens --------------------------
(***************************************************************************)
(* GatewayTokens with one client and two sign-ins.                         *)
(***************************************************************************)
EXTENDS GatewayTokens, TLC

CONSTANTS c1, c2, s1, s2

OneClient == {c1}
TwoClients == {c1, c2}
OneSignIn == {s1}
TwoSignIns == {s1, s2}
ForOneClient == [s \in SignIns |-> c1]
=============================================================================
