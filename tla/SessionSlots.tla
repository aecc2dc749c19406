---------------------------- MODULE SessionSlots ----------------------------
(***************************************************************************)
(* What the session slots of an upstream promise, without the flights, the *)
(* queues and the callers: at most one connect at a time works on a slot,  *)
(* a connect lands only in a slot it emptied, a teardown dooms the connect *)
(* under way, and a doomed connect never lands.                            *)
(*                                                                         *)
(* The promise is the module docstring's of                                *)
(* adapters/upstream_clients/session_single_flight.py; it models no code   *)
(* of its own.                                                             *)
(***************************************************************************)
CONSTANTS Slots,    \* places a session can live
          Connects, \* connects, each made at most once
          NoOne     \* no connect, no session

VARIABLES
  connecting,  \* the connect that works on a slot
  doomed,      \* slots torn down since their connect began
  live,        \* the session a slot serves, named by the connect that built it
  spent        \* connects ever started

slotsVars == <<connecting, doomed, live, spent>>

SlotsInit ==
  /\ connecting = [s \in Slots |-> NoOne]
  /\ doomed = {}
  /\ live = [s \in Slots |-> NoOne]
  /\ spent = {}

StartConnect(s, c) ==
  /\ connecting[s] = NoOne
  /\ c \notin spent
  /\ connecting' = [connecting EXCEPT ![s] = c]
  /\ spent' = spent \cup {c}
  /\ UNCHANGED <<doomed, live>>

\* A connect closes the session it replaces.
MakeRoom(s) ==
  /\ connecting[s] # NoOne
  /\ live' = [live EXCEPT ![s] = NoOne]
  /\ UNCHANGED <<connecting, doomed, spent>>

\* It goes live, and is over at once or after some bookkeeping.
GoLive(s) ==
  /\ connecting[s] # NoOne
  /\ s \notin doomed
  /\ live[s] = NoOne
  /\ live' = [live EXCEPT ![s] = connecting[s]]
  /\ \/ UNCHANGED connecting
     \/ connecting' = [connecting EXCEPT ![s] = NoOne]
  /\ UNCHANGED <<doomed, spent>>

EndConnect(s) ==
  /\ connecting[s] # NoOne
  /\ connecting' = [connecting EXCEPT ![s] = NoOne]
  /\ doomed' = doomed \ {s}
  /\ UNCHANGED <<live, spent>>

\* A session that failed or sat idle is dropped.
DropLive(s) ==
  /\ live' = [live EXCEPT ![s] = NoOne]
  /\ UNCHANGED <<connecting, doomed, spent>>

\* A deliberate teardown: no session is left in D, and the connects under way
\* in A, which cover those of D, are doomed.
TearDownSlots(A, D) ==
  /\ \A s \in D : connecting[s] # NoOne => s \in A
  /\ doomed' = doomed \cup {s \in A : connecting[s] # NoOne}
  /\ live' = [s \in Slots |-> IF s \in D THEN NoOne ELSE live[s]]
  /\ UNCHANGED <<connecting, spent>>

SlotsNext ==
  \/ \E s \in Slots :
       \/ \E c \in Connects : StartConnect(s, c)
       \/ MakeRoom(s)
       \/ GoLive(s)
       \/ EndConnect(s)
       \/ DropLive(s)
  \/ \E A, D \in SUBSET Slots : TearDownSlots(A, D)

SlotsSpec == SlotsInit /\ [][SlotsNext]_slotsVars
=============================================================================
