---------------------------- MODULE PeopleProofs ----------------------------
(***************************************************************************)
(* Proofs about what belongs to a person: PendingSignIns, for any number   *)
(* of admins, Connects, removals and restarts, and then Membership, for    *)
(* any people, role names, tokens and actions of admins.                   *)
(*                                                                         *)
(* Most steps only take one flow on (GoesOn) and take things out of the    *)
(* store (TakesAway); those keep the invariant together.  Each of the      *)
(* others has a lemma of its own.  Of Membership, one action moves at a    *)
(* time (Acts); what changes nothing but the action that takes it (Quiet)  *)
(* keeps the invariant together.                                           *)
(***************************************************************************)
EXTENDS PendingSignIns, Membership, FiniteSetTheorems, TLAPS

-----------------------------------------------------------------------------
(* PendingSignIns: the inductive invariant                                 *)

\* The places of a flow.
Places == {"unborn", "asked", "peeked", "made", "registered", "waits", "exchanging",
           "checked", "ended", "persisted", "called_off", "forgetting", "looking", "over"}

FlowRecords ==
  [user : Users \cup {Nobody}, at : Places,
   front : {"none", "waits", "silent", "failed", "answered"}, nth : Nat, code : 0..MaxFlows,
   resumed : BOOLEAN, aborted : BOOLEAN, refused : BOOLEAN, saved : BOOLEAN,
   late : BOOLEAN, linked : BOOLEAN, asked : Nat]

SignInShape ==
  /\ members \subseteq Users
  /\ token \in [Users -> 0..MaxFlows] /\ since \in [Users -> Nat]
  /\ stored \in [Users -> 0..MaxFlows] /\ reg \in [Users -> BOOLEAN]
  /\ pending \in [Users -> 0..MaxFlows] /\ flow \in [Flows -> FlowRecords]
  /\ back \in [Flows -> {"none", "fine", "refused", "reads", "done"}]
  /\ leaving \in [Users -> {"no", "left", "aborted"}]
  /\ born \in 0..MaxFlows /\ {saves, removals, restarts} \subseteq Nat

Began(f) == flow[f].at # "unborn"

\* Flows begin in order, and nothing is known of one that did not.
Births ==
  \A f \in Flows :
    /\ Began(f) <=> f <= born
    /\ Began(f) => flow[f].user \in Users
    /\ ~Began(f) => flow[f].user = Nobody
    /\ ~Began(f) => ~flow[f].linked /\ flow[f].front = "none" /\ back[f] = "none"

\* What is pending, stored or saved names the flow it comes from, and what is
\* saved is its own admin's.
Named ==
  \A u \in Users :
    /\ pending[u] # 0 => Began(pending[u]) /\ flow[pending[u]].user = u
    /\ stored[u] # 0 => Began(stored[u])
    /\ token[u] # 0 => /\ flow[token[u]].user = u /\ flow[token[u]].saved
                       /\ flow[token[u]].at \in {"ended", "persisted", "called_off", "over"}

\* Only who was called off cleans up after itself.
ForgottenWasCalledOff ==
  \A f \in Flows : flow[f].at \in {"called_off", "forgetting", "looking"} => flow[f].aborted

\* A flow that was called off, or began when its admin was gone.
Excused(f) == flow[f].aborted \/ flow[f].late

\* Once an admin's flows were called off, none is left that was not.
LeaversAreOff ==
  \A u \in Users \ members :
    /\ leaving[u] # "left" =>
         \A f \in Of(u) : flow[f].at \in {"asked", "peeked", "over"} \/ Excused(f)
    /\ leaving[u] = "no" /\ token[u] # 0 => Excused(token[u])

\* The property's first half: who was called off has not ended while its
\* tokens are saved.
EndsTakeTheirTokens ==
  restarts = 0 =>
    \A u \in Users : \A f \in Of(u) : flow[f].aborted /\ flow[f].at = "over" => token[u] # f

\* The flows that are still to drop what was registered for u.
Forgetters(u) ==
  {f \in Of(u) : flow[f].aborted /\ flow[f].at \in {"registered", "waits", "ended", "persisted",
                                                   "called_off", "forgetting", "looking"}}

\* What is left of one who left has somebody to drop it.
SomeoneForgets ==
  \A u \in Users \ members :
    leaving[u] = "no" /\ restarts = 0 /\ reg[u] /\ (\A f \in Of(u) : ~flow[f].late) => Forgetters(u) # {}

\* Between the check and the saving, too: nobody has become the last to sign
\* in who had signed in before the check.
SlotIsKept ==
  /\ \A u \in Users : since[u] <= saves
  /\ \A f \in Flows : flow[f].at = "checked" =>
       /\ flow[f].asked <= saves
       /\ \A v \in members \ {flow[f].user} :
            /\ token[v] # 0 /\ since[v] <= flow[f].asked
            /\ \A u \in Users : since[u] <= since[v]
            => Excused(token[v])

SignInInv ==
  /\ SignInShape /\ Births /\ Named /\ ForgottenWasCalledOff /\ LeaversAreOff
  /\ EndsTakeTheirTokens /\ SomeoneForgets /\ SlotIsKept /\ CodeReachesItsFlow

-----------------------------------------------------------------------------
(* Steps                                                                   *)

\* Of the flows, f alone becomes y.
Becomes(f, y) ==
  /\ \A g \in Flows \ {f} : flow'[g] = flow[g]
  /\ flow'[f] = y /\ y \in FlowRecords /\ flow' \in [Flows -> FlowRecords]

LEMMA Replaced ==
  ASSUME flow \in [Flows -> FlowRecords], NEW f \in Flows, NEW y \in FlowRecords,
         flow' = [flow EXCEPT ![f] = y]
  PROVE  Becomes(f, y)
BY DEF Becomes

LEMMA GoesIs ==
  ASSUME SignInShape, NEW f \in Flows, NEW p \in Places, Goes(f, p)
  PROVE  Becomes(f, [flow[f] EXCEPT !.at = p])
BY DEF SignInShape, FlowRecords, Goes, Becomes

LEMMA AbortedRecord ==
  ASSUME NEW r \in FlowRecords
  PROVE  LET y == [r EXCEPT !.aborted = TRUE] IN
         /\ y \in FlowRecords /\ y.aborted /\ y.user = r.user /\ y.at = r.at /\ y.late = r.late
         /\ y.code = r.code /\ y.resumed = r.resumed /\ y.asked = r.asked /\ y.saved = r.saved
         /\ y.linked = r.linked /\ y.front = r.front
BY DEF FlowRecords

LEMMA OverRecord ==
  ASSUME NEW r \in FlowRecords
  PROVE  LET y == [r EXCEPT !.at = "over", !.front = "answered"] IN
         /\ y \in FlowRecords /\ y.at = "over" /\ y.user = r.user /\ y.late = r.late
         /\ y.code = r.code /\ y.resumed = r.resumed /\ y.saved = r.saved
         /\ y.aborted = r.aborted /\ y.linked = r.linked
BY DEF FlowRecords, Places

\* What create_pending makes of a flow.
Created(r, code, n, resumed, late) ==
  [r EXCEPT !.at = "made", !.front = "waits", !.code = code, !.nth = n, !.resumed = resumed,
            !.late = late]

LEMMA CreatesDoes ==
  ASSUME SignInShape, NEW f \in Flows, flow[f].user \in Users, Creates(f)
  PROVE  \E n \in Nat : \E resumed, late \in BOOLEAN :
           /\ Becomes(f, Created(flow[f], stored[flow[f].user], n, resumed, late))
           /\ stored[flow[f].user] # 0 => resumed = TRUE
           /\ flow[f].user \notin members => late = TRUE
<1> DEFINE n == 1 + Cardinality({g \in Flows : flow[g].nth > 0})
           code == stored[flow[f].user]
           resumed == code # 0
           late == flow[f].user \notin members
           y == Created(flow[f], code, n, resumed, late)
<1>1. n \in Nat
  <2>1. IsFiniteSet(Flows)
    BY FS_Interval, SignInAssumption DEF Flows
  <2> QED BY <2>1, FS_Subset, FS_CardinalityType
<1>2. flow' = [flow EXCEPT ![f] = y]
  BY DEF Creates, Created
<1>3. resumed \in BOOLEAN /\ late \in BOOLEAN /\ (code # 0 => resumed = TRUE)
      /\ (flow[f].user \notin members => late = TRUE)
  OBVIOUS
<1>4. code \in 0..MaxFlows /\ flow[f] \in FlowRecords /\ flow \in [Flows -> FlowRecords]
  BY DEF SignInShape
<1> HIDE DEF n, code, resumed, late
<1>5. y \in FlowRecords
  BY <1>1, <1>3, <1>4 DEF FlowRecords, Places, Created
<1> HIDE DEF y
<1>6. Becomes(f, y)
  BY <1>2, <1>4, <1>5, Replaced
<1> QED BY <1>1, <1>3, <1>6 DEF y, code

\* A flow of the person is still to be called off and to forget what it
\* registered.
ForgetPlaces ==
  {"registered", "waits", "ended", "persisted", "called_off", "forgetting", "looking"}

\* Of the flows, f alone goes on to its next place.
GoesOn(f) ==
  /\ Began(f) /\ flow'[f].at # "unborn" /\ flow' \in [Flows -> FlowRecords]
  /\ \A g \in Flows \ {f} : flow'[g] = flow[g]
  /\ flow'[f].user = flow[f].user /\ flow'[f].aborted = flow[f].aborted
  /\ flow'[f].late = flow[f].late /\ flow'[f].code \in {flow[f].code, f}
  /\ flow'[f].resumed = flow[f].resumed /\ flow'[f].asked = flow[f].asked
  /\ flow'[f].saved = flow[f].saved
  /\ flow'[f].at \in {"called_off", "forgetting", "looking"} => flow[f].aborted
  /\ flow[f].at \in {"asked", "peeked", "over"} => flow'[f].at \in {"asked", "peeked", "over"}
  /\ flow'[f].at = "checked" => flow[f].at = "checked"

\* What it takes from the store, and what it may add.
TakesAway(f) ==
  LET u == flow[f].user
      at == flow'[f].at IN
  /\ UNCHANGED <<members, since, stored, leaving, born, saves, removals, restarts>>
  /\ \A g \in Flows : back'[g] = back[g] \/ (back'[g] \in {"fine", "refused", "reads", "done"} /\ Began(g))
  /\ back' \in [Flows -> {"none", "fine", "refused", "reads", "done"}]
  /\ pending' \in [Users -> 0..MaxFlows] /\ \A v \in Users : pending'[v] \in {0, pending[v]}
  /\ token' \in [Users -> 0..MaxFlows] /\ \A v \in Users : token'[v] \in {0, token[v]}
  /\ reg' \in [Users -> BOOLEAN]
  /\ token'[u] = f => at \in {"ended", "persisted", "called_off", "over"}
  /\ restarts = 0 /\ flow[f].aborted /\ at = "over" => token'[u] # f
  /\ \A v \in Users : reg'[v] /\ ~reg[v] =>
       /\ v = u /\ flow[f].at \notin {"asked", "peeked", "over"}
       /\ at = "registered" \/ ~flow[f].aborted
  /\ flow[f].aborted /\ flow[f].at \in ForgetPlaces /\ at \notin ForgetPlaces
     => ~reg'[u] \/ token'[u] # 0

LEMMA GoingOnKeepsInv ==
  ASSUME SignInInv, NEW f \in Flows, GoesOn(f), TakesAway(f)
  PROVE  SignInInv'
<1> DEFINE u == flow[f].user
<1>0. /\ SignInShape /\ Births /\ Named /\ ForgottenWasCalledOff /\ LeaversAreOff
      /\ EndsTakeTheirTokens /\ SomeoneForgets /\ SlotIsKept /\ CodeReachesItsFlow
  BY DEF SignInInv
<1>1. SignInShape'
  BY <1>0 DEF SignInShape, GoesOn, TakesAway
<1>2. Births'
  BY <1>0 DEF Births, GoesOn, TakesAway, Began
<1>3. Named'
  BY <1>0 DEF Named, GoesOn, TakesAway, Began, SignInShape, Flows
<1>4. ForgottenWasCalledOff'
  BY <1>0 DEF ForgottenWasCalledOff, GoesOn, TakesAway
<1>a. \A g \in Flows : (Excused(g)' <=> Excused(g)) /\ flow'[g].user = flow[g].user
  BY DEF GoesOn, Excused
<1>b. \A v \in Users : token[v] # 0 => token[v] \in Flows
  BY <1>0 DEF SignInShape, Flows
<1>c. \A v \in Users : token'[v] # 0 => token'[v] = token[v]
  BY DEF TakesAway
<1>d. \A v : Of(v)' = Of(v)
  BY <1>a DEF Of
<1>e. UNCHANGED <<members, since, leaving, restarts, saves>>
  BY DEF TakesAway
<1>f. f \in Flows /\ u \in Users
  BY <1>0 DEF Births, GoesOn
<1>5. LeaversAreOff'
  <2>1. ASSUME NEW v \in Users \ members, leaving[v] # "left", NEW g \in Of(v)
        PROVE  flow'[g].at \in {"asked", "peeked", "over"} \/ Excused(g)'
    BY <1>0, <1>a, <2>1 DEF LeaversAreOff, GoesOn, Of
  <2>2. ASSUME NEW v \in Users \ members, leaving[v] = "no", token'[v] # 0
        PROVE  flow'[token'[v]].aborted \/ flow'[token'[v]].late
    <3>1. token[v] \in Flows /\ token'[v] = token[v] /\ Excused(token[v])
      BY <1>0, <1>b, <1>c, <2>2 DEF LeaversAreOff
    <3> QED BY <3>1, <1>a DEF Excused
  <2> QED BY <1>d, <1>e, <2>1, <2>2 DEF LeaversAreOff, Excused
<1>6. EndsTakeTheirTokens'
  <2>1. ASSUME restarts = 0, NEW v \in Users, NEW g \in Of(v), flow'[g].aborted, flow'[g].at = "over"
        PROVE  token'[v] # g
    <3>1. CASE g = f
      BY <1>0, <2>1, <3>1 DEF GoesOn, TakesAway, Of
    <3>2. CASE g # f
      BY <1>0, <1>c, <2>1, <3>2 DEF GoesOn, Of, EndsTakeTheirTokens, Flows
    <3> QED BY <3>1, <3>2
  <2> QED BY <1>d, <1>e, <2>1 DEF EndsTakeTheirTokens
<1>7. SomeoneForgets'
  <2> SUFFICES ASSUME NEW v \in Users \ members, leaving[v] = "no", restarts = 0, reg'[v],
                      \A g \in Of(v) : ~flow'[g].late
               PROVE  \E g \in Of(v) : flow'[g].aborted /\ flow'[g].at \in ForgetPlaces
    BY <1>d, <1>e DEF SomeoneForgets, Forgetters, ForgetPlaces
  <2>1. \A g \in Of(v) : g \in Flows /\ ~flow[g].late
    BY DEF GoesOn, Of
  <2>2. CASE ~reg[v]
    <3>1. v = u /\ flow[f].at \notin {"asked", "peeked", "over"} /\ f \in Of(v)
          /\ (flow'[f].at = "registered" \/ ~flow[f].aborted)
      BY <2>2, <1>f DEF TakesAway, Of
    <3>2. flow[f].aborted
      BY <3>1, <2>1, <1>0 DEF LeaversAreOff, Excused
    <3> QED BY <3>1, <3>2 DEF GoesOn, ForgetPlaces
  <2>3. CASE reg[v]
    <3>1. PICK g \in Of(v) : flow[g].aborted /\ flow[g].at \in ForgetPlaces
      BY <2>1, <2>3, <1>0 DEF SomeoneForgets, Forgetters, ForgetPlaces
    <3>2. CASE g # f \/ flow'[f].at \in ForgetPlaces
      BY <3>1, <3>2, <2>1 DEF GoesOn
    <3>3. CASE g = f /\ flow'[f].at \notin ForgetPlaces
      <4>1. v = u /\ token'[v] # 0
        BY <3>1, <3>3 DEF TakesAway, Of
      <4>2. token[v] \in Flows /\ token'[v] = token[v] /\ Excused(token[v])
            /\ flow[token[v]].user = v
            /\ flow[token[v]].at \in {"ended", "persisted", "called_off", "over"}
        BY <4>1, <1>0, <1>b, <1>c DEF LeaversAreOff, Named
      <4>3. token[v] \in Of(v) /\ flow[token[v]].aborted
        BY <4>2, <2>1 DEF Of, Excused
      <4>4. flow[token[v]].at # "over"
        BY <4>3, <1>0 DEF EndsTakeTheirTokens
      <4>5. token[v] # f
        BY <4>1, <4>2, <3>1, <3>3 DEF TakesAway, ForgetPlaces
      <4> QED BY <4>2, <4>3, <4>4, <4>5 DEF GoesOn, ForgetPlaces
    <3> QED BY <3>2, <3>3
  <2> QED BY <2>2, <2>3
<1>8. SlotIsKept'
  <2>1. \A v \in Users : since'[v] <= saves'
    BY <1>0, <1>e DEF SlotIsKept
  <2>2. ASSUME NEW g \in Flows, flow'[g].at = "checked"
        PROVE  flow[g].at = "checked" /\ flow'[g].asked = flow[g].asked
    BY <2>2 DEF GoesOn
  <2>3. ASSUME NEW g \in Flows, flow'[g].at = "checked", NEW v \in members \ {flow'[g].user},
               token'[v] # 0, since[v] <= flow'[g].asked, \A w \in Users : since[w] <= since[v]
        PROVE  flow'[token'[v]].aborted \/ flow'[token'[v]].late
    <3>1. token[v] \in Flows /\ token'[v] = token[v]
      BY <1>0, <1>b, <1>c, <2>3 DEF SignInShape
    <3>2. Excused(token[v])
      BY <1>0, <1>a, <2>2, <2>3, <3>1 DEF SlotIsKept
    <3> QED BY <3>1, <3>2, <1>a DEF Excused
  <2> QED BY <1>0, <1>e, <2>1, <2>2, <2>3 DEF SlotIsKept, Excused
<1>9. CodeReachesItsFlow'
  BY <1>0 DEF CodeReachesItsFlow, GoesOn
<1> QED BY <1>1, <1>2, <1>3, <1>4, <1>5, <1>6, <1>7, <1>8, <1>9 DEF SignInInv

\* The flow f goes to place p; front and link change as they like.
LEMMA PlaceChanges ==
  ASSUME SignInShape, NEW f \in Flows, NEW p \in Places, NEW front, NEW linked \in BOOLEAN,
         front \in {"none", "waits", "silent", "failed", "answered"}, NEW refused \in BOOLEAN,
         NEW asked \in Nat, NEW saved \in BOOLEAN,
         flow' = [flow EXCEPT ![f] = [flow[f] EXCEPT !.at = p, !.front = front, !.linked = linked,
                                                     !.refused = refused, !.asked = asked, !.saved = saved]]
  PROVE  /\ flow' \in [Flows -> FlowRecords] /\ \A g \in Flows \ {f} : flow'[g] = flow[g]
         /\ flow'[f].user = flow[f].user /\ flow'[f].aborted = flow[f].aborted
         /\ flow'[f].late = flow[f].late /\ flow'[f].code = flow[f].code
         /\ flow'[f].resumed = flow[f].resumed /\ flow'[f].asked = asked
         /\ flow'[f].saved = saved /\ flow'[f].at = p
<1>1. flow[f] \in FlowRecords /\ flow \in [Flows -> FlowRecords]
  BY DEF SignInShape
<1>2. [flow[f] EXCEPT !.at = p, !.front = front, !.linked = linked, !.refused = refused,
                      !.asked = asked, !.saved = saved] \in FlowRecords
  BY <1>1 DEF FlowRecords
<1> QED BY <1>1, <1>2 DEF FlowRecords

LEMMA GoesKeeps ==
  ASSUME SignInShape, NEW f \in Flows, NEW p \in Places, Goes(f, p)
  PROVE  /\ flow' \in [Flows -> FlowRecords] /\ \A g \in Flows \ {f} : flow'[g] = flow[g]
         /\ flow'[f].user = flow[f].user /\ flow'[f].aborted = flow[f].aborted
         /\ flow'[f].late = flow[f].late /\ flow'[f].code = flow[f].code
         /\ flow'[f].resumed = flow[f].resumed /\ flow'[f].asked = flow[f].asked
         /\ flow'[f].saved = flow[f].saved /\ flow'[f].at = p
<1>1. flow[f] \in FlowRecords /\ flow \in [Flows -> FlowRecords]
  BY DEF SignInShape
<1>2. [flow[f] EXCEPT !.at = p] \in FlowRecords
  BY <1>1 DEF FlowRecords
<1> QED BY <1>1, <1>2 DEF FlowRecords, Goes

LEMMA PeeksGoesOn ==
  ASSUME SignInInv, NEW f \in Flows, Peeks(f)
  PROVE  GoesOn(f) /\ TakesAway(f)
<1>0. SignInShape /\ Births /\ Named
  BY DEF SignInInv
<1>1. PICK p \in {"over", "peeked"} : Goes(f, p) /\ flow[f].at = "asked"
  BY DEF Peeks
<1>2. p \in Places
  BY DEF Places
<1>3. GoesOn(f)
  BY <1>0, <1>1, <1>2, GoesKeeps DEF GoesOn, Began
<1>4. token[flow[f].user] # f
  BY <1>0, <1>1 DEF Named, Births, Began, Flows
<1> QED BY <1>0, <1>1, <1>2, <1>3, <1>4, GoesKeeps
  DEF Peeks, Store, Counts, SignInShape, TakesAway, ForgetPlaces

LEMMA RegistersGoesOn ==
  ASSUME SignInInv, NEW f \in Flows, Registers(f)
  PROVE  GoesOn(f) /\ TakesAway(f)
<1>0. SignInShape /\ Births /\ Named /\ ForgottenWasCalledOff /\ EndsTakeTheirTokens
  BY DEF SignInInv
<1>1. PICK p \in Places : Goes(f, p) /\ p = "registered" /\ flow[f].at = "made"
  BY DEF Registers, Places
<1>2. GoesOn(f)
  BY <1>0, <1>1, GoesKeeps DEF GoesOn, Began
<1>3. token[flow[f].user] = f => flow[f].at \in {"ended", "persisted", "called_off", "over"}
  BY <1>0, <1>1 DEF Named, Births, Began, Flows
<1>4. flow[f].user \in Users
  BY <1>0, <1>2 DEF Births, GoesOn
<1> QED BY <1>0, <1>1, <1>2, <1>3, <1>4, GoesKeeps
  DEF Registers, Store, Counts, SignInShape, TakesAway, ForgetPlaces, Began, Births

LEMMA ReceivesGoesOn ==
  ASSUME SignInInv, NEW f \in Flows, Receives(f)
  PROVE  GoesOn(f) /\ TakesAway(f)
<1>0. SignInShape /\ Births /\ Named /\ ForgottenWasCalledOff /\ EndsTakeTheirTokens
  BY DEF SignInInv
<1>1. PICK p \in Places : Goes(f, p) /\ flow[f].at = "waits" /\ (flow[f].aborted => p = "called_off")
       /\ (~flow[f].aborted => p \in {"over", "exchanging"})
  BY DEF Receives, Places
<1>2. GoesOn(f)
  BY <1>0, <1>1, GoesKeeps DEF GoesOn, Began
<1>3. token[flow[f].user] = f => flow[f].at \in {"ended", "persisted", "called_off", "over"}
  BY <1>0, <1>1 DEF Named, Births, Began, Flows
<1>4. flow[f].user \in Users
  BY <1>0, <1>2 DEF Births, GoesOn
<1> QED BY <1>0, <1>1, <1>2, <1>3, <1>4, GoesKeeps
  DEF Receives, Store, Counts, SignInShape, TakesAway, ForgetPlaces, Began, Births

LEMMA SettlesGoesOn ==
  ASSUME SignInInv, NEW f \in Flows, Settles(f)
  PROVE  GoesOn(f) /\ TakesAway(f)
<1>0. SignInShape /\ Births /\ Named /\ ForgottenWasCalledOff /\ EndsTakeTheirTokens
  BY DEF SignInInv
<1>1. PICK p \in Places : Goes(f, p) /\ flow[f].at = "persisted" /\ (flow[f].aborted => p = "called_off")
       /\ (~flow[f].aborted => p = "over")
  BY DEF Settles, Places
<1>2. GoesOn(f)
  BY <1>0, <1>1, GoesKeeps DEF GoesOn, Began
<1>3. token[flow[f].user] = f => flow[f].at \in {"ended", "persisted", "called_off", "over"}
  BY <1>0, <1>1 DEF Named, Births, Began, Flows
<1>4. flow[f].user \in Users
  BY <1>0, <1>2 DEF Births, GoesOn
<1> QED BY <1>0, <1>1, <1>2, <1>3, <1>4, GoesKeeps
  DEF Settles, Store, Counts, SignInShape, TakesAway, ForgetPlaces, Began, Births

LEMMA ForgetsGoesOn ==
  ASSUME SignInInv, NEW f \in Flows, Forgets(f)
  PROVE  GoesOn(f) /\ TakesAway(f)
<1>0. SignInShape /\ Births /\ Named /\ ForgottenWasCalledOff /\ EndsTakeTheirTokens
  BY DEF SignInInv
<1>1. PICK p \in Places : Goes(f, p) /\ flow[f].at = "called_off" /\ p = "forgetting"
  BY DEF Forgets, Places
<1>2. GoesOn(f)
  BY <1>0, <1>1, GoesKeeps DEF GoesOn, Began, ForgottenWasCalledOff
<1>3. flow[f].user \in Users
  BY <1>0, <1>2 DEF Births, GoesOn
<1>4. token[flow[f].user] = f => OwnIsCurrent(f)
  BY <1>0, <1>3 DEF Named, OwnIsCurrent, Flows
<1>5. /\ token' \in [Users -> 0..MaxFlows] /\ \A v \in Users : token'[v] \in {0, token[v]}
      /\ token'[flow[f].user] # f
  BY <1>0, <1>3, <1>4, SignInAssumption DEF Forgets, OwnIsCurrent, SignInShape, Flows
<1> QED BY <1>0, <1>1, <1>2, <1>3, <1>5, GoesKeeps
  DEF Forgets, Store, Counts, SignInShape, TakesAway, ForgetPlaces, Began, Births

LEMMA LooksGoesOn ==
  ASSUME SignInInv, NEW f \in Flows, Looks(f)
  PROVE  GoesOn(f) /\ TakesAway(f)
<1>0. SignInShape /\ Births /\ Named /\ ForgottenWasCalledOff /\ EndsTakeTheirTokens
  BY DEF SignInInv
<1>1. PICK p \in Places : Goes(f, p) /\ flow[f].at = "forgetting" /\ (token[flow[f].user] # 0 => p = "over")
       /\ (token[flow[f].user] = 0 => p = "looking")
  BY DEF Looks, Places
<1>2. GoesOn(f)
  BY <1>0, <1>1, GoesKeeps DEF GoesOn, Began, ForgottenWasCalledOff
<1>3. token[flow[f].user] = f => flow[f].at \in {"ended", "persisted", "called_off", "over"}
  BY <1>0, <1>1 DEF Named, Births, Began, Flows
<1>4. flow[f].user \in Users
  BY <1>0, <1>2 DEF Births, GoesOn
<1> QED BY <1>0, <1>1, <1>2, <1>3, <1>4, GoesKeeps
  DEF Looks, Store, Counts, SignInShape, TakesAway, ForgetPlaces, Began, Births

LEMMA DropsGoesOn ==
  ASSUME SignInInv, NEW f \in Flows, Drops(f)
  PROVE  GoesOn(f) /\ TakesAway(f)
<1>0. SignInShape /\ Births /\ Named /\ ForgottenWasCalledOff /\ EndsTakeTheirTokens
  BY DEF SignInInv
<1>1. PICK p \in Places : Goes(f, p) /\ flow[f].at = "looking" /\ p = "over"
  BY DEF Drops, Places
<1>2. GoesOn(f)
  BY <1>0, <1>1, GoesKeeps DEF GoesOn, Began, ForgottenWasCalledOff
<1>3. token[flow[f].user] = f => flow[f].at \in {"ended", "persisted", "called_off", "over"}
  BY <1>0, <1>1 DEF Named, Births, Began, Flows
<1>4. flow[f].user \in Users
  BY <1>0, <1>2 DEF Births, GoesOn
<1> QED BY <1>0, <1>1, <1>2, <1>3, <1>4, GoesKeeps
  DEF Drops, Store, Counts, SignInShape, TakesAway, ForgetPlaces, Began, Births


LEMMA LinksGoesOn ==
  ASSUME SignInInv, NEW f \in Flows, Links(f)
  PROVE  GoesOn(f) /\ TakesAway(f)
<1> DEFINE r == flow[f]
<1>0. SignInShape /\ Births /\ Named /\ ForgottenWasCalledOff /\ EndsTakeTheirTokens
  BY DEF SignInInv
<1>1. r \in FlowRecords /\ flow \in [Flows -> FlowRecords]
  BY <1>0 DEF SignInShape
<1>2. PICK y \in FlowRecords :
        /\ flow' = [flow EXCEPT ![f] = y] /\ y.user = r.user /\ y.aborted = r.aborted
        /\ y.late = r.late /\ y.code = r.code /\ y.resumed = r.resumed /\ y.asked = r.asked
        /\ y.saved = r.saved /\ r.at = "registered" /\ y.at = "waits"
  <2> DEFINE y == [r EXCEPT !.at = "waits", !.linked = (r.front = "waits"), !.front = "answered"]
  <2>1. y \in FlowRecords
    BY <1>1 DEF FlowRecords, Places
  <2>2. flow' = [flow EXCEPT ![f] = y]
    BY DEF Links
  <2>3. /\ y.user = r.user /\ y.aborted = r.aborted /\ y.late = r.late
        /\ y.code = r.code /\ y.resumed = r.resumed /\ y.asked = r.asked
        /\ y.saved = r.saved /\ y.at = "waits"
    BY <1>1 DEF FlowRecords
  <2>4. /\ r.at = "registered"
    BY DEF Links
  <2> HIDE DEF y
  <2> QED BY <2>1, <2>2, <2>3, <2>4
<1>3. \A g \in Flows : flow'[g] = IF g = f THEN y ELSE flow[g]
  BY <1>1, <1>2
<1>4. flow' \in [Flows -> FlowRecords]
  BY <1>1, <1>2
<1>5. GoesOn(f)
  BY <1>0, <1>2, <1>3, <1>4 DEF GoesOn, Began, Births, ForgottenWasCalledOff
<1>6. token[r.user] = f => r.at \in {"ended", "persisted", "called_off", "over"}
  BY <1>0, <1>5 DEF Named, Births, GoesOn, Flows
<1>7. r.user \in Users
  BY <1>0, <1>5 DEF Births, GoesOn
<1> QED BY <1>0, <1>2, <1>3, <1>5, <1>6, <1>7, SignInAssumption
  DEF Links, Store, Counts, SignInShape, TakesAway, ForgetPlaces, Began, Births, EndsTakeTheirTokens, Of, Flows

LEMMA RefreshesGoesOn ==
  ASSUME SignInInv, NEW f \in Flows, Refreshes(f)
  PROVE  GoesOn(f) /\ TakesAway(f)
<1> DEFINE r == flow[f]
<1>0. SignInShape /\ Births /\ Named /\ ForgottenWasCalledOff /\ EndsTakeTheirTokens
  BY DEF SignInInv
<1>1. r \in FlowRecords /\ flow \in [Flows -> FlowRecords]
  BY <1>0 DEF SignInShape
<1>2. PICK y \in FlowRecords :
        /\ flow' = [flow EXCEPT ![f] = y] /\ y.user = r.user /\ y.aborted = r.aborted
        /\ y.late = r.late /\ y.code = r.code /\ y.resumed = r.resumed /\ y.asked = r.asked
        /\ y.saved = r.saved /\ r.at = "made" /\ y.at = "ended" /\ ~r.aborted
  <2> DEFINE y == [r EXCEPT !.at = "ended", !.front = IF @ = "waits" THEN "silent" ELSE @]
  <2>1. y \in FlowRecords
    BY <1>1 DEF FlowRecords, Places
  <2>2. flow' = [flow EXCEPT ![f] = y]
    BY DEF Refreshes
  <2>3. /\ y.user = r.user /\ y.aborted = r.aborted /\ y.late = r.late
        /\ y.code = r.code /\ y.resumed = r.resumed /\ y.asked = r.asked
        /\ y.saved = r.saved /\ y.at = "ended"
    BY <1>1 DEF FlowRecords
  <2>4. /\ r.at = "made" /\ ~r.aborted
    BY DEF Refreshes
  <2> HIDE DEF y
  <2> QED BY <2>1, <2>2, <2>3, <2>4
<1>3. \A g \in Flows : flow'[g] = IF g = f THEN y ELSE flow[g]
  BY <1>1, <1>2
<1>4. flow' \in [Flows -> FlowRecords]
  BY <1>1, <1>2
<1>5. GoesOn(f)
  BY <1>0, <1>2, <1>3, <1>4 DEF GoesOn, Began, Births, ForgottenWasCalledOff
<1>6. token[r.user] = f => r.at \in {"ended", "persisted", "called_off", "over"}
  BY <1>0, <1>5 DEF Named, Births, GoesOn, Flows
<1>7. r.user \in Users
  BY <1>0, <1>5 DEF Births, GoesOn
<1> QED BY <1>0, <1>2, <1>3, <1>5, <1>6, <1>7, SignInAssumption
  DEF Refreshes, Store, Counts, SignInShape, TakesAway, ForgetPlaces, Began, Births, EndsTakeTheirTokens, Of, Flows

LEMMA UnreachableGoesOn ==
  ASSUME SignInInv, NEW f \in Flows, Unreachable(f)
  PROVE  GoesOn(f) /\ TakesAway(f)
<1> DEFINE r == flow[f]
<1>0. SignInShape /\ Births /\ Named /\ ForgottenWasCalledOff /\ EndsTakeTheirTokens
  BY DEF SignInInv
<1>1. r \in FlowRecords /\ flow \in [Flows -> FlowRecords]
  BY <1>0 DEF SignInShape
<1>2. PICK y \in FlowRecords :
        /\ flow' = [flow EXCEPT ![f] = y] /\ y.user = r.user /\ y.aborted = r.aborted
        /\ y.late = r.late /\ y.code = r.code /\ y.resumed = r.resumed /\ y.asked = r.asked
        /\ y.saved = r.saved /\ r.at \in {"made", "exchanging"} /\ y.at = "over"
  <2> DEFINE y == [r EXCEPT !.at = "over", !.front = IF @ = "waits" THEN "failed" ELSE @]
  <2>1. y \in FlowRecords
    BY <1>1 DEF FlowRecords, Places
  <2>2. flow' = [flow EXCEPT ![f] = y]
    BY DEF Unreachable
  <2>3. /\ y.user = r.user /\ y.aborted = r.aborted /\ y.late = r.late
        /\ y.code = r.code /\ y.resumed = r.resumed /\ y.asked = r.asked
        /\ y.saved = r.saved /\ y.at = "over"
    BY <1>1 DEF FlowRecords
  <2>4. /\ r.at \in {"made", "exchanging"}
    BY DEF Unreachable
  <2> HIDE DEF y
  <2> QED BY <2>1, <2>2, <2>3, <2>4
<1>3. \A g \in Flows : flow'[g] = IF g = f THEN y ELSE flow[g]
  BY <1>1, <1>2
<1>4. flow' \in [Flows -> FlowRecords]
  BY <1>1, <1>2
<1>5. GoesOn(f)
  BY <1>0, <1>2, <1>3, <1>4 DEF GoesOn, Began, Births, ForgottenWasCalledOff
<1>6. token[r.user] = f => r.at \in {"ended", "persisted", "called_off", "over"}
  BY <1>0, <1>5 DEF Named, Births, GoesOn, Flows
<1>7. r.user \in Users
  BY <1>0, <1>5 DEF Births, GoesOn
<1> QED BY <1>0, <1>2, <1>3, <1>5, <1>6, <1>7, SignInAssumption
  DEF Unreachable, Store, Counts, SignInShape, TakesAway, ForgetPlaces, Began, Births, EndsTakeTheirTokens, Of, Flows

LEMMA AnswersGoesOn ==
  ASSUME SignInInv, NEW f \in Flows, Answers(f)
  PROVE  GoesOn(f) /\ TakesAway(f)
<1> DEFINE r == flow[f]
<1>0. SignInShape /\ Births /\ Named /\ ForgottenWasCalledOff /\ EndsTakeTheirTokens
  BY DEF SignInInv
<1>1. r \in FlowRecords /\ flow \in [Flows -> FlowRecords]
  BY <1>0 DEF SignInShape
<1>2. PICK y \in FlowRecords :
        /\ flow' = [flow EXCEPT ![f] = y] /\ y.user = r.user /\ y.aborted = r.aborted
        /\ y.late = r.late /\ y.code = r.code /\ y.resumed = r.resumed /\ y.asked = r.asked
        /\ y.saved = r.saved /\ y.at = r.at
  <2> DEFINE y == [r EXCEPT !.front = "answered"]
  <2>1. y \in FlowRecords
    BY <1>1 DEF FlowRecords, Places
  <2>2. flow' = [flow EXCEPT ![f] = y]
    BY DEF Answers
  <2>3. /\ y.user = r.user /\ y.aborted = r.aborted /\ y.late = r.late
        /\ y.code = r.code /\ y.resumed = r.resumed /\ y.asked = r.asked
        /\ y.saved = r.saved /\ y.at = r.at
    BY <1>1 DEF FlowRecords
  <2> HIDE DEF y
  <2> QED BY <2>1, <2>2, <2>3
<1>3. \A g \in Flows : flow'[g] = IF g = f THEN y ELSE flow[g]
  BY <1>1, <1>2
<1>4. flow' \in [Flows -> FlowRecords]
  BY <1>1, <1>2
<1>5. GoesOn(f)
  BY <1>0, <1>2, <1>3, <1>4 DEF GoesOn, Began, Births, ForgottenWasCalledOff, Answers
<1>6. token[r.user] = f => r.at \in {"ended", "persisted", "called_off", "over"}
  BY <1>0, <1>5 DEF Named, Births, GoesOn, Flows
<1>7. r.user \in Users
  BY <1>0, <1>5 DEF Births, GoesOn
<1>8. UNCHANGED <<members, token, since, stored, reg, back, leaving, born, saves, removals, restarts>>
  BY DEF Answers, Store, Counts
<1>9. pending' \in [Users -> 0..MaxFlows] /\ \A v \in Users : pending'[v] \in {0, pending[v]}
  BY <1>0, <1>7, SignInAssumption DEF Answers, Cleanup, SignInShape
<1>10. flow'[f].at = r.at
  BY <1>2, <1>3
<1>11. restarts = 0 /\ r.aborted /\ r.at = "over" => token[r.user] # f
  BY <1>0, <1>7 DEF EndsTakeTheirTokens, Of
<1> QED BY <1>0, <1>5, <1>6, <1>8, <1>9, <1>10, <1>11 DEF SignInShape, TakesAway

LEMMA GivesUpGoesOn ==
  ASSUME SignInInv, NEW f \in Flows, GivesUp(f)
  PROVE  GoesOn(f) /\ TakesAway(f)
<1> DEFINE r == flow[f]
<1>0. SignInShape /\ Births /\ Named /\ ForgottenWasCalledOff /\ EndsTakeTheirTokens
  BY DEF SignInInv
<1>1. r \in FlowRecords /\ flow \in [Flows -> FlowRecords]
  BY <1>0 DEF SignInShape
<1>2. PICK y \in FlowRecords :
        /\ flow' = [flow EXCEPT ![f] = y] /\ y.user = r.user /\ y.aborted = r.aborted
        /\ y.late = r.late /\ y.code = r.code /\ y.resumed = r.resumed /\ y.asked = r.asked
        /\ y.saved = r.saved /\ r.at = "waits" /\ y.at = "ended" /\ ~r.aborted
  <2> DEFINE y == [r EXCEPT !.at = "ended", !.linked = FALSE]
  <2>1. y \in FlowRecords
    BY <1>1 DEF FlowRecords, Places
  <2>2. flow' = [flow EXCEPT ![f] = y]
    BY DEF GivesUp
  <2>3. /\ y.user = r.user /\ y.aborted = r.aborted /\ y.late = r.late
        /\ y.code = r.code /\ y.resumed = r.resumed /\ y.asked = r.asked
        /\ y.saved = r.saved /\ y.at = "ended"
    BY <1>1 DEF FlowRecords
  <2>4. /\ r.at = "waits" /\ ~r.aborted
    BY DEF GivesUp
  <2> HIDE DEF y
  <2> QED BY <2>1, <2>2, <2>3, <2>4
<1>3. \A g \in Flows : flow'[g] = IF g = f THEN y ELSE flow[g]
  BY <1>1, <1>2
<1>4. flow' \in [Flows -> FlowRecords]
  BY <1>1, <1>2
<1>5. GoesOn(f)
  BY <1>0, <1>2, <1>3, <1>4 DEF GoesOn, Began, Births, ForgottenWasCalledOff
<1>6. token[r.user] = f => r.at \in {"ended", "persisted", "called_off", "over"}
  BY <1>0, <1>5 DEF Named, Births, GoesOn, Flows
<1>7. r.user \in Users
  BY <1>0, <1>5 DEF Births, GoesOn
<1> QED BY <1>0, <1>2, <1>3, <1>5, <1>6, <1>7, SignInAssumption
  DEF GivesUp, Store, Counts, SignInShape, TakesAway, ForgetPlaces, Began, Births, EndsTakeTheirTokens, Of, Flows


LEMMA PersistsGoesOn ==
  ASSUME SignInInv, NEW f \in Flows, Persists(f)
  PROVE  GoesOn(f) /\ TakesAway(f)
<1>0. SignInShape /\ Births /\ Named /\ ForgottenWasCalledOff /\ EndsTakeTheirTokens
  BY DEF SignInInv
<1>1. flow[f] \in FlowRecords /\ flow \in [Flows -> FlowRecords]
  BY <1>0 DEF SignInShape
<1>2. PICK p \in Places :
        /\ Goes(f, p) /\ flow[f].at = "ended" /\ (flow[f].aborted => p = "called_off")
        /\ ~flow[f].aborted => p \in {"persisted", "over"}
        /\ flow[f].aborted => reg' = reg
        /\ reg' = reg \/ reg' = [reg EXCEPT ![flow[f].user] = TRUE]
  BY <1>1 DEF Persists, Places, Goes
<1>3. GoesOn(f)
  BY <1>0, <1>2, GoesKeeps DEF GoesOn, Began
<1>4. flow[f].user \in Users
  BY <1>0, <1>3 DEF Births, GoesOn
<1>5. reg' \in [Users -> BOOLEAN]
  BY <1>0, <1>2, <1>4 DEF SignInShape
<1>6. /\ \A v \in Users : reg'[v] /\ ~reg[v] => v = flow[f].user /\ ~flow[f].aborted
  BY <1>0, <1>2, <1>4 DEF SignInShape
<1> QED BY <1>0, <1>2, <1>3, <1>4, <1>5, <1>6, GoesKeeps
  DEF Persists, Store, Counts, SignInShape, TakesAway, ForgetPlaces, Began, Births

\* The exchange fails, or the slot is taken.
EndsUnsaved(f) ==
  /\ flow[f].at = "exchanging"
  /\ \/ flow' = [flow EXCEPT ![f].at = "ended", ![f].refused = TRUE]
     \/ Goes(f, "ended")
  /\ UNCHANGED <<members, Store, pending, back, leaving, Counts>>

\* The callback marks the flow that it found refused.
Refused(f) ==
  /\ back[f] = "refused" /\ back' = [back EXCEPT ![f] = "done"]
  /\ flow' = [flow EXCEPT ![f].refused = TRUE]
  /\ pending' = [pending EXCEPT ![flow[f].user] = IF @ = f THEN 0 ELSE @]
  /\ UNCHANGED <<members, Store, leaving, Counts>>

LEMMA EndsUnsavedGoesOn ==
  ASSUME SignInInv, NEW f \in Flows, EndsUnsaved(f)
  PROVE  GoesOn(f) /\ TakesAway(f)
<1> DEFINE r == flow[f]
<1>0. SignInShape /\ Births /\ Named /\ ForgottenWasCalledOff /\ EndsTakeTheirTokens
  BY DEF SignInInv
<1>1. r \in FlowRecords /\ flow \in [Flows -> FlowRecords]
  BY <1>0 DEF SignInShape
<1>2. PICK y \in FlowRecords :
        /\ flow' = [flow EXCEPT ![f] = y] /\ y.user = r.user /\ y.aborted = r.aborted
        /\ y.late = r.late /\ y.code = r.code /\ y.resumed = r.resumed /\ y.asked = r.asked
        /\ y.saved = r.saved /\ r.at = "exchanging" /\ y.at = "ended"
  <2> DEFINE y == IF flow' = [flow EXCEPT ![f].at = "ended", ![f].refused = TRUE]
                  THEN [r EXCEPT !.at = "ended", !.refused = TRUE] ELSE [r EXCEPT !.at = "ended"]
  <2>1. y \in FlowRecords
    BY <1>1 DEF FlowRecords, Places
  <2>2. flow' = [flow EXCEPT ![f] = y]
    BY DEF EndsUnsaved, Goes
  <2> QED BY <1>1, <2>1, <2>2 DEF FlowRecords, EndsUnsaved
<1>3. \A g \in Flows : flow'[g] = IF g = f THEN y ELSE flow[g]
  BY <1>1, <1>2
<1>4. flow' \in [Flows -> FlowRecords]
  BY <1>1, <1>2
<1>5. GoesOn(f)
  BY <1>0, <1>2, <1>3, <1>4 DEF GoesOn, Began, Births, ForgottenWasCalledOff
<1>6. token[r.user] = f => r.at \in {"ended", "persisted", "called_off", "over"}
  BY <1>0, <1>5 DEF Named, Births, GoesOn, Flows
<1>7. r.user \in Users
  BY <1>0, <1>5 DEF Births, GoesOn
<1> QED BY <1>0, <1>2, <1>3, <1>5, <1>6, <1>7, SignInAssumption
  DEF EndsUnsaved, Store, Counts, SignInShape, TakesAway, ForgetPlaces, Began, Births, EndsTakeTheirTokens, Of, Flows

LEMMA RefusedGoesOn ==
  ASSUME SignInInv, NEW f \in Flows, Refused(f)
  PROVE  GoesOn(f) /\ TakesAway(f)
<1> DEFINE r == flow[f]
<1>0. SignInShape /\ Births /\ Named /\ ForgottenWasCalledOff /\ EndsTakeTheirTokens
  BY DEF SignInInv
<1>1. r \in FlowRecords /\ flow \in [Flows -> FlowRecords]
  BY <1>0 DEF SignInShape
<1>2. PICK y \in FlowRecords :
        /\ flow' = [flow EXCEPT ![f] = y] /\ y.user = r.user /\ y.aborted = r.aborted
        /\ y.late = r.late /\ y.code = r.code /\ y.resumed = r.resumed /\ y.asked = r.asked
        /\ y.saved = r.saved /\ y.at = r.at
  <2> DEFINE y == [r EXCEPT !.refused = TRUE]
  <2>1. y \in FlowRecords
    BY <1>1 DEF FlowRecords, Places
  <2>2. flow' = [flow EXCEPT ![f] = y]
    BY DEF Refused
  <2>3. /\ y.user = r.user /\ y.aborted = r.aborted /\ y.late = r.late
        /\ y.code = r.code /\ y.resumed = r.resumed /\ y.asked = r.asked
        /\ y.saved = r.saved /\ y.at = r.at
    BY <1>1 DEF FlowRecords
  <2> HIDE DEF y
  <2> QED BY <2>1, <2>2, <2>3
<1>3. \A g \in Flows : flow'[g] = IF g = f THEN y ELSE flow[g]
  BY <1>1, <1>2
<1>4. flow' \in [Flows -> FlowRecords]
  BY <1>1, <1>2
<1>5. GoesOn(f)
  BY <1>0, <1>2, <1>3, <1>4 DEF GoesOn, Began, Births, ForgottenWasCalledOff, Refused
<1>6. token[r.user] = f => r.at \in {"ended", "persisted", "called_off", "over"}
  BY <1>0, <1>5 DEF Named, Births, GoesOn, Flows
<1>7. r.user \in Users
  BY <1>0, <1>5 DEF Births, GoesOn
<1> QED BY <1>0, <1>2, <1>3, <1>5, <1>6, <1>7, SignInAssumption
  DEF Refused, Store, Counts, SignInShape, TakesAway, ForgetPlaces, Began, Births, EndsTakeTheirTokens, Of, Flows

\* Nothing but the callback itself moves.
LEMMA OnlyTheCallbackGoesOn ==
  ASSUME SignInInv, NEW f \in Flows, Began(f), flow' = flow,
         back' \in [Flows -> {"none", "fine", "refused", "reads", "done"}],
         \A g \in Flows \ {f} : back'[g] = back[g], back'[f] # "none",
         UNCHANGED <<members, Store, pending, leaving, Counts>>
  PROVE  GoesOn(f) /\ TakesAway(f)
<1>0. SignInShape /\ Births /\ Named /\ ForgottenWasCalledOff /\ EndsTakeTheirTokens
  BY DEF SignInInv
<1>1. GoesOn(f)
  BY <1>0 DEF GoesOn, SignInShape, Began, ForgottenWasCalledOff
<1>2. flow[f].user \in Users
  BY <1>0 DEF Births
<1> QED BY <1>0, <1>1, <1>2
  DEF Store, Counts, SignInShape, TakesAway, ForgetPlaces, Began, Births, Named, Flows, EndsTakeTheirTokens, Of

\* The callback hands its code to its flow, which waits.
HandsOver(f) ==
  /\ back[f] \in {"none", "fine"} /\ flow[f].at # "unborn"
  /\ flow' = [flow EXCEPT ![f].code = f] /\ back' = [back EXCEPT ![f] = "done"]
  /\ Cleanup(flow[f].user)
  /\ UNCHANGED <<members, Store, leaving, Counts>>

LEMMA HandsOverGoesOn ==
  ASSUME SignInInv, NEW f \in Flows, HandsOver(f)
  PROVE  GoesOn(f) /\ TakesAway(f)
<1> DEFINE r == flow[f]
<1>0. SignInShape /\ Births /\ Named /\ ForgottenWasCalledOff /\ EndsTakeTheirTokens
  BY DEF SignInInv
<1>1. r \in FlowRecords /\ flow \in [Flows -> FlowRecords]
  BY <1>0 DEF SignInShape
<1>2. PICK y \in FlowRecords :
        /\ flow' = [flow EXCEPT ![f] = y] /\ y.user = r.user /\ y.aborted = r.aborted
        /\ y.late = r.late /\ y.code = f /\ y.resumed = r.resumed /\ y.asked = r.asked
        /\ y.saved = r.saved /\ y.at = r.at
  <2> DEFINE y == [r EXCEPT !.code = f]
  <2>1. y \in FlowRecords
    BY <1>1 DEF FlowRecords, Places, Flows
  <2>2. flow' = [flow EXCEPT ![f] = y]
    BY DEF HandsOver
  <2>3. /\ y.user = r.user /\ y.aborted = r.aborted /\ y.late = r.late /\ y.code = f
        /\ y.resumed = r.resumed /\ y.asked = r.asked /\ y.saved = r.saved
        /\ y.at = r.at
    BY <1>1 DEF FlowRecords
  <2> HIDE DEF y
  <2> QED BY <2>1, <2>2, <2>3
<1>3. \A g \in Flows : flow'[g] = IF g = f THEN y ELSE flow[g]
  BY <1>1, <1>2
<1>4. flow' \in [Flows -> FlowRecords]
  BY <1>1, <1>2
<1>5. GoesOn(f)
  BY <1>0, <1>2, <1>3, <1>4 DEF GoesOn, Began, Births, ForgottenWasCalledOff, HandsOver
<1>6. token[r.user] = f => r.at \in {"ended", "persisted", "called_off", "over"}
  BY <1>0, <1>5 DEF Named, Births, GoesOn, Flows
<1>7. r.user \in Users
  BY <1>0, <1>5 DEF Births, GoesOn
<1> QED BY <1>0, <1>2, <1>3, <1>5, <1>6, <1>7, SignInAssumption
  DEF HandsOver, Store, Counts, SignInShape, TakesAway, ForgetPlaces, Began, Births, EndsTakeTheirTokens, Of, Flows, Cleanup

-----------------------------------------------------------------------------
(* The steps that are more than going on                                   *)

LEMMA SavesKeepsInv ==
  ASSUME SignInInv, NEW f \in Flows, Saves(f)
  PROVE  SignInInv'
<1> DEFINE u == flow[f].user
           r == flow[f]
<1>0. /\ SignInShape /\ Births /\ Named /\ ForgottenWasCalledOff /\ LeaversAreOff
      /\ EndsTakeTheirTokens /\ SomeoneForgets /\ SlotIsKept /\ CodeReachesItsFlow
  BY DEF SignInInv
<1>1. r \in FlowRecords /\ flow \in [Flows -> FlowRecords]
  BY <1>0 DEF SignInShape
<1>2. PICK y \in FlowRecords :
        /\ flow' = [flow EXCEPT ![f] = y] /\ y.user = r.user /\ y.aborted = r.aborted
        /\ y.late = r.late /\ y.code = r.code /\ y.resumed = r.resumed /\ y.asked = r.asked
        /\ y.saved = TRUE /\ r.at = "checked" /\ y.at = "ended" /\ y.linked = r.linked
  <2> DEFINE y == [r EXCEPT !.at = "ended", !.saved = TRUE]
  <2>1. y \in FlowRecords
    BY <1>1 DEF FlowRecords, Places
  <2>2. flow' = [flow EXCEPT ![f] = y]
    BY DEF Saves
  <2>3. /\ y.user = r.user /\ y.aborted = r.aborted /\ y.late = r.late
        /\ y.code = r.code /\ y.resumed = r.resumed /\ y.asked = r.asked
        /\ y.saved = TRUE /\ y.at = "ended" /\ y.linked = r.linked
    BY <1>1 DEF FlowRecords
  <2>4. /\ r.at = "checked"
    BY DEF Saves
  <2> HIDE DEF y
  <2> QED BY <2>1, <2>2, <2>3, <2>4
<1>3. /\ \A g \in Flows : flow'[g] = IF g = f THEN y ELSE flow[g]
      /\ flow' \in [Flows -> FlowRecords]
  BY <1>1, <1>2
<1>4. u \in Users
  BY <1>0, <1>2 DEF Births, Began
<1>5. /\ token' \in [Users -> 0..MaxFlows] /\ since' \in [Users -> Nat]
      /\ \A v \in Users : token'[v] = IF v = u THEN f ELSE token[v]
      /\ \A v \in Users : since'[v] = IF v = u THEN saves + 1 ELSE since[v]
      /\ f \in 1..MaxFlows /\ f # 0
  <2>1. f \in 1..MaxFlows /\ f \in 0..MaxFlows /\ f # 0
    BY SignInAssumption DEF Flows
  <2>2. token' = [token EXCEPT ![u] = f] /\ since' = [since EXCEPT ![u] = saves + 1]
    BY DEF Saves
  <2>3. /\ token \in [Users -> 0..MaxFlows] /\ since \in [Users -> Nat] /\ saves + 1 \in Nat
    BY <1>0 DEF SignInShape
  <2> QED BY <1>4, <2>1, <2>2, <2>3
<1>6. UNCHANGED <<members, stored, reg, pending, back, leaving, born, removals, restarts>>
      /\ saves' = saves + 1 /\ saves \in Nat
  BY <1>0 DEF Saves, SignInShape
<1>7. /\ \A g \in Flows : (Excused(g)' <=> Excused(g)) /\ flow'[g].user = flow[g].user
      /\ \A v : Of(v)' = Of(v)
  BY <1>2, <1>3 DEF Excused, Of
<1>8. SignInShape'
  BY <1>0, <1>3, <1>5, <1>6 DEF SignInShape
<1>9. Births' /\ ForgottenWasCalledOff' /\ CodeReachesItsFlow'
  BY <1>0, <1>2, <1>3, <1>6 DEF Births, ForgottenWasCalledOff, CodeReachesItsFlow, Began
<1>10. Named'
  <2>1. \A v \in Users : /\ token[v] # 0 => token[v] \in Flows
                         /\ pending[v] # 0 => pending[v] \in Flows
                         /\ stored[v] # 0 => stored[v] \in Flows
    BY <1>0 DEF SignInShape, Flows
  <2>2. ASSUME NEW v \in Users
        PROVE  /\ pending[v] # 0 => flow'[pending[v]].at # "unborn" /\ flow'[pending[v]].user = v
               /\ stored[v] # 0 => flow'[stored[v]].at # "unborn"
    BY <1>0, <1>2, <1>3, <2>1 DEF Named, Began
  <2>3. ASSUME NEW v \in Users, token'[v] # 0
        PROVE  /\ flow'[token'[v]].user = v /\ flow'[token'[v]].saved
               /\ flow'[token'[v]].at \in {"ended", "persisted", "called_off", "over"}
    BY <1>0, <1>2, <1>3, <1>5, <2>1, <2>3 DEF Named
  <2> QED BY <1>6, <2>2, <2>3 DEF Named, Began
<1>11. LeaversAreOff'
  <2>1. \A g \in Flows : flow[g].at \in {"asked", "peeked", "over"} => flow'[g].at = flow[g].at
    BY <1>2, <1>3
  <2>2. u \notin members /\ leaving[u] # "left" => Excused(f)
    BY <1>0, <1>2, <1>4 DEF LeaversAreOff, Of
  <2>3. \A v \in Users : token'[v] # 0 => token'[v] \in Flows
    BY <1>5, <1>8 DEF SignInShape, Flows
  <2>4. ASSUME NEW v \in Users \ members, leaving[v] # "left", NEW g \in Of(v)
        PROVE  flow'[g].at \in {"asked", "peeked", "over"} \/ Excused(g)'
    BY <1>0, <1>7, <2>1, <2>4 DEF LeaversAreOff, Of
  <2>5. ASSUME NEW v \in Users \ members, leaving[v] = "no", token'[v] # 0
        PROVE  flow'[token'[v]].aborted \/ flow'[token'[v]].late
    <3>1. Excused(token'[v])
      BY <1>0, <1>5, <2>2, <2>5 DEF LeaversAreOff
    <3> QED BY <3>1, <1>7, <2>3, <2>5 DEF Excused
  <2> QED BY <1>6, <1>7, <2>4, <2>5 DEF LeaversAreOff, Excused
<1>12. EndsTakeTheirTokens'
  BY <1>0, <1>2, <1>3, <1>5, <1>6, <1>7 DEF EndsTakeTheirTokens, Of
<1>13. SomeoneForgets'
  <2>1. \A v : Forgetters(v) \subseteq Forgetters(v)'
    BY <1>2, <1>3, <1>7 DEF Forgetters, Of
  <2>2. \A g \in Flows : flow'[g].late = flow[g].late
    BY <1>2, <1>3
  <2>3. \A v : \A g \in Of(v) : g \in Flows
    BY DEF Of
  <2> QED BY <1>0, <1>6, <1>7, <2>1, <2>2, <2>3 DEF SomeoneForgets
<1>14. SlotIsKept'
  <2>1. \A v \in Users : since'[v] <= saves'
    BY <1>0, <1>5, <1>6 DEF SlotIsKept, SignInShape
  <2>2. ASSUME NEW g \in Flows, flow'[g].at = "checked"
        PROVE  g # f /\ flow'[g] = flow[g] /\ flow[g].asked <= saves /\ flow[g].asked \in Nat
    BY <1>0, <1>1, <1>2, <1>3, <2>2 DEF SlotIsKept, FlowRecords
  <2>3. ASSUME NEW g \in Flows, flow'[g].at = "checked", NEW v \in members \ {flow'[g].user},
               token'[v] # 0, since'[v] <= flow'[g].asked, \A w \in Users : since'[w] <= since'[v]
        PROVE  flow'[token'[v]].aborted \/ flow'[token'[v]].late
    <3>1. v \in Users /\ v # u
      BY <1>0, <1>5, <1>6, <2>2, <2>3 DEF SignInShape
    <3>2. since[v] <= saves /\ since[v] \in Nat /\ since'[u] = saves + 1 /\ since'[v] = since[v]
      BY <1>0, <1>4, <1>5, <3>1 DEF SlotIsKept, SignInShape
    <3> QED BY <1>4, <1>6, <2>3, <3>2
  <2>4. \A g \in Flows : flow'[g].at = "checked" => flow'[g].asked <= saves'
    BY <1>6, <2>2
  <2> QED BY <1>6, <2>1, <2>3, <2>4 DEF SlotIsKept, Excused
<1> QED BY <1>8, <1>9, <1>10, <1>11, <1>12, <1>13, <1>14 DEF SignInInv

\* The code is exchanged, and nobody else holds the slot.
AsksInVain(f) ==
  /\ flow[f].at = "exchanging" /\ ~FreshSignInRefusal(f)
  /\ flow' = [flow EXCEPT ![f].at = "checked", ![f].asked = saves]
  /\ UNCHANGED <<members, Store, pending, back, leaving, Counts>>

LEMMA AsksKeepsInv ==
  ASSUME SignInInv, NEW f \in Flows, AsksInVain(f)
  PROVE  SignInInv'
<1> DEFINE u == flow[f].user
           r == flow[f]
<1>0. /\ SignInShape /\ Births /\ Named /\ ForgottenWasCalledOff /\ LeaversAreOff
      /\ EndsTakeTheirTokens /\ SomeoneForgets /\ SlotIsKept /\ CodeReachesItsFlow
  BY DEF SignInInv
<1>1. r \in FlowRecords /\ flow \in [Flows -> FlowRecords] /\ saves \in Nat
  BY <1>0 DEF SignInShape
<1>2. PICK y \in FlowRecords :
        /\ flow' = [flow EXCEPT ![f] = y] /\ y.user = r.user /\ y.aborted = r.aborted
        /\ y.late = r.late /\ y.code = r.code /\ y.resumed = r.resumed /\ y.asked = saves
        /\ y.saved = r.saved /\ r.at = "exchanging" /\ y.at = "checked"
  <2> DEFINE y == [r EXCEPT !.at = "checked", !.asked = saves]
  <2>1. y \in FlowRecords
    BY <1>1 DEF FlowRecords, Places
  <2>2. flow' = [flow EXCEPT ![f] = y]
    BY DEF AsksInVain
  <2>3. /\ y.user = r.user /\ y.aborted = r.aborted /\ y.late = r.late
        /\ y.code = r.code /\ y.resumed = r.resumed /\ y.asked = saves
        /\ y.saved = r.saved /\ y.at = "checked"
    BY <1>1 DEF FlowRecords
  <2>4. /\ r.at = "exchanging"
    BY DEF AsksInVain
  <2> HIDE DEF y
  <2> QED BY <2>1, <2>2, <2>3, <2>4
<1>3. /\ \A g \in Flows : flow'[g] = IF g = f THEN y ELSE flow[g]
      /\ flow' \in [Flows -> FlowRecords]
  BY <1>1, <1>2
<1>4. u \in Users
  BY <1>0, <1>2 DEF Births, Began
<1>5. UNCHANGED <<members, token, since, stored, reg, pending, back, leaving, born, saves, removals, restarts>>
  BY DEF AsksInVain, Store, Counts
<1>6. \A v \in members \ {u} : token[v] # 0 => \E w \in Users : ~(since[w] <= since[v])
  BY <1>0 DEF AsksInVain, FreshSignInRefusal, CheckSignIn, SlotRefusal, Owner, SignInShape
<1>7. /\ \A g \in Flows : (Excused(g)' <=> Excused(g)) /\ flow'[g].user = flow[g].user
      /\ \A v : Of(v)' = Of(v)
  BY <1>2, <1>3 DEF Excused, Of
<1>8. SignInShape'
  BY <1>0, <1>3, <1>5 DEF SignInShape
<1>9. Births' /\ ForgottenWasCalledOff' /\ CodeReachesItsFlow'
  BY <1>0, <1>2, <1>3, <1>5 DEF Births, ForgottenWasCalledOff, CodeReachesItsFlow, Began
<1>10. Named'
  BY <1>0, <1>2, <1>3, <1>5 DEF Named, Began, SignInShape, Flows
<1>11. LeaversAreOff'
  <2>1. ASSUME NEW v \in Users \ members, leaving[v] # "left", NEW g \in Of(v)
        PROVE  flow'[g].at \in {"asked", "peeked", "over"} \/ Excused(g)'
    BY <1>0, <1>2, <1>3, <1>7, <2>1 DEF LeaversAreOff, Of
  <2>2. ASSUME NEW v \in Users \ members, leaving[v] = "no", token[v] # 0
        PROVE  flow'[token[v]].aborted \/ flow'[token[v]].late
    <3>1. token[v] \in Flows /\ Excused(token[v])
      BY <1>0, <2>2 DEF LeaversAreOff, SignInShape, Flows
    <3> QED BY <1>7, <3>1 DEF Excused
  <2> QED BY <1>5, <1>7, <2>1, <2>2 DEF LeaversAreOff, Excused
<1>12. EndsTakeTheirTokens'
  BY <1>0, <1>2, <1>3, <1>5, <1>7 DEF EndsTakeTheirTokens, Of
<1>13. SomeoneForgets'
  <2>1. \A v : Forgetters(v) \subseteq Forgetters(v)'
    BY <1>2, <1>3, <1>7 DEF Forgetters, Of
  <2>2. \A v : \A g \in Of(v) : g \in Flows /\ flow'[g].late = flow[g].late
    BY <1>2, <1>3 DEF Of
  <2> QED BY <1>0, <1>5, <1>7, <2>1, <2>2 DEF SomeoneForgets
<1>14. SlotIsKept'
  <2>1. ASSUME NEW g \in Flows, g # f, flow'[g].at = "checked"
        PROVE  flow'[g] = flow[g]
    BY <1>3, <2>1
  <2>2. ASSUME NEW g \in Flows, flow'[g].at = "checked", NEW v \in members \ {flow'[g].user},
               token[v] # 0, since[v] <= flow'[g].asked, \A w \in Users : since[w] <= since[v]
        PROVE  flow'[token[v]].aborted \/ flow'[token[v]].late
    <3>1. g # f
      BY <1>2, <1>3, <1>6, <2>2
    <3>2. token[v] \in Flows
      BY <1>0, <2>2 DEF SignInShape, Flows
    <3>3. flow'[g] = flow[g]
      BY <2>1, <2>2, <3>1
    <3>4. Excused(token[v])
      BY <1>0, <2>2, <3>3 DEF SlotIsKept
    <3> QED BY <3>2, <3>4, <1>7 DEF Excused
  <2>3. \A g \in Flows : flow'[g].at = "checked" => flow'[g].asked <= saves
    BY <1>0, <1>1, <1>2, <1>3 DEF SlotIsKept
  <2> QED BY <1>0, <1>5, <2>2, <2>3 DEF SlotIsKept, Excused
<1> QED BY <1>8, <1>9, <1>10, <1>11, <1>12, <1>13, <1>14 DEF SignInInv

LEMMA CreatesKeepsInv ==
  ASSUME SignInInv, NEW f \in Flows, Creates(f)
  PROVE  SignInInv'
<1> DEFINE u == flow[f].user
           r == flow[f]
<1>0. /\ SignInShape /\ Births /\ Named /\ ForgottenWasCalledOff /\ LeaversAreOff
      /\ EndsTakeTheirTokens /\ SomeoneForgets /\ SlotIsKept /\ CodeReachesItsFlow
  BY DEF SignInInv
<1>1. r.at = "peeked" /\ r \in FlowRecords /\ flow \in [Flows -> FlowRecords]
  BY <1>0 DEF SignInShape, Creates
<1>2. u \in Users
  BY <1>0, <1>1 DEF Births, Began
<1>3. PICK y \in FlowRecords :
        /\ Becomes(f, y) /\ y.user = r.user /\ y.aborted = r.aborted /\ y.saved = r.saved
        /\ y.at = "made" /\ y.code = stored[u] /\ (stored[u] # 0 => y.resumed = TRUE)
        /\ (u \notin members => y.late = TRUE)
  <2>1. PICK n \in Nat : \E resumed, late \in BOOLEAN :
           /\ Becomes(f, Created(r, stored[u], n, resumed, late))
           /\ stored[u] # 0 => resumed = TRUE
           /\ u \notin members => late = TRUE
    BY <1>0, <1>2, CreatesDoes
  <2>2. PICK resumed, late \in BOOLEAN :
           /\ Becomes(f, Created(r, stored[u], n, resumed, late))
           /\ stored[u] # 0 => resumed = TRUE
           /\ u \notin members => late = TRUE
    BY <2>1
  <2> DEFINE y == Created(r, stored[u], n, resumed, late)
  <2>3. y \in FlowRecords
    BY <2>2 DEF Becomes
  <2>4. /\ y.user = r.user /\ y.aborted = r.aborted /\ y.saved = r.saved
        /\ y.at = "made" /\ y.code = stored[u] /\ y.resumed = resumed /\ y.late = late
    BY <1>1 DEF Created, FlowRecords
  <2> QED BY <2>2, <2>3, <2>4
<1>4. /\ \A g \in Flows : flow'[g] = IF g = f THEN y ELSE flow[g]
      /\ flow' \in [Flows -> FlowRecords]
  BY <1>3 DEF Becomes
<1>5. UNCHANGED <<members, token, since, back, leaving, born, saves, removals, restarts>>
  BY DEF Creates, Counts
<1>6. /\ pending' \in [Users -> 0..MaxFlows] /\ stored' \in [Users -> 0..MaxFlows]
      /\ reg' \in [Users -> BOOLEAN] /\ f \in 1..MaxFlows
      /\ \A v \in Users : pending'[v] = (IF v = u THEN f ELSE pending[v]) /\ stored'[v] \in {0, stored[v]}
      /\ \A v \in Users : reg'[v] => reg[v]
  <2>1. f \in 1..MaxFlows /\ 0 \in 0..MaxFlows
    BY SignInAssumption DEF Flows
  <2>2. /\ pending' \in [Users -> 0..MaxFlows] /\ stored' \in [Users -> 0..MaxFlows]
        /\ \A v \in Users : pending'[v] = (IF v = u THEN f ELSE pending[v]) /\ stored'[v] \in {0, stored[v]}
    <3>1. pending' = [pending EXCEPT ![u] = f] /\ stored' = [stored EXCEPT ![u] = 0]
      BY DEF Creates
    <3>2. pending \in [Users -> 0..MaxFlows] /\ stored \in [Users -> 0..MaxFlows] /\ f \in 0..MaxFlows
      BY <1>0, <2>1 DEF SignInShape
    <3> HIDE DEF u
    <3> QED BY <1>2, <2>1, <3>1, <3>2
  <2>3. reg' = [reg EXCEPT ![u] = @ /\ (stored[u] # 0 \/ token[u] # 0)] /\ reg \in [Users -> BOOLEAN]
    BY <1>0 DEF Creates, SignInShape
  <2>4. PICK b \in BOOLEAN : reg' = [reg EXCEPT ![u] = b] /\ (b => reg[u])
    BY <2>3
  <2>5. reg' \in [Users -> BOOLEAN] /\ \A v \in Users : reg'[v] => reg[v]
    BY <2>3, <2>4
  <2> QED BY <2>1, <2>2, <2>5
<1>7. \A v : Of(v)' = Of(v)
  BY <1>3, <1>4 DEF Of
<1>8. \A v \in Users : token[v] # f
  <2> SUFFICES ASSUME NEW v \in Users, token[v] = f PROVE FALSE
    OBVIOUS
  <2>1. flow[token[v]].at \in {"ended", "persisted", "called_off", "over"}
    BY <1>0, <1>6 DEF Named
  <2> QED BY <2>1, <1>1
<1>9. \A v \in Users : token[v] # 0 => token[v] \in Flows /\ flow'[token[v]] = flow[token[v]]
  BY <1>0, <1>4, <1>8 DEF SignInShape, Flows
<1>10. SignInShape'
  BY <1>0, <1>4, <1>5, <1>6 DEF SignInShape
<1>11. Births' /\ ForgottenWasCalledOff'
  BY <1>0, <1>1, <1>3, <1>4, <1>5 DEF Births, ForgottenWasCalledOff, Began
<1>12. CodeReachesItsFlow'
  BY <1>0, <1>3, <1>4 DEF CodeReachesItsFlow
<1>13. Named'
  <2> SUFFICES ASSUME NEW v \in Users
               PROVE  /\ pending'[v] # 0 => flow'[pending'[v]].at # "unborn" /\ flow'[pending'[v]].user = v
                      /\ stored'[v] # 0 => flow'[stored'[v]].at # "unborn"
                      /\ token[v] # 0 => /\ flow'[token[v]].user = v /\ flow'[token[v]].saved
                                         /\ flow'[token[v]].at \in {"ended", "persisted", "called_off", "over"}
    BY <1>5 DEF Named, Began
  <2>1. \A g \in Flows : g # f => flow'[g] = flow[g]
    BY <1>4
  <2>2. flow'[f].at # "unborn" /\ flow'[f].user = u
    BY <1>3, <1>4
  <2>3. pending'[v] # 0 => flow'[pending'[v]].at # "unborn" /\ flow'[pending'[v]].user = v
    <3>1. CASE v = u
      <4>1. pending'[v] = f
        BY <1>6, <3>1
      <4> QED BY <4>1, <2>2, <3>1
    <3>2. CASE v # u /\ pending[v] # 0
      <4>1. pending'[v] = pending[v] /\ pending[v] \in Flows
        BY <1>0, <1>6, <3>2 DEF SignInShape, Flows
      <4>2. flow[pending[v]].at # "unborn" /\ flow[pending[v]].user = v
        BY <1>0, <3>2 DEF Named, Began
      <4> QED BY <4>1, <4>2, <3>2, <2>1
    <3>3. CASE v # u /\ pending[v] = 0
      BY <1>6, <3>3
    <3> QED BY <3>1, <3>2, <3>3
  <2>4. stored'[v] # 0 => flow'[stored'[v]].at # "unborn"
    <3> SUFFICES ASSUME stored'[v] # 0
                 PROVE  flow'[stored'[v]].at # "unborn"
      OBVIOUS
    <3>1. stored'[v] = stored[v] /\ stored[v] \in Flows
      BY <1>0, <1>6 DEF SignInShape, Flows
    <3>2. flow[stored[v]].at # "unborn"
      BY <1>0, <3>1 DEF Named, Began
    <3>3. CASE stored[v] = f
      BY <3>1, <3>3, <2>2
    <3>4. CASE stored[v] # f
      BY <3>1, <3>2, <3>4, <2>1
    <3> QED BY <3>3, <3>4
  <2> QED BY <1>0, <1>9, <2>3, <2>4 DEF Named
<1>14. LeaversAreOff'
  <2>1. ASSUME NEW v \in Users \ members, leaving[v] # "left", NEW g \in Of(v)
        PROVE  flow'[g].at \in {"asked", "peeked", "over"} \/ flow'[g].aborted \/ flow'[g].late
    BY <1>0, <1>3, <1>4, <1>7, <2>1 DEF LeaversAreOff, Of, Excused
  <2>2. ASSUME NEW v \in Users \ members, leaving[v] = "no", token[v] # 0
        PROVE  flow'[token[v]].aborted \/ flow'[token[v]].late
    BY <1>0, <1>9, <2>2 DEF LeaversAreOff, Excused
  <2> QED BY <1>5, <1>7, <2>1, <2>2 DEF LeaversAreOff, Excused
<1>15. EndsTakeTheirTokens'
  BY <1>0, <1>3, <1>4, <1>5, <1>7 DEF EndsTakeTheirTokens, Of
<1>16. SomeoneForgets'
  <2> SUFFICES ASSUME NEW v \in Users \ members, leaving[v] = "no", restarts = 0, reg'[v],
                      \A g \in Of(v) : ~flow'[g].late
               PROVE  Forgetters(v)' # {}
    BY <1>5, <1>7 DEF SomeoneForgets
  <2>1. v # u
    BY <1>3, <1>4 DEF Of
  <2>2. \A g \in Of(v) : g # f /\ flow'[g] = flow[g]
    BY <1>4, <2>1 DEF Of
  <2>3. Forgetters(v) # {}
    BY <1>0, <1>6, <2>2 DEF SomeoneForgets
  <2> QED BY <2>2, <2>3, <1>7 DEF Forgetters
<1>17. SlotIsKept'
  <2>1. \A g \in Flows : flow'[g].at = "checked" => flow'[g] = flow[g]
    BY <1>3, <1>4
  <2> QED BY <1>0, <1>5, <1>9, <2>1 DEF SlotIsKept, Excused, SignInShape
<1> QED BY <1>10, <1>11, <1>12, <1>13, <1>14, <1>15, <1>16, <1>17 DEF SignInInv

LEMMA ConnectsKeepsInv ==
  ASSUME SignInInv, NEW u \in Users, Connects(u)
  PROVE  SignInInv'
<1> DEFINE f == born + 1
<1>0. /\ SignInShape /\ Births /\ Named /\ ForgottenWasCalledOff /\ LeaversAreOff
      /\ EndsTakeTheirTokens /\ SomeoneForgets /\ SlotIsKept /\ CodeReachesItsFlow
  BY DEF SignInInv
<1>1. /\ f \in Flows /\ f # 0 /\ ~Began(f) /\ born' = f /\ f \in 0..MaxFlows
      /\ \A g \in Flows : g <= f <=> g <= born \/ g = f
  BY <1>0, SignInAssumption DEF Connects, SignInShape, Flows, Births
<1>2. PICK y \in FlowRecords :
        /\ flow' = [flow EXCEPT ![f] = y] /\ y.user = u /\ y.at \in {"asked", "over"}
        /\ ~y.aborted /\ y.code = 0 /\ ~y.late
  <2>1. Unborn \in FlowRecords
    BY SignInAssumption DEF Unborn, FlowRecords, Places
  <2> DEFINE y == [Unborn EXCEPT !.user = u, !.at = IF SlotRefusal(u) THEN "over" ELSE "asked"]
  <2>2. y \in FlowRecords
    BY <2>1 DEF FlowRecords, Places
  <2>3. flow' = [flow EXCEPT ![f] = y]
    BY DEF Connects
  <2> QED BY <2>2, <2>3 DEF Unborn
<1>3. /\ \A g \in Flows : g # f => flow'[g] = flow[g]
      /\ flow'[f] = y /\ flow' \in [Flows -> FlowRecords]
  BY <1>0, <1>1, <1>2 DEF SignInShape
<1>4. UNCHANGED <<members, token, since, stored, reg, pending, back, leaving, saves, removals, restarts>>
      /\ u \in members
  BY DEF Connects, Store
<1>5. \A g \in Flows : flow[g].at # "unborn" => g # f
  BY <1>1 DEF Began
<1>6. \A v \in Users : token[v] # 0 =>
        token[v] \in Flows /\ token[v] # f /\ flow'[token[v]] = flow[token[v]]
  <2>1. ASSUME NEW v \in Users, token[v] # 0 PROVE token[v] \in Flows /\ flow[token[v]].at # "unborn"
    <3>1. token[v] \in Flows
      BY <1>0, <2>1 DEF SignInShape, Flows
    <3>2. flow[token[v]].at \in {"ended", "persisted", "called_off", "over"}
      BY <1>0, <2>1 DEF Named
    <3> QED BY <3>1, <3>2
  <2> QED BY <2>1, <1>3, <1>5
<1> HIDE DEF f
<1>7. \A v \in Users \ members : Of(v)' = Of(v) /\ \A g \in Of(v) : g # f
  <2> SUFFICES ASSUME NEW v \in Users \ members PROVE Of(v)' = Of(v) /\ \A g \in Of(v) : g # f
    OBVIOUS
  <2>1. v # u /\ v # Nobody
    BY <1>4, SignInAssumption
  <2>2. flow[f].user # v /\ flow'[f].user # v
    BY <2>1, <1>0, <1>1, <1>2, <1>3 DEF Births
  <2>3. \A g \in Flows : flow'[g].user = v <=> flow[g].user = v
    BY <2>2, <1>3
  <2> QED BY <2>2, <2>3 DEF Of
<1>8. SignInShape'
  BY <1>0, <1>1, <1>3, <1>4 DEF SignInShape
<1>9. Births' /\ ForgottenWasCalledOff' /\ CodeReachesItsFlow'
  <2>1. Births'
    BY <1>0, <1>1, <1>2, <1>3, <1>4 DEF Births, Began
  <2>2. ForgottenWasCalledOff' /\ CodeReachesItsFlow'
    BY <1>0, <1>2, <1>3 DEF ForgottenWasCalledOff, CodeReachesItsFlow
  <2> QED BY <2>1, <2>2
<1>10. Named'
  <2> SUFFICES ASSUME NEW v \in Users
               PROVE  /\ pending[v] # 0 => flow'[pending[v]].at # "unborn" /\ flow'[pending[v]].user = v
                      /\ stored[v] # 0 => flow'[stored[v]].at # "unborn"
                      /\ token[v] # 0 => /\ flow'[token[v]].user = v /\ flow'[token[v]].saved
                                         /\ flow'[token[v]].at \in {"ended", "persisted", "called_off", "over"}
    BY <1>4 DEF Named, Began
  <2>1. pending[v] # 0 => flow'[pending[v]].at # "unborn" /\ flow'[pending[v]].user = v
    <3>1. pending[v] # 0 => pending[v] \in Flows
      BY <1>0 DEF SignInShape, Flows
    <3>2. pending[v] # 0 => flow[pending[v]].at # "unborn" /\ flow[pending[v]].user = v
      BY <1>0 DEF Named, Began
    <3> QED BY <3>1, <3>2, <1>3, <1>5
  <2>2. stored[v] # 0 => flow'[stored[v]].at # "unborn"
    <3>1. stored[v] # 0 => stored[v] \in Flows
      BY <1>0 DEF SignInShape, Flows
    <3>2. stored[v] # 0 => flow[stored[v]].at # "unborn"
      BY <1>0 DEF Named, Began
    <3> QED BY <3>1, <3>2, <1>3, <1>5
  <2> QED BY <1>0, <1>6, <2>1, <2>2 DEF Named
<1>11. LeaversAreOff'
  <2>1. \A v \in Users \ members : Of(v)' = Of(v) /\ \A g \in Of(v) : g # f
    BY <1>7
  <2>2. ASSUME NEW v \in Users \ members, leaving[v] = "no", token[v] # 0
        PROVE  flow'[token[v]].aborted \/ flow'[token[v]].late
    BY <1>0, <1>6, <2>2 DEF LeaversAreOff, Excused
  <2>3. ASSUME NEW v \in Users \ members, leaving[v] # "left", NEW g \in Of(v)
        PROVE  flow'[g].at \in {"asked", "peeked", "over"} \/ flow'[g].aborted \/ flow'[g].late
    BY <1>0, <1>3, <2>1, <2>3 DEF LeaversAreOff, Excused, Of
  <2> QED BY <1>4, <2>1, <2>2, <2>3 DEF LeaversAreOff, Excused
<1>12. EndsTakeTheirTokens'
  BY <1>0, <1>2, <1>3, <1>4 DEF EndsTakeTheirTokens, Of
<1>13. SomeoneForgets'
  <2> SUFFICES ASSUME NEW v \in Users \ members, leaving[v] = "no", restarts = 0, reg[v],
                      \A g \in Of(v) : ~flow'[g].late
               PROVE  Forgetters(v)' # {}
    BY <1>4, <1>7 DEF SomeoneForgets
  <2>1. \A g \in Of(v) : flow'[g] = flow[g]
    BY <1>3, <1>7 DEF Of
  <2>2. Forgetters(v) # {}
    BY <1>0, <2>1 DEF SomeoneForgets
  <2> QED BY <2>1, <2>2, <1>7 DEF Forgetters
<1>14. SlotIsKept'
  BY <1>0, <1>2, <1>3, <1>4, <1>6 DEF SlotIsKept, Excused, SignInShape
<1> QED BY <1>8, <1>9, <1>10, <1>11, <1>12, <1>13, <1>14 DEF SignInInv

\* Somebody's flows are called off.
LEMMA AbortingKeepsInv ==
  ASSUME SignInInv, NEW u \in Users, flow' = Aborted(u), Cleanup(u),
         UNCHANGED <<members, Store, Counts>>,
         back' \in [Flows -> {"none", "fine", "refused", "reads", "done"}],
         \A g \in Flows : back'[g] = back[g] \/ Began(g),
         leaving' = leaving \/ (leaving[u] = "left" /\ leaving' = [leaving EXCEPT ![u] = "aborted"])
  PROVE  SignInInv'
<1>0. /\ SignInShape /\ Births /\ Named /\ ForgottenWasCalledOff /\ LeaversAreOff
      /\ EndsTakeTheirTokens /\ SomeoneForgets /\ SlotIsKept /\ CodeReachesItsFlow
  BY DEF SignInInv
<1>1. UNCHANGED <<members, token, since, stored, reg, born, saves, removals, restarts>>
  BY DEF Store, Counts
<1>2. /\ flow' \in [Flows -> FlowRecords]
      /\ \A g \in Flows :
           /\ flow'[g].user = flow[g].user /\ flow'[g].at = flow[g].at /\ flow'[g].late = flow[g].late
           /\ flow'[g].code = flow[g].code /\ flow'[g].resumed = flow[g].resumed
           /\ flow'[g].asked = flow[g].asked /\ flow'[g].saved = flow[g].saved
           /\ flow'[g].linked = flow[g].linked /\ flow'[g].front = flow[g].front
           /\ flow[g].aborted => flow'[g].aborted
           /\ flow'[g].aborted /\ ~flow[g].aborted => flow[g].at # "over"
           /\ flow[g].user = u /\ flow[g].at \notin {"unborn", "asked", "peeked", "over"} => flow'[g].aborted
  <2> DEFINE y(g) == IF flow[g].user = u /\ flow[g].at \notin {"unborn", "asked", "peeked", "over"}
                     THEN [flow[g] EXCEPT !.aborted = TRUE] ELSE flow[g]
  <2>1. \A g \in Flows : flow[g] \in FlowRecords
    BY <1>0 DEF SignInShape
  <2>2. \A g \in Flows : y(g) \in FlowRecords
    BY <2>1, AbortedRecord
  <2>3. flow' = [g \in Flows |-> y(g)]
    BY DEF Aborted
  <2>4. flow' \in [Flows -> FlowRecords] /\ \A g \in Flows : flow'[g] = y(g)
    BY <2>2, <2>3
  <2>5. ASSUME NEW g \in Flows
        PROVE  /\ y(g).user = flow[g].user /\ y(g).at = flow[g].at /\ y(g).late = flow[g].late
               /\ y(g).code = flow[g].code /\ y(g).resumed = flow[g].resumed
               /\ y(g).asked = flow[g].asked /\ y(g).saved = flow[g].saved
               /\ y(g).linked = flow[g].linked /\ y(g).front = flow[g].front
               /\ flow[g].aborted => y(g).aborted
               /\ y(g).aborted /\ ~flow[g].aborted => flow[g].at # "over"
               /\ flow[g].user = u /\ flow[g].at \notin {"unborn", "asked", "peeked", "over"} => y(g).aborted
    <3>1. CASE flow[g].user = u /\ flow[g].at \notin {"unborn", "asked", "peeked", "over"}
      BY <2>1, <3>1, AbortedRecord
    <3>2. CASE ~(flow[g].user = u /\ flow[g].at \notin {"unborn", "asked", "peeked", "over"})
      BY <3>2
    <3> QED BY <3>1, <3>2
  <2> HIDE DEF y
  <2> QED BY <2>4, <2>5
<1>3. /\ \A v : Of(v)' = Of(v)
      /\ \A g \in Flows : Excused(g) => Excused(g)'
      /\ \A v : Forgetters(v) \subseteq Forgetters(v)'
  BY <1>2 DEF Of, Excused, Forgetters
<1>4. \A v \in Users : leaving'[v] = "no" => leaving[v] = "no"
  BY <1>0 DEF SignInShape
<1>5. \A v \in Users : v # u => leaving'[v] = leaving[v]
  BY <1>0 DEF SignInShape
<1>6. \A v \in Users : token[v] # 0 => token[v] \in Flows
  BY <1>0 DEF SignInShape, Flows
<1>8. SignInShape'
  BY <1>0, <1>1, <1>2, SignInAssumption DEF SignInShape, Cleanup
<1>9. Births' /\ ForgottenWasCalledOff' /\ CodeReachesItsFlow'
  BY <1>0, <1>1, <1>2 DEF Births, Began, ForgottenWasCalledOff, CodeReachesItsFlow
<1>10. Named'
  <2>1. \A v \in Users : pending'[v] \in {0, pending[v]}
    BY <1>0 DEF Cleanup, SignInShape
  <2>2. \A v \in Users : /\ pending[v] # 0 => pending[v] \in Flows
                         /\ stored[v] # 0 => stored[v] \in Flows
    BY <1>0 DEF SignInShape, Flows
  <2> QED BY <1>0, <1>1, <1>2, <1>6, <2>1, <2>2 DEF Named, Began
<1>11. LeaversAreOff'
  <2>1. ASSUME NEW v \in Users \ members, leaving'[v] # "left", NEW g \in Of(v)
        PROVE  flow'[g].at \in {"asked", "peeked", "over"} \/ flow'[g].aborted \/ flow'[g].late
    <3>1. CASE v = u
      BY <1>0, <1>2, <2>1, <3>1, SignInAssumption DEF Births, Began, Of
    <3>2. CASE v # u
      BY <1>0, <1>2, <1>3, <1>5, <2>1, <3>2 DEF LeaversAreOff, Excused, Of
    <3> QED BY <3>1, <3>2
  <2>2. ASSUME NEW v \in Users \ members, leaving'[v] = "no", token[v] # 0
        PROVE  flow'[token[v]].aborted \/ flow'[token[v]].late
    BY <1>0, <1>2, <1>4, <1>6, <2>2 DEF LeaversAreOff, Excused
  <2> QED BY <1>1, <1>3, <2>1, <2>2 DEF LeaversAreOff, Excused
<1>12. EndsTakeTheirTokens'
  <2>1. \A g \in Flows : flow'[g].aborted /\ flow'[g].at = "over" => flow[g].aborted /\ flow[g].at = "over"
    BY <1>2
  <2>2. \A v : \A g \in Of(v) : g \in Flows
    BY DEF Of
  <2> QED BY <1>0, <1>1, <1>3, <2>1, <2>2 DEF EndsTakeTheirTokens
<1>13. SomeoneForgets'
  <2>1. \A v : \A g \in Of(v) : flow'[g].late = flow[g].late
    BY <1>2 DEF Of
  <2> QED BY <1>0, <1>1, <1>3, <1>4, <2>1 DEF SomeoneForgets
<1>14. SlotIsKept'
  <2>1. \A g \in Flows : flow'[g].at = flow[g].at /\ flow'[g].asked = flow[g].asked /\ flow'[g].user = flow[g].user
    BY <1>2
  <2>2. \A v \in Users : token[v] # 0 /\ Excused(token[v]) => flow'[token[v]].aborted \/ flow'[token[v]].late
    BY <1>2, <1>6 DEF Excused
  <2> QED BY <1>0, <1>1, <2>1, <2>2 DEF SlotIsKept, Excused, SignInShape
<1> QED BY <1>8, <1>9, <1>10, <1>11, <1>12, <1>13, <1>14 DEF SignInInv

\* The flows stay; a sign-in, a code or a member goes or comes.
LEMMA KeepsKeepsInv ==
  ASSUME SignInInv, NEW f \in Flows, Keeps(f)
  PROVE  SignInInv'
<1>0. /\ SignInShape /\ Births /\ Named /\ ForgottenWasCalledOff /\ LeaversAreOff
      /\ EndsTakeTheirTokens /\ SomeoneForgets /\ SlotIsKept /\ CodeReachesItsFlow
  BY DEF SignInInv
<1>1. UNCHANGED <<members, token, since, reg, pending, flow, leaving, born, saves, removals, restarts>>
  BY DEF Keeps, Counts
<1>2. Began(f) /\ flow[f].user \in Users
  BY <1>0 DEF Keeps, Births
<1>3. /\ stored' \in [Users -> 0..MaxFlows] /\ \A v \in Users : stored'[v] \in {f, stored[v]}
      /\ back' \in [Flows -> {"none", "fine", "refused", "reads", "done"}]
      /\ \A g \in Flows : back'[g] = back[g] \/ g = f
  BY <1>0, <1>2 DEF Keeps, SignInShape, Flows
<1>8. SignInShape'
  BY <1>0, <1>1, <1>3 DEF SignInShape
<1>9. Births' /\ Named'
  BY <1>0, <1>1, <1>2, <1>3 DEF Births, Named, Began
<1>10. ForgottenWasCalledOff' /\ LeaversAreOff' /\ EndsTakeTheirTokens' /\ SomeoneForgets'
      /\ SlotIsKept' /\ CodeReachesItsFlow'
  BY <1>0, <1>1 DEF ForgottenWasCalledOff, LeaversAreOff, EndsTakeTheirTokens, SomeoneForgets,
     SlotIsKept, CodeReachesItsFlow, Of, Excused, Forgetters
<1> QED BY <1>8, <1>9, <1>10 DEF SignInInv

LEMMA LeavesKeepsInv ==
  ASSUME SignInInv, NEW u \in Users, Leaves(u) \/ Rejoins(u)
  PROVE  SignInInv'
<1>0. /\ SignInShape /\ Births /\ Named /\ ForgottenWasCalledOff /\ LeaversAreOff
      /\ EndsTakeTheirTokens /\ SomeoneForgets /\ SlotIsKept /\ CodeReachesItsFlow
  BY DEF SignInInv
<1>1. UNCHANGED <<token, since, stored, reg, pending, flow, back, born, saves, restarts>>
      /\ removals' \in Nat /\ members' \subseteq Users
      /\ leaving' \in [Users -> {"no", "left", "aborted"}]
  BY <1>0 DEF Leaves, Rejoins, Store, Counts, SignInShape
<1>2. /\ \A v \in Users : v \in members' => v \in members \/ leaving[v] = "no"
      /\ \A v \in Users \ members' : leaving'[v] # "left" => v \in Users \ members /\ leaving'[v] = leaving[v]
  BY <1>0 DEF Leaves, Rejoins, SignInShape
<1>3. SignInShape' /\ Births' /\ Named' /\ ForgottenWasCalledOff' /\ EndsTakeTheirTokens'
      /\ CodeReachesItsFlow'
  BY <1>0, <1>1 DEF SignInShape, Births, Named, ForgottenWasCalledOff, EndsTakeTheirTokens,
     CodeReachesItsFlow, Began, Of
<1>4. LeaversAreOff'
  BY <1>0, <1>1, <1>2 DEF LeaversAreOff, Of, Excused
<1>5. SomeoneForgets'
  BY <1>0, <1>1, <1>2 DEF SomeoneForgets, Of, Forgetters
<1>6. SlotIsKept'
  <2>1. ASSUME NEW g \in Flows, flow[g].at = "checked", NEW v \in members' \ {flow[g].user},
               token[v] # 0, since[v] <= flow[g].asked, \A w \in Users : since[w] <= since[v]
        PROVE  Excused(token[v])
    <3>1. v \in Users /\ (v \in members \/ leaving[v] = "no")
      BY <1>1, <1>2, <2>1
    <3> QED BY <1>0, <2>1, <3>1 DEF SlotIsKept, LeaversAreOff
  <2> QED BY <1>0, <1>1, <2>1 DEF SlotIsKept, Excused
<1> QED BY <1>3, <1>4, <1>5, <1>6 DEF SignInInv

LEMMA DeletesKeepsInv ==
  ASSUME SignInInv, NEW u \in Users, Deletes(u) \/ SignsOut(u)
  PROVE  SignInInv'
<1>0. /\ SignInShape /\ Births /\ Named /\ ForgottenWasCalledOff /\ LeaversAreOff
      /\ EndsTakeTheirTokens /\ SomeoneForgets /\ SlotIsKept /\ CodeReachesItsFlow
  BY DEF SignInInv
<1>1. UNCHANGED <<members, since, pending, flow, back, born, saves, removals, restarts>>
  BY DEF Deletes, SignsOut, Counts
<1>2. /\ token' \in [Users -> 0..MaxFlows] /\ stored' \in [Users -> 0..MaxFlows]
      /\ reg' \in [Users -> BOOLEAN] /\ leaving' \in [Users -> {"no", "left", "aborted"}]
      /\ \A v \in Users : token'[v] \in {0, token[v]} /\ stored'[v] \in {0, stored[v]}
      /\ token'[u] = 0
  <2>1. /\ token \in [Users -> 0..MaxFlows] /\ stored \in [Users -> 0..MaxFlows]
        /\ reg \in [Users -> BOOLEAN] /\ leaving \in [Users -> {"no", "left", "aborted"}]
        /\ 0 \in 0..MaxFlows
    BY <1>0, SignInAssumption DEF SignInShape
  <2>2. CASE Deletes(u)
    BY <2>1, <2>2 DEF Deletes
  <2>3. CASE SignsOut(u)
    BY <2>1, <2>3 DEF SignsOut
  <2> QED BY <2>2, <2>3
<1>3. /\ \A v \in Users : v # u => reg'[v] = reg[v] /\ leaving'[v] = leaving[v]
      /\ u \in members \/ (leaving[u] = "aborted" /\ ~reg'[u])
      /\ leaving[u] # "left" => leaving'[u] # "left"
      /\ u \in members \/ leaving[u] # "left"
  BY <1>0 DEF Deletes, SignsOut, Owner, SignInShape
<1>4. SignInShape' /\ Births' /\ Named' /\ ForgottenWasCalledOff' /\ EndsTakeTheirTokens'
      /\ CodeReachesItsFlow'
  <2>1. SignInShape' /\ Births' /\ ForgottenWasCalledOff' /\ CodeReachesItsFlow'
    BY <1>0, <1>1, <1>2 DEF SignInShape, Births, ForgottenWasCalledOff, CodeReachesItsFlow, Began
  <2>2. Named'
    BY <1>0, <1>1, <1>2 DEF Named, Began
  <2>3. EndsTakeTheirTokens'
    BY <1>0, <1>1, <1>2 DEF EndsTakeTheirTokens, Of, Flows
  <2> QED BY <2>1, <2>2, <2>3
<1>5. LeaversAreOff'
  BY <1>0, <1>1, <1>2, <1>3 DEF LeaversAreOff, Of, Excused
<1>6. SomeoneForgets'
  BY <1>0, <1>1, <1>2, <1>3 DEF SomeoneForgets, Of, Forgetters
<1>7. SlotIsKept'
  BY <1>0, <1>1, <1>2 DEF SlotIsKept, Excused, SignInShape
<1> QED BY <1>4, <1>5, <1>6, <1>7 DEF SignInInv

LEMMA RestartKeepsInv ==
  ASSUME SignInInv, Restart
  PROVE  SignInInv'
<1>0. /\ SignInShape /\ Births /\ Named /\ ForgottenWasCalledOff /\ LeaversAreOff
      /\ EndsTakeTheirTokens /\ SomeoneForgets /\ SlotIsKept /\ CodeReachesItsFlow
  BY DEF SignInInv
<1>1. UNCHANGED <<members, token, since, stored, reg, leaving, born, saves, removals>>
      /\ restarts' = restarts + 1 /\ restarts \in Nat /\ (\A v \in Users : pending'[v] = 0)
      /\ pending' \in [Users -> 0..MaxFlows] /\ restarts' \in Nat
  <2>1. UNCHANGED <<members, token, since, stored, reg, leaving, born, saves, removals>>
    BY DEF Restart, Store
  <2>2. restarts' = restarts + 1 /\ restarts \in Nat
    BY <1>0 DEF Restart, SignInShape
  <2>3. pending' = [v \in Users |-> 0]
    BY DEF Restart
  <2>4. 0 \in 0..MaxFlows
    BY SignInAssumption
  <2>5. pending' \in [Users -> 0..MaxFlows] /\ \A v \in Users : pending'[v] = 0
    BY <2>3, <2>4
  <2>6. restarts' \in Nat
    BY <2>2
  <2> QED BY <2>1, <2>2, <2>5, <2>6
<1>2. /\ flow' \in [Flows -> FlowRecords]
      /\ \A g \in Flows :
           /\ flow'[g].user = flow[g].user /\ flow'[g].late = flow[g].late
           /\ flow'[g].code = flow[g].code /\ flow'[g].resumed = flow[g].resumed
           /\ flow'[g].saved = flow[g].saved /\ flow'[g].aborted = flow[g].aborted
           /\ flow'[g].linked = flow[g].linked
           /\ flow[g].at = "unborn" => flow'[g] = flow[g]
           /\ flow[g].at # "unborn" => flow'[g].at = "over"
  <2> DEFINE y(g) == IF flow[g].at = "unborn" THEN flow[g]
                     ELSE [flow[g] EXCEPT !.at = "over", !.front = "answered"]
  <2>1. \A g \in Flows : flow[g] \in FlowRecords
    BY <1>0 DEF SignInShape
  <2>2. \A g \in Flows : y(g) \in FlowRecords
    BY <2>1, OverRecord
  <2>3. flow' = [g \in Flows |-> y(g)]
    BY DEF Restart
  <2>4. flow' \in [Flows -> FlowRecords] /\ \A g \in Flows : flow'[g] = y(g)
    BY <2>2, <2>3
  <2>5. ASSUME NEW g \in Flows
        PROVE  /\ y(g).user = flow[g].user /\ y(g).late = flow[g].late
               /\ y(g).code = flow[g].code /\ y(g).resumed = flow[g].resumed
               /\ y(g).saved = flow[g].saved /\ y(g).aborted = flow[g].aborted
               /\ y(g).linked = flow[g].linked
               /\ flow[g].at = "unborn" => y(g) = flow[g]
               /\ flow[g].at # "unborn" => y(g).at = "over"
    <3>1. CASE flow[g].at = "unborn"
      BY <3>1
    <3>2. CASE flow[g].at # "unborn"
      BY <2>1, <3>2, OverRecord
    <3> QED BY <3>1, <3>2
  <2> HIDE DEF y
  <2> QED BY <2>4, <2>5
<1>3. /\ back' \in [Flows -> {"none", "fine", "refused", "reads", "done"}]
      /\ \A g \in Flows : back[g] = "none" => back'[g] = "none"
  BY DEF Restart
<1>4. \A v \in Users : /\ token[v] # 0 => token[v] \in Flows
                       /\ stored[v] # 0 => stored[v] \in Flows
  BY <1>0 DEF SignInShape, Flows
<1>5. /\ \A g \in Flows : Excused(g)' <=> Excused(g)
      /\ \A v : Of(v)' = Of(v)
  BY <1>2 DEF Excused, Of
<1>6. restarts' # 0
  BY <1>1
<1>8. SignInShape'
  <2>1. {saves, removals, restarts}' \subseteq Nat /\ born' \in 0..MaxFlows
    BY <1>0, <1>1 DEF SignInShape
  <2>2. /\ members' \subseteq Users /\ token' \in [Users -> 0..MaxFlows] /\ since' \in [Users -> Nat]
        /\ stored' \in [Users -> 0..MaxFlows] /\ reg' \in [Users -> BOOLEAN]
        /\ leaving' \in [Users -> {"no", "left", "aborted"}]
    BY <1>0, <1>1 DEF SignInShape
  <2>3. /\ pending' \in [Users -> 0..MaxFlows] /\ flow' \in [Flows -> FlowRecords]
        /\ back' \in [Flows -> {"none", "fine", "refused", "reads", "done"}]
    BY <1>1, <1>2, <1>3
  <2> QED BY <2>1, <2>2, <2>3 DEF SignInShape
<1>9. Births' /\ ForgottenWasCalledOff' /\ CodeReachesItsFlow'
  BY <1>0, <1>1, <1>2, <1>3 DEF Births, Began, ForgottenWasCalledOff, CodeReachesItsFlow
<1>10. Named'
  BY <1>0, <1>1, <1>2, <1>4 DEF Named, Began
<1>11. LeaversAreOff'
  <2>1. ASSUME NEW v \in Users \ members, NEW g \in Of(v)
        PROVE  flow'[g].at \in {"asked", "peeked", "over"}
    BY <1>0, <1>2, <2>1, SignInAssumption DEF Births, Began, Of
  <2>2. ASSUME NEW v \in Users \ members, leaving[v] = "no", token[v] # 0
        PROVE  flow'[token[v]].aborted \/ flow'[token[v]].late
    BY <1>0, <1>2, <1>4, <2>2 DEF LeaversAreOff, Excused
  <2> QED BY <1>1, <1>5, <2>1, <2>2 DEF LeaversAreOff, Excused
<1>12. EndsTakeTheirTokens'
  BY <1>6 DEF EndsTakeTheirTokens
<1>13. SomeoneForgets'
  BY <1>6 DEF SomeoneForgets
<1>14. SlotIsKept'
  <2>1. \A g \in Flows : flow'[g].at # "checked"
    BY <1>2
  <2> QED BY <1>0, <1>1, <2>1 DEF SlotIsKept
<1> QED BY <1>8, <1>9, <1>10, <1>11, <1>12, <1>13, <1>14 DEF SignInInv

LEMMA SignInsInitially == Init => SignInInv
<1> SUFFICES ASSUME Init PROVE SignInInv
  OBVIOUS
<1>1. Unborn \in FlowRecords /\ Unborn.at = "unborn" /\ Unborn.code = 0 /\ Unborn.user = Nobody
      /\ ~Unborn.linked /\ Unborn.front = "none"
  BY SignInAssumption DEF Unborn, FlowRecords, Places
<1>2. flow = [f \in Flows |-> Unborn] /\ \A f \in Flows : flow[f] = Unborn
  BY DEF Init
<1>3. SignInShape
  BY <1>1, <1>2, SignInAssumption DEF Init, SignInShape
<1>4. Births /\ ForgottenWasCalledOff /\ CodeReachesItsFlow
  BY <1>1, <1>2, SignInAssumption DEF Init, Births, Began, ForgottenWasCalledOff, CodeReachesItsFlow, Flows
<1>5. Named /\ LeaversAreOff /\ SomeoneForgets
  BY DEF Init, Named, LeaversAreOff, SomeoneForgets
<1>6. EndsTakeTheirTokens /\ SlotIsKept
  BY <1>1, <1>2 DEF Init, EndsTakeTheirTokens, SlotIsKept, Of
<1> QED BY <1>3, <1>4, <1>5, <1>6 DEF SignInInv

\* What a step does that is about flow f.
LEMMA FlowStep ==
  ASSUME SignInInv, NEW f \in Flows, FlowNext(f)
  PROVE  \/ GoesOn(f) /\ TakesAway(f)
         \/ Creates(f) \/ Saves(f) \/ AsksInVain(f)
<1>1. CASE Exchanges(f)
  BY <1>1, EndsUnsavedGoesOn DEF Exchanges, EndsUnsaved, AsksInVain
<1> QED BY <1>1, PeeksGoesOn, RegistersGoesOn, LinksGoesOn, RefreshesGoesOn, UnreachableGoesOn,
  AnswersGoesOn, ReceivesGoesOn, GivesUpGoesOn, PersistsGoesOn, SettlesGoesOn, ForgetsGoesOn,
  LooksGoesOn, DropsGoesOn DEF FlowNext

LEMMA CompletesStep ==
  ASSUME SignInInv, NEW f \in Flows, Began(f), back[f] \in {"none", "fine"}, Completes(f),
         UNCHANGED <<members, Store, leaving, Counts>>
  PROVE  GoesOn(f) /\ TakesAway(f)
<1>1. CASE WaitingFlow(f) # 0
  <2>1. WaitingFlow(f) = f
    BY <1>1 DEF WaitingFlow
  <2>2. HandsOver(f)
    BY <1>1, <2>1 DEF Completes, HandsOver, Began
  <2> QED BY <2>2, HandsOverGoesOn
<1>2. CASE WaitingFlow(f) = 0
  <2>1. /\ back' \in [Flows -> {"none", "fine", "refused", "reads", "done"}]
        /\ (\A g \in Flows \ {f} : back'[g] = back[g]) /\ back'[f] # "none"
        /\ flow' = flow /\ pending' = pending
    BY <1>2 DEF Completes, SignInInv, SignInShape
  <2>2. UNCHANGED <<members, Store, pending, leaving, Counts>>
    BY <2>1
  <2> QED BY <2>1, <2>2, OnlyTheCallbackGoesOn
<1> QED BY <1>1, <1>2

LEMMA CallbackStep ==
  ASSUME SignInInv, NEW f \in Flows, ComesBack(f) \/ Checked(f)
  PROVE  SignInInv'
<1> DEFINE u == flow[f].user
<1>0. SignInShape /\ Births
  BY DEF SignInInv
<1>1. Began(f) /\ u \in Users
  BY <1>0 DEF ComesBack, Checked, Births
<1>2. CASE ComesBack(f)
  <2>0. back[f] = "none" /\ UNCHANGED <<members, Store, leaving, Counts>>
    BY <1>2 DEF ComesBack
  <2>1. CASE back' = [back EXCEPT ![f] = "done"] /\ Cleanup(u) /\ flow' = Aborted(u)
    <3>1. /\ back' \in [Flows -> {"none", "fine", "refused", "reads", "done"}]
          /\ \A g \in Flows : back'[g] = back[g] \/ Began(g)
      BY <1>0, <1>1, <2>1 DEF SignInShape
    <3> QED BY <1>1, <2>0, <2>1, <3>1, AbortingKeepsInv
  <2>2. CASE /\ back' = [back EXCEPT ![f] = IF CheckSignIn(WaitingFlow(f)) THEN "refused" ELSE "fine"]
             /\ UNCHANGED <<pending, flow>>
    <3>1. /\ back' \in [Flows -> {"none", "fine", "refused", "reads", "done"}]
          /\ (\A g \in Flows \ {f} : back'[g] = back[g]) /\ back'[f] # "none"
      BY <1>0, <2>2 DEF SignInShape
    <3>2. GoesOn(f) /\ TakesAway(f)
      BY <1>1, <2>0, <2>2, <3>1, OnlyTheCallbackGoesOn
    <3> QED BY <3>2, GoingOnKeepsInv
  <2>3. CASE Completes(f)
    <3>1. GoesOn(f) /\ TakesAway(f)
      BY <1>1, <2>0, <2>3, CompletesStep
    <3> QED BY <3>1, GoingOnKeepsInv
  <2> QED BY <1>2, <2>1, <2>2, <2>3 DEF ComesBack
<1>3. CASE Checked(f)
  <2>1. CASE back[f] = "fine" /\ Completes(f)
    <3>1. GoesOn(f) /\ TakesAway(f)
      BY <1>1, <1>3, <2>1, CompletesStep DEF Checked
    <3> QED BY <3>1, GoingOnKeepsInv
  <2>2. CASE Refused(f)
    BY <2>2, RefusedGoesOn, GoingOnKeepsInv
  <2> QED BY <1>3, <2>1, <2>2 DEF Checked, Refused
<1> QED BY <1>2, <1>3

LEMMA SignInStep == SignInInv /\ [Next]_vars => SignInInv'
<1> SUFFICES ASSUME SignInInv, [Next]_vars PROVE SignInInv'
  OBVIOUS
<1>1. ASSUME NEW f \in Flows, FlowNext(f) PROVE SignInInv'
  BY <1>1, FlowStep, GoingOnKeepsInv, CreatesKeepsInv, SavesKeepsInv, AsksKeepsInv
<1>2. ASSUME NEW f \in Flows, ComesBack(f) \/ Checked(f) \/ Keeps(f) PROVE SignInInv'
  BY <1>2, CallbackStep, KeepsKeepsInv
<1>3. ASSUME NEW u \in Users, Connects(u) \/ Leaves(u) \/ Deletes(u) \/ Rejoins(u) \/ SignsOut(u)
      PROVE  SignInInv'
  BY <1>3, ConnectsKeepsInv, LeavesKeepsInv, DeletesKeepsInv
<1>4. ASSUME NEW u \in Users, CallsOff(u) PROVE SignInInv'
  <2>1. /\ back' \in [Flows -> {"none", "fine", "refused", "reads", "done"}]
        /\ \A g \in Flows : back'[g] = back[g] \/ Began(g)
    BY <1>4 DEF CallsOff, SignInInv, SignInShape
  <2> QED BY <1>4, <2>1, AbortingKeepsInv DEF CallsOff
<1>5. CASE Restart
  BY <1>5, RestartKeepsInv
<1>6. CASE UNCHANGED vars
  BY <1>6 DEF vars, SignInInv, SignInShape, Births, Began, Named, ForgottenWasCalledOff, LeaversAreOff,
     EndsTakeTheirTokens, SomeoneForgets, SlotIsKept, CodeReachesItsFlow, Of, Excused, Forgetters
<1> QED BY <1>1, <1>2, <1>3, <1>4, <1>5, <1>6 DEF Next


-----------------------------------------------------------------------------
(* The theorems about PendingSignIns                                       *)

\* Every state is one of SignInInv: what is pending, stored and saved names
\* the flow of its admin, one who left has only flows that are called off or
\* saved late, a flow called off has not ended while its tokens are saved, and
\* one admin's sign-in that is older than a check keeps others' from landing
\* (create_pending, abort_for_user, _forget_called_off_sign_in, set_tokens).
THEOREM SignInsInOrder == Spec => []SignInInv
BY SignInsInitially, SignInStep, PTL DEF Spec

LEMMA LeaverLeavesNothing ==
  ASSUME SignInInv, NEW u \in Users, u \notin members, leaving[u] = "no", restarts = 0,
         \A f \in Of(u) : flow[f].at = "over" /\ ~flow[f].late
  PROVE  token[u] = 0 /\ ~reg[u]
<1>0. SignInShape /\ Named /\ LeaversAreOff /\ EndsTakeTheirTokens /\ SomeoneForgets
  BY DEF SignInInv
<1>1. token[u] = 0
  <2>1. SUFFICES ASSUME token[u] # 0 PROVE FALSE
    OBVIOUS
  <2>2. token[u] \in Flows
    BY <1>0, <2>1, SignInAssumption DEF SignInShape, Flows
  <2>3. token[u] \in Of(u)
    BY <1>0, <2>1, <2>2 DEF Named, Of
  <2>4. Excused(token[u])
    BY <1>0, <2>1 DEF LeaversAreOff
  <2>5. flow[token[u]].aborted /\ flow[token[u]].at = "over"
    BY <2>3, <2>4 DEF Excused
  <2> QED BY <1>0, <2>3, <2>5 DEF EndsTakeTheirTokens
<1>2. ~reg[u]
  <2>1. Forgetters(u) = {}
    BY DEF Forgetters
  <2> QED BY <1>0, <2>1 DEF SomeoneForgets
<1> QED BY <1>1, <1>2

\* No flow gets another link's code, whatever old links are used and whatever
\* Connects the person clicks on, and a sign-in that is called off leaves
\* nothing, at whichever await it was overtaken (waiting_flow,
\* complete_by_key, abort_for_user, _forget_called_off_sign_in).
THEOREM FlowsStayApartHolds == Spec => []FlowsStayApart
<1>1. SignInInv => FlowsStayApart
  <2> SUFFICES ASSUME SignInInv PROVE FlowsStayApart
    OBVIOUS
  <2>1. CodeReachesItsFlow
    BY DEF SignInInv
  <2>2. ASSUME NEW u \in Users, NEW f \in Of(u), flow[f].aborted, flow[f].at = "over"
        PROVE  token[u] # f \/ restarts > 0
    <3>1. restarts = 0 \/ restarts > 0
      BY DEF SignInInv, SignInShape
    <3> QED BY <2>2, <3>1 DEF SignInInv, EndsTakeTheirTokens
  <2>3. CalledOffLeavesNothing
    BY <2>2, LeaverLeavesNothing DEF CalledOffLeavesNothing
  <2> QED BY <2>1, <2>3 DEF FlowsStayApart
<1> QED BY <1>1, SignInsInOrder, PTL

\* The steps that take a sign-in from the store.
LEMMA WhoTakesTokens ==
  ASSUME [Next]_vars, token' # token
  PROVE  \/ \E f \in Flows : Saves(f) \/ Forgets(f)
         \/ \E u \in Users : Deletes(u) \/ SignsOut(u)
<1>1. ASSUME NEW f \in Flows, FlowNext(f) PROVE Saves(f) \/ Forgets(f)
  BY <1>1 DEF FlowNext, Peeks, Creates, Registers, Links, Refreshes, Unreachable, Answers, Receives,
     GivesUp, Exchanges, Persists, Settles, Looks, Drops, Store
<1>2. ASSUME NEW f \in Flows, ComesBack(f) \/ Checked(f) \/ Keeps(f) PROVE FALSE
  BY <1>2 DEF ComesBack, Checked, Keeps, Store
<1>3. ASSUME NEW u \in Users, Connects(u) \/ Leaves(u) \/ CallsOff(u) \/ Rejoins(u) PROVE FALSE
  BY <1>3 DEF Connects, Leaves, CallsOff, Rejoins, Store
<1>4. ~Restart /\ ~UNCHANGED vars
  BY DEF Restart, Store, vars
<1> QED BY <1>1, <1>2, <1>3, <1>4 DEF Next

LEMMA NobodyElseTakesIt ==
  ASSUME SignInInv, [Next]_vars, NEW u \in Users, token[u] # 0, token'[u] = 0
  PROVE  leaving[u] = "aborted" \/ flow[token[u]].aborted \/ (Owner(u) /\ flow' = flow)
<1>0. SignInShape /\ ForgottenWasCalledOff
  BY DEF SignInInv
<1>1. ASSUME NEW f \in Flows, Saves(f) PROVE FALSE
  BY <1>0, <1>1, SignInAssumption DEF Saves, SignInShape, Flows
<1>2. ASSUME NEW f \in Flows, Forgets(f) PROVE flow[token[u]].aborted
  <2>1. flow[f].aborted
    BY <1>0, <1>2 DEF Forgets, ForgottenWasCalledOff
  <2>2. OwnIsCurrent(f) /\ flow[f].user = u
    BY <1>0, <1>2 DEF Forgets, SignInShape
  <2> QED BY <2>1, <2>2 DEF OwnIsCurrent
<1>3. ASSUME NEW v \in Users, Deletes(v) PROVE leaving[u] = "aborted"
  BY <1>0, <1>3 DEF Deletes, SignInShape
<1>4. ASSUME NEW v \in Users, SignsOut(v) PROVE Owner(u) /\ flow' = flow
  <2>1. v = u
    BY <1>0, <1>4 DEF SignsOut, SignInShape
  <2> QED BY <1>4, <2>1 DEF SignsOut
<1>5. token' # token
  OBVIOUS
<1> QED BY <1>1, <1>2, <1>3, <1>4, <1>5, WhoTakesTokens

\* No other step marks a flow as saved.
LEMMA OnlySavingSaves ==
  ASSUME SignInInv, [Next]_vars, NEW f \in Flows, flow'[f].saved, ~flow[f].saved
  PROVE  Saves(f)
<1>0. SignInShape
  BY DEF SignInInv
<1>1. ASSUME NEW g \in Flows, FlowNext(g) PROVE Saves(f)
  <2>1. CASE GoesOn(g)
    BY <2>1 DEF GoesOn
  <2>2. CASE Creates(g)
    <3>1. flow[g].user \in Users
      BY <2>2, SignInAssumption DEF Creates, SignInInv, Births, Began
    <3>2. PICK n \in Nat : \E resumed, late \in BOOLEAN :
            Becomes(g, Created(flow[g], stored[flow[g].user], n, resumed, late))
      BY <1>0, <2>2, <3>1, CreatesDoes
    <3>3. flow[g] \in FlowRecords
      BY <1>0 DEF SignInShape
    <3>4. flow'[g].saved = flow[g].saved /\ \A h \in Flows \ {g} : flow'[h] = flow[h]
      BY <3>2, <3>3 DEF Becomes, Created, FlowRecords
    <3> QED BY <3>4
  <2>3. CASE Saves(g)
    BY <1>0, <2>3 DEF Saves, SignInShape, FlowRecords
  <2>4. CASE AsksInVain(g)
    BY <1>0, <2>4 DEF AsksInVain, SignInShape, FlowRecords
  <2> QED BY <1>1, <2>1, <2>2, <2>3, <2>4, FlowStep
<1>2. ASSUME NEW g \in Flows, ComesBack(g) PROVE FALSE
  BY <1>0, <1>2 DEF ComesBack, Completes, WaitingFlow, Aborted, SignInShape, FlowRecords
<1>3. ASSUME NEW g \in Flows, Checked(g) \/ Keeps(g) PROVE FALSE
  BY <1>0, <1>3 DEF Checked, Keeps, Completes, WaitingFlow, SignInShape, FlowRecords
<1>4. ASSUME NEW u \in Users, Connects(u) PROVE FALSE
  BY <1>0, <1>4 DEF Connects, Unborn, SignInShape, FlowRecords
<1>5. ASSUME NEW u \in Users, Leaves(u) \/ Deletes(u) \/ Rejoins(u) \/ SignsOut(u) PROVE FALSE
  BY <1>5 DEF Leaves, Deletes, Rejoins, SignsOut
<1>6. ASSUME NEW u \in Users, CallsOff(u) PROVE FALSE
  BY <1>0, <1>6 DEF CallsOff, Aborted, SignInShape, FlowRecords
<1>7. CASE Restart
  <2>1. flow[f] \in FlowRecords
    BY <1>0 DEF SignInShape
  <2>2. [flow[f] EXCEPT !.at = "over", !.front = "answered"].saved = flow[f].saved
    BY <2>1 DEF FlowRecords
  <2>3. flow'[f] = IF flow[f].at = "unborn" THEN flow[f]
                   ELSE [flow[f] EXCEPT !.at = "over", !.front = "answered"]
    BY <1>7 DEF Restart
  <2> QED BY <2>2, <2>3
<1>8. CASE UNCHANGED vars
  BY <1>8 DEF vars
<1> QED BY <1>1, <1>2, <1>3, <1>4, <1>5, <1>6, <1>7, <1>8 DEF Next

\* No sign-in goes but with its member, with a Remove sign-in, or because it
\* was called off itself, and none lands over another admin's who was the
\* last to sign in before the code was exchanged
\* (delete_user_token_if_current, _slot_taken_meanwhile, set_tokens).
THEOREM SignInsAreKeptHolds == Spec => SignInsAreKept
<1> DEFINE Kept == \A u \in Users :
             token[u] # 0 /\ token'[u] = 0
             => leaving[u] = "aborted" \/ flow[token[u]].aborted \/ (Owner(u) /\ flow' = flow)
           Lands == \A f \in Flows :
             flow'[f].saved /\ ~flow[f].saved
             => \A v \in members \ {flow[f].user} :
                  /\ token[v] # 0 /\ since[v] <= flow[f].asked
                  /\ \A u \in Users : since[u] <= since[v]
                  => flow[token[v]].aborted \/ flow[token[v]].late
<1>1. SignInInv /\ [Next]_vars => [Kept]_vars
  <2> SUFFICES ASSUME SignInInv, [Next]_vars PROVE Kept
    OBVIOUS
  <2> QED BY NobodyElseTakesIt
<1>2. SignInInv /\ [Next]_vars => [Lands]_vars
  <2> SUFFICES ASSUME SignInInv, [Next]_vars PROVE Lands
    OBVIOUS
  <2> SUFFICES ASSUME NEW f \in Flows, flow'[f].saved, ~flow[f].saved,
                      NEW v \in members \ {flow[f].user}, token[v] # 0, since[v] <= flow[f].asked,
                      \A u \in Users : since[u] <= since[v]
               PROVE  Excused(token[v])
    BY DEF Excused
  <2>1. flow[f].at = "checked"
    BY OnlySavingSaves DEF Saves
  <2> QED BY <2>1 DEF SignInInv, SlotIsKept
<1>3. Spec => []SignInInv /\ [][Next]_vars
  BY SignInsInOrder DEF Spec
<1> HIDE DEF Kept, Lands
<1>4. Spec => [][Kept]_vars /\ [][Lands]_vars
  BY <1>1, <1>2, <1>3, PTL
<1> QED BY <1>4 DEF SignInsAreKept, NewerSignInKept, TakenSlotIsKept, Kept, Lands

-----------------------------------------------------------------------------
(* Membership: the inductive invariant                                     *)

\* The places an action can be at, by its kind.
OpRecords ==
  [kind : Kinds \cup {"none"},
   at : {"unborn", "asked", "counting", "storing", "joining", "joined", "undoing", "checking",
         "closing", "tokens", "rows", "minting", "over"},
   who : Persons \cup {Nothing}, role : Names \cup {Nothing}, to : Names \cup {Nothing},
   label : Labels \cup {Nothing}, eligible : SUBSET Persons]

\* An action is at a place of its kind, and knows whom and what it is about.
ShapeOf(x) ==
  /\ x.kind = "none" <=> x.at \in {"unborn", "over"}
  /\ x.kind = "none" => x.who = Nothing
  /\ x.at = "asked" => x.kind \in UnderLock
  /\ x.at \in {"joining", "joined", "undoing"} => x.kind = "accept"
  /\ x.at \in {"tokens", "rows"} => x.kind = "rename"
  /\ x.at = "minting" => x.kind = "mint"
  /\ x.at = "closing" => x.kind \in {"remove", "decline"}
  /\ x.at = "checking" => x.kind \in {"remove", "decline", "setrole"}
  /\ x.at = "counting" => x.kind \in {"accept", "decline", "remove", "setrole"}
  /\ x.at = "storing" => x.kind \notin {"accept", "mint"}
  /\ x.kind = "add" => x.at = "storing"
  /\ x.kind \in {"rename", "delete", "mint", "none"} <=> x.who = Nothing
  /\ x.kind \in {"add", "setrole", "rename", "delete", "mint"} => x.role \in Names
  /\ x.kind = "accept" /\ x.at # "asked" => x.role \in Names
  /\ x.kind = "rename" => x.to \in Names /\ x.to # x.role
  /\ x.kind = "mint" => x.label \in Labels

OpShape == \A o \in Ops : ShapeOf(op[o])

MembersShape ==
  /\ roles \in [Names -> {"no", "admin", "plain"}]
  /\ users \in [Persons -> Names \cup {Nothing}] /\ rows \in [Persons -> Names \cup {Nothing}]
  /\ policyMembers \subseteq Persons /\ tokens \in [Labels -> Names \cup {Nothing}]
  /\ lock \in Ops \cup {Nothing} /\ half \subseteq Persons /\ torn \in BOOLEAN /\ failures \in Nat
  /\ op \in [Ops -> OpRecords] /\ OpShape

\* The roles lock is with whoever is past it.
Locked ==
  \A o \in Ops : op[o].kind \in UnderLock /\ op[o].at # "asked" => lock = o

\* While an address is invited, nothing else is done about it.
AddsAlone ==
  \A o \in Ops : op[o].kind = "add" =>
    /\ ~Invited(op[o].who) /\ op[o].who \notin half
    /\ \A a \in Ops \ {o} : op[a].who = op[o].who => op[a].at = "asked"

\* Such an action took the person out of the config, or found them gone, and
\* is on its way to end their membership.
Leaving(o) ==
  \/ op[o].kind \in {"remove", "decline"} /\ op[o].at \in {"checking", "closing"}
  \/ op[o].at = "undoing"

\* Nobody is invited again before that.
GoneStayGone == \A o \in Ops : Leaving(o) => ~Invited(op[o].who)

\* What an accepted invitation or a new role says is so as long as the
\* person is a user.
RolesHold ==
  \A o \in Ops : op[o].who # Nothing /\ Invited(op[o].who) =>
    /\ op[o].kind = "accept" /\ op[o].at # "asked" => users[op[o].who] = op[o].role
    /\ op[o].at = "joined" => rows[op[o].who] = op[o].role
    /\ op[o].kind = "setrole" /\ op[o].at = "checking" => users[op[o].who] = op[o].role

\* The running policy hears of a member last.
NotYetIn == \A o \in Ops : op[o].at \in {"joining", "joined", "undoing"} => op[o].who \notin policyMembers

\* It takes nobody for a member who has no row.
MembersHaveRows == \A p \in policyMembers : rows[p] # Nothing

\* What is under way on a person.
EndsIt(p) == \E o \in Ops : op[o].who = p /\ (Leaving(o) \/ op[o].at = "joined")
Joining(p) == \E o \in Ops : op[o].who = p /\ op[o].at \in {"joined", "undoing"}
Resets(p) == \E o \in Ops : op[o].who = p /\ op[o].kind = "setrole" /\ op[o].at = "checking"

\* A row without an invitation, or unknown to the running policy, has
\* somebody who ends it or makes it known, unless a failure stopped them.
RowsAreBacked ==
  \A p \in Persons \ half : rows[p] # Nothing =>
    /\ Invited(p) \/ EndsIt(p)
    /\ p \in policyMembers \/ Joining(p)

\* The role of a row is the user's, but for a rename that has not come to
\* the rows.
RowRoles ==
  \A p \in Persons \ half : rows[p] # Nothing /\ Invited(p) /\ ~torn /\ ~Resets(p) =>
    /\ \A o \in Ops : op[o].at \in {"tokens", "rows"} =>
         users[p] = IF rows[p] = op[o].role THEN op[o].to ELSE rows[p]
    /\ (\A o \in Ops : op[o].at \notin {"tokens", "rows"}) => users[p] = rows[p]

\* Nobody has a role that there is not, and no token but those a rename has
\* not come to.
UsersKnown == \A p \in Persons : Known(users[p])

TokensKnown ==
  ~torn => \A l \in Labels : Known(tokens[l]) \/ \E o \in Ops : op[o].at = "tokens" /\ tokens[l] = op[o].role

\* What was checked under the lock still holds.
StillSo ==
  \A o \in Ops :
    /\ op[o].at = "minting" => roles[op[o].role] # "no"
    /\ op[o].at \in {"tokens", "rows"} => roles[op[o].to] # "no"
    /\ op[o].at = "storing" /\ op[o].kind = "delete" => \A l \in Labels : tokens[l] # op[o].role

\* The inductive invariant.
MembersInv ==
  /\ MembersShape /\ Locked /\ AddsAlone /\ GoneStayGone /\ RolesHold /\ NotYetIn
  /\ MembersHaveRows /\ RowsAreBacked /\ RowRoles /\ UsersKnown /\ TokensKnown /\ StillSo

-----------------------------------------------------------------------------
(* How an action of Membership changes itself                              *)

\* Action o alone is another one afterwards, and the lock is kept as the
\* code keeps it.
Acts(o) ==
  /\ op' \in [Ops -> OpRecords] /\ \A a \in Ops \ {o} : op'[a] = op[a]
  /\ ShapeOf(op'[o]) /\ lock' \in Ops \cup {Nothing}
  /\ lock' # lock => lock \in {o, Nothing}
  /\ op'[o].kind \in UnderLock /\ op'[o].at # "asked" => lock' = o

\* The lock and the places of the actions come out right of any such step.
LEMMA ActsKeeps ==
  ASSUME MembersInv, NEW o \in Ops, Acts(o)
  PROVE  OpShape' /\ Locked' /\ lock' \in Ops \cup {Nothing} /\ op' \in [Ops -> OpRecords]
<1>1. OpShape'
  BY DEF MembersInv, MembersShape, OpShape, Acts
<1>2. Locked'
  <2> SUFFICES ASSUME NEW a \in Ops, op'[a].kind \in UnderLock, op'[a].at # "asked"
               PROVE  lock' = a
    BY DEF Locked
  <2>1. CASE a = o
    BY <2>1 DEF Acts
  <2>2. CASE a # o
    <3>1. lock = a
      BY <2>2 DEF Acts, MembersInv, Locked
    <3> QED BY <2>2, <3>1, MembershipAssumption DEF Acts
  <2> QED BY <2>1, <2>2
<1> QED BY <1>1, <1>2 DEF Acts

\* It is over.
LEMMA FinishesActs ==
  ASSUME MembersInv, NEW o \in Ops, Finishes(o)
  PROVE  Acts(o) /\ op'[o].kind = "none" /\ op'[o].at = "over" /\ op'[o].who = Nothing
<1> DEFINE y == [NoOp EXCEPT !.at = "over"]
<1>1. y \in OpRecords /\ y.kind = "none" /\ y.at = "over" /\ y.who = Nothing
  BY DEF NoOp, OpRecords
<1>2. ShapeOf(y)
  BY <1>1, MembershipAssumption DEF ShapeOf
<1>3. op' = [op EXCEPT ![o] = y] /\ op \in [Ops -> OpRecords] /\ lock \in Ops \cup {Nothing}
      /\ lock' = IF lock = o THEN Nothing ELSE lock
  BY DEF Finishes, MembersInv, MembersShape
<1> HIDE DEF y
<1>4. op' \in [Ops -> OpRecords] /\ op'[o] = y /\ \A a \in Ops \ {o} : op'[a] = op[a]
  BY <1>1, <1>3
<1> QED BY <1>1, <1>2, <1>3, <1>4 DEF Acts, UnderLock, Kinds

\* It goes to another place.
LEMMA MovesTo ==
  ASSUME MembersInv, NEW o \in Ops,
         NEW at \in {"joining", "joined", "undoing", "checking", "closing", "tokens", "rows"},
         Moves(o, at)
  PROVE  /\ op' \in [Ops -> OpRecords] /\ (\A a \in Ops \ {o} : op'[a] = op[a])
         /\ op'[o].at = at /\ op'[o].kind = op[o].kind /\ op'[o].who = op[o].who
         /\ op'[o].role = op[o].role /\ op'[o].to = op[o].to /\ op'[o].label = op[o].label
<1>1. op \in [Ops -> OpRecords] /\ op[o] \in OpRecords
  BY DEF MembersInv, MembersShape
<1>2. [op[o] EXCEPT !.at = at] \in OpRecords
  BY <1>1 DEF OpRecords
<1> QED BY <1>1, <1>2 DEF OpRecords, Moves

\* ... one of its kind.
LEMMA MovesActs ==
  ASSUME MembersInv, NEW o \in Ops,
         NEW at \in {"joining", "joined", "undoing", "checking", "closing", "tokens", "rows"},
         Moves(o, at), UNCHANGED lock, op[o].at \notin {"unborn", "asked", "over"},
         at \in {"joining", "joined", "undoing"} => op[o].kind = "accept",
         at \in {"tokens", "rows"} => op[o].kind = "rename",
         at = "closing" => op[o].kind \in {"remove", "decline"},
         at = "checking" => op[o].kind \in {"remove", "decline", "setrole"}
  PROVE  Acts(o)
<1>1. ShapeOf(op[o]) /\ lock \in Ops \cup {Nothing} /\ (op[o].kind \in UnderLock => lock = o)
  BY DEF MembersInv, MembersShape, OpShape, Locked
<1>2. ShapeOf(op'[o])
  BY <1>1, MovesTo DEF ShapeOf
<1> QED BY <1>1, <1>2, MovesTo DEF Acts

\* What is done of an action that only it changes with: nobody is let down.
Quiet(o) ==
  LET x == op[o]
      y == op'[o] IN
  /\ Acts(o) /\ UNCHANGED <<Config, Held, half, torn>> /\ failures' \in Nat
  /\ y.kind = "add" => /\ ~Invited(y.who) /\ y.who \notin half
                        /\ \A a \in Ops \ {o} : op[a].who = y.who => op[a].at = "asked"
  /\ y.who # Nothing /\ y.at # "asked" => \A a \in Ops \ {o} : op[a].kind = "add" => op[a].who # y.who
  /\ Leaving(o)' => ~Invited(y.who)
  /\ Leaving(o) \/ x.at = "joined" => y.who = x.who /\ Leaving(o)'
  /\ x.at \in {"joined", "undoing"} => y.at \in {"joined", "undoing"}
  /\ y.kind = "accept" /\ y.at # "asked" /\ Invited(y.who) => users[y.who] = y.role
  /\ y.at = "joined" \/ (y.kind = "setrole" /\ y.at = "checking") => y = x
  /\ y.at \in {"joining", "joined", "undoing"} => y.who \notin policyMembers
  /\ {x.at, y.at} \cap {"tokens", "rows"} = {}
  /\ x.kind = "setrole" /\ x.at = "checking" => y = x
  /\ y.at = "minting" => roles[y.role] # "no"
  /\ y.at = "storing" /\ y.kind = "delete" => \A l \in Labels : tokens[l] # y.role

\* Such a step keeps the invariant.
LEMMA QuietKeepsInv ==
  ASSUME MembersInv, NEW o \in Ops, Quiet(o)
  PROVE  MembersInv'
<1>0. /\ MembersShape /\ Locked /\ AddsAlone /\ GoneStayGone /\ RolesHold /\ NotYetIn
      /\ MembersHaveRows /\ RowsAreBacked /\ RowRoles /\ UsersKnown /\ TokensKnown /\ StillSo
  BY DEF MembersInv
<1>1. OpShape' /\ Locked' /\ lock' \in Ops \cup {Nothing} /\ op' \in [Ops -> OpRecords]
  BY ActsKeeps DEF Quiet
<1>2. UNCHANGED <<roles, users, rows, policyMembers, tokens, half, torn>> /\ failures' \in Nat
  BY DEF Quiet, Config, Held
<1>3. \A a \in Ops \ {o} : op'[a] = op[a]
  BY DEF Quiet, Acts
<1>4. \A p : Invited(p)' <=> Invited(p)
  BY <1>2 DEF Invited
<1>5. MembersShape'
  BY <1>0, <1>1, <1>2 DEF MembersShape
<1>6. AddsAlone'
  BY <1>0, <1>1, <1>2, <1>3, <1>4 DEF AddsAlone, Quiet, OpShape, ShapeOf
<1>7. GoneStayGone'
  BY <1>0, <1>3, <1>4 DEF GoneStayGone, Quiet, Leaving
<1>8. RolesHold'
  BY <1>0, <1>2, <1>3, <1>4 DEF RolesHold, Quiet
<1>9. NotYetIn' /\ MembersHaveRows'
  BY <1>0, <1>2, <1>3 DEF NotYetIn, MembersHaveRows, Quiet
<1>10. RowsAreBacked'
  <2>1. ASSUME NEW p \in Persons, EndsIt(p) PROVE EndsIt(p)'
    BY <1>3, <2>1 DEF EndsIt, Leaving, Quiet
  <2>2. ASSUME NEW p \in Persons, Joining(p) PROVE Joining(p)'
    BY <1>3, <2>2 DEF Joining, Leaving, Quiet
  <2> QED BY <1>0, <1>2, <1>4, <2>1, <2>2 DEF RowsAreBacked
<1>11. RowRoles'
  <2>1. \A a \in Ops : /\ op'[a].at \in {"tokens", "rows"} <=> op[a].at \in {"tokens", "rows"}
                       /\ op[a].at \in {"tokens", "rows"} => op'[a] = op[a]
    BY <1>3 DEF Quiet
  <2>2. ASSUME NEW p \in Persons, Resets(p) PROVE Resets(p)'
    BY <1>3, <2>2 DEF Resets, Quiet
  <2> QED BY <1>0, <1>2, <1>4, <2>1, <2>2 DEF RowRoles
<1>12. UsersKnown'
  BY <1>0, <1>2 DEF UsersKnown, Known
<1>13. TokensKnown'
  <2>1. \A a \in Ops : op[a].at = "tokens" => op'[a] = op[a]
    BY <1>3 DEF Quiet
  <2> QED BY <1>0, <1>2, <2>1 DEF TokensKnown, Known
<1>14. StillSo'
  <2> SUFFICES ASSUME NEW a \in Ops
               PROVE  /\ op'[a].at = "minting" => roles[op'[a].role] # "no"
                      /\ op'[a].at \in {"tokens", "rows"} => roles[op'[a].to] # "no"
                      /\ op'[a].at = "storing" /\ op'[a].kind = "delete"
                           => \A l \in Labels : tokens[l] # op'[a].role
    BY <1>2 DEF StillSo
  <2>1. CASE a = o
    BY <2>1 DEF Quiet
  <2>2. CASE a # o
    BY <1>0, <1>3, <2>2 DEF StillSo
  <2> QED BY <2>1, <2>2
<1> QED BY <1>1, <1>5, <1>6, <1>7, <1>8, <1>9, <1>10, <1>11, <1>12, <1>13, <1>14 DEF MembersInv

\* It ends, with nothing left to do.
LEMMA FinishIsQuiet ==
  ASSUME MembersInv, NEW o \in Ops, Finishes(o), UNCHANGED <<Config, Held, half, torn, failures>>,
         op[o].at \in {"asked", "counting", "storing"}
  PROVE  MembersInv'
<1>1. Acts(o) /\ op'[o].kind = "none" /\ op'[o].at = "over" /\ op'[o].who = Nothing
  BY FinishesActs
<1>2. ~Leaving(o) /\ ~Leaving(o)' /\ failures' \in Nat
  BY <1>1 DEF Leaving, MembersInv, MembersShape
<1>3. Quiet(o)
  BY <1>1, <1>2 DEF Quiet
<1> QED BY <1>3, QuietKeepsInv

\* It begins.
LEMMA BeginActs ==
  ASSUME MembersInv, NEW o \in Ops, NEW y \in OpRecords, Begin(o, y), ShapeOf(y),
         y.at = "asked" \/ y.kind \in {"add", "remove"}
  PROVE  /\ Acts(o) /\ op'[o] = y /\ op[o].at = "unborn"
         /\ UNCHANGED <<Config, Held, lock, half, torn, failures>> /\ failures' \in Nat
<1>1. op \in [Ops -> OpRecords] /\ lock \in Ops \cup {Nothing} /\ failures \in Nat
  BY DEF MembersInv, MembersShape
<1>2. op' = [op EXCEPT ![o] = y] /\ UNCHANGED <<Config, Held, lock, half, torn, failures>>
      /\ op[o].at = "unborn"
  BY DEF Begin
<1>3. op' \in [Ops -> OpRecords] /\ op'[o] = y /\ \A a \in Ops \ {o} : op'[a] = op[a]
  BY <1>1, <1>2
<1> QED BY <1>1, <1>2, <1>3 DEF Acts, UnderLock

\* remove_user, up to its first await.
LEMMA RemovesKeepsInv ==
  ASSUME MembersInv, ~InviteMeanwhile, NEW o \in Ops, NEW p \in Persons, Removes(o, p)
  PROVE  MembersInv'
<1> DEFINE y == [NoOp EXCEPT !.kind = "remove", !.at = "counting", !.who = p,
                             !.eligible = {q \in Persons : Invited(q)}]
<1>1. y \in OpRecords /\ y.kind = "remove" /\ y.at = "counting" /\ y.who = p
  BY DEF NoOp, OpRecords, Kinds
<1>2. ShapeOf(y)
  BY <1>1, MembershipAssumption DEF ShapeOf, UnderLock
<1>3. Begin(o, y) /\ \A a \in Ops : op[a].kind = "add" => op[a].who # p
  BY DEF Removes
<1> HIDE DEF y
<1>4. /\ Acts(o) /\ op'[o] = y /\ op[o].at = "unborn"
      /\ UNCHANGED <<Config, Held, lock, half, torn, failures>> /\ failures' \in Nat
  BY <1>1, <1>2, <1>3, BeginActs
<1>5. ~Leaving(o) /\ ~Leaving(o)'
  <2>1. op[o].kind = "none"
    BY <1>4 DEF MembersInv, MembersShape, OpShape, ShapeOf
  <2> QED BY <1>1, <1>4, <2>1 DEF Leaving
<1>6. Quiet(o)
  BY <1>1, <1>3, <1>4, <1>5 DEF Quiet
<1> QED BY <1>6, QuietKeepsInv

\* An action that has yet to wait for the roles lock.
LEMMA WaitsKeepsInv ==
  ASSUME MembersInv, NEW o \in Ops, Waits(o)
  PROVE  MembersInv'
<1>1. PICK y \in OpRecords : Begin(o, y) /\ ShapeOf(y) /\ y.at = "asked" /\ y.kind # "add"
  <2>1. ASSUME NEW p \in Persons, NEW kind \in {"accept", "decline"}
        PROVE  LET y == [NoOp EXCEPT !.kind = kind, !.at = "asked", !.who = p]
               IN  y \in OpRecords /\ ShapeOf(y) /\ y.at = "asked" /\ y.kind # "add"
    BY MembershipAssumption DEF NoOp, OpRecords, ShapeOf, Kinds, UnderLock
  <2>2. ASSUME NEW p \in Persons, NEW role \in Names
        PROVE  LET y == [NoOp EXCEPT !.kind = "setrole", !.at = "asked", !.who = p, !.role = role]
               IN  y \in OpRecords /\ ShapeOf(y) /\ y.at = "asked" /\ y.kind # "add"
    BY MembershipAssumption DEF NoOp, OpRecords, ShapeOf, Kinds, UnderLock
  <2>3. ASSUME NEW role \in Names, NEW to \in Names, role # to
        PROVE  LET y == [NoOp EXCEPT !.kind = "rename", !.at = "asked", !.role = role, !.to = to]
               IN  y \in OpRecords /\ ShapeOf(y) /\ y.at = "asked" /\ y.kind # "add"
    BY <2>3, MembershipAssumption DEF NoOp, OpRecords, ShapeOf, Kinds, UnderLock
  <2>4. ASSUME NEW role \in Names
        PROVE  LET y == [NoOp EXCEPT !.kind = "delete", !.at = "asked", !.role = role]
               IN  y \in OpRecords /\ ShapeOf(y) /\ y.at = "asked" /\ y.kind # "add"
    BY MembershipAssumption DEF NoOp, OpRecords, ShapeOf, Kinds, UnderLock
  <2>5. ASSUME NEW label \in Labels, NEW role \in Names
        PROVE  LET y == [NoOp EXCEPT !.kind = "mint", !.at = "asked", !.label = label, !.role = role]
               IN  y \in OpRecords /\ ShapeOf(y) /\ y.at = "asked" /\ y.kind # "add"
    BY MembershipAssumption DEF NoOp, OpRecords, ShapeOf, Kinds, UnderLock
  <2>6. CASE \E p \in Persons, kind \in {"accept", "decline"} :
               Begin(o, [NoOp EXCEPT !.kind = kind, !.at = "asked", !.who = p])
    BY <2>1, <2>6
  <2>7. CASE \E p \in Persons, role \in Names :
               Begin(o, [NoOp EXCEPT !.kind = "setrole", !.at = "asked", !.who = p, !.role = role])
    BY <2>2, <2>7
  <2>8. CASE \E role, to \in Names :
               role # to /\ Begin(o, [NoOp EXCEPT !.kind = "rename", !.at = "asked", !.role = role, !.to = to])
    BY <2>3, <2>8
  <2>9. CASE \E role \in Names :
               Begin(o, [NoOp EXCEPT !.kind = "delete", !.at = "asked", !.role = role])
    BY <2>4, <2>9
  <2>10. CASE \E label \in Labels, role \in Names :
               Begin(o, [NoOp EXCEPT !.kind = "mint", !.at = "asked", !.label = label, !.role = role])
    BY <2>5, <2>10
  <2> QED BY <2>6, <2>7, <2>8, <2>9, <2>10 DEF Waits
<1>2. /\ Acts(o) /\ op'[o] = y /\ op[o].at = "unborn"
      /\ UNCHANGED <<Config, Held, lock, half, torn, failures>> /\ failures' \in Nat
  BY <1>1, BeginActs
<1>3. ~Leaving(o) /\ ~Leaving(o)'
  <2>1. op[o].kind = "none"
    BY <1>2 DEF MembersInv, MembersShape, OpShape, ShapeOf
  <2> QED BY <1>1, <1>2, <2>1 DEF Leaving
<1>4. Quiet(o)
  BY <1>1, <1>2, <1>3 DEF Quiet, ShapeOf, UnderLock
<1> QED BY <1>4, QuietKeepsInv

\* It gets the lock, and reads what it is about.
LEMMA LocksKeepsInv ==
  ASSUME MembersInv, NEW o \in Ops, Locks(o)
  PROVE  MembersInv'
<1>0. /\ op[o].at = "asked" /\ lock = Nothing /\ UNCHANGED <<Config, Held, half, torn, failures>>
      /\ failures \in Nat /\ op[o] \in OpRecords /\ op \in [Ops -> OpRecords] /\ ShapeOf(op[o])
      /\ users \in [Persons -> Names \cup {Nothing}]
  BY DEF Locks, Turn, MembersInv, MembersShape, OpShape
<1>1. CASE Finishes(o)
  BY <1>0, <1>1, FinishIsQuiet
<1>2. CASE ~Finishes(o)
  <2> DEFINE at == First(op[o].kind)
             role == IF op[o].kind = "accept" THEN users[op[o].who] ELSE op[o].role
             y == [op[o] EXCEPT !.at = at, !.role = role, !.eligible = {q \in Persons : Invited(q)}]
  <2>1. /\ Allowed(o) /\ lock' = o
        /\ op' = [op EXCEPT ![o].at = First(op[o].kind),
                            ![o].role = IF op[o].kind = "accept" THEN users[op[o].who] ELSE @,
                            ![o].eligible = {q \in Persons : Invited(q)}]
    BY <1>2 DEF Locks
  <2>2. op[o].kind \in UnderLock
    BY <1>0 DEF ShapeOf
  <2>3. /\ op[o].kind = "mint" => at = "minting"
        /\ op[o].kind \in {"rename", "delete"} => at = "storing"
        /\ op[o].kind \in {"accept", "decline", "setrole"} => at = "counting"
    BY <2>2 DEF First
  <2>4. /\ op[o].kind \in {"accept", "decline", "setrole"} => op[o].who \in Persons /\ Invited(op[o].who)
        /\ op[o].kind = "mint" => roles[op[o].role] # "no"
        /\ op[o].kind = "delete" => \A l \in Labels : tokens[l] # op[o].role
    BY <1>0, <2>1, <2>2 DEF Allowed, ShapeOf, OpRecords
  <2>5. role \in Names \cup {Nothing} /\ (op[o].kind = "accept" => role \in Names)
    BY <1>0, <2>4 DEF OpRecords, Invited
  <2>6. at \in {"minting", "storing", "counting"}
    BY <2>2, <2>3 DEF UnderLock, Kinds
  <2>7. op' = [op EXCEPT ![o] = y]
    BY <1>0, <2>1 DEF OpRecords
  <2> HIDE DEF at, role
  <2>8. /\ y \in OpRecords /\ y.kind = op[o].kind /\ y.at = at /\ y.who = op[o].who /\ y.role = role
        /\ y.to = op[o].to /\ y.label = op[o].label
    BY <1>0, <2>5, <2>6 DEF OpRecords
  <2> HIDE DEF y
  <2>9. op' \in [Ops -> OpRecords] /\ op'[o] = y /\ \A a \in Ops \ {o} : op'[a] = op[a]
    BY <1>0, <2>7, <2>8
  <2>10. ShapeOf(y)
    <3>1. role = op[o].role \/ op[o].kind = "accept"
      BY DEF role
    <3> QED BY <1>0, <2>2, <2>3, <2>5, <2>6, <2>8, <3>1 DEF ShapeOf, UnderLock, Kinds
  <2>11. Acts(o)
    BY <1>0, <2>1, <2>9, <2>10 DEF Acts
  <2>12. ~Leaving(o) /\ ~Leaving(o)'
    BY <1>0, <2>6, <2>8, <2>9 DEF Leaving
  <2>13. y.who # Nothing => \A a \in Ops : op[a].kind = "add" => op[a].who # y.who
    <3>1. y.who # Nothing => Invited(y.who)
      BY <1>0, <2>2, <2>4, <2>8 DEF ShapeOf, UnderLock, Kinds
    <3> QED BY <3>1 DEF MembersInv, AddsAlone
  <2>14. y.kind = "accept" => users[y.who] = y.role
    BY <2>8 DEF role
  <2>15. Quiet(o)
    BY <1>0, <2>2, <2>3, <2>4, <2>6, <2>8, <2>9, <2>11, <2>12, <2>13, <2>14 DEF Quiet, UnderLock, Kinds, role
  <2> QED BY <2>15, QuietKeepsInv
<1> QED BY <1>1, <1>2

\* It has the members that may be counted as admins.
LEMMA CountsKeepsInv ==
  ASSUME MembersInv, NEW o \in Ops, CountsAdmins(o)
  PROVE  MembersInv'
<1> DEFINE p == op[o].who
           eligible == {q \in op[o].eligible : rows[q] # Nothing}
<1>0. /\ op[o].at = "counting" /\ UNCHANGED <<Config, Held, half, torn, failures>>
      /\ failures \in Nat /\ op[o] \in OpRecords /\ op \in [Ops -> OpRecords] /\ ShapeOf(op[o])
      /\ lock \in Ops \cup {Nothing}
  BY DEF CountsAdmins, MembersInv, MembersShape, OpShape
<1>1. CASE Finishes(o)
  BY <1>0, <1>1, FinishIsQuiet
<1>2. CASE /\ op[o].kind \in {"remove", "setrole", "decline"} /\ UNCHANGED lock
           /\ op' = [op EXCEPT ![o].at = "storing", ![o].eligible = eligible]
  <2> DEFINE y == [op[o] EXCEPT !.at = "storing", !.eligible = eligible]
  <2>1. op' = [op EXCEPT ![o] = y]
    BY <1>0, <1>2 DEF OpRecords
  <2>2. eligible \in SUBSET Persons
    BY <1>0 DEF OpRecords
  <2> HIDE DEF eligible
  <2>3. /\ y \in OpRecords /\ y.kind = op[o].kind /\ y.at = "storing" /\ y.who = op[o].who
        /\ y.role = op[o].role /\ y.to = op[o].to /\ y.label = op[o].label
    BY <1>0, <2>2 DEF OpRecords
  <2> HIDE DEF y
  <2>4. op' \in [Ops -> OpRecords] /\ op'[o] = y /\ \A a \in Ops \ {o} : op'[a] = op[a]
    BY <1>0, <2>1, <2>3
  <2>5. ShapeOf(y)
    BY <1>0, <1>2, <2>3 DEF ShapeOf
  <2>6. Acts(o)
    BY <1>0, <1>2, <2>3, <2>4, <2>5 DEF Acts, MembersInv, Locked
  <2>7. ~Leaving(o) /\ ~Leaving(o)'
    BY <1>0, <2>3, <2>4 DEF Leaving
  <2>8. \A a \in Ops \ {o} : op[a].kind = "add" => op[a].who # y.who
    BY <1>0, <2>3 DEF MembersInv, AddsAlone
  <2>9. Quiet(o)
    BY <1>0, <1>2, <2>3, <2>4, <2>6, <2>7, <2>8 DEF Quiet
  <2> QED BY <2>9, QuietKeepsInv
<1>3. CASE op[o].kind = "accept" /\ rows[p] = Nothing /\ Moves(o, "joining") /\ UNCHANGED lock
  <2>1. Acts(o)
    BY <1>0, <1>3, MovesActs
  <2>2. /\ op'[o].at = "joining" /\ op'[o].kind = op[o].kind /\ op'[o].who = op[o].who
        /\ op'[o].role = op[o].role
    BY <1>3, MovesTo
  <2>3. ~Leaving(o) /\ ~Leaving(o)'
    BY <1>0, <1>3, <2>2 DEF Leaving
  <2>4. \A a \in Ops \ {o} : op[a].kind = "add" => op[a].who # p
    BY <1>0 DEF MembersInv, AddsAlone
  <2>5. p \notin policyMembers
    BY <1>3 DEF MembersInv, MembersHaveRows
  <2>6. p # Nothing /\ Invited(p) => users[p] = op[o].role
    BY <1>0, <1>3 DEF MembersInv, RolesHold
  <2>7. p # Nothing
    BY <1>0, <1>3 DEF ShapeOf
  <2>8. Quiet(o)
    BY <1>0, <1>3, <2>1, <2>2, <2>3, <2>4, <2>5, <2>6, <2>7 DEF Quiet
  <2> QED BY <2>8, QuietKeepsInv
<1> QED BY <1>1, <1>2, <1>3 DEF CountsAdmins

\* add_user, up to its first await.
LEMMA InvitesKeepsInv ==
  ASSUME MembersInv, ~InviteMeanwhile, NEW o \in Ops, NEW p \in Persons, NEW role \in Names,
         Invites(o, p, role)
  PROVE  MembersInv'
<1> DEFINE y == [NoOp EXCEPT !.kind = "add", !.at = "storing", !.who = p, !.role = role]
<1>1. y \in OpRecords /\ y.kind = "add" /\ y.at = "storing" /\ y.who = p /\ y.role = role
  BY DEF NoOp, OpRecords, Kinds
<1>2. ShapeOf(y)
  BY <1>1, MembershipAssumption DEF ShapeOf, UnderLock
<1>3. Begin(o, y) /\ ~Invited(p) /\ p \notin half /\ \A a \in Ops : op[a].who # p
  BY DEF Invites
<1> HIDE DEF y
<1>4. /\ Acts(o) /\ op'[o] = y /\ op[o].at = "unborn"
      /\ UNCHANGED <<Config, Held, lock, half, torn, failures>> /\ failures' \in Nat
  BY <1>1, <1>2, <1>3, BeginActs
<1>5. ~Leaving(o) /\ ~Leaving(o)'
  <2>1. op[o].kind = "none"
    BY <1>4 DEF MembersInv, MembersShape, OpShape, ShapeOf
  <2> QED BY <1>1, <1>4, <2>1 DEF Leaving
<1>6. Quiet(o)
  BY <1>1, <1>3, <1>4, <1>5 DEF Quiet
<1> QED BY <1>6, QuietKeepsInv

\* Under the lock, all others wait for it or are about something else.
LEMMA AloneUnderLock ==
  ASSUME MembersInv, NEW o \in Ops, op[o].kind \in UnderLock, op[o].at # "asked"
  PROVE  \A a \in Ops \ {o} :
           /\ op[a].at \notin {"joining", "joined", "undoing", "tokens", "rows", "minting"}
           /\ op[a].kind \in {"accept", "decline", "setrole", "delete"} => op[a].at = "asked"
<1> SUFFICES ASSUME NEW a \in Ops \ {o}
             PROVE  /\ op[a].at \notin {"joining", "joined", "undoing", "tokens", "rows", "minting"}
                    /\ op[a].kind \in {"accept", "decline", "setrole", "delete"} => op[a].at = "asked"
  OBVIOUS
<1>1. op[a].kind \in UnderLock => op[a].at = "asked"
  BY DEF MembersInv, Locked
<1> QED BY <1>1 DEF MembersInv, MembersShape, OpShape, ShapeOf, UnderLock, Kinds

\* Nobody is just being invited whom an action that has begun is about.
LEMMA NobodyInvitesThem ==
  ASSUME MembersInv, NEW o \in Ops, op[o].at # "asked"
  PROVE  \A a \in Ops \ {o} : op[a].kind = "add" => op[a].who # op[o].who /\ op[a].who \in Persons
BY MembershipAssumption DEF MembersInv, AddsAlone, MembersShape, OpShape, ShapeOf, OpRecords

\* The invitation is in the config.
LEMMA AddingKeepsInv ==
  ASSUME MembersInv, NEW o \in Ops, op[o].at = "storing", StoresUser(o),
         roles[op[o].role] # "no", ~Invited(op[o].who),
         UNCHANGED <<Held, half, torn, failures>>
  PROVE  MembersInv'
<1> DEFINE x == op[o]
           p == op[o].who
<1>0. /\ MembersShape /\ Locked /\ AddsAlone /\ GoneStayGone /\ RolesHold /\ NotYetIn
      /\ MembersHaveRows /\ RowsAreBacked /\ RowRoles /\ UsersKnown /\ TokensKnown /\ StillSo
  BY DEF MembersInv
<1>1. x.at = "storing" /\ x.kind = "add" /\ ShapeOf(x) /\ (p = Nothing \/ p \in Persons)
  BY <1>0 DEF StoresUser, MembersShape, OpShape, ShapeOf, OpRecords
<1>2. /\ Acts(o) /\ op'[o].kind = "none" /\ op'[o].at = "over" /\ op'[o].who = Nothing
      /\ \A a \in Ops \ {o} : op'[a] = op[a]
  BY FinishesActs DEF StoresUser, Acts
<1>3. OpShape' /\ Locked' /\ lock' \in Ops \cup {Nothing} /\ op' \in [Ops -> OpRecords]
  BY <1>2, ActsKeeps
<1>4. \A a \in Ops \ {o} : op[a].kind = "add" => op[a].who # p /\ op[a].who \in Persons
  BY <1>1, NobodyInvitesThem
<1>5. /\ users' = [users EXCEPT ![p] = x.role] /\ p \in Persons /\ x.role \in Names
      /\ UNCHANGED <<roles, rows, policyMembers, tokens, half, torn, failures>>
  BY <1>1, MembershipAssumption DEF StoresUser, Held, ShapeOf
<1>6. p \notin half /\ \A a \in Ops \ {o} : op[a].who = p => op[a].at = "asked"
  BY <1>0, <1>1 DEF AddsAlone
<1>7. rows[p] = Nothing
  BY <1>0, <1>1, <1>5, <1>6 DEF RowsAreBacked, EndsIt, Leaving
<1>8. MembersShape'
  BY <1>0, <1>3, <1>5 DEF MembersShape
<1>9. AddsAlone'
  BY <1>0, <1>2, <1>4, <1>5, MembershipAssumption DEF AddsAlone, Invited
<1>10. GoneStayGone'
  BY <1>0, <1>2, <1>5, <1>6 DEF GoneStayGone, Leaving, Invited
<1>11. RolesHold'
  BY <1>0, <1>2, <1>5, <1>6 DEF RolesHold, Invited
<1>12. NotYetIn'
  BY <1>0, <1>2, <1>5 DEF NotYetIn
<1>13. MembersHaveRows'
  BY <1>0, <1>5 DEF MembersHaveRows
<1>14. RowsAreBacked'
  BY <1>0, <1>2, <1>5 DEF RowsAreBacked, EndsIt, Joining, Leaving, Invited
<1>15. RowRoles'
  BY <1>0, <1>2, <1>5, <1>7 DEF RowRoles, Resets, Invited
<1>16. UsersKnown'
  BY <1>0, <1>5 DEF UsersKnown, Known
<1>17. TokensKnown'
  BY <1>0, <1>2, <1>5 DEF TokensKnown, Known
<1>18. StillSo'
  BY <1>0, <1>2, <1>5 DEF StillSo
<1> QED BY <1>3, <1>8, <1>9, <1>10, <1>11, <1>12, <1>13, <1>14, <1>15, <1>16, <1>17, <1>18 DEF MembersInv

\* A user is out of the config, and their membership is next.
LEMMA DroppingKeepsInv ==
  ASSUME MembersInv, NEW o \in Ops, op[o].at = "storing", op[o].kind \in {"remove", "decline"},
         Invited(op[o].who),
         users' = [users EXCEPT ![op[o].who] = Nothing], Moves(o, "checking"),
         UNCHANGED <<roles, Held, lock, half, torn, failures>>
  PROVE  MembersInv'
<1> DEFINE x == op[o]
           p == op[o].who
<1>0. /\ MembersShape /\ Locked /\ AddsAlone /\ GoneStayGone /\ RolesHold /\ NotYetIn
      /\ MembersHaveRows /\ RowsAreBacked /\ RowRoles /\ UsersKnown /\ TokensKnown /\ StillSo
  BY DEF MembersInv
<1>1. x.at = "storing" /\ x.kind \in {"remove", "decline"} /\ ShapeOf(x) /\ (p = Nothing \/ p \in Persons)
  BY <1>0 DEF Moves, MembersShape, OpShape, ShapeOf, OpRecords
<1>2. /\ Acts(o) /\ op'[o].kind = x.kind /\ op'[o].at = "checking" /\ op'[o].who = p
      /\ op'[o].role = x.role /\ op'[o].to = x.to
      /\ \A a \in Ops \ {o} : op'[a] = op[a]
  BY <1>1, MovesActs, MovesTo DEF Moves, Acts
<1>3. OpShape' /\ Locked' /\ lock' \in Ops \cup {Nothing} /\ op' \in [Ops -> OpRecords]
  BY <1>2, ActsKeeps
<1>5. /\ users' = [users EXCEPT ![p] = Nothing] /\ p \in Persons
      /\ UNCHANGED <<roles, rows, policyMembers, tokens, half, torn, failures>>
  BY <1>1, MembershipAssumption DEF Held, ShapeOf
<1>6. \A q : Invited(q)' => Invited(q) /\ users'[q] = users[q] /\ q # p
  BY <1>0, <1>5 DEF Invited, MembersShape
<1>8. MembersShape'
  BY <1>0, <1>3, <1>5 DEF MembersShape
<1>9. AddsAlone'
  BY <1>0, <1>2 DEF AddsAlone, Invited
<1>10. GoneStayGone'
  BY <1>0, <1>2, <1>6 DEF GoneStayGone, Leaving
<1>11. RolesHold'
  BY <1>0, <1>2, <1>5 DEF RolesHold, Invited
<1>12. NotYetIn'
  BY <1>0, <1>2, <1>5 DEF NotYetIn
<1>13. MembersHaveRows'
  BY <1>0, <1>5 DEF MembersHaveRows
<1>14. RowsAreBacked'
  BY <1>0, <1>2, <1>5 DEF RowsAreBacked, EndsIt, Joining, Leaving, Invited
<1>15. RowRoles'
  BY <1>0, <1>2, <1>5 DEF RowRoles, Resets, Invited
<1>16. UsersKnown'
  BY <1>0 DEF UsersKnown, Known
<1>17. TokensKnown'
  BY <1>0, <1>2, <1>5 DEF TokensKnown, Known
<1>18. StillSo'
  BY <1>0, <1>2, <1>5 DEF StillSo
<1> QED BY <1>3, <1>8, <1>9, <1>10, <1>11, <1>12, <1>13, <1>14, <1>15, <1>16, <1>17, <1>18 DEF MembersInv

\* A user has another role, and their row is next.
LEMMA ResettingKeepsInv ==
  ASSUME MembersInv, NEW o \in Ops, op[o].at = "storing", op[o].kind = "setrole",
         Invited(op[o].who), roles[op[o].role] # "no",
         users' = [users EXCEPT ![op[o].who] = op[o].role], Moves(o, "checking"),
         UNCHANGED <<roles, Held, lock, half, torn, failures>>
  PROVE  MembersInv'
<1> DEFINE x == op[o]
           p == op[o].who
<1>0. /\ MembersShape /\ Locked /\ AddsAlone /\ GoneStayGone /\ RolesHold /\ NotYetIn
      /\ MembersHaveRows /\ RowsAreBacked /\ RowRoles /\ UsersKnown /\ TokensKnown /\ StillSo
  BY DEF MembersInv
<1>1. x.at = "storing" /\ x.kind = "setrole" /\ ShapeOf(x) /\ (p = Nothing \/ p \in Persons)
  BY <1>0 DEF Moves, MembersShape, OpShape, ShapeOf, OpRecords
<1>2. /\ Acts(o) /\ op'[o].kind = x.kind /\ op'[o].at = "checking" /\ op'[o].who = p
      /\ op'[o].role = x.role /\ op'[o].to = x.to
      /\ \A a \in Ops \ {o} : op'[a] = op[a]
  BY <1>1, MovesActs, MovesTo DEF Moves, Acts
<1>3. OpShape' /\ Locked' /\ lock' \in Ops \cup {Nothing} /\ op' \in [Ops -> OpRecords]
  BY <1>2, ActsKeeps
<1>4. \A a \in Ops \ {o} : op[a].kind = "add" => op[a].who # p /\ op[a].who \in Persons
  BY <1>1, NobodyInvitesThem
<1>5. /\ users' = [users EXCEPT ![p] = x.role] /\ p \in Persons /\ x.role \in Names
      /\ UNCHANGED <<roles, rows, policyMembers, tokens, half, torn, failures>>
  BY <1>1, MembershipAssumption DEF Held, ShapeOf
<1>6. \A q : Invited(q)' <=> Invited(q)
  BY <1>0, <1>5, MembershipAssumption DEF Invited, MembersShape
<1>7. \A a \in Ops \ {o} :
        /\ op[a].at \notin {"joining", "joined", "undoing", "tokens", "rows", "minting"}
        /\ op[a].kind \in {"accept", "decline", "setrole", "delete"} => op[a].at = "asked"
  BY <1>1, AloneUnderLock DEF UnderLock, Kinds
<1>8. MembersShape'
  BY <1>0, <1>3, <1>5 DEF MembersShape
<1>9. AddsAlone'
  BY <1>0, <1>2 DEF AddsAlone, Invited
<1>10. GoneStayGone'
  BY <1>0, <1>2 DEF GoneStayGone, Leaving, Invited
<1>11. RolesHold'
  <2> SUFFICES ASSUME NEW a \in Ops, op'[a].who # Nothing, users'[op'[a].who] # Nothing
               PROVE  /\ op'[a].kind = "accept" /\ op'[a].at # "asked"
                         => users'[op'[a].who] = op'[a].role
                      /\ op'[a].at = "joined" => rows'[op'[a].who] = op'[a].role
                      /\ op'[a].kind = "setrole" /\ op'[a].at = "checking"
                         => users'[op'[a].who] = op'[a].role
    BY DEF RolesHold, Invited
  <2>1. CASE a = o
    BY <1>0, <1>1, <1>2, <2>1 DEF MembersShape
  <2>2. CASE a # o
    BY <1>0, <1>1, <1>2, <1>3, <1>4, <1>5, <1>6, <1>7, <2>2 DEF RolesHold, Invited
  <2> QED BY <2>1, <2>2
<1>12. NotYetIn'
  BY <1>0, <1>2, <1>5 DEF NotYetIn
<1>13. MembersHaveRows'
  BY <1>0, <1>5 DEF MembersHaveRows
<1>14. RowsAreBacked'
  BY <1>0, <1>2, <1>5, <1>6 DEF RowsAreBacked, EndsIt, Joining, Leaving
<1>15. RowRoles'
  BY <1>0, <1>2, <1>5 DEF RowRoles, Resets, Invited
<1>16. UsersKnown'
  BY <1>0 DEF UsersKnown, Known
<1>17. TokensKnown'
  BY <1>0, <1>2, <1>5 DEF TokensKnown, Known
<1>18. StillSo'
  BY <1>0, <1>2, <1>5 DEF StillSo
<1> QED BY <1>3, <1>8, <1>9, <1>10, <1>11, <1>12, <1>13, <1>14, <1>15, <1>16, <1>17, <1>18 DEF MembersInv

\* A role has another name, and the tokens are next.
LEMMA RenamingKeepsInv ==
  ASSUME MembersInv, NEW o \in Ops, op[o].at = "storing", RenamesRole(o), ~Finishes(o),
         UNCHANGED <<Held, half, torn, failures>>
  PROVE  MembersInv'
<1> DEFINE x == op[o]
           p == op[o].who
<1>0. /\ MembersShape /\ Locked /\ AddsAlone /\ GoneStayGone /\ RolesHold /\ NotYetIn
      /\ MembersHaveRows /\ RowsAreBacked /\ RowRoles /\ UsersKnown /\ TokensKnown /\ StillSo
  BY DEF MembersInv
<1>1. x.at = "storing" /\ x.kind = "rename" /\ ShapeOf(x) /\ (p = Nothing \/ p \in Persons)
  BY <1>0 DEF RenamesRole, Refuses, MembersShape, OpShape, ShapeOf, OpRecords
<1>2. /\ Acts(o) /\ op'[o].kind = x.kind /\ op'[o].at = "tokens" /\ op'[o].who = p
      /\ op'[o].role = x.role /\ op'[o].to = x.to
      /\ \A a \in Ops \ {o} : op'[a] = op[a]
  BY <1>1, MovesActs, MovesTo DEF RenamesRole, Refuses, Acts
<1>3. OpShape' /\ Locked' /\ lock' \in Ops \cup {Nothing} /\ op' \in [Ops -> OpRecords]
  BY <1>2, ActsKeeps
<1>4. \A a \in Ops \ {o} : op[a].kind = "add" => op[a].who # p /\ op[a].who \in Persons
  BY <1>1, NobodyInvitesThem
<1>5. /\ roles' = [roles EXCEPT ![x.to] = roles[x.role], ![x.role] = "no"]
      /\ users' = [q \in Persons |-> IF users[q] = x.role THEN x.to ELSE users[q]]
      /\ x.role \in Names /\ x.to \in Names /\ x.role # x.to /\ roles[x.role] # "no" /\ roles[x.to] = "no"
      /\ UNCHANGED <<rows, policyMembers, tokens, half, torn, failures>>
  BY <1>1, MembershipAssumption DEF RenamesRole, Refuses, Held, ShapeOf
<1>6. \A q \in Persons : Invited(q)' <=> Invited(q)
  BY <1>0, <1>5, MembershipAssumption DEF Invited, MembersShape
<1>7. \A a \in Ops \ {o} :
        /\ op[a].at \notin {"joining", "joined", "undoing", "tokens", "rows", "minting"}
        /\ op[a].kind \in {"accept", "decline", "setrole", "delete"} => op[a].at = "asked"
  BY <1>1, AloneUnderLock DEF UnderLock, Kinds
<1>8. \A n \in Names : roles'[n] = IF n = x.role THEN "no" ELSE IF n = x.to THEN roles[x.role] ELSE roles[n]
  BY <1>0, <1>5 DEF MembersShape
<1>9. /\ \A q \in Persons : users[q] \in Names \cup {Nothing}
      /\ \A l \in Labels : tokens[l] \in Names \cup {Nothing}
  BY <1>0 DEF MembersShape
<1>10. \A a \in Ops : Leaving(a) => op[a].who \in Persons
  BY <1>0, MembershipAssumption DEF Leaving, MembersShape, OpShape, ShapeOf, OpRecords
<1>11. MembersShape'
  BY <1>0, <1>3, <1>5 DEF MembersShape
<1>12. AddsAlone'
  BY <1>0, <1>1, <1>2, <1>4, <1>6 DEF AddsAlone
<1>13. GoneStayGone'
  <2>1. \A a \in Ops : Leaving(a)' => a # o /\ Leaving(a)
    BY <1>1, <1>2 DEF Leaving
  <2> QED BY <1>0, <1>2, <1>6, <1>10, <2>1 DEF GoneStayGone
<1>14. RolesHold'
  BY <1>1, <1>2, <1>7 DEF RolesHold
<1>15. NotYetIn'
  BY <1>0, <1>2, <1>5 DEF NotYetIn
<1>16. MembersHaveRows'
  BY <1>0, <1>5 DEF MembersHaveRows
<1>17. RowsAreBacked'
  BY <1>0, <1>2, <1>5, <1>6 DEF RowsAreBacked, EndsIt, Joining, Leaving
<1>18. RowRoles'
  BY <1>0, <1>2, <1>5, <1>6, <1>7 DEF RowRoles, Resets
<1>19. UsersKnown'
  <2> SUFFICES ASSUME NEW q \in Persons, users'[q] # Nothing PROVE roles'[users'[q]] # "no"
    BY DEF UsersKnown, Known
  <2>1. users[q] \in Names /\ roles[users[q]] # "no" /\ users'[q] = IF users[q] = x.role THEN x.to ELSE users[q]
    BY <1>0, <1>5, <1>9, MembershipAssumption DEF UsersKnown, Known
  <2> QED BY <1>5, <1>8, <2>1
<1>20. TokensKnown'
  <2> SUFFICES ASSUME ~torn, NEW l \in Labels, tokens[l] # Nothing, tokens[l] # x.role
               PROVE  roles'[tokens[l]] # "no"
    <3>1. \E a \in Ops : op'[a].at = "tokens" /\ op'[a].role = x.role
      BY <1>2
    <3>2. UNCHANGED <<tokens, torn>>
      BY <1>5
    <3>3. SUFFICES ASSUME ~torn, NEW l \in Labels PROVE Known(tokens[l])' \/ tokens[l] = x.role
      BY <3>1, <3>2 DEF TokensKnown, Known
    <3> QED BY <3>2, <3>3 DEF Known
  <2>1. tokens[l] \in Names /\ roles[tokens[l]] # "no"
    BY <1>0, <1>1, <1>7, <1>9 DEF TokensKnown, Known
  <2> QED BY <1>5, <1>8, <2>1
<1>21. StillSo'
  <2>1. roles'[x.to] # "no"
    BY <1>5, <1>8
  <2> QED BY <1>0, <1>1, <1>2, <1>5, <1>7, <2>1 DEF StillSo
<1> QED BY <1>3, <1>11, <1>12, <1>13, <1>14, <1>15, <1>16, <1>17, <1>18, <1>19, <1>20, <1>21 DEF MembersInv

\* A role is gone, that nobody and no token had.
LEMMA DroppingARoleKeepsInv ==
  ASSUME MembersInv, NEW o \in Ops, op[o].at = "storing", DropsRole(o), roles' # roles,
         UNCHANGED <<Held, half, torn, failures>>
  PROVE  MembersInv'
<1> DEFINE x == op[o]
           p == op[o].who
<1>0. /\ MembersShape /\ Locked /\ AddsAlone /\ GoneStayGone /\ RolesHold /\ NotYetIn
      /\ MembersHaveRows /\ RowsAreBacked /\ RowRoles /\ UsersKnown /\ TokensKnown /\ StillSo
  BY DEF MembersInv
<1>1. x.at = "storing" /\ x.kind = "delete" /\ ShapeOf(x) /\ (p = Nothing \/ p \in Persons)
  BY <1>0 DEF DropsRole, MembersShape, OpShape, ShapeOf, OpRecords
<1>2. /\ Acts(o) /\ op'[o].kind = "none" /\ op'[o].at = "over" /\ op'[o].who = Nothing
      /\ \A a \in Ops \ {o} : op'[a] = op[a]
  BY FinishesActs DEF DropsRole, Acts
<1>3. OpShape' /\ Locked' /\ lock' \in Ops \cup {Nothing} /\ op' \in [Ops -> OpRecords]
  BY <1>2, ActsKeeps
<1>4. \A a \in Ops \ {o} : op[a].kind = "add" => op[a].who # p /\ op[a].who \in Persons
  BY <1>1, NobodyInvitesThem
<1>5. /\ roles' = [roles EXCEPT ![x.role] = "no"] /\ x.role \in Names /\ \A q \in Persons : users[q] # x.role
  BY <1>1 DEF DropsRole, Config, ShapeOf
<1>6. UNCHANGED <<users, rows, policyMembers, tokens, half, torn, failures>>
  BY DEF DropsRole, Config, Held
<1>7. \A a \in Ops \ {o} :
        /\ op[a].at \notin {"joining", "joined", "undoing", "tokens", "rows", "minting"}
        /\ op[a].kind \in {"accept", "decline", "setrole", "delete"} => op[a].at = "asked"
  BY <1>1, AloneUnderLock DEF UnderLock, Kinds
<1>8. \A n \in Names : roles'[n] = IF n = x.role THEN "no" ELSE roles[n]
  BY <1>0, <1>5 DEF MembersShape
<1>9. /\ \A q \in Persons : users[q] \in Names \cup {Nothing}
      /\ \A l \in Labels : tokens[l] \in Names \cup {Nothing}
  BY <1>0 DEF MembersShape
<1>10. MembersShape'
  BY <1>0, <1>3, <1>5, <1>6 DEF MembersShape
<1>11. AddsAlone'
  BY <1>0, <1>2, <1>4, <1>6, <1>8, MembershipAssumption DEF AddsAlone, Invited
<1>12. GoneStayGone'
  BY <1>0, <1>2, <1>6 DEF GoneStayGone, Leaving, Invited
<1>13. RolesHold'
  BY <1>0, <1>2, <1>6 DEF RolesHold, Invited
<1>14. NotYetIn'
  BY <1>0, <1>2, <1>6 DEF NotYetIn
<1>15. MembersHaveRows'
  BY <1>0, <1>6 DEF MembersHaveRows
<1>16. RowsAreBacked'
  BY <1>0, <1>2, <1>6 DEF RowsAreBacked, EndsIt, Joining, Leaving, Invited
<1>17. RowRoles'
  BY <1>0, <1>2, <1>6 DEF RowRoles, Resets, Invited
<1>18. UsersKnown'
  BY <1>0, <1>5, <1>6 DEF UsersKnown, Known
<1>19. TokensKnown'
  <2> SUFFICES ASSUME ~torn, NEW l \in Labels, tokens[l] # Nothing PROVE roles'[tokens[l]] # "no"
    BY <1>6 DEF TokensKnown, Known
  <2>1. tokens[l] \in Names /\ roles[tokens[l]] # "no"
    BY <1>0, <1>1, <1>7, <1>9 DEF TokensKnown, Known
  <2>2. tokens[l] # x.role
    BY <1>0, <1>1 DEF StillSo
  <2> QED BY <1>8, <2>1, <2>2
<1>20. StillSo'
  BY <1>2, <1>7 DEF StillSo
<1> QED BY <1>3, <1>10, <1>11, <1>12, <1>13, <1>14, <1>15, <1>16, <1>17, <1>18, <1>19, <1>20 DEF MembersInv

\* A row for an accepted invitation.
LEMMA JoinsKeepsInv ==
  ASSUME MembersInv, NEW o \in Ops, Joins(o)
  PROVE  MembersInv'
<1> DEFINE x == op[o]
           p == op[o].who
<1>0. /\ MembersShape /\ Locked /\ AddsAlone /\ GoneStayGone /\ RolesHold /\ NotYetIn
      /\ MembersHaveRows /\ RowsAreBacked /\ RowRoles /\ UsersKnown /\ TokensKnown /\ StillSo
  BY DEF MembersInv
<1>1. x.at = "joining" /\ x.kind = "accept" /\ ShapeOf(x) /\ (p = Nothing \/ p \in Persons)
  BY <1>0 DEF Joins, MembersShape, OpShape, ShapeOf, OpRecords
<1>2. /\ Acts(o) /\ op'[o].kind = x.kind /\ op'[o].at = "joined" /\ op'[o].who = p
      /\ op'[o].role = x.role /\ op'[o].to = x.to
      /\ \A a \in Ops \ {o} : op'[a] = op[a]
  BY <1>1, MovesActs, MovesTo DEF Joins, Acts
<1>3. OpShape' /\ Locked' /\ lock' \in Ops \cup {Nothing} /\ op' \in [Ops -> OpRecords]
  BY <1>2, ActsKeeps
<1>4. \A a \in Ops \ {o} : op[a].kind = "add" => op[a].who # p /\ op[a].who \in Persons
  BY <1>1, NobodyInvitesThem
<1>5. /\ rows' = [rows EXCEPT ![p] = x.role] /\ p \in Persons /\ x.role \in Names
      /\ UNCHANGED <<roles, users, policyMembers, tokens, half, torn, failures>>
  BY <1>1, MembershipAssumption DEF Joins, Config, ShapeOf
<1>6. \A a \in Ops \ {o} :
        /\ op[a].at \notin {"joining", "joined", "undoing", "tokens", "rows", "minting"}
        /\ op[a].kind \in {"accept", "decline", "setrole", "delete"} => op[a].at = "asked"
  BY <1>1, AloneUnderLock DEF UnderLock, Kinds
<1>7. Invited(p) => users[p] = x.role
  BY <1>0, <1>1, <1>5, MembershipAssumption DEF RolesHold
<1>8. MembersShape'
  BY <1>0, <1>3, <1>5 DEF MembersShape
<1>9. AddsAlone'
  BY <1>0, <1>1, <1>2, <1>5 DEF AddsAlone, Invited
<1>10. GoneStayGone'
  BY <1>0, <1>2, <1>5 DEF GoneStayGone, Leaving, Invited
<1>11. RolesHold'
  <2> SUFFICES ASSUME NEW a \in Ops, op'[a].who # Nothing, users'[op'[a].who] # Nothing
               PROVE  /\ op'[a].kind = "accept" /\ op'[a].at # "asked"
                         => users'[op'[a].who] = op'[a].role
                      /\ op'[a].at = "joined" => rows'[op'[a].who] = op'[a].role
                      /\ op'[a].kind = "setrole" /\ op'[a].at = "checking"
                         => users'[op'[a].who] = op'[a].role
    BY DEF RolesHold, Invited
  <2>1. CASE a = o
    BY <1>0, <1>2, <1>5, <1>7, <2>1 DEF Invited, MembersShape
  <2>2. CASE a # o
    BY <1>0, <1>1, <1>2, <1>3, <1>4, <1>5, <1>6, <1>7, <2>2 DEF RolesHold, Invited
  <2> QED BY <2>1, <2>2
<1>12. NotYetIn'
  BY <1>0, <1>1, <1>2, <1>5 DEF NotYetIn
<1>13. MembersHaveRows'
  BY <1>0, <1>5, <1>7, MembershipAssumption DEF MembersHaveRows
<1>14. RowsAreBacked'
  BY <1>0, <1>2, <1>5 DEF RowsAreBacked, EndsIt, Joining, Leaving, Invited
<1>15. RowRoles'
  BY <1>0, <1>1, <1>2, <1>5, <1>6, <1>7 DEF RowRoles, Resets, Invited
<1>16. UsersKnown'
  BY <1>0, <1>5 DEF UsersKnown, Known
<1>17. TokensKnown'
  BY <1>0, <1>1, <1>2, <1>5 DEF TokensKnown, Known
<1>18. StillSo'
  BY <1>0, <1>2, <1>5 DEF StillSo
<1> QED BY <1>3, <1>8, <1>9, <1>10, <1>11, <1>12, <1>13, <1>14, <1>15, <1>16, <1>17, <1>18 DEF MembersInv

\* Still invited after it, they join the running policy.
LEMMA ComingInKeepsInv ==
  ASSUME MembersInv, NEW o \in Ops, Rechecks(o), Finishes(o), Invited(op[o].who),
         policyMembers' = policyMembers \cup {op[o].who}
  PROVE  MembersInv'
<1> DEFINE x == op[o]
           p == op[o].who
<1>0. /\ MembersShape /\ Locked /\ AddsAlone /\ GoneStayGone /\ RolesHold /\ NotYetIn
      /\ MembersHaveRows /\ RowsAreBacked /\ RowRoles /\ UsersKnown /\ TokensKnown /\ StillSo
  BY DEF MembersInv
<1>1. x.at = "joined" /\ x.kind = "accept" /\ ShapeOf(x) /\ (p = Nothing \/ p \in Persons)
  BY <1>0 DEF Rechecks, MembersShape, OpShape, ShapeOf, OpRecords
<1>2. /\ Acts(o) /\ op'[o].kind = "none" /\ op'[o].at = "over" /\ op'[o].who = Nothing
      /\ \A a \in Ops \ {o} : op'[a] = op[a]
  BY FinishesActs DEF Rechecks, Acts
<1>3. OpShape' /\ Locked' /\ lock' \in Ops \cup {Nothing} /\ op' \in [Ops -> OpRecords]
  BY <1>2, ActsKeeps
<1>4. \A a \in Ops \ {o} : op[a].kind = "add" => op[a].who # p /\ op[a].who \in Persons
  BY <1>1, NobodyInvitesThem
<1>5. /\ policyMembers' = policyMembers \cup {p} /\ p \in Persons /\ rows[p] = x.role /\ x.role \in Names
      /\ UNCHANGED <<roles, users, rows, tokens, half, torn, failures>>
  BY <1>0, <1>1, MembershipAssumption DEF Rechecks, Config, ShapeOf, RolesHold
<1>6. \A a \in Ops \ {o} :
        /\ op[a].at \notin {"joining", "joined", "undoing", "tokens", "rows", "minting"}
        /\ op[a].kind \in {"accept", "decline", "setrole", "delete"} => op[a].at = "asked"
  BY <1>1, AloneUnderLock DEF UnderLock, Kinds
<1>7. MembersShape'
  BY <1>0, <1>3, <1>5 DEF MembersShape
<1>8. AddsAlone'
  BY <1>0, <1>2, <1>4, <1>5, MembershipAssumption DEF AddsAlone, Invited
<1>9. GoneStayGone'
  BY <1>0, <1>2, <1>5 DEF GoneStayGone, Leaving, Invited
<1>10. RolesHold'
  BY <1>0, <1>2, <1>5 DEF RolesHold, Invited
<1>11. NotYetIn'
  BY <1>2, <1>6 DEF NotYetIn
<1>12. MembersHaveRows'
  BY <1>0, <1>5, MembershipAssumption DEF MembersHaveRows
<1>13. RowsAreBacked'
  BY <1>0, <1>2, <1>5 DEF RowsAreBacked, EndsIt, Joining, Leaving, Invited
<1>14. RowRoles'
  BY <1>0, <1>1, <1>2, <1>5 DEF RowRoles, Resets, Invited
<1>15. UsersKnown'
  BY <1>0, <1>5 DEF UsersKnown, Known
<1>16. TokensKnown'
  BY <1>0, <1>1, <1>2, <1>5 DEF TokensKnown, Known
<1>17. StillSo'
  BY <1>0, <1>2, <1>5 DEF StillSo
<1> QED BY <1>3, <1>7, <1>8, <1>9, <1>10, <1>11, <1>12, <1>13, <1>14, <1>15, <1>16, <1>17 DEF MembersInv

\* No longer invited: the row goes again.
LEMMA UndoesKeepsInv ==
  ASSUME MembersInv, NEW o \in Ops, Undoes(o)
  PROVE  MembersInv'
<1> DEFINE x == op[o]
           p == op[o].who
<1>0. /\ MembersShape /\ Locked /\ AddsAlone /\ GoneStayGone /\ RolesHold /\ NotYetIn
      /\ MembersHaveRows /\ RowsAreBacked /\ RowRoles /\ UsersKnown /\ TokensKnown /\ StillSo
  BY DEF MembersInv
<1>1. x.at = "undoing" /\ x.kind = "accept" /\ ShapeOf(x) /\ (p = Nothing \/ p \in Persons)
  BY <1>0 DEF Undoes, MembersShape, OpShape, ShapeOf, OpRecords
<1>2. /\ Acts(o) /\ op'[o].kind = "none" /\ op'[o].at = "over" /\ op'[o].who = Nothing
      /\ \A a \in Ops \ {o} : op'[a] = op[a]
  BY FinishesActs DEF Undoes, Acts
<1>3. OpShape' /\ Locked' /\ lock' \in Ops \cup {Nothing} /\ op' \in [Ops -> OpRecords]
  BY <1>2, ActsKeeps
<1>4. \A a \in Ops \ {o} : op[a].kind = "add" => op[a].who # p /\ op[a].who \in Persons
  BY <1>1, NobodyInvitesThem
<1>5. /\ rows' = [rows EXCEPT ![p] = Nothing] /\ p \in Persons
      /\ UNCHANGED <<roles, users, policyMembers, tokens, half, torn, failures>>
  BY <1>1, MembershipAssumption DEF Undoes, Config, ShapeOf
<1>6. \A a \in Ops \ {o} :
        /\ op[a].at \notin {"joining", "joined", "undoing", "tokens", "rows", "minting"}
        /\ op[a].kind \in {"accept", "decline", "setrole", "delete"} => op[a].at = "asked"
  BY <1>1, AloneUnderLock DEF UnderLock, Kinds
<1>7. ~Invited(p) /\ p \notin policyMembers
  BY <1>0, <1>1 DEF GoneStayGone, Leaving, NotYetIn
<1>8. MembersShape'
  BY <1>0, <1>3, <1>5 DEF MembersShape
<1>9. AddsAlone'
  BY <1>0, <1>2, <1>4, <1>5, MembershipAssumption DEF AddsAlone, Invited
<1>10. GoneStayGone'
  BY <1>0, <1>2, <1>5 DEF GoneStayGone, Leaving, Invited
<1>11. RolesHold'
  BY <1>2, <1>6 DEF RolesHold
<1>12. NotYetIn'
  BY <1>0, <1>2, <1>5 DEF NotYetIn
<1>13. MembersHaveRows'
  BY <1>0, <1>5, <1>7 DEF MembersHaveRows
<1>14. RowsAreBacked'
  <2> SUFFICES ASSUME NEW q \in Persons \ half', rows'[q] # Nothing
               PROVE  (users'[q] # Nothing \/ EndsIt(q)') /\ (q \in policyMembers' \/ Joining(q)')
    BY DEF RowsAreBacked, Invited
  <2>1. q \in Persons \ {p} /\ rows[q] # Nothing /\ q \notin half
    BY <1>0, <1>5, <1>5 DEF MembersShape
  <2>2. (Invited(q) \/ EndsIt(q)) /\ (q \in policyMembers \/ Joining(q))
    BY <1>0, <2>1 DEF RowsAreBacked
  <2>3. /\ EndsIt(q) => EndsIt(q)'
        /\ Joining(q) => Joining(q)'
    BY <1>1, <1>2, <2>1 DEF EndsIt, Joining, Leaving
  <2>4. q \in policyMembers => q \in policyMembers'
    BY <1>5, <2>1
  <2>5. users' = users
    BY <1>5
  <2> QED BY <2>2, <2>3, <2>4, <2>5 DEF Invited
<1>15. RowRoles'
  BY <1>0, <1>1, <1>2, <1>5 DEF RowRoles, Resets, Invited
<1>16. UsersKnown'
  BY <1>0, <1>5 DEF UsersKnown, Known
<1>17. TokensKnown'
  BY <1>0, <1>1, <1>2, <1>5 DEF TokensKnown, Known
<1>18. StillSo'
  BY <1>0, <1>2, <1>5 DEF StillSo
<1> QED BY <1>3, <1>8, <1>9, <1>10, <1>11, <1>12, <1>13, <1>14, <1>15, <1>16, <1>17, <1>18 DEF MembersInv

\* Nobody to end or to reset: the action is over.
LEMMA NoRowKeepsInv ==
  ASSUME MembersInv, NEW o \in Ops, Checks(o), rows[op[o].who] = Nothing, Finishes(o)
  PROVE  MembersInv'
<1> DEFINE x == op[o]
           p == op[o].who
<1>0. /\ MembersShape /\ Locked /\ AddsAlone /\ GoneStayGone /\ RolesHold /\ NotYetIn
      /\ MembersHaveRows /\ RowsAreBacked /\ RowRoles /\ UsersKnown /\ TokensKnown /\ StillSo
  BY DEF MembersInv
<1>1. x.at = "checking" /\ x.kind \in {"remove", "decline", "setrole"} /\ ShapeOf(x) /\ (p = Nothing \/ p \in Persons)
  BY <1>0 DEF Checks, MembersShape, OpShape, ShapeOf, OpRecords
<1>2. /\ Acts(o) /\ op'[o].kind = "none" /\ op'[o].at = "over" /\ op'[o].who = Nothing
      /\ \A a \in Ops \ {o} : op'[a] = op[a]
  BY FinishesActs DEF Checks, Acts
<1>3. OpShape' /\ Locked' /\ lock' \in Ops \cup {Nothing} /\ op' \in [Ops -> OpRecords]
  BY <1>2, ActsKeeps
<1>4. \A a \in Ops \ {o} : op[a].kind = "add" => op[a].who # p /\ op[a].who \in Persons
  BY <1>1, NobodyInvitesThem
<1>5. p \in Persons /\ rows[p] = Nothing
      /\ UNCHANGED <<roles, users, rows, policyMembers, tokens, half, torn, failures>>
  BY <1>1, MembershipAssumption DEF Checks, Config, ShapeOf
<1>6. MembersShape'
  BY <1>0, <1>3, <1>5 DEF MembersShape
<1>7. AddsAlone'
  BY <1>0, <1>2, <1>4, <1>5, MembershipAssumption DEF AddsAlone, Invited
<1>8. GoneStayGone'
  BY <1>0, <1>2, <1>5 DEF GoneStayGone, Leaving, Invited
<1>9. RolesHold'
  BY <1>0, <1>2, <1>5 DEF RolesHold, Invited
<1>10. NotYetIn'
  BY <1>0, <1>2, <1>5 DEF NotYetIn
<1>11. MembersHaveRows'
  BY <1>0, <1>5 DEF MembersHaveRows
<1>12. RowsAreBacked'
  BY <1>0, <1>2, <1>5 DEF RowsAreBacked, EndsIt, Joining, Leaving, Invited
<1>13. RowRoles'
  BY <1>0, <1>1, <1>2, <1>5 DEF RowRoles, Resets, Invited
<1>14. UsersKnown'
  BY <1>0, <1>5 DEF UsersKnown, Known
<1>15. TokensKnown'
  BY <1>0, <1>1, <1>2, <1>5 DEF TokensKnown, Known
<1>16. StillSo'
  BY <1>0, <1>2, <1>5 DEF StillSo
<1> QED BY <1>3, <1>6, <1>7, <1>8, <1>9, <1>10, <1>11, <1>12, <1>13, <1>14, <1>15, <1>16 DEF MembersInv

\* The row gets the new role.
LEMMA RowResetKeepsInv ==
  ASSUME MembersInv, NEW o \in Ops, Checks(o), rows[op[o].who] # Nothing, op[o].kind = "setrole"
  PROVE  MembersInv'
<1> DEFINE x == op[o]
           p == op[o].who
<1>0. /\ MembersShape /\ Locked /\ AddsAlone /\ GoneStayGone /\ RolesHold /\ NotYetIn
      /\ MembersHaveRows /\ RowsAreBacked /\ RowRoles /\ UsersKnown /\ TokensKnown /\ StillSo
  BY DEF MembersInv
<1>1. x.at = "checking" /\ x.kind = "setrole" /\ ShapeOf(x) /\ (p = Nothing \/ p \in Persons)
  BY <1>0 DEF Checks, MembersShape, OpShape, ShapeOf, OpRecords
<1>2. /\ Acts(o) /\ op'[o].kind = "none" /\ op'[o].at = "over" /\ op'[o].who = Nothing
      /\ \A a \in Ops \ {o} : op'[a] = op[a]
  BY FinishesActs DEF Checks, Acts
<1>3. OpShape' /\ Locked' /\ lock' \in Ops \cup {Nothing} /\ op' \in [Ops -> OpRecords]
  BY <1>2, ActsKeeps
<1>4. \A a \in Ops \ {o} : op[a].kind = "add" => op[a].who # p /\ op[a].who \in Persons
  BY <1>1, NobodyInvitesThem
<1>5. /\ rows' = [rows EXCEPT ![p] = x.role] /\ p \in Persons /\ x.role \in Names /\ rows[p] # Nothing
      /\ UNCHANGED <<roles, users, policyMembers, tokens, half, torn, failures>>
  BY <1>1, MembershipAssumption DEF Checks, Config, ShapeOf
<1>6. \A a \in Ops \ {o} :
        /\ op[a].at \notin {"joining", "joined", "undoing", "tokens", "rows", "minting"}
        /\ op[a].kind \in {"accept", "decline", "setrole", "delete"} => op[a].at = "asked"
  BY <1>1, AloneUnderLock DEF UnderLock, Kinds
<1>7. Invited(p) => users[p] = x.role
  BY <1>0, <1>1, <1>5, MembershipAssumption DEF RolesHold
<1>8. \A q \in Persons \ {p} : Resets(q) => Resets(q)'
  BY <1>1, <1>2 DEF Resets
<1>9. MembersShape'
  BY <1>0, <1>3, <1>5 DEF MembersShape
<1>10. AddsAlone'
  BY <1>0, <1>2, <1>4, <1>5, <1>7, MembershipAssumption DEF AddsAlone, Invited
<1>11. GoneStayGone'
  BY <1>0, <1>2, <1>5 DEF GoneStayGone, Leaving, Invited
<1>12. RolesHold'
  BY <1>2, <1>6 DEF RolesHold
<1>13. NotYetIn'
  BY <1>0, <1>2, <1>5 DEF NotYetIn
<1>14. MembersHaveRows'
  BY <1>0, <1>5, <1>7, MembershipAssumption DEF MembersHaveRows
<1>15. RowsAreBacked'
  BY <1>0, <1>1, <1>2, <1>5 DEF RowsAreBacked, EndsIt, Joining, Leaving, Invited
<1>16. RowRoles'
  <2>1. \A a \in Ops : op'[a].at \notin {"tokens", "rows"} /\ op[a].at \notin {"tokens", "rows"}
    BY <1>1, <1>2, <1>6
  <2> SUFFICES ASSUME NEW q \in Persons \ half, rows'[q] # Nothing, Invited(q), ~torn, ~Resets(q)'
               PROVE  users[q] = rows'[q]
    BY <1>5, <2>1 DEF RowRoles, Invited
  <2>2. CASE q = p
    BY <1>0, <1>5, <1>7, <2>2 DEF MembersShape
  <2>3. CASE q # p
    BY <1>0, <1>5, <1>8, <2>1, <2>3 DEF RowRoles, MembersShape
  <2> QED BY <2>2, <2>3
<1>17. UsersKnown'
  BY <1>0, <1>5 DEF UsersKnown, Known
<1>18. TokensKnown'
  BY <1>0, <1>1, <1>2, <1>5 DEF TokensKnown, Known
<1>19. StillSo'
  BY <1>0, <1>2, <1>5 DEF StillSo
<1> QED BY <1>3, <1>9, <1>10, <1>11, <1>12, <1>13, <1>14, <1>15, <1>16, <1>17, <1>18, <1>19 DEF MembersInv

\* _end_membership: the row goes, and the place in the policy.
LEMMA RemovedKeepsInv ==
  ASSUME MembersInv, NEW o \in Ops, Removed(o)
  PROVE  MembersInv'
<1> DEFINE x == op[o]
           p == op[o].who
<1>0. /\ MembersShape /\ Locked /\ AddsAlone /\ GoneStayGone /\ RolesHold /\ NotYetIn
      /\ MembersHaveRows /\ RowsAreBacked /\ RowRoles /\ UsersKnown /\ TokensKnown /\ StillSo
  BY DEF MembersInv
<1>1. x.at = "closing" /\ x.kind \in {"remove", "decline"} /\ ShapeOf(x) /\ (p = Nothing \/ p \in Persons)
  BY <1>0 DEF Removed, MembersShape, OpShape, ShapeOf, OpRecords
<1>2. /\ Acts(o) /\ op'[o].kind = "none" /\ op'[o].at = "over" /\ op'[o].who = Nothing
      /\ \A a \in Ops \ {o} : op'[a] = op[a]
  BY FinishesActs DEF Removed, Acts
<1>3. OpShape' /\ Locked' /\ lock' \in Ops \cup {Nothing} /\ op' \in [Ops -> OpRecords]
  BY <1>2, ActsKeeps
<1>4. \A a \in Ops \ {o} : op[a].kind = "add" => op[a].who # p /\ op[a].who \in Persons
  BY <1>1, NobodyInvitesThem
<1>5. /\ rows' = [rows EXCEPT ![p] = Nothing] /\ policyMembers' = policyMembers \ {p} /\ half' = half \ {p}
      /\ p \in Persons
      /\ UNCHANGED <<roles, users, tokens, torn, failures>>
  BY <1>1, MembershipAssumption DEF Removed, Config, ShapeOf
<1>6. ~Invited(p)
  BY <1>0, <1>1 DEF GoneStayGone, Leaving
<1>7. MembersShape'
  BY <1>0, <1>3, <1>5 DEF MembersShape
<1>8. AddsAlone'
  BY <1>0, <1>2, <1>4, <1>5, MembershipAssumption DEF AddsAlone, Invited
<1>9. GoneStayGone'
  BY <1>0, <1>2, <1>5 DEF GoneStayGone, Leaving, Invited
<1>10. RolesHold'
  BY <1>0, <1>2, <1>5, <1>6 DEF RolesHold, Invited
<1>11. NotYetIn'
  BY <1>0, <1>2, <1>5 DEF NotYetIn
<1>12. MembersHaveRows'
  BY <1>0, <1>5 DEF MembersHaveRows
<1>13. RowsAreBacked'
  <2> SUFFICES ASSUME NEW q \in Persons \ half', rows'[q] # Nothing
               PROVE  (users'[q] # Nothing \/ EndsIt(q)') /\ (q \in policyMembers' \/ Joining(q)')
    BY DEF RowsAreBacked, Invited
  <2>1. q \in Persons \ {p} /\ rows[q] # Nothing /\ q \notin half
    BY <1>0, <1>5, <1>5 DEF MembersShape
  <2>2. (Invited(q) \/ EndsIt(q)) /\ (q \in policyMembers \/ Joining(q))
    BY <1>0, <2>1 DEF RowsAreBacked
  <2>3. /\ EndsIt(q) => EndsIt(q)'
        /\ Joining(q) => Joining(q)'
    BY <1>1, <1>2, <2>1 DEF EndsIt, Joining, Leaving
  <2>4. q \in policyMembers => q \in policyMembers'
    BY <1>5, <2>1
  <2>5. users' = users
    BY <1>5
  <2> QED BY <2>2, <2>3, <2>4, <2>5 DEF Invited
<1>14. RowRoles'
  BY <1>0, <1>1, <1>2, <1>5, <1>6 DEF RowRoles, Resets, Invited
<1>15. UsersKnown'
  BY <1>0, <1>5 DEF UsersKnown, Known
<1>16. TokensKnown'
  BY <1>0, <1>1, <1>2, <1>5 DEF TokensKnown, Known
<1>17. StillSo'
  BY <1>0, <1>2, <1>5 DEF StillSo
<1> QED BY <1>3, <1>7, <1>8, <1>9, <1>10, <1>11, <1>12, <1>13, <1>14, <1>15, <1>16, <1>17 DEF MembersInv

\* A rename comes to the tokens ...
LEMMA MovesTokensKeepsInv ==
  ASSUME MembersInv, NEW o \in Ops, MovesTokens(o)
  PROVE  MembersInv'
<1> DEFINE x == op[o]
           p == op[o].who
<1>0. /\ MembersShape /\ Locked /\ AddsAlone /\ GoneStayGone /\ RolesHold /\ NotYetIn
      /\ MembersHaveRows /\ RowsAreBacked /\ RowRoles /\ UsersKnown /\ TokensKnown /\ StillSo
  BY DEF MembersInv
<1>1. x.at = "tokens" /\ x.kind = "rename" /\ ShapeOf(x) /\ (p = Nothing \/ p \in Persons)
  BY <1>0 DEF MovesTokens, MembersShape, OpShape, ShapeOf, OpRecords
<1>2. /\ Acts(o) /\ op'[o].kind = x.kind /\ op'[o].at = "rows" /\ op'[o].who = p
      /\ op'[o].role = x.role /\ op'[o].to = x.to
      /\ \A a \in Ops \ {o} : op'[a] = op[a]
  BY <1>1, MovesActs, MovesTo DEF MovesTokens, Acts
<1>3. OpShape' /\ Locked' /\ lock' \in Ops \cup {Nothing} /\ op' \in [Ops -> OpRecords]
  BY <1>2, ActsKeeps
<1>5. /\ tokens' \in [Labels -> Names \cup {Nothing}] /\ x.role \in Names /\ x.to \in Names
      /\ \A l \in Labels : tokens'[l] = IF tokens[l] = x.role THEN x.to ELSE tokens[l]
      /\ UNCHANGED <<roles, users, rows, policyMembers, half, torn, failures>>
  BY <1>0, <1>1 DEF MovesTokens, Renamed, Config, ShapeOf, MembersShape
<1>6. \A a \in Ops \ {o} :
        /\ op[a].at \notin {"joining", "joined", "undoing", "tokens", "rows", "minting"}
        /\ op[a].kind \in {"accept", "decline", "setrole", "delete"} => op[a].at = "asked"
  BY <1>1, AloneUnderLock DEF UnderLock, Kinds
<1>7. roles[x.to] # "no" /\ \A a \in Ops : op[a].at = "tokens" => a = o
  BY <1>0, <1>1, <1>6 DEF StillSo
<1>8. MembersShape'
  BY <1>0, <1>3, <1>5 DEF MembersShape
<1>9. AddsAlone'
  BY <1>0, <1>1, <1>2, <1>5 DEF AddsAlone, Invited
<1>10. GoneStayGone'
  BY <1>0, <1>2, <1>5 DEF GoneStayGone, Leaving, Invited
<1>11. RolesHold'
  BY <1>0, <1>1, <1>2, <1>5 DEF RolesHold, Invited
<1>12. NotYetIn'
  BY <1>0, <1>2, <1>5 DEF NotYetIn
<1>13. MembersHaveRows'
  BY <1>0, <1>5 DEF MembersHaveRows
<1>14. RowsAreBacked'
  BY <1>0, <1>1, <1>2, <1>5 DEF RowsAreBacked, EndsIt, Joining, Leaving, Invited
<1>15. RowRoles'
  BY <1>0, <1>1, <1>2, <1>5 DEF RowRoles, Resets, Invited
<1>16. UsersKnown'
  BY <1>0, <1>5 DEF UsersKnown, Known
<1>17. TokensKnown'
  BY <1>0, <1>5, <1>7 DEF TokensKnown, Known
<1>18. StillSo'
  BY <1>0, <1>1, <1>2, <1>5, <1>6 DEF StillSo
<1> QED BY <1>3, <1>8, <1>9, <1>10, <1>11, <1>12, <1>13, <1>14, <1>15, <1>16, <1>17, <1>18 DEF MembersInv

\* ... and to the rows.
LEMMA MovesRowsKeepsInv ==
  ASSUME MembersInv, NEW o \in Ops, MovesRows(o)
  PROVE  MembersInv'
<1> DEFINE x == op[o]
           p == op[o].who
<1>0. /\ MembersShape /\ Locked /\ AddsAlone /\ GoneStayGone /\ RolesHold /\ NotYetIn
      /\ MembersHaveRows /\ RowsAreBacked /\ RowRoles /\ UsersKnown /\ TokensKnown /\ StillSo
  BY DEF MembersInv
<1>1. x.at = "rows" /\ x.kind = "rename" /\ ShapeOf(x) /\ (p = Nothing \/ p \in Persons)
  BY <1>0 DEF MovesRows, MembersShape, OpShape, ShapeOf, OpRecords
<1>2. /\ Acts(o) /\ op'[o].kind = "none" /\ op'[o].at = "over" /\ op'[o].who = Nothing
      /\ \A a \in Ops \ {o} : op'[a] = op[a]
  BY FinishesActs DEF MovesRows, Acts
<1>3. OpShape' /\ Locked' /\ lock' \in Ops \cup {Nothing} /\ op' \in [Ops -> OpRecords]
  BY <1>2, ActsKeeps
<1>4. \A a \in Ops \ {o} : op[a].kind = "add" => op[a].who # p /\ op[a].who \in Persons
  BY <1>1, NobodyInvitesThem
<1>5. /\ rows' \in [Persons -> Names \cup {Nothing}] /\ x.role \in Names /\ x.to \in Names
      /\ \A q \in Persons : rows'[q] = IF rows[q] = x.role THEN x.to ELSE rows[q]
      /\ UNCHANGED <<roles, users, policyMembers, tokens, half, torn, failures>>
  BY <1>0, <1>1 DEF MovesRows, Renamed, Config, ShapeOf, MembersShape
<1>6. \A a \in Ops \ {o} :
        /\ op[a].at \notin {"joining", "joined", "undoing", "tokens", "rows", "minting"}
        /\ op[a].kind \in {"accept", "decline", "setrole", "delete"} => op[a].at = "asked"
  BY <1>1, AloneUnderLock DEF UnderLock, Kinds
<1>7. policyMembers \subseteq Persons
  BY <1>0 DEF MembersShape
<1>8. MembersShape'
  BY <1>0, <1>3, <1>5 DEF MembersShape
<1>9. AddsAlone'
  BY <1>0, <1>2, <1>4, <1>5, <1>7, MembershipAssumption DEF AddsAlone, Invited
<1>10. GoneStayGone'
  BY <1>0, <1>2, <1>5 DEF GoneStayGone, Leaving, Invited
<1>11. RolesHold'
  BY <1>2, <1>6 DEF RolesHold
<1>12. NotYetIn'
  BY <1>0, <1>2, <1>5 DEF NotYetIn
<1>13. MembersHaveRows'
  BY <1>0, <1>5, <1>7, MembershipAssumption DEF MembersHaveRows
<1>14. RowsAreBacked'
  BY <1>0, <1>1, <1>2, <1>5, <1>7, MembershipAssumption DEF RowsAreBacked, EndsIt, Joining, Leaving, Invited
<1>15. RowRoles'
  BY <1>0, <1>1, <1>2, <1>5, <1>7, MembershipAssumption DEF RowRoles, Resets, Invited
<1>16. UsersKnown'
  BY <1>0, <1>5 DEF UsersKnown, Known
<1>17. TokensKnown'
  BY <1>0, <1>1, <1>2, <1>5 DEF TokensKnown, Known
<1>18. StillSo'
  BY <1>0, <1>2, <1>5 DEF StillSo
<1> QED BY <1>3, <1>8, <1>9, <1>10, <1>11, <1>12, <1>13, <1>14, <1>15, <1>16, <1>17, <1>18 DEF MembersInv

\* A token for a role.
LEMMA MintsKeepsInv ==
  ASSUME MembersInv, NEW o \in Ops, Mints(o)
  PROVE  MembersInv'
<1> DEFINE x == op[o]
           p == op[o].who
<1>0. /\ MembersShape /\ Locked /\ AddsAlone /\ GoneStayGone /\ RolesHold /\ NotYetIn
      /\ MembersHaveRows /\ RowsAreBacked /\ RowRoles /\ UsersKnown /\ TokensKnown /\ StillSo
  BY DEF MembersInv
<1>1. x.at = "minting" /\ x.kind = "mint" /\ ShapeOf(x) /\ (p = Nothing \/ p \in Persons)
  BY <1>0 DEF Mints, MembersShape, OpShape, ShapeOf, OpRecords
<1>2. /\ Acts(o) /\ op'[o].kind = "none" /\ op'[o].at = "over" /\ op'[o].who = Nothing
      /\ \A a \in Ops \ {o} : op'[a] = op[a]
  BY FinishesActs DEF Mints, Acts
<1>3. OpShape' /\ Locked' /\ lock' \in Ops \cup {Nothing} /\ op' \in [Ops -> OpRecords]
  BY <1>2, ActsKeeps
<1>4. \A a \in Ops \ {o} : op[a].kind = "add" => op[a].who # p /\ op[a].who \in Persons
  BY <1>1, NobodyInvitesThem
<1>5. /\ tokens' \in [Labels -> Names \cup {Nothing}] /\ x.role \in Names /\ roles[x.role] # "no"
      /\ \A l \in Labels : tokens'[l] \in {tokens[l], x.role}
      /\ UNCHANGED <<roles, users, rows, policyMembers, half, torn, failures>>
  BY <1>0, <1>1 DEF Mints, Config, ShapeOf, MembersShape, StillSo
<1>6. \A a \in Ops \ {o} :
        /\ op[a].at \notin {"joining", "joined", "undoing", "tokens", "rows", "minting"}
        /\ op[a].kind \in {"accept", "decline", "setrole", "delete"} => op[a].at = "asked"
  BY <1>1, AloneUnderLock DEF UnderLock, Kinds
<1>7. MembersShape'
  BY <1>0, <1>3, <1>5 DEF MembersShape
<1>8. AddsAlone'
  BY <1>0, <1>2, <1>4, <1>5, MembershipAssumption DEF AddsAlone, Invited
<1>9. GoneStayGone'
  BY <1>0, <1>2, <1>5 DEF GoneStayGone, Leaving, Invited
<1>10. RolesHold'
  BY <1>0, <1>2, <1>5 DEF RolesHold, Invited
<1>11. NotYetIn'
  BY <1>0, <1>2, <1>5 DEF NotYetIn
<1>12. MembersHaveRows'
  BY <1>0, <1>5 DEF MembersHaveRows
<1>13. RowsAreBacked'
  BY <1>0, <1>1, <1>2, <1>5 DEF RowsAreBacked, EndsIt, Joining, Leaving, Invited
<1>14. RowRoles'
  BY <1>0, <1>1, <1>2, <1>5 DEF RowRoles, Resets, Invited
<1>15. UsersKnown'
  BY <1>0, <1>5 DEF UsersKnown, Known
<1>16. TokensKnown'
  BY <1>0, <1>2, <1>5 DEF TokensKnown, Known
<1>17. StillSo'
  BY <1>2, <1>6 DEF StillSo
<1> QED BY <1>3, <1>7, <1>8, <1>9, <1>10, <1>11, <1>12, <1>13, <1>14, <1>15, <1>16, <1>17 DEF MembersInv

\* Whom an action is to remove is gone already.
LEMMA GoneBeforeKeepsInv ==
  ASSUME MembersInv, NEW o \in Ops, op[o].at = "storing", op[o].kind = "remove",
         ~Invited(op[o].who), Moves(o, "checking"),
         UNCHANGED <<Config, Held, lock, half, torn, failures>>
  PROVE  MembersInv'
<1>1. Acts(o)
  BY MovesActs
<1>2. /\ op'[o].at = "checking" /\ op'[o].kind = "remove" /\ op'[o].who = op[o].who
  BY MovesTo
<1>3. ~Leaving(o) /\ Leaving(o)' /\ failures' \in Nat
  BY <1>2 DEF Leaving, MembersInv, MembersShape
<1>4. Quiet(o)
  BY <1>1, <1>2, <1>3, NobodyInvitesThem DEF Quiet
<1> QED BY <1>4, QuietKeepsInv

\* Whatever an action writes to the config.
LEMMA StoresKeepsInv ==
  ASSUME MembersInv, NEW o \in Ops, Stores(o)
  PROVE  MembersInv'
<1> DEFINE p == op[o].who
<1>0. op[o].at = "storing" /\ UNCHANGED <<Held, half, torn, failures>>
  BY DEF Stores
<1>1. CASE Finishes(o) /\ UNCHANGED Config
  BY <1>0, <1>1, FinishIsQuiet
<1>2. CASE StoresUser(o)
  BY <1>0, <1>1, <1>2, AddingKeepsInv DEF StoresUser
<1>3. CASE DropsUser(o)
  <2>1. CASE Invited(p) /\ users' = [users EXCEPT ![p] = Nothing] /\ UNCHANGED <<roles, lock>> /\ Moves(o, "checking")
    BY <1>0, <1>3, <2>1, DroppingKeepsInv DEF DropsUser
  <2>2. CASE ~Invited(p) /\ op[o].kind = "remove" /\ Moves(o, "checking") /\ UNCHANGED <<Config, lock>>
    BY <1>0, <2>2, GoneBeforeKeepsInv
  <2> QED BY <1>1, <1>3, <2>1, <2>2 DEF DropsUser, Refuses
<1>4. CASE StoresRole(o)
  BY <1>0, <1>1, <1>4, ResettingKeepsInv DEF StoresRole, Refuses
<1>5. CASE RenamesRole(o)
  <2>1. CASE Finishes(o)
    <3>1. op'[o].at = "over"
      BY <2>1, FinishesActs
    <3>2. ~Moves(o, "tokens")
      BY <3>1, MovesTo
    <3> QED BY <1>1, <1>5, <3>2 DEF RenamesRole, Refuses
  <2> QED BY <1>0, <1>5, <2>1, RenamingKeepsInv
<1>6. CASE DropsRole(o)
  <2>1. CASE roles' # roles
    BY <1>0, <1>6, <2>1, DroppingARoleKeepsInv
  <2>2. CASE roles' = roles
    BY <1>1, <1>6, <2>2 DEF DropsRole, Config
  <2> QED BY <2>1, <2>2
<1> QED BY <1>2, <1>3, <1>4, <1>5, <1>6 DEF Stores

\* What accept_invitation does after the row.
LEMMA RechecksKeepsInv ==
  ASSUME MembersInv, NEW o \in Ops, Rechecks(o)
  PROVE  MembersInv'
<1>1. CASE StillInvited(o) /\ policyMembers' = policyMembers \cup {op[o].who} /\ Finishes(o)
  BY <1>1, ComingInKeepsInv DEF StillInvited
<1>2. CASE ~StillInvited(o) /\ Moves(o, "undoing") /\ UNCHANGED <<policyMembers, lock>>
  <2>1. op[o].at = "joined" /\ op[o].kind = "accept" /\ UNCHANGED <<Config, Held, half, torn, failures>>
        /\ failures \in Nat
    BY <1>2 DEF Rechecks, Held, MembersInv, MembersShape, OpShape, ShapeOf
  <2>2. Acts(o)
    BY <1>2, <2>1, MovesActs
  <2>3. op'[o].at = "undoing" /\ op'[o].kind = "accept" /\ op'[o].who = op[o].who
    BY <1>2, <2>1, MovesTo
  <2>4. Leaving(o)' /\ op[o].who \notin policyMembers
    BY <2>1, <2>3 DEF Leaving, MembersInv, NotYetIn
  <2>5. Quiet(o)
    BY <1>2, <2>1, <2>2, <2>3, <2>4, NobodyInvitesThem DEF Quiet, StillInvited
  <2> QED BY <2>5, QuietKeepsInv
<1> QED BY <1>1, <1>2 DEF Rechecks

\* What comes after the config was written.
LEMMA ChecksKeepsInv ==
  ASSUME MembersInv, NEW o \in Ops, Checks(o)
  PROVE  MembersInv'
<1>1. CASE rows[op[o].who] = Nothing
  BY <1>1, NoRowKeepsInv DEF Checks
<1>2. CASE rows[op[o].who] # Nothing /\ op[o].kind = "setrole"
  BY <1>2, RowResetKeepsInv
<1>3. CASE rows[op[o].who] # Nothing /\ op[o].kind # "setrole"
  <2>1. /\ op[o].at = "checking" /\ op[o].kind \in {"remove", "decline"} /\ Moves(o, "closing")
        /\ UNCHANGED <<Config, Held, lock, half, torn, failures>> /\ failures \in Nat
    BY <1>3 DEF Checks, Held, MembersInv, MembersShape, OpShape, ShapeOf
  <2>2. Acts(o)
    BY <2>1, MovesActs
  <2>3. op'[o].at = "closing" /\ op'[o].kind = op[o].kind /\ op'[o].who = op[o].who
    BY <2>1, MovesTo
  <2>4. Leaving(o) /\ Leaving(o)' /\ ~Invited(op[o].who)
    BY <2>1, <2>3 DEF Leaving, MembersInv, GoneStayGone
  <2>5. Quiet(o)
    BY <2>1, <2>2, <2>3, <2>4, NobodyInvitesThem DEF Quiet
  <2> QED BY <2>5, QuietKeepsInv
<1> QED BY <1>1, <1>2, <1>3

\* A failure lets go of everything but what it leaves half done.
LEMMA FailsKeepsInv ==
  ASSUME MembersInv, NEW o \in Ops, Fails(o)
  PROVE  MembersInv'
<1> DEFINE x == op[o]
           p == op[o].who
<1>0. /\ MembersShape /\ Locked /\ AddsAlone /\ GoneStayGone /\ RolesHold /\ NotYetIn
      /\ MembersHaveRows /\ RowsAreBacked /\ RowRoles /\ UsersKnown /\ TokensKnown /\ StillSo
  BY DEF MembersInv
<1>1. x.at \notin {"unborn", "asked", "over"} /\ ShapeOf(x) /\ (p = Nothing \/ p \in Persons)
  BY <1>0 DEF Fails, MembersShape, OpShape, OpRecords
<1>2. /\ Acts(o) /\ op'[o].kind = "none" /\ op'[o].at = "over" /\ op'[o].who = Nothing
      /\ \A a \in Ops \ {o} : op'[a] = op[a]
  BY FinishesActs DEF Fails, Acts
<1>3. OpShape' /\ Locked' /\ lock' \in Ops \cup {Nothing} /\ op' \in [Ops -> OpRecords]
  BY <1>2, ActsKeeps
<1>4. \A a \in Ops \ {o} : op[a].kind = "add" => op[a].who # p /\ op[a].who \in Persons
  BY <1>1, NobodyInvitesThem
<1>5. UNCHANGED <<roles, users, rows, policyMembers, tokens>> /\ failures' = failures + 1
  BY DEF Fails, Config, Held
<1>6. /\ half' = IF x.at \in {"joined", "undoing", "checking", "closing"} THEN half \cup {p} ELSE half
      /\ torn' = (torn \/ x.at \in {"tokens", "rows"})
  BY DEF Fails
<1>7. MembersShape'
  <2>1. half' \subseteq Persons
    BY <1>0, <1>1, <1>6 DEF MembersShape, ShapeOf
  <2>2. torn' \in BOOLEAN
    BY <1>6
  <2> QED BY <1>0, <1>3, <1>5, <2>1, <2>2 DEF MembersShape
<1>8. AddsAlone'
  <2>1. \A a \in Ops : op'[a].kind = "add" => a # o /\ op'[a].who \notin half'
    BY <1>0, <1>2, <1>4, <1>6 DEF AddsAlone
  <2> QED BY <1>0, <1>2, <1>4, <1>5, <2>1, MembershipAssumption DEF AddsAlone, Invited
<1>9. GoneStayGone'
  BY <1>0, <1>2, <1>5 DEF GoneStayGone, Leaving, Invited
<1>10. RolesHold' /\ NotYetIn' /\ MembersHaveRows'
  BY <1>0, <1>2, <1>5, MembershipAssumption DEF RolesHold, NotYetIn, MembersHaveRows, Invited
<1>11. RowsAreBacked'
  <2> SUFFICES ASSUME NEW q \in Persons \ half', rows[q] # Nothing
               PROVE  (users'[q] # Nothing \/ EndsIt(q)') /\ (q \in policyMembers \/ Joining(q)')
    BY <1>5 DEF RowsAreBacked, Invited
  <2>1. q \notin half /\ (p = q => x.at \notin {"joined", "undoing", "checking", "closing"})
    BY <1>6
  <2>2. (users[q] # Nothing \/ EndsIt(q)) /\ (q \in policyMembers \/ Joining(q))
    BY <1>0, <2>1 DEF RowsAreBacked, Invited
  <2>3. EndsIt(q) => EndsIt(q)'
    BY <1>2, <2>1 DEF EndsIt, Leaving
  <2>4. Joining(q) => Joining(q)'
    BY <1>2, <2>1 DEF Joining
  <2> QED BY <1>5, <2>2, <2>3, <2>4
<1>12. RowRoles'
  <2> SUFFICES ASSUME NEW q \in Persons \ half', rows[q] # Nothing, Invited(q), ~torn', ~Resets(q)'
               PROVE  /\ \A a \in Ops : op'[a].at \in {"tokens", "rows"} =>
                           users[q] = IF rows[q] = op'[a].role THEN op'[a].to ELSE rows[q]
                      /\ (\A a \in Ops : op'[a].at \notin {"tokens", "rows"}) => users[q] = rows[q]
    BY <1>5 DEF RowRoles, Invited
  <2>1. ~torn /\ x.at \notin {"tokens", "rows"} /\ q \notin half
        /\ (p = q => x.at # "checking")
    BY <1>6
  <2>2. ~Resets(q)
    BY <1>2, <2>1 DEF Resets
  <2>3. /\ \A a \in Ops : op[a].at \in {"tokens", "rows"} =>
             users[q] = IF rows[q] = op[a].role THEN op[a].to ELSE rows[q]
        /\ (\A a \in Ops : op[a].at \notin {"tokens", "rows"}) => users[q] = rows[q]
    BY <1>0, <2>1, <2>2 DEF RowRoles
  <2> QED BY <1>2, <2>1, <2>3
<1>13. UsersKnown'
  BY <1>0, <1>5 DEF UsersKnown, Known
<1>14. TokensKnown'
  <2>1. ~torn' => ~torn /\ x.at # "tokens"
    BY <1>6
  <2>2. \A a \in Ops : op[a].at = "tokens" => a # o \/ torn'
    BY <2>1, <1>6
  <2> QED BY <1>0, <1>2, <1>5, <2>1, <2>2 DEF TokensKnown, Known
<1>15. StillSo'
  BY <1>0, <1>2, <1>5 DEF StillSo
<1> QED BY <1>3, <1>7, <1>8, <1>9, <1>10, <1>11, <1>12, <1>13, <1>14, <1>15 DEF MembersInv

\* create_role.
LEMMA CreatesRoleKeepsInv ==
  ASSUME MembersInv, NEW n \in Names, CreatesRole(n)
  PROVE  MembersInv'
<1>0. /\ MembersShape /\ Locked /\ AddsAlone /\ GoneStayGone /\ RolesHold /\ NotYetIn
      /\ MembersHaveRows /\ RowsAreBacked /\ RowRoles /\ UsersKnown /\ TokensKnown /\ StillSo
  BY DEF MembersInv
<1>1. /\ UNCHANGED <<users, rows, policyMembers, tokens, lock, op, half, torn, failures>>
      /\ roles' \in [Names -> {"no", "admin", "plain"}]
      /\ \A m \in Names : roles[m] # "no" => roles'[m] # "no"
  BY <1>0 DEF CreatesRole, Held, MembersShape
<1>2. MembersShape' /\ Locked' /\ AddsAlone' /\ GoneStayGone' /\ RolesHold' /\ NotYetIn'
      /\ MembersHaveRows' /\ RowsAreBacked' /\ RowRoles'
  BY <1>0, <1>1 DEF MembersShape, OpShape, Locked, AddsAlone, GoneStayGone, RolesHold, NotYetIn,
     MembersHaveRows, RowsAreBacked, RowRoles, Invited, EndsIt, Joining, Resets, Leaving
<1>3. UsersKnown'
  BY <1>0, <1>1 DEF UsersKnown, Known, MembersShape
<1>4. TokensKnown'
  BY <1>0, <1>1 DEF TokensKnown, Known, MembersShape
<1>5. StillSo'
  BY <1>0, <1>1 DEF StillSo, MembersShape, OpShape, ShapeOf
<1> QED BY <1>2, <1>3, <1>4, <1>5 DEF MembersInv

\* revoke.
LEMMA RevokesTokenKeepsInv ==
  ASSUME MembersInv, NEW label \in Labels, RevokesToken(label)
  PROVE  MembersInv'
<1>0. /\ MembersShape /\ Locked /\ AddsAlone /\ GoneStayGone /\ RolesHold /\ NotYetIn
      /\ MembersHaveRows /\ RowsAreBacked /\ RowRoles /\ UsersKnown /\ TokensKnown /\ StillSo
  BY DEF MembersInv
<1>1. /\ UNCHANGED <<roles, users, rows, policyMembers, lock, op, half, torn, failures>>
      /\ tokens' \in [Labels -> Names \cup {Nothing}]
      /\ \A l \in Labels : tokens'[l] \in {tokens[l], Nothing}
  BY <1>0 DEF RevokesToken, Config, MembersShape
<1>2. MembersShape' /\ Locked' /\ AddsAlone' /\ GoneStayGone' /\ RolesHold' /\ NotYetIn'
      /\ MembersHaveRows' /\ RowsAreBacked' /\ RowRoles' /\ UsersKnown'
  BY <1>0, <1>1 DEF MembersShape, OpShape, Locked, AddsAlone, GoneStayGone, RolesHold, NotYetIn,
     MembersHaveRows, RowsAreBacked, RowRoles, UsersKnown, Known, Invited, EndsIt, Joining, Resets, Leaving
<1>3. TokensKnown'
  BY <1>0, <1>1 DEF TokensKnown, Known
<1>4. StillSo'
  BY <1>0, <1>1, MembershipAssumption DEF StillSo, MembersShape, OpShape, ShapeOf
<1> QED BY <1>2, <1>3, <1>4 DEF MembersInv

-----------------------------------------------------------------------------
(* The theorems about Membership                                           *)

\* An organization begins with its founder.
LEMMA MembersInitially == MembersInit => MembersInv
<1> SUFFICES ASSUME MembersInit PROVE MembersInv
  OBVIOUS
<1>1. NoOp \in OpRecords /\ NoOp.kind = "none" /\ NoOp.at = "unborn" /\ NoOp.who = Nothing
  BY DEF NoOp, OpRecords
<1>2. \A o \in Ops : op[o] = NoOp
  BY DEF MembersInit
<1>3. /\ \A p \in Persons : /\ users[p] \in {AdminRole, MemberRole, Nothing}
                            /\ rows[p] = IF p \in policyMembers THEN users[p] ELSE Nothing
                            /\ p \in policyMembers => Invited(p)
      /\ policyMembers \subseteq Persons /\ AdminRole # Nothing /\ MemberRole # Nothing
  BY MembershipAssumption DEF MembersInit
<1>4. MembersShape
  <2>1. OpShape
    BY <1>1, <1>2, MembershipAssumption DEF OpShape, ShapeOf
  <2>2. op \in [Ops -> OpRecords]
    BY <1>1 DEF MembersInit
  <2>3. roles \in [Names -> {"no", "admin", "plain"}] /\ tokens \in [Labels -> Names \cup {Nothing}]
    BY DEF MembersInit
  <2>4. users \in [Persons -> Names \cup {Nothing}]
    BY MembershipAssumption DEF MembersInit
  <2>5. rows \in [Persons -> Names \cup {Nothing}]
    BY <2>4 DEF MembersInit
  <2>6. lock \in Ops \cup {Nothing} /\ half \subseteq Persons /\ torn \in BOOLEAN /\ failures \in Nat
    BY DEF MembersInit
  <2> QED BY <1>3, <2>1, <2>2, <2>3, <2>4, <2>5, <2>6 DEF MembersShape
<1>5. Locked /\ AddsAlone /\ GoneStayGone /\ RolesHold /\ NotYetIn /\ StillSo
  BY <1>1, <1>2 DEF Locked, AddsAlone, GoneStayGone, RolesHold, NotYetIn, StillSo, Leaving, UnderLock, Kinds
<1>6. MembersHaveRows /\ RowsAreBacked /\ RowRoles
  BY <1>1, <1>2, <1>3 DEF MembersHaveRows, RowsAreBacked, RowRoles, Invited
<1>7. UsersKnown /\ TokensKnown
  BY <1>3, MembershipAssumption DEF UsersKnown, TokensKnown, Known, MembersInit
<1> QED BY <1>4, <1>5, <1>6, <1>7 DEF MembersInv

\* Every step, by the action it is of.
LEMMA MembersStep == ~InviteMeanwhile /\ MembersInv /\ [MembersNext]_memberVars => MembersInv'
<1> SUFFICES ASSUME ~InviteMeanwhile, MembersInv, [MembersNext]_memberVars PROVE MembersInv'
  OBVIOUS
<1>1. ASSUME NEW o \in Ops, OpNext(o) PROVE MembersInv'
  BY <1>1, RemovesKeepsInv, InvitesKeepsInv, WaitsKeepsInv, LocksKeepsInv, CountsKeepsInv,
     StoresKeepsInv, JoinsKeepsInv, RechecksKeepsInv, UndoesKeepsInv, ChecksKeepsInv,
     RemovedKeepsInv, MovesTokensKeepsInv, MovesRowsKeepsInv, MintsKeepsInv, FailsKeepsInv DEF OpNext
<1>2. CASE UNCHANGED memberVars
  BY <1>2 DEF memberVars, MembersInv, MembersShape, OpShape, Locked, AddsAlone, GoneStayGone, RolesHold,
     NotYetIn, MembersHaveRows, RowsAreBacked, RowRoles, UsersKnown, TokensKnown, Known, StillSo,
     Invited, EndsIt, Joining, Resets, Leaving
<1> QED BY <1>1, <1>2, CreatesRoleKeepsInv, RevokesTokenKeepsInv DEF MembersNext

\* If nobody is invited again while a removal of theirs runs, every state is
\* one of MembersInv: the lock is with one action, a row without an invitation
\* has somebody who ends it, one without a policy member somebody who adds
\* it, and what an action read under the lock is still so
\* (roles_lock, _end_membership, accept_invitation).
THEOREM MembersInOrder == ~InviteMeanwhile => (MembersSpec => []MembersInv)
<1> SUFFICES ASSUME ~InviteMeanwhile PROVE MembersSpec => []MembersInv
  OBVIOUS
<1>1. MembersInv /\ [MembersNext]_memberVars => MembersInv'
  BY MembersStep
<1> QED BY <1>1, MembersInitially, PTL DEF MembersSpec

\* Roles, invitations, membership rows, tokens and the running policy belong
\* together whenever nothing is under way, for any people, role names, tokens
\* and actions of admins at once (rename_role, remove_user, set_user_role,
\* accept_invitation).
THEOREM MembersAgreeHolds == ~InviteMeanwhile => (MembersSpec => []MembersAgree)
<1> SUFFICES ASSUME ~InviteMeanwhile PROVE MembersSpec => []MembersAgree
  OBVIOUS
<1>1. MembersInv => MembersAgree
  <2> SUFFICES ASSUME MembersInv PROVE MembersAgree
    OBVIOUS
  <2>1. MembersShape /\ MembersHaveRows /\ RowsAreBacked /\ RowRoles /\ UsersKnown /\ TokensKnown /\ Locked
    BY DEF MembersInv
  <2>2. ASSUME NEW p \in Persons, ~UnderWayOn(p), p \notin half, ~torn,
               \A o \in Ops : op[o].at \notin {"tokens", "rows"}
        PROVE  (rows[p] # Nothing => users[p] = rows[p]) /\ (p \in policyMembers <=> rows[p] # Nothing)
    <3>1. ~EndsIt(p) /\ ~Joining(p) /\ ~Resets(p)
      BY <2>2 DEF UnderWayOn, EndsIt, Joining, Resets
    <3> QED BY <2>1, <2>2, <3>1 DEF RowsAreBacked, RowRoles, MembersHaveRows
  <2>3. RowsAgree
    BY <2>2 DEF RowsAgree
  <2>4. ASSUME lock = Nothing PROVE \A o \in Ops : op[o].at \notin {"tokens", "rows"}
    BY <2>1, <2>4, MembershipAssumption DEF Locked, MembersShape, OpShape, ShapeOf, UnderLock, Kinds
  <2>5. ASSUME lock = Nothing, ~torn, NEW l \in Labels PROVE Known(tokens[l])
    BY <2>1, <2>4, <2>5 DEF TokensKnown
  <2>6. ASSUME lock = Nothing, ~torn, NEW p \in Persons, p \notin half, ~UnderWayOn(p)
        PROVE  Known(rows[p])
    <3>1. rows[p] = Nothing \/ users[p] = rows[p]
      BY <2>2, <2>4, <2>6
    <3> QED BY <2>1, <3>1 DEF UsersKnown, Known
  <2>7. NoRoleIsStranded
    BY <2>1, <2>5, <2>6 DEF NoRoleIsStranded, UsersKnown
  <2> QED BY <2>3, <2>7 DEF MembersAgree
<1> QED BY <1>1, MembersInOrder, PTL

=============================================================================
