------------------------- MODULE RefreshLockProofs --------------------------
(***************************************************************************)
(* Proofs about RefreshLock, for any number of backends, refreshes,        *)
(* troubles and ticks: one refresh at a time within a backend, and across  *)
(* backends while the lease lasts; a bounded wait; a lease that survives a *)
(* missed renewal; nothing left behind.                                    *)
(*                                                                         *)
(* The invariant has three layers: the local locks (Local), what is under  *)
(* way and since when (Ops, InTime), and what the store's document says of *)
(* the refresh that holds it (Owned, Leased, Lasts), the last as long as   *)
(* nothing happened but failed renewals and crashes.                       *)
(***************************************************************************)
EXTENDS RefreshLock, FiniteSetTheorems, TLAPS

-----------------------------------------------------------------------------
(* The inductive invariant                                                 *)

TryOf(r) == op[<<r, "try">>]
RenewalOf(r) == op[<<r, "renewal">>]

Places == {"idle", "local", "over"} \cup PastLocal
Op == [do : {"none", "sleep", "hung"} \cup InStore, sent : Nat, due : Nat,
       found : Backends \cup {NoOne}, saw : Nat]
GhostOp == [by : Backends, do : InStore \cup {"delete"}, found : Backends \cup {NoOne},
            saw : Nat, sent : Nat]

\* What values the variables have.
Shape ==
  /\ now \in Nat /\ now <= MaxTime /\ holder \in Backends \cup {NoOne} /\ expires \in Nat
  /\ overtaken \subseteq Refreshes /\ ghosts \subseteq GhostOp /\ crashed \subseteq Backends
  /\ entry \in [Backends -> Refreshes \cup {NoOne}] /\ users \in [Refreshes -> Int]
  /\ owner \in [Refreshes -> Refreshes \cup {NoOne}] /\ home \in [Refreshes -> Backends \cup {NoOne}]
  /\ mine \in [Refreshes -> Refreshes \cup {NoOne}] /\ wait \in [Refreshes -> {0, Wait}]
  /\ due \in [Refreshes -> Nat] /\ pc \in [Refreshes -> Places] /\ op \in [Threads -> Op]
  /\ lease \in [Refreshes -> Nat] /\ lapsed \subseteq Refreshes /\ trouble \in Seq(AllTroubles)

\* Everybody on a backend who waits or holds uses its one entry, whose
\* counter counts them; who is past the local lock owns it.
Using(e) == {r \in Refreshes : mine[r] = e}
Local ==
  /\ \A r \in Refreshes : mine[r] = NoOne <=> pc[r] \in {"idle", "over"}
  /\ \A r \in Refreshes : home[r] = NoOne <=> pc[r] = "idle"
  /\ \A r \in Refreshes : mine[r] # NoOne => home[r] \in Backends \ crashed /\ entry[home[r]] = mine[r]
  /\ \A b \in Backends : entry[b] # NoOne => home[entry[b]] = b
  /\ \A r \in Refreshes : pc[r] \in PastLocal => owner[mine[r]] = r
  /\ \A e \in Refreshes : users[e] = Cardinality(Using(e))

\* A try is under way where its refresh is, a renewal from there on; no
\* operation that does not hang outlasts the latency, and no timer is missed.
Timely(o) ==
  /\ o.do \in InStore => o.sent <= now /\ now <= o.sent + Latency
  /\ o.do = "sleep" => now <= o.due
Ops ==
  /\ \A r \in Refreshes : TryOf(r).do # "none" <=> pc[r] = "trying"
  /\ \A r \in Refreshes : RenewalOf(r).do # "none" => pc[r] \in {"holding", "finishing", "over"}
  /\ \A r \in Refreshes : Timely(TryOf(r)) /\ Timely(RenewalOf(r))

\* Who waits is within its wait, and its try begins within it.
InTime ==
  \A r \in Refreshes :
    /\ pc[r] = "local" => now <= due[r]
    /\ TryOf(r).do \in InStore => /\ TryOf(r).sent <= due[r] /\ TryOf(r).due <= due[r] + Try
                                /\ TryOf(r).sent + Latency <= TryOf(r).due
    /\ TryOf(r).do = "sleep" => TryOf(r).due <= due[r]
    /\ TryOf(r).do = "hung" => now <= TryOf(r).due /\ TryOf(r).due <= due[r] + Try

\* Nothing happened but failed renewals and crashes.
Calm == OnlyHappened({"renewalFails", "crash"})

\* Then only the dead leave operations behind, a renewal ends with its hold,
\* and whoever means to force a document found it expired.
CalmOp(o) == o.do # "hung" /\ (o.do = "force" => o.saw < now)
CalmOps ==
  Calm =>
    /\ \A r \in Refreshes : RenewalOf(r).do # "none" => pc[r] \in {"holding", "finishing"}
    /\ \A r \in Refreshes : CalmOp(TryOf(r)) /\ CalmOp(RenewalOf(r))
    /\ \A g \in ghosts : /\ g.do \in InStore /\ g.by \in crashed
                         /\ g.do = "force" => g.saw < now

\* A document of a live backend is that of a refresh that has taken it.
Owns(r) == pc[r] \in {"holding", "finishing", "releasing"} \/ TryOf(r).do = "update"
Owned ==
  Calm /\ holder # NoOne /\ holder \notin crashed => \E r \in Refreshes : Owns(r) /\ home[r] = holder

\* Who holds a lease has the document at least as long.
Safe(r) == r \notin lapsed \cup overtaken
LeasedTo(r) ==
  /\ Holds(r) /\ Safe(r) => holder = home[r] /\ lease[r] <= expires /\ now < lease[r]
  /\ Holds(r) => lease[r] <= now + TTL
  /\ Holds(r) /\ RenewalOf(r).do \in InStore => lease[r] <= RenewalOf(r).sent + TTL
  /\ TryOf(r).do = "update" /\ Safe(r) => holder = home[r] /\ expires = TryOf(r).sent + TTL
Leased == Calm => \A r \in Refreshes : LeasedTo(r)

\* With one trouble at most: the next renewal reaches the store before the
\* document expires, after a failed one too.
OneAtMost == Calm /\ Len(trouble) <= 1
Slack == (Latency + Every) * (IF trouble = <<"renewalFails">> THEN 2 ELSE 1)
RenewsInTime(r) ==
  \/ RenewalOf(r).do = "sleep" /\ RenewalOf(r).due + TTL <= expires + Slack
  \/ RenewalOf(r).do \in {"find", "update"} /\ RenewalOf(r).sent + TTL <= expires + Slack
ForcesTheDead(o) == o.do = "force" => o.found \in crashed
Lasts ==
  OneAtMost =>
    /\ \A r \in Refreshes : pc[r] \in {"holding", "finishing"} => holder = home[r] /\ RenewsInTime(r)
    /\ \A r \in Refreshes : TryOf(r).do = "update" => holder = home[r] /\ expires = TryOf(r).sent + TTL
    /\ \A r \in Refreshes : pc[r] = "releasing" => holder = home[r] /\ now < expires
    /\ \A r \in Refreshes : ForcesTheDead(TryOf(r)) /\ ForcesTheDead(RenewalOf(r))
    /\ \A g \in ghosts : g.do # "force"

\* Without a crash nobody is dead, and nothing is left behind by the dead.
NobodyDead == OnlyHappened({"renewalFails"}) => crashed = {}

IInv == /\ Shape /\ Local /\ Ops /\ InTime /\ CalmOps /\ Owned /\ Leased /\ Lasts /\ NobodyDead

-----------------------------------------------------------------------------
(* Arithmetic, threads, troubles                                           *)

LEMMA MaxOfTwo ==
  ASSUME NEW a \in Int, NEW b \in Int
  PROVE  Max({a, b}) \in {a, b} /\ Max({a, b}) >= a /\ Max({a, b}) >= b
<1> DEFINE P(x) == x \in {a, b} /\ \A y \in {a, b} : x >= y
<1>1. \E x \in {a, b} : \A y \in {a, b} : x >= y
  <2>1. CASE a >= b
    BY <2>1
  <2>2. CASE b >= a
    BY <2>2
  <2> QED BY <2>1, <2>2
<1>2. Max({a, b}) \in {a, b} /\ \A y \in {a, b} : Max({a, b}) >= y
  BY <1>1 DEF Max
<1> QED BY <1>2

LEMMA MinOfTwo ==
  ASSUME NEW a \in Int, NEW b \in Int
  PROVE  Min({a, b}) \in {a, b} /\ Min({a, b}) <= a /\ Min({a, b}) <= b
<1>1. \E x \in {a, b} : \A y \in {a, b} : x <= y
  <2>1. CASE a <= b
    BY <2>1
  <2>2. CASE b <= a
    BY <2>2
  <2> QED BY <2>1, <2>2
<1>2. Min({a, b}) \in {a, b} /\ \A y \in {a, b} : Min({a, b}) <= y
  BY <1>1 DEF Min
<1> QED BY <1>2

LEMMA Times ==
  /\ {Wait, TTL, Every, Try, Poll} \subseteq Nat \ {0} /\ {Latency, MaxTrouble, MaxTime} \subseteq Nat
  /\ Latency <= Try /\ 2 * Every + 3 * Latency < TTL /\ Latency < TTL
  BY TimesAssumption, LatencyAssumption

LEMMA ThreadsAre ==
  /\ \A r \in Refreshes : <<r, "try">> \in Threads /\ <<r, "renewal">> \in Threads
  /\ \A t \in Threads : /\ t[1] \in Refreshes
                        /\ \/ t[2] = "try" /\ t = <<t[1], "try">>
                           \/ t[2] = "renewal" /\ t = <<t[1], "renewal">>
  BY DEF Threads

\* A trouble that was not among some kinds makes the troubles not only those.
LEMMA TroubleGrows ==
  ASSUME trouble \in Seq(AllTroubles), NEW kind, Trouble(kind), NEW K
  PROVE  /\ trouble' \in Seq(AllTroubles) /\ Len(trouble') = Len(trouble) + 1
         /\ OnlyHappened(K)' => OnlyHappened(K) /\ kind \in K
         /\ Len(trouble') <= 1 => trouble = <<>> /\ trouble' = <<kind>>
<1>1. kind \in AllTroubles /\ trouble' = Append(trouble, kind)
  BY TroublesAssumption DEF Trouble
<1>2. /\ trouble' \in Seq(AllTroubles) /\ Len(trouble') = Len(trouble) + 1
      /\ \A i \in DOMAIN trouble : i \in DOMAIN trouble' /\ trouble'[i] = trouble[i]
      /\ Len(trouble') \in DOMAIN trouble' /\ trouble'[Len(trouble')] = kind
  BY <1>1
<1>3. OnlyHappened(K)' => OnlyHappened(K) /\ kind \in K
  BY <1>2 DEF OnlyHappened
<1>4. Len(trouble') <= 1 => trouble = <<>>
  BY <1>2
<1>5. trouble = <<>> => trouble' = <<kind>>
  BY <1>1
<1> QED BY <1>2, <1>3, <1>4, <1>5


-----------------------------------------------------------------------------
(* What a thread's step does                                               *)

Quiet == UNCHANGED <<now, ghosts, crashed, trouble>>
Stays == UNCHANGED storeVars
Sends(t, o) == op' = [op EXCEPT ![t] = o] /\ UNCHANGED <<pc, localVars, askVars, leaseVars>>

RefusedBy(t) ==
  \/ op[t].do = "find" /\ holder \notin {NoOne, home[t[1]]} /\ ~Expired
  \/ op[t].do = "force" /\ holder # op[t].found
GrantedBy(t) ==
  /\ op[t].do = "update" \/ (op[t].do = "force" /\ holder = op[t].found)
  /\ Lands(home[t[1]], op[t])

Finds(t) ==
  /\ op[t].do = "find" /\ holder \in {NoOne, home[t[1]]} /\ Lands(home[t[1]], op[t]) /\ Quiet
  /\ Sends(t, [op[t] EXCEPT !.do = "update"])
SeesExpired(t) ==
  /\ op[t].do = "find" /\ holder \notin {NoOne, home[t[1]]} /\ Expired /\ Stays /\ Quiet
  /\ Sends(t, [op[t] EXCEPT !.do = "force", !.found = holder, !.saw = expires])

TriesAgain(r) ==
  /\ RefusedBy(<<r, "try">>) /\ Stays /\ Quiet
  /\ \E o \in Op : /\ o.do = "sleep" /\ now <= o.due /\ o.due <= due[r]
                   /\ Sends(<<r, "try">>, o)
GivesUp(r) ==
  /\ RefusedBy(<<r, "try">>) /\ Stays /\ Quiet /\ now >= due[r] /\ Leave(r)
  /\ op' = [op EXCEPT ![<<r, "try">>] = NoOp]
TakesIt(r) ==
  /\ GrantedBy(<<r, "try">>) /\ Quiet /\ Move(r, "holding")
  /\ lease' = [lease EXCEPT ![r] = TryOf(r).sent + TTL]
  /\ op' = [op EXCEPT ![<<r, "try">>] = NoOp, ![<<r, "renewal">>] = Sleep(Every)]
  /\ UNCHANGED <<localVars, askVars, lapsed>>
TryIsLost(r) ==
  /\ \/ TryOf(r).do \in InStore /\ Trouble("tryFails")
        /\ (Lands(home[r], TryOf(r)) \/ Stays)
     \/ TryOf(r).do = "hung" /\ Stays /\ UNCHANGED trouble
  /\ UNCHANGED <<now, ghosts, crashed>> /\ Leave(r)
  /\ op' = [op EXCEPT ![<<r, "try">>] = NoOp]

Renews(r) ==
  /\ GrantedBy(<<r, "renewal">>) /\ Quiet /\ RenewalGoesOn(r)
  /\ lease' = IF pc[r] = "over" THEN lease ELSE [lease EXCEPT ![r] = RenewalOf(r).sent + TTL]
  /\ UNCHANGED <<localVars, askVars, lapsed>>
LosesIt(r) ==
  /\ RefusedBy(<<r, "renewal">>) /\ Stays /\ Quiet /\ RenewalEnds(r)
  /\ UNCHANGED <<localVars, askVars, leaseVars>>
RenewalIsLost(r) ==
  /\ \/ RenewalOf(r).do \in InStore /\ Trouble("renewalFails")
        /\ (Lands(home[r], RenewalOf(r)) \/ Stays)
     \/ RenewalOf(r).do = "hung" /\ Stays /\ UNCHANGED trouble
  /\ UNCHANGED <<now, ghosts, crashed>> /\ RenewalGoesOn(r)
  /\ UNCHANGED <<localVars, askVars, leaseVars>>

ThreadKind(t) ==
  \/ Finds(t) \/ SeesExpired(t) \/ Hangs(t) \/ Wake(t)
  \/ /\ t = <<t[1], "try">>
     /\ TriesAgain(t[1]) \/ GivesUp(t[1]) \/ TakesIt(t[1]) \/ TryIsLost(t[1])
  \/ /\ t = <<t[1], "renewal">>
     /\ Renews(t[1]) \/ LosesIt(t[1]) \/ RenewalIsLost(t[1])

\* A find that meets another's document leaves it, and so does a force that
\* meets another holder.
LEMMA NothingLands ==
  ASSUME NEW t \in Threads, RefusedBy(t) \/ (op[t].do = "find" /\ holder \notin {NoOne, home[t[1]]}),
         Lands(home[t[1]], op[t])
  PROVE  Stays
  BY DEF Lands, RefusedBy, Stays, storeVars

LEMMA RefusedKinds ==
  ASSUME Shape, Ops, NEW t \in Threads, RefusedBy(t), Stays, Quiet, Refused(t) PROVE ThreadKind(t)
<1>1. CASE t[2] = "try"
  <2>1. t = <<t[1], "try">> /\ t[1] \in Refreshes /\ t[2] # "renewal"
    BY <1>1, ThreadsAre
  <2>2. CASE ~GiveUp(t[1]) /\ Set(t, Sleep(Min({Poll, due[t[1]] - now})))
             /\ UNCHANGED <<pc, localVars, askVars, leaseVars>>
    <3>1. now \in Nat /\ due[t[1]] \in Nat /\ now < due[t[1]]
      BY <2>1, <2>2 DEF Shape, GiveUp
    <3>2. PICK d \in Int : d = Min({Poll, due[t[1]] - now}) /\ 0 <= d /\ d <= due[t[1]] - now
      <4>1. Poll \in Int /\ Poll > 0 /\ due[t[1]] - now \in Int
        BY <3>1, Times
      <4>2. /\ Min({Poll, due[t[1]] - now}) \in {Poll, due[t[1]] - now}
            /\ Min({Poll, due[t[1]] - now}) <= due[t[1]] - now
        BY <4>1, MinOfTwo
      <4> HIDE DEF Min
      <4> QED BY <3>1, <4>1, <4>2
    <3>3. Sleep(d) \in Op /\ Sleep(d).do = "sleep" /\ Sleep(d).due = now + d
      <4>1. now + d \in Nat
        BY <3>1, <3>2
      <4> QED BY <4>1 DEF Sleep, NoOp, Op
    <3>4. Sends(<<t[1], "try">>, Sleep(d))
      BY <2>1, <2>2, <3>2 DEF Sends, Set
    <3> QED BY <2>1, <3>1, <3>2, <3>3, <3>4 DEF ThreadKind, TriesAgain
  <2>3. CASE GiveUp(t[1]) /\ Set(t, NoOp) /\ Leave(t[1])
    BY <2>1, <2>3 DEF ThreadKind, GivesUp, GiveUp, Set
  <2> QED BY <2>1, <2>2, <2>3 DEF Refused
<1>2. CASE t[2] = "renewal"
  BY <1>2, ThreadsAre DEF Refused, ThreadKind, LosesIt
<1> QED BY <1>1, <1>2, ThreadsAre

LEMMA GrantedKinds ==
  ASSUME Shape, Ops, NEW t \in Threads, GrantedBy(t), Quiet, Granted(t) PROVE ThreadKind(t)
<1>1. CASE t[2] = "try"
  <2>1. t = <<t[1], "try">> /\ t[1] \in Refreshes
    BY <1>1, ThreadsAre
  <2>2. pc[t[1]] = "trying"
    BY <2>1 DEF GrantedBy, Ops, TryOf
  <2> QED BY <1>1, <2>1, <2>2 DEF Granted, ThreadKind, TakesIt, TryOf
<1>2. CASE t[2] = "renewal"
  <2>1. t = <<t[1], "renewal">> /\ t[1] \in Refreshes /\ t[2] # "try"
    BY <1>2, ThreadsAre
  <2> QED BY <2>1 DEF Granted, ThreadKind, Renews, RenewalOf
<1> QED BY <1>1, <1>2, ThreadsAre

LEMMA ThreadKinds == ASSUME Shape, Ops, NEW t \in Threads, Steps(t) PROVE ThreadKind(t)
<1>1. CASE FindOrInsert(t)
  <2>1. Quiet
    BY <1>1 DEF FindOrInsert, Quiet
  <2>2. CASE holder \in {NoOne, home[t[1]]}
    BY <1>1, <2>1, <2>2 DEF FindOrInsert, ThreadKind, Finds, Sends, Set
  <2>3. CASE holder \notin {NoOne, home[t[1]]}
    <3>1. Stays
      BY <1>1, <2>3, NothingLands DEF FindOrInsert
    <3>2. CASE Expired
      BY <1>1, <2>1, <2>3, <3>1, <3>2 DEF FindOrInsert, ThreadKind, SeesExpired, Sends, Set
    <3>3. CASE ~Expired
      BY <1>1, <2>1, <2>3, <3>1, <3>3, RefusedKinds DEF FindOrInsert, RefusedBy
    <3> QED BY <3>2, <3>3
  <2> QED BY <2>2, <2>3
<1>2. CASE Confirm(t)
  BY <1>2, GrantedKinds DEF Confirm, GrantedBy, Quiet
<1>3. CASE ForceTake(t)
  <2>1. CASE holder = op[t].found
    BY <1>3, <2>1, GrantedKinds DEF ForceTake, GrantedBy, Quiet
  <2>2. CASE holder # op[t].found
    BY <1>3, <2>2, NothingLands, RefusedKinds DEF ForceTake, RefusedBy, Quiet
  <2> QED BY <2>1, <2>2
<1>4. CASE OpFails(t) \/ HungTimeout(t)
  <2>1. CASE t[2] = "try"
    <3>1. t = <<t[1], "try">> /\ t[1] \in Refreshes
      BY <2>1, ThreadsAre
    <3>2. KindOf(t, "fails") = "tryFails"
      BY <2>1 DEF KindOf
    <3> QED BY <1>4, <2>1, <3>1, <3>2
            DEF OpFails, HungTimeout, Failed, ThreadKind, TryIsLost, TryOf, Set, Stays
  <2>2. CASE t[2] = "renewal"
    <3>1. t = <<t[1], "renewal">> /\ t[1] \in Refreshes /\ t[2] # "try"
      BY <2>2, ThreadsAre
    <3>2. KindOf(t, "fails") = "renewalFails"
      BY <3>1, <2>2 DEF KindOf
    <3> QED BY <1>4, <2>2, <3>1, <3>2
            DEF OpFails, HungTimeout, Failed, ThreadKind, RenewalIsLost, RenewalOf, Stays, AfterAFailure
  <2> QED BY <2>1, <2>2, ThreadsAre
<1>5. CASE Wake(t) \/ Hangs(t)
  BY <1>5 DEF ThreadKind
<1> QED BY <1>1, <1>2, <1>3, <1>4, <1>5 DEF Steps

\* The steps of a thread, told apart by the thread.
TryStep(r) ==
  \/ Finds(<<r, "try">>) \/ SeesExpired(<<r, "try">>) \/ Hangs(<<r, "try">>) \/ Wake(<<r, "try">>)
  \/ TriesAgain(r) \/ GivesUp(r) \/ TakesIt(r) \/ TryIsLost(r)
RenewalStep(r) ==
  \/ Finds(<<r, "renewal">>) \/ SeesExpired(<<r, "renewal">>)
  \/ Hangs(<<r, "renewal">>) \/ Wake(<<r, "renewal">>)
  \/ Renews(r) \/ LosesIt(r) \/ RenewalIsLost(r)

LEMMA ThreadSteps ==
  ASSUME Shape, Ops, NEW t \in Threads, Steps(t)
  PROVE  \E r \in Refreshes : TryStep(r) \/ RenewalStep(r)
  BY ThreadKinds, ThreadsAre DEF ThreadKind, TryStep, RenewalStep

-----------------------------------------------------------------------------
(* The variables have the values they should                               *)

\* Who waits or holds has a live backend and uses an entry.
LEMMA Active ==
  ASSUME Shape, Local, NEW r \in Refreshes, pc[r] \notin {"idle", "over"}
  PROVE  home[r] \in Backends /\ home[r] \notin crashed /\ mine[r] \in Refreshes /\ entry[home[r]] = mine[r]
  BY DEF Shape, Local

LEMMA ThreadIsActive ==
  ASSUME Shape, Local, Ops, NEW r \in Refreshes
  PROVE  /\ TryOf(r).do # "none" => pc[r] = "trying" /\ home[r] \in Backends
         /\ RenewalOf(r).do # "none" => home[r] \in Backends
<1>1. TryOf(r).do # "none" => pc[r] = "trying"
  BY DEF Ops
<1>2. RenewalOf(r).do # "none" => pc[r] # "idle"
  BY DEF Ops
<1>3. pc[r] # "idle" => home[r] \in Backends
  BY DEF Shape, Local
<1> QED BY <1>1, <1>2, <1>3

LEMMA LandsShape ==
  ASSUME Shape, NEW b \in Backends, NEW o, o.sent \in Nat, Lands(b, o)
  PROVE  holder' \in Backends \cup {NoOne} /\ expires' \in Nat /\ overtaken' \subseteq Refreshes
<1>1. o.sent + TTL \in Nat /\ expires \in Nat
  BY Times, SMTT(40) DEF Shape
<1>2. holder' \in Backends \cup {NoOne} /\ expires' \in Nat
  BY <1>1 DEF Shape, Lands
<1>3. overtaken' \subseteq Refreshes
  BY DEF Shape, Lands
<1> QED BY <1>2, <1>3

LEMMA LeaveShape ==
  ASSUME Shape, NEW r \in Refreshes, mine[r] \in Refreshes, home[r] \in Backends, Leave(r)
  PROVE  /\ entry' \in [Backends -> Refreshes \cup {NoOne}] /\ users' \in [Refreshes -> Int]
         /\ owner' \in [Refreshes -> Refreshes \cup {NoOne}] /\ home' \in [Refreshes -> Backends \cup {NoOne}]
         /\ mine' \in [Refreshes -> Refreshes \cup {NoOne}] /\ wait' \in [Refreshes -> {0, Wait}]
         /\ due' \in [Refreshes -> Nat] /\ pc' \in [Refreshes -> Places]
         /\ lease' \in [Refreshes -> Nat] /\ lapsed' \subseteq Refreshes
  BY DEF Shape, Leave, Move, Places, PastLocal

LEMMA OpTypes ==
  /\ NoOp \in Op /\ \A n \in Nat : now \in Nat => Sleep(n) \in Op
  /\ \A o \in Op : o.sent \in Nat /\ o.due \in Nat /\ o.saw \in Nat /\ o.found \in Backends \cup {NoOne}
<1>1. NoOp \in Op
  BY DEF NoOp, Op
<1>2. ASSUME NEW n \in Nat, now \in Nat PROVE Sleep(n) \in Op
  <2>1. now + n \in Nat
    BY <1>2
  <2> QED BY <2>1 DEF Sleep, NoOp, Op
<1>3. \A o \in Op : o.sent \in Nat /\ o.due \in Nat /\ o.saw \in Nat /\ o.found \in Backends \cup {NoOne}
  BY DEF Op
<1> QED BY <1>1, <1>2, <1>3

LEMMA OpIn == ASSUME Shape, NEW r \in Refreshes PROVE TryOf(r) \in Op /\ RenewalOf(r) \in Op
  BY ThreadsAre DEF Shape, TryOf, RenewalOf

LEMMA TryUntilIs ==
  ASSUME Shape, NEW r \in Refreshes
  PROVE  TryUntil(r) \in Nat /\ TryUntil(r) \in {due[r], now + Try} /\ now + Try <= TryUntil(r)
<1>1. due[r] \in Int /\ now + Try \in Int /\ due[r] \in Nat /\ now + Try \in Nat
  BY Times, SMTT(40) DEF Shape
<1>2. Max({due[r], now + Try}) \in {due[r], now + Try} /\ now + Try <= Max({due[r], now + Try})
  BY <1>1, MaxOfTwo
<1> HIDE DEF Max
<1> QED BY <1>1, <1>2 DEF TryUntil

LEMMA ShapeOfTries ==
  ASSUME Shape, Local, Ops, NEW r \in Refreshes, TryStep(r) PROVE Shape'
<1>1. /\ <<r, "try">> \in Threads /\ <<r, "renewal">> \in Threads /\ op[<<r, "try">>] = TryOf(r)
      /\ TryOf(r) \in Op /\ NoOp \in Op /\ Sleep(Every) \in Op /\ <<r, "try">>[1] = r /\ <<r, "try">>[2] = "try"
  BY ThreadsAre, OpIn, OpTypes, Times DEF TryOf, Shape
<1>2. TryOf(r).sent \in Nat /\ TryOf(r).due \in Nat /\ TryOf(r).saw \in Nat
  BY <1>1, OpTypes
<1>3. TryOf(r).do # "none" => home[r] \in Backends /\ mine[r] \in Refreshes
  BY ThreadIsActive, Active
<1>4. ASSUME Lands(home[r], TryOf(r)), TryOf(r).do # "none"
      PROVE  holder' \in Backends \cup {NoOne} /\ expires' \in Nat /\ overtaken' \subseteq Refreshes
  BY <1>2, <1>3, <1>4, LandsShape
<1>5. CASE Finds(<<r, "try">>)
  BY <1>1, <1>4, <1>5 DEF Finds, Sends, Quiet, Shape, Op, InStore, localVars, askVars, leaseVars
<1>6. CASE SeesExpired(<<r, "try">>)
  BY <1>1, <1>6 DEF SeesExpired, Stays, Sends, Quiet, Shape, Op, InStore, storeVars, localVars, askVars, leaseVars
<1>7. CASE Hangs(<<r, "try">>)
  <2>1. trouble' \in Seq(AllTroubles)
    BY <1>7, TroubleGrows DEF Shape, Hangs
  <2>2. GhostOf(<<r, "try">>) \in GhostOp
    BY <1>1, <1>2, <1>3, <1>7 DEF Hangs, GhostOf, Ghost, GhostOp, Op, InStore
  <2> QED BY <1>1, <1>7, <2>1, <2>2 DEF Hangs, Set, Shape, Op, storeVars, localVars, askVars, leaseVars
<1>8. CASE Wake(<<r, "try">>)
  <2>1. TryUntil(r) \in Nat
    BY TryUntilIs
  <2> QED BY <1>1, <1>8, <2>1 DEF Wake, Set, NoOp, Shape, Op, InStore, storeVars, localVars, askVars, leaseVars
<1>9. CASE TriesAgain(r)
  BY <1>1, <1>9 DEF TriesAgain, Stays, Sends, Quiet, Shape, storeVars, localVars, askVars, leaseVars
<1>10. CASE GivesUp(r)
  <2>1. TryOf(r).do # "none"
    BY <1>1, <1>10 DEF GivesUp, RefusedBy
  <2> QED BY <1>1, <1>3, <1>10, <2>1, LeaveShape DEF GivesUp, Stays, Quiet, Shape, storeVars
<1>11. CASE TakesIt(r)
  <2>1. TryOf(r).do # "none" /\ Lands(home[r], TryOf(r))
    BY <1>1, <1>11 DEF TakesIt, GrantedBy
  <2>2. pc' \in [Refreshes -> Places] /\ lease' \in [Refreshes -> Nat]
    <3>1. TryOf(r).sent + TTL \in Nat
      BY <1>2, Times
    <3> QED BY <1>11, <3>1 DEF TakesIt, Move, Shape, Places, PastLocal
  <2> QED BY <1>1, <1>4, <1>11, <2>1, <2>2 DEF TakesIt, Quiet, Shape, localVars, askVars
<1>12. CASE TryIsLost(r)
  <2>1. TryOf(r).do # "none" /\ (Lands(home[r], TryOf(r)) \/ Stays)
    BY <1>12 DEF TryIsLost, InStore
  <2>2. trouble' \in Seq(AllTroubles)
    BY <1>12, TroubleGrows DEF Shape, TryIsLost
  <2> QED BY <1>1, <1>3, <1>4, <1>12, <2>1, <2>2, LeaveShape DEF TryIsLost, Stays, Shape, storeVars
<1> QED BY <1>5, <1>6, <1>7, <1>8, <1>9, <1>10, <1>11, <1>12 DEF TryStep

LEMMA ShapeOfRenewals ==
  ASSUME Shape, Local, Ops, NEW r \in Refreshes, RenewalStep(r) PROVE Shape'
<1>1. /\ <<r, "renewal">> \in Threads /\ op[<<r, "renewal">>] = RenewalOf(r)
      /\ RenewalOf(r) \in Op /\ NoOp \in Op /\ Sleep(Every) \in Op
      /\ <<r, "renewal">>[1] = r /\ <<r, "renewal">>[2] = "renewal"
  BY ThreadsAre, OpIn, OpTypes, Times DEF RenewalOf, Shape
<1>2. RenewalOf(r).sent \in Nat /\ RenewalOf(r).due \in Nat /\ RenewalOf(r).saw \in Nat
  BY <1>1, OpTypes
<1>3. RenewalOf(r).do # "none" => home[r] \in Backends
  BY ThreadIsActive
<1>4. ASSUME Lands(home[r], RenewalOf(r)), RenewalOf(r).do # "none"
      PROVE  holder' \in Backends \cup {NoOne} /\ expires' \in Nat /\ overtaken' \subseteq Refreshes
  BY <1>2, <1>3, <1>4, LandsShape
<1>5. CASE Finds(<<r, "renewal">>)
  BY <1>1, <1>4, <1>5 DEF Finds, Sends, Quiet, Shape, Op, InStore, localVars, askVars, leaseVars
<1>6. CASE SeesExpired(<<r, "renewal">>)
  BY <1>1, <1>6 DEF SeesExpired, Stays, Sends, Quiet, Shape, Op, InStore, storeVars, localVars, askVars, leaseVars
<1>7. CASE Hangs(<<r, "renewal">>)
  <2>1. trouble' \in Seq(AllTroubles)
    BY <1>7, TroubleGrows DEF Shape, Hangs
  <2>2. GhostOf(<<r, "renewal">>) \in GhostOp
    BY <1>1, <1>2, <1>3, <1>7 DEF Hangs, GhostOf, Ghost, GhostOp, Op, InStore
  <2> QED BY <1>1, <1>7, <2>1, <2>2 DEF Hangs, Set, Shape, Op, storeVars, localVars, askVars, leaseVars
<1>8. CASE Wake(<<r, "renewal">>)
  <2>1. now \in Nat /\ now + Every \in Nat
    BY Times, SMTT(40) DEF Shape
  <2> QED BY <1>1, <1>8, <2>1 DEF Wake, Set, NoOp, Shape, Op, InStore, storeVars, localVars, askVars, leaseVars
<1>9. ASSUME RenewalGoesOn(r) \/ RenewalEnds(r)
      PROVE  op' \in [Threads -> Op] /\ pc' \in [Refreshes -> Places]
  BY <1>1, <1>9 DEF RenewalGoesOn, RenewalEnds, Set, Move, Shape, Places, PastLocal
<1>10. CASE Renews(r)
  <2>1. RenewalOf(r).do # "none" /\ Lands(home[r], RenewalOf(r))
    BY <1>1, <1>10 DEF Renews, GrantedBy
  <2>2. RenewalOf(r).sent + TTL \in Nat
    BY <1>2, Times
  <2>3. lease' \in [Refreshes -> Nat]
    BY <1>10, <2>2 DEF Renews, Shape
  <2> QED BY <1>4, <1>9, <1>10, <2>1, <2>3 DEF Renews, Quiet, Shape, localVars, askVars
<1>11. CASE LosesIt(r)
  BY <1>9, <1>11 DEF LosesIt, Stays, Quiet, Shape, storeVars, localVars, askVars, leaseVars
<1>12. CASE RenewalIsLost(r)
  <2>1. RenewalOf(r).do # "none" /\ (Lands(home[r], RenewalOf(r)) \/ Stays)
    BY <1>12 DEF RenewalIsLost, InStore
  <2>2. trouble' \in Seq(AllTroubles)
    BY <1>12, TroubleGrows DEF Shape, RenewalIsLost
  <2> QED BY <1>4, <1>9, <1>12, <2>1, <2>2
          DEF RenewalIsLost, Stays, Shape, storeVars, localVars, askVars, leaseVars
<1> QED BY <1>5, <1>6, <1>7, <1>8, <1>10, <1>11, <1>12 DEF RenewalStep

LEMMA DeleteLands ==
  ASSUME Shape, NEW b \in Backends, Lands(b, Delete) \/ Stays
  PROVE  /\ holder' \in {holder, NoOne} /\ expires' = expires /\ overtaken' = overtaken
         /\ Lands(b, Delete) => holder' # b
         /\ holder' # holder => holder = b
  BY NamesAssumption DEF Shape, Lands, Delete, NoOp, Stays, storeVars

\* What a cancelled refresh has sent, and what a dead backend has.
LEMMA CancelSends ==
  ASSUME Shape, Local, Ops, NEW r \in Refreshes, Cancel(r)
  PROVE  ghosts' \subseteq GhostOp
<1> DEFINE sent == {o \in {TryOf(r)} : o.do \in InStore} \cup {o \in {Delete} : pc[r] = "releasing"}
<1>1. home[r] \in Backends
  BY Active DEF Cancel
<1>2. ghosts' = ghosts \cup {Ghost(home[r], o) : o \in sent}
  BY DEF Cancel, TryOf
<1>3. ASSUME NEW o \in sent PROVE Ghost(home[r], o) \in GhostOp
  <2>1. Delete.do = "delete" /\ Delete.sent = 0 /\ Delete.saw = 0 /\ Delete.found = NoOne
    BY DEF Delete, NoOp
  <2>2. o.do \in InStore \cup {"delete"} /\ o.sent \in Nat /\ o.saw \in Nat /\ o.found \in Backends \cup {NoOne}
    BY <2>1, OpIn, OpTypes
  <2> QED BY <1>1, <2>2 DEF Ghost, GhostOp
<1> HIDE DEF sent
<1> QED BY <1>2, <1>3 DEF Shape

DeadThreads(b) == {t \in {r \in Refreshes : home[r] = b} \X {"try", "renewal"} : op[t].do \in InStore}

LEMMA CrashSends ==
  ASSUME Shape, NEW b \in Backends, Crash(b)
  PROVE  /\ ghosts' = ghosts \cup {GhostOf(t) : t \in DeadThreads(b)}
         /\ \A t \in DeadThreads(b) : /\ t \in Threads /\ op[t].do \in InStore
                                      /\ GhostOf(t) \in GhostOp /\ GhostOf(t).by = b
                                      /\ GhostOf(t).do = op[t].do /\ GhostOf(t).saw = op[t].saw
<1>1. ghosts' = ghosts \cup {GhostOf(t) : t \in DeadThreads(b)}
  BY DEF Crash, DeadThreads
<1>2. ASSUME NEW t \in DeadThreads(b)
      PROVE  /\ t \in Threads /\ op[t].do \in InStore
             /\ GhostOf(t) \in GhostOp /\ GhostOf(t).by = b
             /\ GhostOf(t).do = op[t].do /\ GhostOf(t).saw = op[t].saw
  <2>1. t \in Threads /\ op[t].do \in InStore /\ home[t[1]] = b
    BY <1>2 DEF DeadThreads, Threads
  <2>2. op[t].sent \in Nat /\ op[t].saw \in Nat /\ op[t].found \in Backends \cup {NoOne}
    BY <2>1, OpTypes DEF Shape
  <2> QED BY <2>1, <2>2 DEF GhostOf, Ghost, GhostOp
<1> QED BY <1>1, <1>2

LEMMA TickIs == ASSUME Shape, Tick PROVE now' \in Nat /\ now' <= MaxTime /\ now' \in {now, now + 1}
<1>1. /\ now + 1 \in Int /\ MaxTime \in Int /\ now + 1 \in Nat /\ MaxTime \in Nat
      /\ now \in Nat /\ now <= MaxTime
  BY Times DEF Shape
<1>2. /\ Min({now + 1, MaxTime}) \in {now + 1, MaxTime}
      /\ Min({now + 1, MaxTime}) <= now + 1 /\ Min({now + 1, MaxTime}) <= MaxTime
  BY <1>1, MinOfTwo
<1> HIDE DEF Min
<1> QED BY <1>1, <1>2 DEF Tick

LEMMA ShapeStep == ASSUME Shape, Local, Ops, Next PROVE Shape'
<1>1. ASSUME NEW r \in Refreshes, NEW b \in Backends, NEW w \in {0, Wait}, Ask(r, b, w) PROVE Shape'
  <2> DEFINE e == IF entry[b] = NoOne THEN r ELSE entry[b]
  <2>1. e \in Refreshes /\ users[e] + 1 \in Int /\ now + w \in Nat
    <3>1. e \in Refreshes
      BY DEF Shape
    <3>2. now \in Nat /\ w \in Nat
      BY Times DEF Shape
    <3> HIDE DEF e
    <3> QED BY <3>1, <3>2 DEF Shape
  <2>2. /\ entry' = [entry EXCEPT ![b] = e] /\ mine' = [mine EXCEPT ![r] = e]
        /\ users' = [users EXCEPT ![e] = users[e] + 1] /\ due' = [due EXCEPT ![r] = now + w]
    BY <1>1 DEF Ask, Counted
  <2> HIDE DEF e
  <2> QED BY <1>1, <2>1, <2>2 DEF Ask, Move, Shape, Places, storeVars, leaseVars
<1>2. ASSUME NEW r \in Refreshes, GetLocal(r) PROVE Shape'
  <2>1. mine[r] \in Refreshes /\ <<r, "try">> \in Threads
    BY <1>2, Active, ThreadsAre DEF GetLocal
  <2>2. [NoOp EXCEPT !.do = "find", !.sent = now, !.due = TryUntil(r)] \in Op
    BY TryUntilIs DEF NoOp, Op, InStore, Shape
  <2> HIDE DEF Op
  <2> QED BY <1>2, <2>1, <2>2
          DEF GetLocal, Move, Shape, Places, PastLocal, storeVars, askVars, leaseVars
<1>3. ASSUME NEW r \in Refreshes, LocalTimeout(r) PROVE Shape'
  <2>1. mine[r] \in Refreshes /\ home[r] \in Backends
    BY <1>3, Active DEF LocalTimeout
  <2> QED BY <1>3, <2>1, LeaveShape DEF LocalTimeout, Shape, storeVars
<1>4. ASSUME NEW r \in Refreshes, WorkDone(r) PROVE Shape'
  <2>1. IF UnderWay(r) THEN op[<<r, "renewal">>] \in Op ELSE NoOp \in Op
    BY OpTypes, OpIn DEF RenewalOf
  <2> HIDE DEF Op
  <2> QED BY <1>4, <2>1, ThreadsAre
          DEF WorkDone, Set, Move, Shape, Places, PastLocal, storeVars, localVars, askVars, leaseVars
<1>5. ASSUME NEW r \in Refreshes, Release(r) \/ ReleaseFails(r) PROVE Shape'
  <2>1. mine[r] \in Refreshes /\ home[r] \in Backends
    BY <1>5, Active DEF Release, ReleaseFails
  <2>2. Lands(home[r], Delete) \/ Stays
    BY <1>5 DEF Release, ReleaseFails, Stays
  <2>3. holder' \in Backends \cup {NoOne} /\ expires' \in Nat /\ overtaken' \subseteq Refreshes
    BY <2>1, <2>2, DeleteLands DEF Shape
  <2>4. trouble' \in Seq(AllTroubles)
    BY <1>5, TroubleGrows DEF Release, ReleaseFails, Shape
  <2> QED BY <1>5, <2>1, <2>3, <2>4, LeaveShape DEF Release, ReleaseFails, Shape
<1>6. ASSUME NEW r \in Refreshes, Cancel(r) PROVE Shape'
  <2>1. mine[r] \in Refreshes /\ home[r] \in Backends
    BY <1>6, Active DEF Cancel
  <2>2. trouble' \in Seq(AllTroubles)
    BY <1>6, TroubleGrows DEF Cancel, Shape
  <2>3. ghosts' \subseteq GhostOp
    BY <1>6, CancelSends
  <2>4. op' \in [Threads -> Op]
    BY <1>6, OpTypes, ThreadsAre DEF Cancel, Set, Shape
  <2> QED BY <1>6, <2>1, <2>2, <2>3, <2>4, LeaveShape DEF Cancel, Shape, storeVars
<1>7. ASSUME NEW t \in Threads, Steps(t) PROVE Shape'
  BY <1>7, ThreadSteps, ShapeOfTries, ShapeOfRenewals
<1>8. ASSUME NEW g \in ghosts, LandsLate(g) PROVE Shape'
  <2>1. g.by \in Backends /\ g.sent \in Nat
    BY DEF Shape, GhostOp
  <2>2. holder' \in Backends \cup {NoOne} /\ expires' \in Nat /\ overtaken' \subseteq Refreshes
    BY <1>8, <2>1, LandsShape DEF LandsLate
  <2> QED BY <1>8, <2>2 DEF LandsLate, Shape, localVars, askVars, leaseVars
<1>9. ASSUME NEW b \in Backends, Crash(b) PROVE Shape'
  <2>1. trouble' \in Seq(AllTroubles)
    BY <1>9, TroubleGrows DEF Crash, Shape
  <2>2. ghosts' \subseteq GhostOp
    BY <1>9, CrashSends DEF Shape
  <2>3. op' \in [Threads -> Op]
    BY <1>9, OpTypes DEF Crash, Shape
  <2> QED BY <1>9, <2>1, <2>2, <2>3 DEF Crash, Shape, Places, storeVars
<1>10. CASE Collected
  BY <1>10 DEF Collected, Shape, localVars, askVars, leaseVars
<1>11. CASE Tick
  <2>1. now' \in Nat /\ now' <= MaxTime
    BY <1>11, TickIs
  <2> QED BY <1>11, <2>1 DEF Tick, Shape, storeVars, localVars, askVars
<1> QED BY <1>1, <1>2, <1>3, <1>4, <1>5, <1>6, <1>7, <1>8, <1>9, <1>10, <1>11 DEF Next

-----------------------------------------------------------------------------
(* The local locks                                                         *)

\* Steps that leave the local locks alone: a refresh past them stays there.
SameLocks ==
  /\ UNCHANGED <<entry, users, owner, mine, home, crashed>>
  /\ \A r \in Refreshes : pc'[r] = pc[r] \/ {pc[r], pc'[r]} \subseteq PastLocal

LEMMA SameLocksKeepLocal == ASSUME Local, SameLocks PROVE Local'
  BY DEF Local, SameLocks, PastLocal, Using

LEMMA TryLocks ==
  ASSUME Shape, Ops, NEW r \in Refreshes, TryStep(r)
  PROVE  SameLocks \/ (Leave(r) /\ TryOf(r).do # "none" /\ UNCHANGED crashed)
<1>1. TryOf(r) = op[<<r, "try">>] /\ (TryOf(r).do # "none" => pc[r] = "trying")
  BY DEF Ops, TryOf
<1>2. CASE Finds(<<r, "try">>) \/ SeesExpired(<<r, "try">>) \/ TriesAgain(r)
  BY <1>2 DEF Finds, SeesExpired, TriesAgain, Sends, Quiet, SameLocks, localVars, askVars
<1>3. CASE Hangs(<<r, "try">>) \/ Wake(<<r, "try">>)
  BY <1>3 DEF Hangs, Wake, SameLocks, localVars, askVars
<1>4. CASE GivesUp(r) \/ TryIsLost(r)
  BY <1>1, <1>4 DEF GivesUp, TryIsLost, RefusedBy, Quiet, InStore
<1>5. CASE TakesIt(r)
  <2>1. pc[r] = "trying"
    BY <1>1, <1>5 DEF TakesIt, GrantedBy
  <2> QED BY <1>5, <2>1 DEF TakesIt, Move, Quiet, SameLocks, PastLocal, Shape, localVars, askVars
<1> QED BY <1>2, <1>3, <1>4, <1>5 DEF TryStep

LEMMA RenewalLocks == ASSUME Shape, Ops, NEW r \in Refreshes, RenewalStep(r) PROVE SameLocks
<1>1. CASE Finds(<<r, "renewal">>) \/ SeesExpired(<<r, "renewal">>)
  BY <1>1 DEF Finds, SeesExpired, Sends, Quiet, SameLocks, localVars, askVars
<1>2. CASE Hangs(<<r, "renewal">>) \/ Wake(<<r, "renewal">>)
  BY <1>2 DEF Hangs, Wake, SameLocks, localVars, askVars
<1>3. ASSUME RenewalGoesOn(r) \/ RenewalEnds(r)
      PROVE  \A q \in Refreshes : pc'[q] = pc[q] \/ {pc[q], pc'[q]} \subseteq PastLocal
  BY <1>3 DEF RenewalGoesOn, RenewalEnds, Move, PastLocal, Shape
<1>4. CASE Renews(r) \/ LosesIt(r) \/ RenewalIsLost(r)
  BY <1>3, <1>4 DEF Renews, LosesIt, RenewalIsLost, Quiet, SameLocks, localVars, askVars
<1> QED BY <1>1, <1>2, <1>4 DEF RenewalStep

\* Who leaves frees what only it used, and its entry only as the last user.
LEMMA LeaveKeepsLocal ==
  ASSUME Shape, Local, NEW r \in Refreshes, pc[r] \notin {"idle", "over"}, Leave(r), UNCHANGED crashed
  PROVE  Local'
<1> DEFINE e == mine[r]
<1>1. e \in Refreshes /\ home[r] \in Backends /\ entry[home[r]] = e /\ NoOne \notin Refreshes
  BY Active, NamesAssumption
<1>2. /\ \A q \in Refreshes : pc'[q] = IF q = r THEN "over" ELSE pc[q]
      /\ \A q \in Refreshes : mine'[q] = IF q = r THEN NoOne ELSE mine[q]
      /\ \A q \in Refreshes : owner'[q] = IF q = e /\ owner[e] = r THEN NoOne ELSE owner[q]
      /\ \A q \in Refreshes : users'[q] = IF q = e THEN users[e] - 1 ELSE users[q]
      /\ entry' = IF users[e] = 1 THEN [entry EXCEPT ![home[r]] = NoOne] ELSE entry
      /\ home' = home
  BY <1>1 DEF Leave, Move, LastUser, Shape
<1>3. IsFiniteSet(Using(e)) /\ r \in Using(e)
  BY <1>1, NamesAssumption, FS_Subset DEF Using
<1>4. users[e] = 1 => Using(e) = {r}
  BY <1>1, <1>3, FS_Singleton DEF Local
<1> HIDE DEF e
<1>5. \A q \in Refreshes : mine'[q] = NoOne <=> pc'[q] \in {"idle", "over"}
  BY <1>2 DEF Local
<1>6. \A q \in Refreshes : home'[q] = NoOne <=> pc'[q] = "idle"
  BY <1>2 DEF Local
<1>7. \A q \in Refreshes : mine'[q] # NoOne => home'[q] \in Backends \ crashed' /\ entry'[home'[q]] = mine'[q]
  <2> SUFFICES ASSUME NEW q \in Refreshes, mine'[q] # NoOne
               PROVE  home'[q] \in Backends \ crashed' /\ entry'[home'[q]] = mine'[q]
    OBVIOUS
  <2>1. q # r /\ mine'[q] = mine[q] /\ home[q] \in Backends \ crashed /\ entry[home[q]] = mine[q]
    BY <1>2 DEF Local
  <2>2. CASE users[e] = 1
    <3>1. q \notin Using(e)
      BY <1>4, <2>1, <2>2
    <3>2. mine[q] # e
      BY <3>1 DEF Using
    <3> QED BY <1>1, <1>2, <2>1, <2>2, <3>2 DEF Shape
  <2>3. CASE users[e] # 1
    BY <1>2, <2>1, <2>3
  <2> QED BY <2>2, <2>3
<1>8. \A b \in Backends : entry'[b] # NoOne => home'[entry'[b]] = b
  BY <1>1, <1>2 DEF Local, Shape
<1>9. \A q \in Refreshes : pc'[q] \in PastLocal => owner'[mine'[q]] = q
  <2> SUFFICES ASSUME NEW q \in Refreshes, pc'[q] \in PastLocal PROVE owner'[mine'[q]] = q
    OBVIOUS
  <2>1. q # r /\ mine'[q] = mine[q] /\ pc[q] \in PastLocal
    BY <1>2 DEF PastLocal
  <2>2. owner[mine[q]] = q /\ mine[q] \in Refreshes
    BY <2>1 DEF Local, Shape, PastLocal
  <2> QED BY <1>2, <2>1, <2>2
<1>10. ASSUME NEW f \in Refreshes PROVE users'[f] = Cardinality(Using(f)')
  <2>1. CASE f = e
    <3>1. Using(f)' = Using(e) \ {r}
      BY <1>1, <1>2, <2>1 DEF Using
    <3>2. Cardinality(Using(e) \ {r}) = Cardinality(Using(e)) - 1
      BY <1>3, FS_RemoveElement
    <3> QED BY <1>1, <1>2, <2>1, <3>1, <3>2 DEF Local
  <2>2. CASE f # e
    <3>1. Using(f)' = Using(f)
      BY <1>1, <1>2, <2>2, mine[r] = e DEF Using, e
    <3> QED BY <1>2, <2>2, <3>1 DEF Local
  <2> QED BY <2>1, <2>2
<1> QED BY <1>5, <1>6, <1>7, <1>8, <1>9, <1>10 DEF Local

LEMMA AskKeepsLocal ==
  ASSUME Shape, Local, NEW r \in Refreshes, NEW b \in Backends, NEW w, Ask(r, b, w)
  PROVE  Local'
<1> DEFINE e == IF entry[b] = NoOne THEN r ELSE entry[b]
<1>1. e \in Refreshes /\ NoOne \notin Refreshes /\ NoOne \notin Backends
  BY NamesAssumption DEF Shape
<1>2. /\ pc[r] = "idle" /\ mine[r] = NoOne /\ home[r] = NoOne /\ b \notin crashed /\ crashed' = crashed
      /\ e = r \/ e = entry[b]
      /\ \A q \in Refreshes : pc'[q] = IF q = r THEN "local" ELSE pc[q]
      /\ \A q \in Refreshes : mine'[q] = IF q = r THEN e ELSE mine[q]
      /\ \A q \in Refreshes : home'[q] = IF q = r THEN b ELSE home[q]
      /\ \A q \in Refreshes : users'[q] = IF q = e THEN users[e] + 1 ELSE users[q]
      /\ \A c \in Backends : entry'[c] = IF c = b THEN e ELSE entry[c]
      /\ owner' = owner
  BY <1>1 DEF Ask, Counted, Move, Shape, Local
<1>3. entry[b] # NoOne => e = entry[b] /\ home[e] = b
  BY DEF Local
<1>4. entry[b] = NoOne => e = r
  OBVIOUS
<1> HIDE DEF e
<1>5. \A q \in Refreshes : mine'[q] = NoOne <=> pc'[q] \in {"idle", "over"}
  BY <1>1, <1>2 DEF Local
<1>6. \A q \in Refreshes : home'[q] = NoOne <=> pc'[q] = "idle"
  BY <1>1, <1>2 DEF Local
<1>7. \A q \in Refreshes : mine'[q] # NoOne => home'[q] \in Backends \ crashed' /\ entry'[home'[q]] = mine'[q]
  BY <1>1, <1>2, <1>3, <1>4 DEF Local
<1>8. \A c \in Backends : entry'[c] # NoOne => home'[entry'[c]] = c
  <2> SUFFICES ASSUME NEW c \in Backends, entry'[c] # NoOne PROVE home'[entry'[c]] = c
    OBVIOUS
  <2>1. CASE c = b
    BY <1>1, <1>2, <1>3, <1>4, <2>1
  <2>2. CASE c # b
    <3>1. entry'[c] = entry[c] /\ entry[c] \in Refreshes /\ home[entry[c]] = c
      BY <1>2, <2>2 DEF Local, Shape
    <3> QED BY <1>1, <1>2, <3>1
  <2> QED BY <2>1, <2>2
<1>9. \A q \in Refreshes : pc'[q] \in PastLocal => owner'[mine'[q]] = q
  BY <1>2 DEF Local, PastLocal
<1>10. ASSUME NEW f \in Refreshes PROVE users'[f] = Cardinality(Using(f)')
  <2>1. CASE f = e
    <3>1. Using(f)' = Using(e) \cup {r} /\ r \notin Using(e) /\ IsFiniteSet(Using(e))
      BY <1>1, <1>2, <2>1, NamesAssumption, FS_Subset DEF Using
    <3>2. Cardinality(Using(e) \cup {r}) = Cardinality(Using(e)) + 1
      BY <3>1, FS_AddElement
    <3> QED BY <1>1, <1>2, <2>1, <3>1, <3>2 DEF Local
  <2>2. CASE f # e
    <3>1. Using(f)' = Using(f)
      BY <1>1, <1>2, <2>2 DEF Using
    <3> QED BY <1>2, <2>2, <3>1 DEF Local
  <2> QED BY <2>1, <2>2
<1> QED BY <1>5, <1>6, <1>7, <1>8, <1>9, <1>10 DEF Local

\* A dead backend's entry was used by its own refreshes only.
LEMMA CrashKeepsLocal ==
  ASSUME Shape, Local, NEW b \in Backends, Crash(b) PROVE Local'
<1>1. /\ \A r \in Refreshes : pc'[r] = IF home[r] = b THEN "over" ELSE pc[r]
      /\ \A r \in Refreshes : mine'[r] = IF home[r] = b THEN NoOne ELSE mine[r]
      /\ \A r \in Refreshes : owner'[r] = IF home[r] = b THEN NoOne ELSE owner[r]
      /\ \A r \in Refreshes : users'[r] = IF home[r] = b THEN 0 ELSE users[r]
      /\ \A c \in Backends : entry'[c] = IF c = b THEN NoOne ELSE entry[c]
      /\ home' = home /\ crashed' = crashed \cup {b}
  BY DEF Crash, Shape
<1>2. NoOne \notin Refreshes /\ NoOne # b
  BY NamesAssumption
<1>3. \A r \in Refreshes : mine[r] # NoOne => mine[r] \in Refreshes /\ home[mine[r]] = home[r]
  BY DEF Local, Shape
<1>4. \A r \in Refreshes : mine'[r] = NoOne <=> pc'[r] \in {"idle", "over"}
  BY <1>1 DEF Local
<1>5. \A r \in Refreshes : home'[r] = NoOne <=> pc'[r] = "idle"
  BY <1>1, <1>2 DEF Local
<1>6. \A r \in Refreshes : mine'[r] # NoOne => home'[r] \in Backends \ crashed' /\ entry'[home'[r]] = mine'[r]
  BY <1>1 DEF Local
<1>7. \A c \in Backends : entry'[c] # NoOne => home'[entry'[c]] = c
  BY <1>1 DEF Local
<1>8. \A r \in Refreshes : pc'[r] \in PastLocal => owner'[mine'[r]] = r
  BY <1>1, <1>3 DEF Local, PastLocal
<1>9. ASSUME NEW e \in Refreshes PROVE users'[e] = Cardinality(Using(e)')
  <2>1. CASE home[e] = b
    <3>1. Using(e)' = {}
      BY <1>1, <1>2, <1>3, <2>1 DEF Using
    <3> QED BY <1>1, <2>1, <3>1, FS_EmptySet
  <2>2. CASE home[e] # b
    <3>1. Using(e)' = Using(e)
      BY <1>1, <1>2, <1>3, <2>2 DEF Using
    <3> QED BY <1>1, <2>2, <3>1 DEF Local
  <2> QED BY <2>1, <2>2
<1> QED BY <1>4, <1>5, <1>6, <1>7, <1>8, <1>9 DEF Local

LEMMA LocalStep == ASSUME Shape, Local, Ops, Next PROVE Local'
<1>1. ASSUME NEW r \in Refreshes, NEW b \in Backends, NEW w \in {0, Wait}, Ask(r, b, w) PROVE Local'
  BY <1>1, AskKeepsLocal
<1>2. ASSUME NEW r \in Refreshes, GetLocal(r) PROVE Local'
  <2>1. mine[r] \in Refreshes /\ owner[mine[r]] = NoOne /\ NoOne \notin Refreshes
    BY <1>2, Active, NamesAssumption DEF GetLocal, Free
  <2>2. /\ \A q \in Refreshes : pc'[q] = IF q = r THEN "trying" ELSE pc[q]
        /\ \A q \in Refreshes : owner'[q] = IF q = mine[r] THEN r ELSE owner[q]
        /\ UNCHANGED <<mine, home, entry, users, crashed>> /\ pc[r] = "local"
    BY <1>2 DEF GetLocal, Move, Shape, askVars
  <2>3. \A q \in Refreshes : pc'[q] \in PastLocal => owner'[mine'[q]] = q
    <3> SUFFICES ASSUME NEW q \in Refreshes, pc'[q] \in PastLocal PROVE owner'[mine'[q]] = q
      OBVIOUS
    <3>1. CASE q = r
      BY <2>1, <2>2, <3>1
    <3>2. CASE q # r
      <4>1. owner[mine[q]] = q /\ mine[q] \in Refreshes
        BY <2>2, <3>2, ZenonT(60) DEF Local, Shape, PastLocal
      <4> QED BY <2>1, <2>2, <3>2, <4>1
    <3> QED BY <3>1, <3>2
  <2>4. \A e \in Refreshes : Using(e)' = Using(e)
    BY <2>2 DEF Using
  <2> QED BY <2>2, <2>3, <2>4 DEF Local
<1>3. ASSUME NEW r \in Refreshes, LocalTimeout(r) \/ Release(r) \/ ReleaseFails(r) \/ Cancel(r) PROVE Local'
  BY <1>3, LeaveKeepsLocal DEF LocalTimeout, Release, ReleaseFails, Cancel
<1>4. ASSUME NEW r \in Refreshes, WorkDone(r) PROVE Local'
  <2>1. SameLocks
    BY <1>4 DEF WorkDone, Move, SameLocks, PastLocal, Shape, localVars, askVars
  <2> QED BY <2>1, SameLocksKeepLocal
<1>5. ASSUME NEW t \in Threads, Steps(t) PROVE Local'
  <2>1. PICK r \in Refreshes : TryStep(r) \/ RenewalStep(r)
    BY <1>5, ThreadSteps
  <2>2. TryOf(r).do # "none" => pc[r] \notin {"idle", "over"}
    BY DEF Ops
  <2> QED BY <2>1, <2>2, TryLocks, RenewalLocks, SameLocksKeepLocal, LeaveKeepsLocal
<1>6. ASSUME NEW g \in ghosts, LandsLate(g) PROVE Local'
  BY <1>6, SameLocksKeepLocal DEF LandsLate, SameLocks, localVars, askVars
<1>7. ASSUME NEW b \in Backends, Crash(b) PROVE Local'
  BY <1>7, CrashKeepsLocal
<1>8. CASE Collected \/ Tick
  BY <1>8, SameLocksKeepLocal DEF Collected, Tick, SameLocks, localVars, askVars
<1> QED BY <1>1, <1>2, <1>3, <1>4, <1>5, <1>6, <1>7, <1>8 DEF Next

-----------------------------------------------------------------------------
(* What is under way, and since when                                       *)

TryBecomes(r, o) == /\ \A q \in Refreshes : TryOf(q)' = IF q = r THEN o ELSE TryOf(q)
                    /\ \A q \in Refreshes : RenewalOf(q)' = RenewalOf(q)
RenewalBecomes(r, o) == /\ \A q \in Refreshes : TryOf(q)' = TryOf(q)
                        /\ \A q \in Refreshes : RenewalOf(q)' = IF q = r THEN o ELSE RenewalOf(q)
OpsStay == \A q \in Refreshes : TryOf(q)' = TryOf(q) /\ RenewalOf(q)' = RenewalOf(q)

LEMMA Becomes ==
  ASSUME Shape, NEW r \in Refreshes, NEW o
  PROVE  /\ op' = [op EXCEPT ![<<r, "try">>] = o] => TryBecomes(r, o)
         /\ op' = [op EXCEPT ![<<r, "renewal">>] = o] => RenewalBecomes(r, o)
         /\ op' = op => OpsStay
<1>1. \A q \in Refreshes : /\ <<q, "try">> \in Threads /\ <<q, "renewal">> \in Threads
                           /\ <<q, "try">> # <<r, "renewal">> /\ <<q, "renewal">> # <<r, "try">>
                           /\ q # r => <<q, "try">> # <<r, "try">> /\ <<q, "renewal">> # <<r, "renewal">>
  BY ThreadsAre
<1>2. CASE op' = [op EXCEPT ![<<r, "try">>] = o]
  <2>1. TryBecomes(r, o)
    BY <1>1, <1>2 DEF Shape, TryOf, RenewalOf, TryBecomes
  <2>2. op' = op => OpsStay
    BY DEF OpsStay, TryOf, RenewalOf
  <2>3. op' = [op EXCEPT ![<<r, "renewal">>] = o] => RenewalBecomes(r, o)
    BY <1>1 DEF Shape, TryOf, RenewalOf, RenewalBecomes
  <2> QED BY <2>1, <2>2, <2>3
<1>3. op' = [op EXCEPT ![<<r, "renewal">>] = o] => RenewalBecomes(r, o)
  BY <1>1 DEF Shape, TryOf, RenewalOf, RenewalBecomes
<1>4. op' = op => OpsStay
  BY DEF OpsStay, TryOf, RenewalOf
<1> QED BY <1>2, <1>3, <1>4

LEMMA LeaveMoves ==
  ASSUME Shape, NEW r \in Refreshes, Leave(r)
  PROVE  /\ \A q \in Refreshes : pc'[q] = IF q = r THEN "over" ELSE pc[q]
         /\ \A q \in Refreshes : due'[q] = IF q = r THEN 0 ELSE due[q]
         /\ \A q \in Refreshes : lease'[q] = IF q = r THEN 0 ELSE lease[q]
         /\ home' = home /\ lapsed' = lapsed \ {r}
  BY DEF Leave, Move, Shape

\* What each step of a try does to it, and to where its refresh is.
TryFinds(r) ==
  /\ Finds(<<r, "try">>) /\ TryOf(r).do = "find" /\ pc' = pc /\ due' = due
  /\ TryBecomes(r, [TryOf(r) EXCEPT !.do = "update"])
TrySees(r) ==
  /\ SeesExpired(<<r, "try">>) /\ TryOf(r).do = "find" /\ pc' = pc /\ due' = due
  /\ TryBecomes(r, [TryOf(r) EXCEPT !.do = "force", !.found = holder, !.saw = expires])
TryHangs(r) ==
  /\ Hangs(<<r, "try">>) /\ TryOf(r).do \in InStore /\ pc' = pc /\ due' = due
  /\ TryBecomes(r, [TryOf(r) EXCEPT !.do = "hung"])
TryWakes(r) ==
  /\ Wake(<<r, "try">>) /\ TryOf(r).do = "sleep" /\ pc' = pc /\ due' = due
  /\ TryBecomes(r, [NoOp EXCEPT !.do = "find", !.sent = now, !.due = TryUntil(r)])
TrySleeps(r) ==
  /\ TriesAgain(r) /\ pc' = pc /\ due' = due
  /\ \E o \in Op : o.do = "sleep" /\ now <= o.due /\ o.due <= due[r] /\ TryBecomes(r, o)
TryLeaves(r) == (GivesUp(r) \/ TryIsLost(r)) /\ Leave(r) /\ TryBecomes(r, NoOp)
TryTakes(r) ==
  /\ TakesIt(r) /\ TryOf(r).do \in {"update", "force"} /\ due' = due
  /\ \A q \in Refreshes : pc'[q] = IF q = r THEN "holding" ELSE pc[q]
  /\ \A q \in Refreshes : TryOf(q)' = IF q = r THEN NoOp ELSE TryOf(q)
  /\ \A q \in Refreshes : RenewalOf(q)' = IF q = r THEN Sleep(Every) ELSE RenewalOf(q)

LEMMA TryEffects ==
  ASSUME Shape, Ops, NEW r \in Refreshes, TryStep(r)
  PROVE  /\ pc[r] = "trying" /\ TryOf(r).do # "none" /\ now' = now /\ TryOf(r) \in Op
         /\ \/ TryFinds(r) \/ TrySees(r) \/ TryHangs(r) \/ TryWakes(r)
            \/ TrySleeps(r) \/ TryLeaves(r) \/ TryTakes(r)
<1>1. /\ op[<<r, "try">>] = TryOf(r) /\ TryOf(r) \in Op
      /\ <<r, "try">>[1] = r /\ <<r, "try">>[2] = "try"
  BY OpIn DEF TryOf
<1>2. TryOf(r).do # "none" => pc[r] = "trying"
  BY DEF Ops
<1>3. CASE Finds(<<r, "try">>)
  BY <1>1, <1>2, <1>3, Becomes DEF Finds, Sends, Quiet, askVars, TryFinds
<1>4. CASE SeesExpired(<<r, "try">>)
  BY <1>1, <1>2, <1>4, Becomes DEF SeesExpired, Sends, Quiet, askVars, TrySees
<1>5. CASE Hangs(<<r, "try">>)
  BY <1>1, <1>2, <1>5, Becomes DEF Hangs, Set, askVars, InStore, TryHangs
<1>6. CASE Wake(<<r, "try">>)
  BY <1>1, <1>2, <1>6, Becomes DEF Wake, Set, askVars, TryWakes
<1>7. CASE TriesAgain(r)
  BY <1>1, <1>2, <1>7, Becomes DEF TriesAgain, RefusedBy, Sends, Quiet, askVars, TrySleeps
<1>8. CASE GivesUp(r) \/ TryIsLost(r)
  <2>1. TryOf(r).do # "none" /\ now' = now /\ Leave(r) /\ op' = [op EXCEPT ![<<r, "try">>] = NoOp]
    BY <1>1, <1>8 DEF GivesUp, TryIsLost, RefusedBy, Quiet, InStore
  <2> QED BY <1>1, <1>2, <1>8, <2>1, Becomes DEF TryLeaves
<1>9. CASE TakesIt(r)
  <2>1. TryOf(r).do \in {"update", "force"} /\ now' = now /\ due' = due
    BY <1>1, <1>9 DEF TakesIt, GrantedBy, Quiet, askVars
  <2>2. \A q \in Refreshes : pc'[q] = IF q = r THEN "holding" ELSE pc[q]
    BY <1>9 DEF TakesIt, Move, Shape
  <2>3. op' = [[op EXCEPT ![<<r, "try">>] = NoOp] EXCEPT ![<<r, "renewal">>] = Sleep(Every)]
    BY <1>9 DEF TakesIt
  <2>4. /\ \A q \in Refreshes : TryOf(q)' = IF q = r THEN NoOp ELSE TryOf(q)
        /\ \A q \in Refreshes : RenewalOf(q)' = IF q = r THEN Sleep(Every) ELSE RenewalOf(q)
    BY <2>3, ThreadsAre DEF TryOf, RenewalOf, Shape
  <2> QED BY <1>1, <1>2, <1>9, <2>1, <2>2, <2>4 DEF TryTakes
<1> QED BY <1>3, <1>4, <1>5, <1>6, <1>7, <1>8, <1>9 DEF TryStep

\* And each step of a renewal.
RenewalFinds(r) ==
  /\ Finds(<<r, "renewal">>) /\ RenewalOf(r).do = "find" /\ pc' = pc
  /\ RenewalBecomes(r, [RenewalOf(r) EXCEPT !.do = "update"])
RenewalSees(r) ==
  /\ SeesExpired(<<r, "renewal">>) /\ RenewalOf(r).do = "find" /\ pc' = pc
  /\ RenewalBecomes(r, [RenewalOf(r) EXCEPT !.do = "force", !.found = holder, !.saw = expires])
RenewalHangs(r) ==
  /\ Hangs(<<r, "renewal">>) /\ RenewalOf(r).do \in InStore /\ pc' = pc
  /\ RenewalBecomes(r, [RenewalOf(r) EXCEPT !.do = "hung"])
RenewalWakes(r) ==
  /\ Wake(<<r, "renewal">>) /\ RenewalOf(r).do = "sleep" /\ pc' = pc
  /\ RenewalBecomes(r, [NoOp EXCEPT !.do = "find", !.sent = now, !.due = now + Every])
RenewalSleeps(r) ==
  /\ Renews(r) \/ RenewalIsLost(r)
  /\ pc[r] = "holding" /\ pc' = pc /\ RenewalBecomes(r, Sleep(Every))
RenewalIsOver(r) ==
  /\ Renews(r) \/ RenewalIsLost(r) \/ LosesIt(r)
  /\ LosesIt(r) \/ pc[r] # "holding"
  /\ \A q \in Refreshes : pc'[q] = IF q = r /\ pc[r] = "finishing" THEN "releasing" ELSE pc[q]
  /\ RenewalBecomes(r, NoOp)

LEMMA RenewalEffects ==
  ASSUME Shape, Ops, NEW r \in Refreshes, RenewalStep(r)
  PROVE  /\ pc[r] \in {"holding", "finishing", "over"} /\ RenewalOf(r).do # "none"
         /\ now' = now /\ due' = due /\ home' = home /\ RenewalOf(r) \in Op
         /\ \/ RenewalFinds(r) \/ RenewalSees(r) \/ RenewalHangs(r) \/ RenewalWakes(r)
            \/ RenewalSleeps(r) \/ RenewalIsOver(r)
<1>1. /\ op[<<r, "renewal">>] = RenewalOf(r) /\ RenewalOf(r) \in Op
      /\ <<r, "renewal">>[1] = r /\ <<r, "renewal">>[2] = "renewal"
  BY OpIn DEF RenewalOf
<1>2. RenewalOf(r).do # "none" => pc[r] \in {"holding", "finishing", "over"}
  BY DEF Ops
<1>3. CASE Finds(<<r, "renewal">>)
  BY <1>1, <1>2, <1>3, Becomes DEF Finds, Sends, Quiet, askVars, RenewalFinds
<1>4. CASE SeesExpired(<<r, "renewal">>)
  BY <1>1, <1>2, <1>4, Becomes DEF SeesExpired, Sends, Quiet, askVars, RenewalSees
<1>5. CASE Hangs(<<r, "renewal">>)
  BY <1>1, <1>2, <1>5, Becomes DEF Hangs, Set, askVars, InStore, RenewalHangs
<1>6. CASE Wake(<<r, "renewal">>)
  BY <1>1, <1>2, <1>6, Becomes DEF Wake, Set, askVars, RenewalWakes
<1>7. CASE Renews(r) \/ RenewalIsLost(r) \/ LosesIt(r)
  <2>1. RenewalOf(r).do # "none" /\ now' = now /\ due' = due /\ home' = home
    BY <1>1, <1>7 DEF Renews, RenewalIsLost, LosesIt, GrantedBy, RefusedBy, Quiet, InStore, askVars
  <2>2. ASSUME RenewalEnds(r)
        PROVE  /\ \A q \in Refreshes :
                    pc'[q] = IF q = r /\ pc[r] = "finishing" THEN "releasing" ELSE pc[q]
               /\ RenewalBecomes(r, NoOp)
    BY <2>2, Becomes DEF RenewalEnds, Set, Move, Shape
  <2>3. ASSUME pc[r] = "holding", RenewalGoesOn(r) PROVE pc' = pc /\ RenewalBecomes(r, Sleep(Every))
    BY <2>3, Becomes DEF RenewalGoesOn, Set
  <2>4. CASE LosesIt(r)
    BY <1>1, <1>2, <2>1, <2>2, <2>4 DEF LosesIt, RenewalIsOver
  <2>5. CASE Renews(r) \/ RenewalIsLost(r)
    <3>1. RenewalGoesOn(r)
      BY <2>5 DEF Renews, RenewalIsLost
    <3>2. pc[r] # "holding" => RenewalEnds(r)
      BY <3>1 DEF RenewalGoesOn
    <3> QED BY <1>1, <1>2, <2>1, <2>2, <2>3, <2>5, <3>1, <3>2 DEF RenewalIsOver, RenewalSleeps
  <2> QED BY <1>7, <2>4, <2>5
<1> QED BY <1>3, <1>4, <1>5, <1>6, <1>7 DEF RenewalStep

\* The fields of an operation that was changed.
LEMMA Fields ==
  ASSUME NEW o \in Op
  PROVE  /\ \A x : /\ [o EXCEPT !.do = x].do = x /\ [o EXCEPT !.do = x].sent = o.sent
                   /\ [o EXCEPT !.do = x].due = o.due /\ [o EXCEPT !.do = x].saw = o.saw
                   /\ [o EXCEPT !.do = x].found = o.found
         /\ \A h, e : LET f == [o EXCEPT !.do = "force", !.found = h, !.saw = e]
                      IN f.do = "force" /\ f.sent = o.sent /\ f.due = o.due /\ f.found = h /\ f.saw = e
         /\ NoOp.do = "none"
         /\ \A n : Sleep(n).do = "sleep" /\ Sleep(n).due = now + n
         /\ \A s, d : LET f == [NoOp EXCEPT !.do = "find", !.sent = s, !.due = d]
                      IN f.do = "find" /\ f.sent = s /\ f.due = d
  BY DEF Op, NoOp, Sleep

LEMMA TryKeepsOps == ASSUME Shape, Ops, NEW r \in Refreshes, TryStep(r) PROVE Ops'
<1>1. /\ pc[r] = "trying" /\ TryOf(r).do # "none" /\ now' = now /\ TryOf(r) \in Op
      /\ Timely(TryOf(r)) /\ now \in Nat /\ Latency \in Nat /\ Every \in Nat
  BY TryEffects, Times DEF Shape, Ops
<1>2. /\ \A q \in Refreshes : TryOf(q).do # "none" <=> pc[q] = "trying"
      /\ \A q \in Refreshes : RenewalOf(q).do # "none" => pc[q] \in {"holding", "finishing", "over"}
      /\ \A q \in Refreshes : Timely(TryOf(q)) /\ Timely(RenewalOf(q))
  BY DEF Ops
<1>3. ASSUME NEW o, TryBecomes(r, o), Timely(o), pc' = pc, o.do # "none" PROVE Ops'
  BY <1>1, <1>2, <1>3 DEF Ops, TryBecomes, Timely
<1>4. CASE TryFinds(r)
  <2>1. Timely([TryOf(r) EXCEPT !.do = "update"]) /\ [TryOf(r) EXCEPT !.do = "update"].do = "update"
    BY <1>1, <1>4, Fields DEF Timely, InStore, TryFinds
  <2> QED BY <1>3, <1>4, <2>1 DEF TryFinds
<1>5. CASE TrySees(r)
  <2>1. Timely([TryOf(r) EXCEPT !.do = "force", !.found = holder, !.saw = expires])
    BY <1>1, <1>5, Fields DEF Timely, InStore, TrySees
  <2> QED BY <1>1, <1>3, <1>5, <2>1, Fields, ZenonT(60) DEF TrySees
<1>6. CASE TryHangs(r)
  <2>1. Timely([TryOf(r) EXCEPT !.do = "hung"]) /\ [TryOf(r) EXCEPT !.do = "hung"].do = "hung"
    BY <1>1, <1>6, Fields DEF Timely, InStore, TryHangs
  <2> QED BY <1>3, <1>6, <2>1 DEF TryHangs
<1>7. CASE TryWakes(r)
  <2>1. Timely([NoOp EXCEPT !.do = "find", !.sent = now, !.due = TryUntil(r)])
    BY <1>1 DEF Timely, InStore, NoOp
  <2> QED BY <1>1, <1>3, <1>7, <2>1, Fields DEF TryWakes
<1>8. CASE TrySleeps(r)
  BY <1>3, <1>8 DEF TrySleeps, Timely, InStore
<1>9. CASE TryLeaves(r)
  <2>1. Timely(NoOp) /\ NoOp.do = "none"
    BY DEF Timely, InStore, NoOp
  <2>2. TryBecomes(r, NoOp) /\ \A q \in Refreshes : pc'[q] = IF q = r THEN "over" ELSE pc[q]
    BY <1>9, LeaveMoves DEF TryLeaves
  <2> QED BY <1>1, <1>2, <2>1, <2>2 DEF Ops, TryBecomes, Timely
<1>10. CASE TryTakes(r)
  <2>1. Timely(NoOp) /\ NoOp.do = "none" /\ Timely(Sleep(Every)) /\ Sleep(Every).do = "sleep"
    BY <1>1, Fields DEF Timely, InStore
  <2> QED BY <1>1, <1>2, <1>10, <2>1 DEF Ops, TryTakes, Timely
<1> QED BY <1>4, <1>5, <1>6, <1>7, <1>8, <1>9, <1>10, TryEffects

LEMMA RenewalKeepsOps == ASSUME Shape, Ops, NEW r \in Refreshes, RenewalStep(r) PROVE Ops'
<1>1. /\ pc[r] \in {"holding", "finishing", "over"} /\ RenewalOf(r).do # "none"
      /\ now' = now /\ RenewalOf(r) \in Op
      /\ Timely(RenewalOf(r)) /\ now \in Nat /\ Latency \in Nat /\ Every \in Nat
  BY RenewalEffects, Times DEF Shape, Ops
<1>2. /\ \A q \in Refreshes : TryOf(q).do # "none" <=> pc[q] = "trying"
      /\ \A q \in Refreshes : RenewalOf(q).do # "none" => pc[q] \in {"holding", "finishing", "over"}
      /\ \A q \in Refreshes : Timely(TryOf(q)) /\ Timely(RenewalOf(q))
  BY DEF Ops
<1>3. ASSUME NEW o, RenewalBecomes(r, o), Timely(o), pc' = pc PROVE Ops'
  BY <1>1, <1>2, <1>3 DEF Ops, RenewalBecomes, Timely
<1>4. CASE RenewalFinds(r)
  <2>1. Timely([RenewalOf(r) EXCEPT !.do = "update"])
    BY <1>1, <1>4, Fields DEF Timely, InStore, RenewalFinds
  <2> QED BY <1>3, <1>4, <2>1 DEF RenewalFinds
<1>5. CASE RenewalSees(r)
  <2>1. Timely([RenewalOf(r) EXCEPT !.do = "force", !.found = holder, !.saw = expires])
    BY <1>1, <1>5, Fields DEF Timely, InStore, RenewalSees
  <2> QED BY <1>3, <1>5, <2>1 DEF RenewalSees
<1>6. CASE RenewalHangs(r)
  <2>1. Timely([RenewalOf(r) EXCEPT !.do = "hung"])
    BY <1>1, <1>6, Fields DEF Timely, InStore, RenewalHangs
  <2> QED BY <1>3, <1>6, <2>1 DEF RenewalHangs
<1>7. CASE RenewalWakes(r)
  <2>1. Timely([NoOp EXCEPT !.do = "find", !.sent = now, !.due = now + Every])
    BY <1>1 DEF Timely, InStore, NoOp
  <2> QED BY <1>3, <1>7, <2>1 DEF RenewalWakes
<1>8. CASE RenewalSleeps(r)
  <2>1. Timely(Sleep(Every))
    BY <1>1, Fields DEF Timely, InStore
  <2> QED BY <1>3, <1>8, <2>1 DEF RenewalSleeps
<1>9. CASE RenewalIsOver(r)
  <2>1. Timely(NoOp) /\ NoOp.do = "none"
    BY DEF Timely, InStore, NoOp
  <2> QED BY <1>1, <1>2, <1>9, <2>1 DEF Ops, RenewalIsOver, RenewalBecomes, Timely
<1> QED BY <1>4, <1>5, <1>6, <1>7, <1>8, <1>9, RenewalEffects

LEMMA DeadIsOver ==
  ASSUME Shape, NEW b \in Backends, Crash(b)
  PROVE  /\ \A q \in Refreshes : pc'[q] = IF home[q] = b THEN "over" ELSE pc[q]
         /\ \A q \in Refreshes : TryOf(q)' = IF home[q] = b THEN NoOp ELSE TryOf(q)
         /\ \A q \in Refreshes : RenewalOf(q)' = IF home[q] = b THEN NoOp ELSE RenewalOf(q)
         /\ \A q \in Refreshes : due'[q] = IF home[q] = b THEN 0 ELSE due[q]
         /\ \A q \in Refreshes : lease'[q] = IF home[q] = b THEN 0 ELSE lease[q]
         /\ now' = now /\ home' = home /\ holder' = holder /\ expires' = expires /\ overtaken' = overtaken
         /\ crashed' = crashed \cup {b} /\ Trouble("crash")
         /\ lapsed' = lapsed \ {q \in Refreshes : home[q] = b}
  BY ThreadsAre DEF Crash, Shape, TryOf, RenewalOf, storeVars

\* A refresh whose turn has come sends its first try.
FirstTry(r) == [NoOp EXCEPT !.do = "find", !.sent = now, !.due = TryUntil(r)]
LEMMA TurnComes ==
  ASSUME Shape, NEW r \in Refreshes, GetLocal(r)
  PROVE  /\ pc[r] = "local" /\ \A q \in Refreshes : pc'[q] = IF q = r THEN "trying" ELSE pc[q]
         /\ TryBecomes(r, FirstTry(r)) /\ UNCHANGED <<now, storeVars, ghosts, crashed, home, due, lease, lapsed, trouble>>
         /\ FirstTry(r).do = "find" /\ FirstTry(r).sent = now /\ FirstTry(r).due = TryUntil(r)
<1>1. pc[r] = "local" /\ \A q \in Refreshes : pc'[q] = IF q = r THEN "trying" ELSE pc[q]
  BY DEF GetLocal, Move, Shape
<1>2. op' = [op EXCEPT ![<<r, "try">>] = FirstTry(r)]
  BY DEF GetLocal, FirstTry
<1>3. UNCHANGED <<now, storeVars, ghosts, crashed, home, due, lease, lapsed, trouble>>
  BY DEF GetLocal, askVars, leaseVars
<1>4. FirstTry(r).do = "find" /\ FirstTry(r).sent = now /\ FirstTry(r).due = TryUntil(r)
  BY DEF FirstTry, NoOp
<1> QED BY <1>1, <1>2, <1>3, <1>4, Becomes

\* The hold is over: a renewal that sleeps is, too.
LEMMA HoldEnds ==
  ASSUME Shape, NEW r \in Refreshes, WorkDone(r)
  PROVE  /\ pc[r] = "holding" /\ UNCHANGED <<now, storeVars, ghosts, crashed, home, due, lease, lapsed, trouble>>
         /\ \/ /\ RenewalOf(r).do \notin {"none", "sleep"} /\ OpsStay
               /\ \A q \in Refreshes : pc'[q] = IF q = r THEN "finishing" ELSE pc[q]
            \/ /\ RenewalOf(r).do \in {"none", "sleep"} /\ RenewalBecomes(r, NoOp)
               /\ \A q \in Refreshes : pc'[q] = IF q = r THEN "releasing" ELSE pc[q]
<1>1. pc[r] = "holding" /\ UNCHANGED <<now, storeVars, ghosts, crashed, home, due, lease, lapsed, trouble>>
  BY DEF WorkDone, askVars, leaseVars
<1>2. CASE UnderWay(r)
  <2>1. \A q \in Refreshes : pc'[q] = IF q = r THEN "finishing" ELSE pc[q]
    BY <1>2 DEF WorkDone, Awaited, Move, Shape
  <2>2. op' = [op EXCEPT ![<<r, "renewal">>] = op[<<r, "renewal">>]]
    BY <1>2 DEF WorkDone, Set
  <2>3. op' = op
    BY <2>2, ThreadsAre DEF Shape
  <2> QED BY <1>1, <1>2, <2>1, <2>3, Becomes DEF UnderWay, RenewalOf
<1>3. CASE ~UnderWay(r)
  <2>1. \A q \in Refreshes : pc'[q] = IF q = r THEN "releasing" ELSE pc[q]
    BY <1>3 DEF WorkDone, Awaited, Move, Shape
  <2>2. op' = [op EXCEPT ![<<r, "renewal">>] = NoOp]
    BY <1>3 DEF WorkDone, Set
  <2> QED BY <1>1, <1>3, <2>1, <2>2, Becomes DEF UnderWay, RenewalOf
<1> QED BY <1>2, <1>3

\* The other ways out: a local lock that did not come, a release, a cancellation.
WaysOut(r) == LocalTimeout(r) \/ Release(r) \/ ReleaseFails(r) \/ Cancel(r)
LEMMA GoesOut ==
  ASSUME Shape, Ops, NEW r \in Refreshes, WaysOut(r)
  PROVE  /\ pc[r] \notin {"idle", "over", "holding"} /\ Leave(r)
         /\ \E o : o.do = "none" /\ TryBecomes(r, o)
         /\ now' = now /\ crashed' = crashed
<1>1. pc[r] \notin {"idle", "over", "holding"} /\ Leave(r) /\ now' = now /\ crashed' = crashed
  BY DEF WaysOut, LocalTimeout, Release, ReleaseFails, Cancel
<1>2. CASE Cancel(r)
  <2>1. TryBecomes(r, NoOp) /\ NoOp.do = "none"
    BY <1>2, Becomes DEF Cancel, Set, NoOp
  <2> QED BY <1>1, <2>1
<1>3. CASE LocalTimeout(r) \/ Release(r) \/ ReleaseFails(r)
  <2>1. pc[r] # "trying" /\ op' = op
    BY <1>3 DEF LocalTimeout, Release, ReleaseFails
  <2>2. TryOf(r).do = "none" /\ OpsStay
    BY <2>1, Becomes DEF Ops
  <2>3. TryBecomes(r, TryOf(r))
    BY <2>2 DEF OpsStay, TryBecomes
  <2> QED BY <1>1, <2>2, <2>3
<1> QED BY <1>2, <1>3 DEF WaysOut

LEMMA OpsStep == ASSUME Shape, Local, Ops, Next PROVE Ops'
<1>1. /\ \A q \in Refreshes : TryOf(q).do # "none" <=> pc[q] = "trying"
      /\ \A q \in Refreshes : RenewalOf(q).do # "none" => pc[q] \in {"holding", "finishing", "over"}
      /\ \A q \in Refreshes : Timely(TryOf(q)) /\ Timely(RenewalOf(q))
      /\ now \in Nat /\ Latency \in Nat /\ NoOp.do = "none"
  BY Times DEF Ops, Shape, NoOp
<1>2. ASSUME NEW r \in Refreshes, NEW b \in Backends, NEW w \in {0, Wait}, Ask(r, b, w) PROVE Ops'
  <2>1. pc[r] = "idle" /\ now' = now /\ OpsStay /\ \A q \in Refreshes : pc'[q] = IF q = r THEN "local" ELSE pc[q]
    BY <1>2, Becomes DEF Ask, Move, Shape
  <2> QED BY <1>1, <2>1 DEF Ops, OpsStay, Timely
<1>3. ASSUME NEW r \in Refreshes, GetLocal(r) PROVE Ops'
  <2>1. now' = now /\ Timely(FirstTry(r)) /\ FirstTry(r).do = "find"
    BY <1>1, <1>3, TurnComes DEF Timely, InStore
  <2> QED BY <1>1, <1>3, <2>1, TurnComes DEF Ops, TryBecomes, Timely
<1>4. ASSUME NEW r \in Refreshes, WaysOut(r) PROVE Ops'
  <2>1. PICK o : o.do = "none" /\ TryBecomes(r, o)
    BY <1>4, GoesOut
  <2>2. \A q \in Refreshes : pc'[q] = IF q = r THEN "over" ELSE pc[q]
    BY <1>4, GoesOut, LeaveMoves
  <2>3. now' = now /\ Timely(o)
    BY <1>4, <2>1, GoesOut DEF Timely, InStore
  <2> QED BY <1>1, <2>1, <2>2, <2>3 DEF Ops, TryBecomes, Timely
<1>5. ASSUME NEW r \in Refreshes, WorkDone(r) PROVE Ops'
  <2>1. Timely(NoOp) /\ now' = now
    BY <1>1, <1>5, HoldEnds DEF Timely, InStore
  <2> QED BY <1>1, <1>5, <2>1, HoldEnds DEF Ops, OpsStay, RenewalBecomes, Timely
<1>6. ASSUME NEW t \in Threads, Steps(t) PROVE Ops'
  BY <1>6, ThreadSteps, TryKeepsOps, RenewalKeepsOps
<1>7. ASSUME NEW b \in Backends, Crash(b) PROVE Ops'
  <2>1. Timely(NoOp) /\ now' = now
    BY <1>1, <1>7, DeadIsOver DEF Timely, InStore
  <2> QED BY <1>1, <1>7, <2>1, DeadIsOver DEF Ops, Timely
<1>8. ASSUME \/ Collected
             \/ \E g \in ghosts : LandsLate(g)
      PROVE  Ops'
  BY <1>1, <1>8 DEF Collected, LandsLate, Ops, TryOf, RenewalOf, Timely
<1>9. CASE Tick
  <2>1. pc' = pc /\ OpsStay /\ now' \in {now, now + 1}
    BY <1>9, Becomes, TickIs DEF Tick, OpsStay, TryOf, RenewalOf
  <2>2. ASSUME NEW t \in Threads
        PROVE  /\ op[t].do \in InStore => ~(now >= op[t].sent + Latency)
               /\ op[t].do = "sleep" => ~(now >= op[t].due)
    BY <1>9 DEF Tick, ThreadDue
  <2>3. ASSUME NEW q \in Refreshes
        PROVE  Timely(TryOf(q))' /\ Timely(RenewalOf(q))'
    <3>1. /\ TryOf(q).do \in InStore => ~(now >= TryOf(q).sent + Latency)
          /\ TryOf(q).do = "sleep" => ~(now >= TryOf(q).due)
          /\ RenewalOf(q).do \in InStore => ~(now >= RenewalOf(q).sent + Latency)
          /\ RenewalOf(q).do = "sleep" => ~(now >= RenewalOf(q).due)
      BY <2>2, ThreadsAre DEF TryOf, RenewalOf
    <3>2. /\ TryOf(q).sent \in Nat /\ TryOf(q).due \in Nat
          /\ RenewalOf(q).sent \in Nat /\ RenewalOf(q).due \in Nat
      BY OpIn, OpTypes
    <3>3. TryOf(q)' = TryOf(q) /\ RenewalOf(q)' = RenewalOf(q)
      BY <2>1 DEF OpsStay
    <3> QED BY <1>1, <2>1, <3>1, <3>2, <3>3 DEF Timely
  <2> QED BY <1>1, <2>1, <2>3 DEF Ops, OpsStay
<1> QED BY <1>2, <1>3, <1>4, <1>5, <1>6, <1>7, <1>8, <1>9 DEF Next, WaysOut

-----------------------------------------------------------------------------
(* Everybody is answered in time                                           *)

\* A try within its wait.
TryInTime(o, until) ==
  /\ o.do \in InStore => o.sent <= until /\ o.due <= until + Try /\ o.sent + Latency <= o.due
  /\ o.do = "sleep" => o.due <= until
  /\ o.do = "hung" => now <= o.due /\ o.due <= until + Try

LEMMA InTimeIs == InTime <=> \A r \in Refreshes : /\ pc[r] = "local" => now <= due[r]
                                                  /\ TryInTime(TryOf(r), due[r])
  BY DEF InTime, TryInTime

LEMMA TryKeepsInTime == ASSUME Shape, Ops, InTime, NEW r \in Refreshes, TryStep(r) PROVE InTime'
<1>1. /\ pc[r] = "trying" /\ now' = now /\ TryOf(r) \in Op /\ Timely(TryOf(r)) /\ TryInTime(TryOf(r), due[r])
      /\ now \in Nat /\ Latency \in Nat /\ Try \in Nat /\ Latency <= Try /\ due[r] \in Nat
      /\ \A q \in Refreshes : (pc[q] = "local" => now <= due[q]) /\ TryInTime(TryOf(q), due[q])
  BY TryEffects, InTimeIs, Times DEF Shape, Ops
<1>2. TryOf(r).sent \in Nat /\ TryOf(r).due \in Nat
  BY <1>1, OpTypes
<1>3. ASSUME NEW o, TryBecomes(r, o), TryInTime(o, due[r]), pc' = pc, due' = due PROVE InTime'
  <2>1. \A q \in Refreshes : TryOf(q)' = IF q = r THEN o ELSE TryOf(q)
    BY <1>3 DEF TryBecomes
  <2> QED BY <1>1, <1>3, <2>1 DEF InTime, TryInTime
<1>4. CASE TryFinds(r)
  <2>1. TryInTime([TryOf(r) EXCEPT !.do = "update"], due[r])
    BY <1>1, <1>4, Fields DEF TryInTime, InStore, TryFinds
  <2> QED BY <1>3, <1>4, <2>1 DEF TryFinds
<1>5. CASE TrySees(r)
  <2>1. TryInTime([TryOf(r) EXCEPT !.do = "force", !.found = holder, !.saw = expires], due[r])
    BY <1>1, <1>5, Fields DEF TryInTime, InStore, TrySees
  <2> QED BY <1>3, <1>5, <2>1 DEF TrySees
<1>6. CASE TryHangs(r)
  <2>1. now <= TryOf(r).due /\ TryOf(r).due <= due[r] + Try
    BY <1>1, <1>2, <1>6 DEF TryInTime, Timely, TryHangs
  <2>2. TryInTime([TryOf(r) EXCEPT !.do = "hung"], due[r])
    BY <1>1, <2>1, Fields DEF TryInTime, InStore
  <2> QED BY <1>3, <1>6, <2>2 DEF TryHangs
<1>7. CASE TryWakes(r)
  <2>1. now <= due[r] /\ TryUntil(r) <= due[r] + Try /\ now + Latency <= TryUntil(r)
    BY <1>1, <1>2, <1>7, TryUntilIs DEF TryInTime, Timely, TryWakes
  <2>2. TryInTime([NoOp EXCEPT !.do = "find", !.sent = now, !.due = TryUntil(r)], due[r])
    BY <2>1 DEF TryInTime, InStore, NoOp
  <2> QED BY <1>3, <1>7, <2>2 DEF TryWakes
<1>8. CASE TrySleeps(r)
  BY <1>3, <1>8 DEF TrySleeps, TryInTime, InStore
<1>9. CASE TryLeaves(r)
  <2>1. TryBecomes(r, NoOp) /\ NoOp.do = "none"
    BY <1>9 DEF TryLeaves, NoOp
  <2>2. \A q \in Refreshes : /\ pc'[q] = IF q = r THEN "over" ELSE pc[q]
                             /\ due'[q] = IF q = r THEN 0 ELSE due[q]
    BY <1>9, LeaveMoves DEF TryLeaves
  <2> QED BY <1>1, <2>1, <2>2 DEF InTime, TryInTime, TryBecomes, InStore
<1>10. CASE TryTakes(r)
  <2>1. NoOp.do = "none"
    BY DEF NoOp
  <2> QED BY <1>1, <1>10, <2>1 DEF InTime, TryInTime, TryTakes, InStore
<1> QED BY <1>4, <1>5, <1>6, <1>7, <1>8, <1>9, <1>10, TryEffects

LEMMA RenewalKeepsTries ==
  ASSUME Shape, Ops, NEW r \in Refreshes, RenewalStep(r)
  PROVE  /\ \A q \in Refreshes : TryOf(q)' = TryOf(q) /\ (pc'[q] = "local" => pc[q] = "local")
         /\ now' = now /\ due' = due
<1>1. now' = now /\ due' = due
  BY RenewalEffects
<1>2. CASE RenewalFinds(r) \/ RenewalSees(r) \/ RenewalHangs(r) \/ RenewalWakes(r) \/ RenewalSleeps(r)
  BY <1>1, <1>2 DEF RenewalFinds, RenewalSees, RenewalHangs, RenewalWakes, RenewalSleeps, RenewalBecomes
<1>3. CASE RenewalIsOver(r)
  BY <1>1, <1>3 DEF RenewalIsOver, RenewalBecomes
<1> QED BY <1>2, <1>3, RenewalEffects

LEMMA InTimeStep == ASSUME Shape, Local, Ops, InTime, Next PROVE InTime'
<1>1. /\ now \in Nat /\ Latency \in Nat /\ Try \in Nat /\ Latency <= Try
      /\ \A q \in Refreshes : /\ pc[q] = "local" => now <= due[q]
                              /\ TryInTime(TryOf(q), due[q]) /\ due[q] \in Nat
  BY InTimeIs, Times DEF Shape
<1>2. ASSUME NEW r \in Refreshes, NEW b \in Backends, NEW w \in {0, Wait}, Ask(r, b, w) PROVE InTime'
  <2>1. /\ pc[r] = "idle" /\ now' = now /\ OpsStay /\ TryOf(r).do = "none" /\ w \in Nat
        /\ \A q \in Refreshes : pc'[q] = IF q = r THEN "local" ELSE pc[q]
        /\ \A q \in Refreshes : due'[q] = IF q = r THEN now + w ELSE due[q]
    <3>1. pc[r] = "idle" /\ now' = now /\ OpsStay /\ TryOf(r).do = "none" /\ w \in Nat
      <4>1. pc[r] = "idle" /\ now' = now /\ op' = op
        BY <1>2 DEF Ask
      <4>2. OpsStay
        BY <4>1, Becomes
      <4>3. TryOf(r).do = "none"
        BY <4>1 DEF Ops
      <4> QED BY <4>1, <4>2, <4>3, Times
    <3>2. /\ \A q \in Refreshes : pc'[q] = IF q = r THEN "local" ELSE pc[q]
          /\ \A q \in Refreshes : due'[q] = IF q = r THEN now + w ELSE due[q]
      BY <1>2 DEF Ask, Move, Shape
    <3> QED BY <3>1, <3>2
  <2> QED BY <1>1, <2>1 DEF InTime, TryInTime, OpsStay, InStore
<1>3. ASSUME NEW r \in Refreshes, GetLocal(r) PROVE InTime'
  <2>1. /\ now' = now /\ due' = due /\ now <= due[r] /\ TryBecomes(r, FirstTry(r)) /\ FirstTry(r).do = "find"
        /\ FirstTry(r).sent = now /\ FirstTry(r).due = TryUntil(r)
        /\ \A q \in Refreshes : pc'[q] = IF q = r THEN "trying" ELSE pc[q]
    BY <1>1, <1>3, TurnComes
  <2>2. TryInTime(FirstTry(r), due[r])
    BY <1>1, <2>1, TryUntilIs DEF TryInTime, InStore
  <2> QED BY <1>1, <2>1, <2>2 DEF InTime, TryInTime, TryBecomes
<1>4. ASSUME NEW r \in Refreshes, WaysOut(r) PROVE InTime'
  <2>1. PICK o : o.do = "none" /\ TryBecomes(r, o)
    BY <1>4, GoesOut
  <2>2. /\ now' = now /\ \A q \in Refreshes : pc'[q] = IF q = r THEN "over" ELSE pc[q]
        /\ \A q \in Refreshes : due'[q] = IF q = r THEN 0 ELSE due[q]
    BY <1>4, GoesOut, LeaveMoves
  <2> QED BY <1>1, <2>1, <2>2 DEF InTime, TryInTime, TryBecomes, InStore
<1>5. ASSUME NEW r \in Refreshes, WorkDone(r) PROVE InTime'
  <2>1. /\ now' = now /\ due' = due
        /\ \A q \in Refreshes : TryOf(q)' = TryOf(q) /\ (pc'[q] = "local" => pc[q] = "local")
    BY <1>5, HoldEnds DEF OpsStay, RenewalBecomes
  <2> QED BY <1>1, <2>1 DEF InTime, TryInTime
<1>6. ASSUME NEW t \in Threads, Steps(t) PROVE InTime'
  <2>1. PICK r \in Refreshes : TryStep(r) \/ RenewalStep(r)
    BY <1>6, ThreadSteps
  <2>2. CASE RenewalStep(r)
    BY <1>1, <2>2, RenewalKeepsTries DEF InTime, TryInTime
  <2> QED BY <2>1, <2>2, TryKeepsInTime
<1>7. ASSUME NEW b \in Backends, Crash(b) PROVE InTime'
  <2>1. NoOp.do = "none"
    BY DEF NoOp
  <2> QED BY <1>1, <1>7, <2>1, DeadIsOver DEF InTime, TryInTime, InStore
<1>8. ASSUME \/ Collected
             \/ \E g \in ghosts : LandsLate(g)
      PROVE  InTime'
  BY <1>1, <1>8 DEF Collected, LandsLate, InTime, TryOf, TryInTime, askVars
<1>9. CASE Tick
  <2>1. pc' = pc /\ OpsStay /\ now' \in {now, now + 1} /\ due' = due
    BY <1>9, Becomes, TickIs DEF Tick, OpsStay, TryOf, RenewalOf, askVars
  <2>2. ASSUME NEW q \in Refreshes
        PROVE  /\ pc[q] = "local" => ~(now >= due[q])
               /\ TryOf(q).do = "hung" => ~(now >= TryOf(q).due)
               /\ TryOf(q).due \in Nat
    BY <1>9, ThreadsAre, OpIn, OpTypes DEF Tick, Due, ThreadDue, TryOf
  <2> QED BY <1>1, <2>1, <2>2 DEF InTime, OpsStay, TryInTime
<1> QED BY <1>2, <1>3, <1>4, <1>5, <1>6, <1>7, <1>8, <1>9 DEF Next, WaysOut

-----------------------------------------------------------------------------
(* Calm: nothing but failed renewals and crashes                           *)

\* Troubles are not forgotten.
LEMMA TroublesStay ==
  ASSUME Shape, Ops, Next, NEW K
  PROVE  /\ OnlyHappened(K)' => OnlyHappened(K)
         /\ Len(trouble') <= 1 => Len(trouble) <= 1
         /\ crashed' # crashed => \E b \in Backends : Crash(b)
<1>1. ASSUME trouble' = trouble PROVE (OnlyHappened(K)' => OnlyHappened(K)) /\ (Len(trouble') <= 1 => Len(trouble) <= 1)
  BY <1>1 DEF OnlyHappened
<1>2. ASSUME NEW kind, Trouble(kind) PROVE (OnlyHappened(K)' => OnlyHappened(K)) /\ (Len(trouble') <= 1 => Len(trouble) <= 1)
  <2>1. /\ OnlyHappened(K)' => OnlyHappened(K) /\ kind \in K
        /\ Len(trouble') <= 1 => trouble = <<>> /\ trouble' = <<kind>>
    BY <1>2, TroubleGrows DEF Shape
  <2>2. trouble = <<>> => Len(trouble) <= 1
    OBVIOUS
  <2> QED BY <2>1, <2>2
<1>3. (trouble' = trouble \/ \E kind : Trouble(kind)) /\ (crashed' # crashed => \E b \in Backends : Crash(b))
  <2>1. ASSUME NEW t \in Threads, Steps(t) PROVE (trouble' = trouble \/ \E kind : Trouble(kind)) /\ crashed' = crashed
    <3>1. PICK r \in Refreshes : TryStep(r) \/ RenewalStep(r)
      BY <2>1, ThreadSteps
    <3>2. CASE TryStep(r)
      BY <3>2 DEF TryStep, Finds, SeesExpired, Hangs, Wake, TriesAgain, GivesUp, TakesIt, TryIsLost, Quiet
    <3>3. CASE RenewalStep(r)
      BY <3>3 DEF RenewalStep, Finds, SeesExpired, Hangs, Wake, Renews, LosesIt, RenewalIsLost, Quiet
    <3> QED BY <3>1, <3>2, <3>3
  <2>2. ASSUME NEW r \in Refreshes, GetLocal(r) \/ WaysOut(r) \/ WorkDone(r)
        PROVE (trouble' = trouble \/ \E kind : Trouble(kind)) /\ crashed' = crashed
    BY <2>2 DEF GetLocal, WaysOut, LocalTimeout, Release, ReleaseFails, Cancel, WorkDone
  <2>3. ASSUME NEW b \in Backends, Crash(b) PROVE \E kind : Trouble(kind)
    BY <2>3 DEF Crash
  <2>4. ASSUME \/ Collected \/ Tick
               \/ \E g \in ghosts : LandsLate(g)
               \/ \E r \in Refreshes, b \in Backends, w \in {0, Wait} : Ask(r, b, w)
        PROVE  trouble' = trouble /\ crashed' = crashed
    BY <2>4 DEF Collected, Tick, LandsLate, Ask
  <2> QED BY <2>1, <2>2, <2>3, <2>4 DEF Next, WaysOut
<1> QED BY <1>1, <1>2, <1>3

SameLeases == UNCHANGED <<lease, lapsed>>
Undisturbed == UNCHANGED <<now, ghosts, crashed, home>>

\* The steps of a try in the calm, with what they do to the document.
Finding(r) ==
  /\ TryFinds(r) /\ holder \in {NoOne, home[r]} /\ Lands(home[r], TryOf(r)) /\ SameLeases
Seeing(r) ==
  TrySees(r) /\ holder \notin {NoOne, home[r]} /\ expires < now /\ Stays /\ SameLeases
Waking(r) == TryWakes(r) /\ Stays /\ SameLeases
Sleeping(r) == TrySleeps(r) /\ TryOf(r).do # "update" /\ Stays /\ SameLeases
Leaving(r) == TryLeaves(r) /\ TryOf(r).do # "update" /\ Stays
Taking(r) ==
  /\ TryTakes(r) /\ Lands(home[r], TryOf(r)) /\ (TryOf(r).do = "force" => holder = TryOf(r).found)
  /\ \A q \in Refreshes : lease'[q] = IF q = r THEN TryOf(r).sent + TTL ELSE lease[q]
  /\ lapsed' = lapsed

LEMMA CalmTry ==
  ASSUME Shape, Ops, CalmOps, Calm, Calm', NEW r \in Refreshes, TryStep(r)
  PROVE  /\ Undisturbed /\ trouble' = trouble
         /\ \/ Finding(r) \/ Seeing(r) \/ Waking(r) \/ Sleeping(r) \/ Leaving(r) \/ Taking(r)
<1>1. /\ op[<<r, "try">>] = TryOf(r) /\ <<r, "try">>[1] = r /\ <<r, "try">>[2] = "try"
      /\ TryOf(r).do # "hung" /\ <<r, "try">> \in Threads
  BY ThreadsAre DEF TryOf, CalmOps, CalmOp
<1>2. ASSUME NEW kind, Trouble(kind) PROVE kind \in {"renewalFails", "crash"}
  BY <1>2, TroubleGrows DEF Shape, Calm
<1>3. CASE TryFinds(r)
  BY <1>1, <1>3 DEF TryFinds, Finds, Sends, Quiet, Finding, SameLeases, Undisturbed, leaseVars, askVars
<1>4. CASE TrySees(r)
  BY <1>1, <1>4 DEF TrySees, SeesExpired, Expired, Sends, Quiet, Seeing, SameLeases, Undisturbed, leaseVars, askVars
<1>5. CASE TryHangs(r)
  <2>1. KindOf(<<r, "try">>, "hangs") = "tryHangs"
    BY <1>1 DEF KindOf
  <2> QED BY <1>2, <1>5, <2>1 DEF TryHangs, Hangs
<1>6. CASE TryWakes(r)
  BY <1>1, <1>6 DEF TryWakes, Wake, Stays, Waking, SameLeases, Undisturbed, leaseVars, askVars
<1>7. CASE TrySleeps(r)
  <2>1. TryOf(r).do # "update"
    BY <1>1, <1>7 DEF TrySleeps, TriesAgain, RefusedBy
  <2> QED BY <1>7, <2>1 DEF TrySleeps, TriesAgain, Sends, Quiet, Sleeping, SameLeases, Undisturbed, leaseVars, askVars
<1>8. CASE TryLeaves(r)
  <2>1. GivesUp(r)
    BY <1>1, <1>2, <1>8 DEF TryLeaves, TryIsLost
  <2> QED BY <1>1, <1>8, <2>1, LeaveMoves DEF GivesUp, RefusedBy, Quiet, Leaving, Undisturbed, TryLeaves
<1>9. CASE TryTakes(r)
  <2>1. GrantedBy(<<r, "try">>) /\ Quiet /\ lapsed' = lapsed /\ home' = home
    BY <1>9 DEF TryTakes, TakesIt, askVars
  <2>2. \A q \in Refreshes : lease'[q] = IF q = r THEN TryOf(r).sent + TTL ELSE lease[q]
    BY <1>9 DEF TryTakes, TakesIt, Shape
  <2> QED BY <1>1, <1>9, <2>1, <2>2 DEF GrantedBy, Quiet, Undisturbed, Taking
<1> QED BY <1>3, <1>4, <1>5, <1>6, <1>7, <1>8, <1>9, TryEffects

\* The steps of a renewal in the calm.
GoesOn(r) == RenewalSleeps(r) \/ (RenewalIsOver(r) /\ pc[r] = "finishing")
RFinding(r) ==
  /\ RenewalFinds(r) /\ holder \in {NoOne, home[r]} /\ Lands(home[r], RenewalOf(r))
  /\ SameLeases /\ trouble' = trouble
RSeeing(r) ==
  /\ RenewalSees(r) /\ holder \notin {NoOne, home[r]} /\ expires < now /\ Stays
  /\ SameLeases /\ trouble' = trouble
RWaking(r) == RenewalWakes(r) /\ Stays /\ SameLeases /\ trouble' = trouble
Renewing(r) ==
  /\ GoesOn(r) /\ Lands(home[r], RenewalOf(r)) /\ RenewalOf(r).do \in {"update", "force"}
  /\ RenewalOf(r).do = "force" => holder = RenewalOf(r).found
  /\ \A q \in Refreshes : lease'[q] = IF q = r THEN RenewalOf(r).sent + TTL ELSE lease[q]
  /\ lapsed' = lapsed /\ trouble' = trouble
Losing(r) ==
  /\ RenewalIsOver(r) /\ Stays /\ SameLeases /\ trouble' = trouble
  /\ (RenewalOf(r).do = "find" /\ holder # home[r]) \/ (RenewalOf(r).do = "force")
Missing(r) ==
  /\ GoesOn(r) /\ RenewalOf(r).do \in InStore /\ Trouble("renewalFails")
  /\ Lands(home[r], RenewalOf(r)) \/ Stays
  /\ SameLeases

LEMMA CalmRenewal ==
  ASSUME Shape, Ops, CalmOps, Calm, Calm', NEW r \in Refreshes, RenewalStep(r)
  PROVE  /\ Undisturbed /\ pc[r] \in {"holding", "finishing"}
         /\ \/ RFinding(r) \/ RSeeing(r) \/ RWaking(r) \/ Renewing(r) \/ Losing(r) \/ Missing(r)
<1>1. /\ op[<<r, "renewal">>] = RenewalOf(r) /\ <<r, "renewal">>[1] = r /\ <<r, "renewal">>[2] = "renewal"
      /\ RenewalOf(r).do # "hung" /\ <<r, "renewal">> \in Threads
  BY ThreadsAre DEF RenewalOf, CalmOps, CalmOp
<1>2. ASSUME NEW kind, Trouble(kind) PROVE kind \in {"renewalFails", "crash"}
  BY <1>2, TroubleGrows DEF Shape, Calm
<1>3. pc[r] \in {"holding", "finishing"}
  BY RenewalEffects DEF CalmOps
<1>4. CASE RenewalFinds(r)
  BY <1>1, <1>3, <1>4 DEF RenewalFinds, Finds, Sends, Quiet, RFinding, SameLeases, Undisturbed, leaseVars, askVars
<1>5. CASE RenewalSees(r)
  BY <1>1, <1>3, <1>5
     DEF RenewalSees, SeesExpired, Expired, Sends, Quiet, RSeeing, SameLeases, Undisturbed, leaseVars, askVars
<1>6. CASE RenewalHangs(r)
  <2>1. KindOf(<<r, "renewal">>, "hangs") = "renewalHangs"
    BY <1>1 DEF KindOf
  <2> QED BY <1>2, <1>6, <2>1 DEF RenewalHangs, Hangs
<1>7. CASE RenewalWakes(r)
  BY <1>1, <1>3, <1>7 DEF RenewalWakes, Wake, Stays, RWaking, SameLeases, Undisturbed, leaseVars, askVars
<1>8. CASE RenewalSleeps(r) \/ RenewalIsOver(r)
  <2>1. CASE LosesIt(r)
    <3>1. RenewalIsOver(r)
      BY <2>1, Becomes DEF RenewalIsOver, LosesIt, RenewalEnds, Set, Move, Shape
    <3> QED BY <1>1, <1>3, <2>1, <3>1
            DEF LosesIt, Losing, RefusedBy, Quiet, SameLeases, Undisturbed, leaseVars, askVars
  <2>2. CASE Renews(r)
    <3>1. GoesOn(r)
      BY <1>3, <1>8, <2>2 DEF GoesOn, RenewalIsOver, LosesIt, Renews, RefusedBy, GrantedBy
    <3>2. lease' = [lease EXCEPT ![r] = RenewalOf(r).sent + TTL]
      BY <1>3, <2>2 DEF Renews
    <3>3. \A q \in Refreshes : lease'[q] = IF q = r THEN RenewalOf(r).sent + TTL ELSE lease[q]
      BY <3>2 DEF Shape
    <3> QED BY <1>1, <1>3, <2>2, <3>1, <3>3 DEF Renews, Renewing, GrantedBy, Quiet, Undisturbed, askVars
  <2>3. CASE RenewalIsLost(r) /\ ~LosesIt(r)
    <3>1. GoesOn(r)
      BY <1>3, <1>8, <2>3 DEF GoesOn, RenewalIsOver
    <3> QED BY <1>1, <1>3, <2>3, <3>1 DEF RenewalIsLost, Missing, Undisturbed, SameLeases, askVars, leaseVars
  <2> QED BY <1>8, <2>1, <2>2, <2>3 DEF RenewalSleeps, RenewalIsOver
<1> QED BY <1>4, <1>5, <1>6, <1>7, <1>8, RenewalEffects

\* The ways out in the calm.
LEMMA CalmOut ==
  ASSUME Shape, Ops, Calm, Calm', NEW r \in Refreshes, WaysOut(r)
  PROVE  /\ Undisturbed /\ trouble' = trouble /\ lapsed' = lapsed \ {r} /\ OpsStay
         /\ \A q \in Refreshes : pc'[q] = IF q = r THEN "over" ELSE pc[q]
         /\ \A q \in Refreshes : lease'[q] = IF q = r THEN 0 ELSE lease[q]
         /\ \/ pc[r] = "local" /\ Stays
            \/ pc[r] = "releasing" /\ Lands(home[r], Delete)
<1>1. ASSUME NEW kind, Trouble(kind) PROVE kind \in {"renewalFails", "crash"}
  BY <1>1, TroubleGrows DEF Shape, Calm
<1>2. LocalTimeout(r) \/ Release(r)
  BY <1>1 DEF WaysOut, Cancel, ReleaseFails
<1>3. Leave(r) /\ Undisturbed /\ trouble' = trouble
  BY <1>2 DEF LocalTimeout, Release, Undisturbed, Leave
<1>4. \/ pc[r] = "local" /\ Stays
      \/ pc[r] = "releasing" /\ Lands(home[r], Delete)
  BY <1>2 DEF LocalTimeout, Release, Stays
<1>5. OpsStay
  BY <1>2, Becomes DEF LocalTimeout, Release
<1> QED BY <1>3, <1>4, <1>5, LeaveMoves

LEMMA CalmOpsStep == ASSUME Shape, Local, Ops, CalmOps, Next PROVE CalmOps'
<1> SUFFICES ASSUME Calm'
             PROVE  /\ \A q \in Refreshes : RenewalOf(q)'.do # "none" => pc'[q] \in {"holding", "finishing"}
                    /\ \A q \in Refreshes : CalmOp(TryOf(q))' /\ CalmOp(RenewalOf(q))'
                    /\ \A g \in ghosts' : /\ g.do \in InStore /\ g.by \in crashed'
                                          /\ g.do = "force" => g.saw < now'
  BY DEF CalmOps
<1>1. Calm
  BY TroublesStay DEF Calm
<1>2. /\ \A q \in Refreshes : RenewalOf(q).do # "none" => pc[q] \in {"holding", "finishing"}
      /\ \A q \in Refreshes : CalmOp(TryOf(q)) /\ CalmOp(RenewalOf(q))
      /\ \A g \in ghosts : /\ g.do \in InStore /\ g.by \in crashed
                           /\ g.do = "force" => g.saw < now
      /\ now \in Nat /\ NoOp.do = "none"
  BY <1>1 DEF CalmOps, Shape, NoOp
<1> DEFINE Goal == /\ \A q \in Refreshes : RenewalOf(q)'.do # "none" => pc'[q] \in {"holding", "finishing"}
                   /\ \A q \in Refreshes : CalmOp(TryOf(q))' /\ CalmOp(RenewalOf(q))'
                   /\ \A g \in ghosts' : /\ g.do \in InStore /\ g.by \in crashed'
                                         /\ g.do = "force" => g.saw < now'
<1>3. ASSUME NEW r \in Refreshes, NEW b \in Backends, NEW w \in {0, Wait}, Ask(r, b, w) PROVE Goal
  <2>1. /\ pc[r] = "idle" /\ now' = now /\ ghosts' = ghosts /\ crashed' = crashed /\ op' = op
        /\ \A q \in Refreshes : pc'[q] = IF q = r THEN "local" ELSE pc[q]
    BY <1>3 DEF Ask, Move, Shape
  <2>2. OpsStay
    BY <2>1, Becomes
  <2> QED BY <1>2, <2>1, <2>2 DEF OpsStay, CalmOp
<1>4. ASSUME NEW r \in Refreshes, GetLocal(r) PROVE Goal
  BY <1>2, <1>4, TurnComes DEF TryBecomes, CalmOp
<1>5. ASSUME NEW r \in Refreshes, WaysOut(r) PROVE Goal
  BY <1>1, <1>2, <1>5, CalmOut DEF Undisturbed, OpsStay, CalmOp
<1>6. ASSUME NEW r \in Refreshes, WorkDone(r) PROVE Goal
  BY <1>2, <1>6, HoldEnds DEF OpsStay, RenewalBecomes, CalmOp
<1>7. ASSUME NEW r \in Refreshes, TryStep(r) PROVE Goal
  <2>1. Undisturbed /\ TryOf(r) \in Op /\ pc[r] = "trying"
    BY <1>1, <1>7, CalmTry, TryEffects
  <2>2. ASSUME NEW o, TryBecomes(r, o), CalmOp(o),
               \A q \in Refreshes : q # r => pc'[q] = pc[q]
        PROVE  Goal
    BY <1>2, <2>1, <2>2 DEF Undisturbed, TryBecomes, CalmOp
  <2>3. CASE Finding(r)
    <3>1. CalmOp([TryOf(r) EXCEPT !.do = "update"])
      BY <2>1, Fields DEF CalmOp
    <3> QED BY <2>2, <2>3, <3>1 DEF Finding, TryFinds
  <2>4. CASE Seeing(r)
    <3>1. CalmOp([TryOf(r) EXCEPT !.do = "force", !.found = holder, !.saw = expires])
      BY <2>1, <2>4, Fields DEF CalmOp, Seeing
    <3> QED BY <2>2, <2>4, <3>1 DEF Seeing, TrySees
  <2>5. CASE Waking(r)
    <3>1. CalmOp([NoOp EXCEPT !.do = "find", !.sent = now, !.due = TryUntil(r)])
      BY DEF CalmOp, NoOp
    <3> QED BY <2>2, <2>5, <3>1 DEF Waking, TryWakes
  <2>6. CASE Sleeping(r)
    BY <2>2, <2>6 DEF Sleeping, TrySleeps, CalmOp
  <2>7. CASE Leaving(r)
    <3>1. CalmOp(NoOp)
      BY DEF CalmOp, NoOp
    <3> QED BY <2>2, <2>7, <3>1, LeaveMoves DEF Leaving, TryLeaves
  <2>8. CASE Taking(r)
    <3>1. CalmOp(NoOp) /\ CalmOp(Sleep(Every))
      BY DEF CalmOp, NoOp, Sleep
    <3> QED BY <1>2, <2>1, <2>8, <3>1 DEF Undisturbed, Taking, TryTakes, CalmOp
  <2> QED BY <1>1, <1>7, <2>3, <2>4, <2>5, <2>6, <2>7, <2>8, CalmTry
<1>8. ASSUME NEW r \in Refreshes, RenewalStep(r) PROVE Goal
  <2>1. Undisturbed /\ RenewalOf(r) \in Op /\ pc[r] \in {"holding", "finishing"}
    BY <1>1, <1>8, CalmRenewal, RenewalEffects
  <2>2. ASSUME NEW o, RenewalBecomes(r, o), CalmOp(o),
               \A q \in Refreshes : pc'[q] = pc[q] \/ (q = r /\ o.do = "none")
        PROVE  Goal
    BY <1>2, <2>1, <2>2 DEF Undisturbed, RenewalBecomes, CalmOp
  <2>3. CASE RFinding(r)
    <3>1. CalmOp([RenewalOf(r) EXCEPT !.do = "update"])
      BY <2>1, Fields DEF CalmOp
    <3> QED BY <2>2, <2>3, <3>1 DEF RFinding, RenewalFinds
  <2>4. CASE RSeeing(r)
    <3>1. CalmOp([RenewalOf(r) EXCEPT !.do = "force", !.found = holder, !.saw = expires])
      BY <2>1, <2>4, Fields DEF CalmOp, RSeeing
    <3> QED BY <2>2, <2>4, <3>1 DEF RSeeing, RenewalSees
  <2>5. CASE RWaking(r)
    <3>1. CalmOp([NoOp EXCEPT !.do = "find", !.sent = now, !.due = now + Every])
      BY DEF CalmOp, NoOp
    <3> QED BY <2>2, <2>5, <3>1 DEF RWaking, RenewalWakes
  <2>6. CASE RenewalSleeps(r) \/ RenewalIsOver(r)
    <3>1. CalmOp(NoOp) /\ CalmOp(Sleep(Every)) /\ NoOp.do = "none"
      BY DEF CalmOp, NoOp, Sleep
    <3> QED BY <2>2, <2>6, <3>1 DEF RenewalSleeps, RenewalIsOver
  <2> QED BY <1>1, <1>8, <2>3, <2>4, <2>5, <2>6, CalmRenewal DEF Renewing, Losing, Missing, GoesOn
<1>9. ASSUME NEW b \in Backends, Crash(b) PROVE Goal
  <2>1. ASSUME NEW g \in ghosts' PROVE g.do \in InStore /\ g.by \in crashed' /\ (g.do = "force" => g.saw < now')
    <3>1. CASE g \in ghosts
      BY <1>2, <1>9, <3>1, DeadIsOver
    <3>2. CASE g \notin ghosts
      <4>1. PICK t \in DeadThreads(b) : g = GhostOf(t)
        BY <1>9, <3>2, CrashSends
      <4>2. t \in Threads /\ op[t].do \in InStore /\ g.by = b /\ g.do = op[t].do /\ g.saw = op[t].saw
        BY <1>9, <4>1, CrashSends
      <4>3. CalmOp(op[t])
        BY <1>2, <4>2, ThreadsAre DEF TryOf, RenewalOf
      <4> QED BY <1>9, <4>2, <4>3, DeadIsOver DEF CalmOp
    <3> QED BY <3>1, <3>2
  <2> QED BY <1>2, <1>9, <2>1, DeadIsOver DEF CalmOp
<1>10. ASSUME \/ Collected
              \/ \E g \in ghosts : LandsLate(g)
       PROVE  Goal
  BY <1>2, <1>10 DEF Collected, LandsLate, CalmOp, TryOf, RenewalOf
<1>11. ASSUME Tick PROVE Goal
  <2>1. OpsStay /\ pc' = pc /\ ghosts' = ghosts /\ crashed' = crashed /\ now' \in {now, now + 1}
    BY <1>11, Becomes, TickIs DEF Tick, OpsStay, TryOf, RenewalOf
  <2>2. \A q \in Refreshes : TryOf(q).saw \in Nat /\ RenewalOf(q).saw \in Nat
    BY OpIn, OpTypes
  <2>3. \A g \in ghosts : g.saw \in Nat
    BY DEF Shape, GhostOp
  <2> QED BY <1>2, <2>1, <2>2, <2>3 DEF OpsStay, CalmOp
<1> HIDE DEF Goal
<1>12. ASSUME NEW t \in Threads, Steps(t) PROVE Goal
  BY <1>7, <1>8, <1>12, ThreadSteps
<1>13. Goal
  BY <1>3, <1>4, <1>5, <1>6, <1>9, <1>10, <1>11, <1>12 DEF Next, WaysOut
<1> QED BY <1>13 DEF Goal

LEMMA NobodyDeadStep == ASSUME Shape, Ops, NobodyDead, Next PROVE NobodyDead'
<1> SUFFICES ASSUME OnlyHappened({"renewalFails"})' PROVE crashed' = {}
  BY DEF NobodyDead
<1>1. OnlyHappened({"renewalFails"})
  BY TroublesStay
<1>2. ASSUME NEW b \in Backends, Crash(b) PROVE FALSE
  BY <1>2, TroubleGrows, DeadIsOver DEF Shape
<1> QED BY <1>1, <1>2, TroublesStay DEF NobodyDead

-----------------------------------------------------------------------------
(* Whose document it is                                                    *)

LEMMA OneHolder == ASSUME Shape, Local PROVE OneHolderPerBackend
<1> SUFFICES ASSUME NEW r \in Refreshes, NEW q \in Refreshes,
                    pc[r] \in PastLocal, pc[q] \in PastLocal, home[r] = home[q]
             PROVE  r = q
  BY DEF OneHolderPerBackend
<1>1. pc[r] \notin {"idle", "over"} /\ pc[q] \notin {"idle", "over"}
  BY DEF PastLocal
<1>2. mine[r] = mine[q]
  BY <1>1, Active
<1> QED BY <1>2 DEF Local

LEMMA OwnersAre ==
  ASSUME Shape, Local, Ops, NEW r \in Refreshes, Owns(r)
  PROVE  pc[r] \in PastLocal /\ home[r] \in Backends /\ home[r] \notin crashed /\ home[r] # NoOne
<1>1. pc[r] \in PastLocal
  BY DEF Owns, Ops, PastLocal
<1>2. pc[r] \notin {"idle", "over"}
  BY <1>1 DEF PastLocal
<1> QED BY <1>1, <1>2, Active, NamesAssumption

\* What an operation leaves or makes of the document.
LEMMA LandsIs ==
  ASSUME NEW b, NEW o, Lands(b, o), o.do \in InStore
  PROVE  \/ holder' = holder /\ expires' = expires /\ overtaken' = overtaken
         \/ /\ holder' = b /\ expires' = o.sent + TTL
            /\ \/ o.do = "find" /\ holder = NoOne
               \/ o.do = "update" /\ holder = b
               \/ o.do = "force" /\ holder = o.found
  BY DEF Lands, InStore

LEMMA LandsTakes ==
  ASSUME NEW b, NEW o, Lands(b, o)
  PROVE  /\ o.do = "find" /\ holder = NoOne => holder' = b /\ expires' = o.sent + TTL
         /\ o.do = "update" /\ holder = b => holder' = b /\ expires' = o.sent + TTL
         /\ o.do = "force" /\ holder = o.found => holder' = b /\ expires' = o.sent + TTL
         /\ o.do \in {"find", "update"} => overtaken' = overtaken
         /\ o.do = "delete" /\ holder = b => holder' = NoOne
         /\ o.do = "delete" => expires' = expires /\ overtaken' = overtaken
         /\ o.do = "delete" /\ holder # b => holder' = holder
         /\ o.do = "find" /\ holder # NoOne => holder' = holder /\ expires' = expires
         /\ o.do = "update" /\ holder # b => holder' = holder /\ expires' = expires
  BY DEF Lands

LEMMA OwnedStep == ASSUME Shape, Local, Ops, CalmOps, Owned, Next PROVE Owned'
<1> SUFFICES ASSUME Calm', holder' # NoOne, holder' \notin crashed'
             PROVE  \E q \in Refreshes : Owns(q)' /\ home'[q] = holder'
  BY DEF Owned
<1>1. Calm
  BY TroublesStay DEF Calm
<1>2. ASSUME holder # NoOne, holder \notin crashed PROVE \E q \in Refreshes : Owns(q) /\ home[q] = holder
  BY <1>1, <1>2 DEF Owned
<1>3. ASSUME Stays, crashed' = crashed, home' = home,
             \A q \in Refreshes : Owns(q) => Owns(q)'
      PROVE  \E q \in Refreshes : Owns(q)' /\ home'[q] = holder'
  BY <1>2, <1>3 DEF Stays, storeVars
<1>4. ASSUME NEW r \in Refreshes, NEW b \in Backends, NEW w \in {0, Wait}, Ask(r, b, w)
      PROVE  \E q \in Refreshes : Owns(q)' /\ home'[q] = holder'
  <2>1. /\ pc[r] = "idle" /\ crashed' = crashed /\ Stays /\ op' = op
        /\ \A q \in Refreshes : pc'[q] = IF q = r THEN "local" ELSE pc[q]
        /\ \A q \in Refreshes : home'[q] = IF q = r THEN b ELSE home[q]
    BY <1>4 DEF Ask, Move, Shape, Stays
  <2>2. OpsStay /\ TryOf(r).do = "none"
    BY <2>1, Becomes DEF Ops
  <2>3. \A q \in Refreshes : Owns(q) => Owns(q)' /\ q # r
    BY <2>1, <2>2 DEF Owns, OpsStay
  <2> QED BY <1>2, <2>1, <2>3 DEF Stays, storeVars
<1>5. ASSUME NEW r \in Refreshes, GetLocal(r) PROVE \E q \in Refreshes : Owns(q)' /\ home'[q] = holder'
  <2>1. \A q \in Refreshes : Owns(q) => Owns(q)'
    BY <1>5, TurnComes DEF Owns, TryBecomes, Ops
  <2> QED BY <1>3, <1>5, <2>1, TurnComes DEF Stays
<1>6. ASSUME NEW r \in Refreshes, WaysOut(r) PROVE \E q \in Refreshes : Owns(q)' /\ home'[q] = holder'
  <2>1. \A q \in Refreshes \ {r} : Owns(q) => Owns(q)'
    BY <1>1, <1>6, CalmOut DEF Owns, OpsStay
  <2>2. crashed' = crashed /\ home' = home
    BY <1>1, <1>6, CalmOut DEF Undisturbed
  <2>3. CASE pc[r] = "local" /\ Stays
    <3>1. ~Owns(r)
      BY <2>3 DEF Owns, Ops
    <3> QED BY <1>3, <2>1, <2>2, <2>3, <3>1
  <2>4. CASE pc[r] = "releasing" /\ Lands(home[r], Delete)
    <3>1. Delete.do = "delete"
      BY DEF Delete, NoOp
    <3>2. holder # home[r] /\ holder' = holder
      BY <2>4, <3>1, LandsTakes
    <3> QED BY <1>2, <2>1, <2>2, <3>2
  <2> QED BY <1>1, <1>6, <2>3, <2>4, CalmOut
<1>7. ASSUME NEW r \in Refreshes, WorkDone(r) PROVE \E q \in Refreshes : Owns(q)' /\ home'[q] = holder'
  <2>1. \A q \in Refreshes : Owns(q) => Owns(q)'
    BY <1>7, HoldEnds DEF Owns, OpsStay, RenewalBecomes
  <2> QED BY <1>3, <1>7, <2>1, HoldEnds DEF Stays
<1>8. ASSUME NEW r \in Refreshes, TryStep(r) PROVE \E q \in Refreshes : Owns(q)' /\ home'[q] = holder'
  <2>1. /\ crashed' = crashed /\ home' = home /\ TryOf(r) \in Op /\ pc[r] = "trying"
    BY <1>1, <1>8, CalmTry, TryEffects DEF Undisturbed
  <2>2. ASSUME TryOf(r).do # "update" PROVE ~Owns(r)
    BY <2>1, <2>2 DEF Owns
  <2>3. CASE Finding(r)
    <3>1. [TryOf(r) EXCEPT !.do = "update"].do = "update"
      BY <2>1, Fields
    <3>2. Owns(r)'
      BY <2>3, <3>1 DEF Finding, TryFinds, TryBecomes, Owns
    <3>3. holder' = home[r]
      BY <2>3, LandsTakes DEF Finding, TryFinds
    <3> QED BY <2>1, <3>2, <3>3
  <2>4. CASE Seeing(r) \/ Waking(r) \/ Sleeping(r) \/ Leaving(r)
    <3>1. TryOf(r).do # "update" /\ Stays
      BY <2>4 DEF Seeing, Waking, Sleeping, Leaving, TrySees, TryWakes
    <3>2. \A q \in Refreshes \ {r} : TryOf(q)' = TryOf(q) /\ pc'[q] = pc[q]
      BY <2>4, LeaveMoves DEF Seeing, Waking, Sleeping, Leaving, TrySees, TryWakes, TrySleeps, TryLeaves, TryBecomes
    <3>3. \A q \in Refreshes : Owns(q) => Owns(q)'
      BY <2>2, <3>1, <3>2 DEF Owns
    <3> QED BY <1>3, <2>1, <3>1, <3>3
  <2>5. CASE Taking(r)
    <3>1. Owns(r)' /\ \A q \in Refreshes \ {r} : Owns(q) => Owns(q)'
      BY <2>5 DEF Taking, TryTakes, Owns
    <3>2. holder' = home[r] \/ (holder # home[r] /\ holder' = holder)
      BY <2>5, LandsTakes DEF Taking, TryTakes
    <3> QED BY <1>2, <2>1, <3>1, <3>2
  <2> QED BY <1>1, <1>8, <2>3, <2>4, <2>5, CalmTry
<1>9. ASSUME NEW r \in Refreshes, RenewalStep(r) PROVE \E q \in Refreshes : Owns(q)' /\ home'[q] = holder'
  <2>1. /\ crashed' = crashed /\ home' = home /\ pc[r] \in {"holding", "finishing"}
    BY <1>1, <1>9, CalmRenewal DEF Undisturbed
  <2>2. \A q \in Refreshes : TryOf(q)' = TryOf(q)
    BY <1>9, RenewalKeepsTries
  <2>3. \A q \in Refreshes : pc'[q] = pc[q] \/ (pc[q] = "finishing" /\ pc'[q] = "releasing")
    BY <1>9, RenewalEffects DEF RenewalFinds, RenewalSees, RenewalHangs, RenewalWakes, RenewalSleeps, RenewalIsOver
  <2>4. Owns(r)' /\ \A q \in Refreshes : Owns(q) => Owns(q)'
    BY <2>1, <2>2, <2>3 DEF Owns
  <2>5. holder' = home[r] \/ holder' = holder
    BY <1>1, <1>9, CalmRenewal, LandsIs
       DEF RFinding, RenewalFinds, RSeeing, RWaking, Renewing, Losing, Missing, Stays, storeVars, InStore
  <2> QED BY <1>2, <2>1, <2>4, <2>5
<1>10. ASSUME NEW g \in ghosts, LandsLate(g) PROVE \E q \in Refreshes : Owns(q)' /\ home'[q] = holder'
  <2>1. g.do \in InStore /\ g.by \in crashed
    BY <1>1 DEF CalmOps
  <2>2. /\ crashed' = crashed /\ home' = home /\ \A q \in Refreshes : Owns(q) => Owns(q)'
    BY <1>10 DEF LandsLate, Owns, TryOf, askVars
  <2>3. holder' = holder
    BY <1>10, <2>1, <2>2, LandsIs DEF LandsLate
  <2> QED BY <1>2, <2>2, <2>3
<1>11. ASSUME NEW b \in Backends, Crash(b) PROVE \E q \in Refreshes : Owns(q)' /\ home'[q] = holder'
  <2>1. \A q \in Refreshes : home[q] # b /\ Owns(q) => Owns(q)'
    BY <1>11, DeadIsOver DEF Owns
  <2> QED BY <1>2, <1>11, <2>1, DeadIsOver
<1>12. ASSUME Collected PROVE \E q \in Refreshes : Owns(q)' /\ home'[q] = holder'
  BY <1>12 DEF Collected
<1>13. ASSUME Tick PROVE \E q \in Refreshes : Owns(q)' /\ home'[q] = holder'
  <2>1. \A q \in Refreshes : Owns(q) => Owns(q)'
    BY <1>13 DEF Tick, Owns, TryOf
  <2> QED BY <1>3, <1>13, <2>1 DEF Tick, Stays, askVars
<1>14. ASSUME NEW t \in Threads, Steps(t) PROVE \E q \in Refreshes : Owns(q)' /\ home'[q] = holder'
  BY <1>8, <1>9, <1>14, ThreadSteps
<1> QED BY <1>4, <1>5, <1>6, <1>7, <1>10, <1>11, <1>12, <1>13, <1>14 DEF Next, WaysOut

-----------------------------------------------------------------------------
(* While the lease lasts                                                   *)

Covered(r) == (Holds(r) \/ TryOf(r).do = "update") /\ Safe(r)

LEMMA CoveredIs ==
  ASSUME Shape, Local, Ops, Leased, Calm, NEW r \in Refreshes, Covered(r)
  PROVE  holder = home[r] /\ holder # NoOne /\ holder \notin crashed /\ now < expires /\ pc[r] \in PastLocal
<1>1. pc[r] \in PastLocal /\ home[r] # NoOne /\ home[r] \notin crashed
  <2>1. Owns(r)
    BY DEF Covered, Holds, Owns
  <2> QED BY <2>1, OwnersAre
<1>2. LeasedTo(r) /\ now \in Nat /\ lease[r] \in Nat /\ expires \in Nat /\ TryOf(r).sent \in Nat
      /\ Latency \in Nat /\ TTL \in Nat /\ Latency < TTL
  BY OpIn, OpTypes, Times DEF Leased, Shape
<1>3. CASE Holds(r)
  BY <1>1, <1>2, <1>3 DEF LeasedTo, Covered
<1>4. CASE TryOf(r).do = "update"
  <2>1. now <= TryOf(r).sent + Latency
    BY <1>4 DEF Ops, Timely, InStore
  <2> QED BY <1>1, <1>2, <1>4, <2>1 DEF LeasedTo, Covered
<1> QED BY <1>3, <1>4 DEF Covered

\* No operation of another backend touches the document of a lease, but one
\* that forces it stale.
LEMMA Spared ==
  ASSUME Shape, Local, Ops, Leased, Calm, NEW b, NEW o, Lands(b, o), o.do \in InStore,
         o.do = "force" => o.saw < now,
         NEW r \in Refreshes, Covered(r), home[r] # b, r \notin overtaken'
  PROVE  holder' = holder /\ expires' = expires
<1>1. holder = home[r] /\ holder # NoOne /\ now < expires /\ pc[r] \in PastLocal
  BY CoveredIs
<1>2. ASSUME o.do = "force", holder = o.found PROVE FALSE
  <2>1. now \in Nat /\ expires \in Nat
    BY DEF Shape
  <2>2. expires # o.saw
    BY <1>1, <1>2, <2>1
  <2>3. overtaken' = overtaken \cup {q \in Refreshes : home[q] = holder /\ pc[q] \in PastLocal}
    BY <1>2, <2>2 DEF Lands
  <2> QED BY <1>1, <2>3
<1> QED BY <1>1, <1>2, LandsIs

LEMMA OthersLeased ==
  ASSUME Leased, Calm, now' = now, NEW q \in Refreshes, LeasedTo(q),
         pc'[q] = pc[q] \/ (pc'[q] # "holding" /\ TryOf(q).do # "update"),
         TryOf(q)' = TryOf(q), RenewalOf(q)' = RenewalOf(q),
         lease'[q] = lease[q], home'[q] = home[q],
         Safe(q)' => Safe(q),
         Covered(q) /\ Safe(q)' => holder' = holder /\ expires' = expires
  PROVE  LeasedTo(q)'
<1>1. CASE pc'[q] = pc[q]
  BY <1>1 DEF LeasedTo, Covered, Holds
<1>2. CASE pc'[q] # "holding" /\ TryOf(q).do # "update"
  BY <1>2 DEF LeasedTo, Holds
<1> QED BY <1>1, <1>2

LEMMA OvertakenGrows == ASSUME NEW b, NEW o, Lands(b, o) \/ Stays PROVE overtaken \subseteq overtaken'
  BY DEF Lands, Stays, storeVars

\* A try that looks for the document finds none, or another's: its own
\* backend's would be that of a refresh past the same local lock.
LEMMA FindsNone ==
  ASSUME Shape, Local, Ops, Owned, Calm, NEW r \in Refreshes,
         TryOf(r).do = "find", holder \in {NoOne, home[r]}
  PROVE  holder = NoOne
<1> SUFFICES ASSUME holder # NoOne PROVE FALSE
  OBVIOUS
<1>1. pc[r] = "trying" /\ holder = home[r]
  BY DEF Ops
<1>2. home[r] \notin crashed
  BY <1>1, Active
<1>3. PICK p \in Refreshes : Owns(p) /\ home[p] = holder
  BY <1>1, <1>2 DEF Owned
<1>4. pc[p] \in PastLocal /\ pc[r] \in PastLocal
  BY <1>1, <1>3, OwnersAre DEF PastLocal
<1>5. p = r
  BY <1>1, <1>3, <1>4, OneHolder DEF OneHolderPerBackend
<1> QED BY <1>1, <1>3, <1>5 DEF Owns

LEMMA TryKeepsLeases ==
  ASSUME Shape, Local, Ops, CalmOps, Owned, Leased, Calm, Calm', NEW r \in Refreshes, TryStep(r)
  PROVE  \A q \in Refreshes : LeasedTo(q)'
<1>1. /\ Undisturbed /\ now' = now /\ home' = home /\ TryOf(r) \in Op /\ pc[r] = "trying"
      /\ TryOf(r).do # "none" /\ home[r] # NoOne /\ CalmOp(TryOf(r)) /\ Timely(TryOf(r))
      /\ RenewalOf(r).do = "none"
  BY CalmTry, TryEffects, ThreadIsActive, NamesAssumption DEF Undisturbed, CalmOps, Ops
<1>2. /\ now \in Nat /\ TryOf(r).sent \in Nat /\ TTL \in Nat /\ Latency \in Nat /\ Latency < TTL
      /\ \A q \in Refreshes : LeasedTo(q)
  BY <1>1, OpTypes, Times DEF Shape, Leased
<1>3. \A q \in Refreshes : q # r /\ Covered(q) => home[q] # home[r]
  BY <1>1, CoveredIs, OneHolder DEF OneHolderPerBackend, PastLocal
<1>4. ASSUME NEW q \in Refreshes, q # r, Lands(home[r], TryOf(r)) \/ Stays, TryOf(r).do \in InStore \/ Stays,
             pc'[q] = pc[q], TryOf(q)' = TryOf(q), RenewalOf(q)' = RenewalOf(q), lease'[q] = lease[q],
             q \notin lapsed' => q \notin lapsed
      PROVE  LeasedTo(q)'
  <2>1. Safe(q)' => Safe(q)
    BY <1>4, OvertakenGrows DEF Safe
  <2>2. Covered(q) /\ Safe(q)' => holder' = holder /\ expires' = expires
    <3>1. CASE Stays
      BY <3>1 DEF Stays, storeVars
    <3>2. CASE ~Stays
      BY <1>1, <1>3, <1>4, <3>2, Spared DEF CalmOp, Safe
    <3> QED BY <3>1, <3>2
  <2> QED BY <1>1, <1>2, <1>4, <2>1, <2>2, OthersLeased
<1>5. CASE Finding(r)
  <2>1. Lands(home[r], TryOf(r)) /\ TryOf(r).do = "find" /\ pc' = pc /\ SameLeases
        /\ TryBecomes(r, [TryOf(r) EXCEPT !.do = "update"]) /\ holder = NoOne
    BY <1>5, FindsNone DEF Finding, TryFinds
  <2>2. \A q \in Refreshes \ {r} : LeasedTo(q)'
    BY <1>4, <2>1 DEF TryBecomes, SameLeases, InStore
  <2>3. TryOf(r)'.sent = TryOf(r).sent /\ holder' = home[r] /\ expires' = TryOf(r).sent + TTL
    <3>1. [TryOf(r) EXCEPT !.do = "update"].sent = TryOf(r).sent
      BY <1>1, Fields
    <3>2. TryOf(r)' = [TryOf(r) EXCEPT !.do = "update"]
      BY <2>1 DEF TryBecomes
    <3> QED BY <2>1, <3>1, <3>2, LandsTakes
  <2>4. pc'[r] # "holding"
    BY <1>1, <2>1
  <2>5. LeasedTo(r)'
    BY <1>1, <2>3, <2>4 DEF LeasedTo, Holds
  <2> QED BY <2>2, <2>5
<1>6. CASE Seeing(r) \/ Waking(r) \/ Sleeping(r) \/ Leaving(r)
  <2>1. Stays
    BY <1>6 DEF Seeing, Waking, Sleeping, Leaving
  <2>2. \A q \in Refreshes \ {r} : /\ TryOf(q)' = TryOf(q) /\ RenewalOf(q)' = RenewalOf(q)
                                   /\ pc'[q] = pc[q] /\ lease'[q] = lease[q]
                                   /\ q \notin lapsed' => q \notin lapsed
    <3>1. CASE Seeing(r) \/ Waking(r) \/ Sleeping(r)
      BY <3>1 DEF Seeing, Waking, Sleeping, TrySees, TryWakes, TrySleeps, TryBecomes, SameLeases
    <3>2. CASE Leaving(r)
      BY <3>2, LeaveMoves DEF Leaving, TryLeaves, TryBecomes
    <3> QED BY <1>6, <3>1, <3>2
  <2>3. TryOf(r)'.do # "update" /\ pc'[r] # "holding"
    <3>1. CASE Seeing(r)
      <4>1. [TryOf(r) EXCEPT !.do = "force", !.found = holder, !.saw = expires].do = "force"
        BY <1>1, Fields
      <4> QED BY <1>1, <3>1, <4>1 DEF Seeing, TrySees, TryBecomes
    <3>2. CASE Waking(r)
      <4>1. [NoOp EXCEPT !.do = "find", !.sent = now, !.due = TryUntil(r)].do = "find"
        BY DEF NoOp
      <4> QED BY <1>1, <3>2, <4>1 DEF Waking, TryWakes, TryBecomes
    <3>3. CASE Sleeping(r)
      BY <1>1, <3>3 DEF Sleeping, TrySleeps, TryBecomes
    <3>4. CASE Leaving(r)
      <4>1. NoOp.do = "none"
        BY DEF NoOp
      <4> QED BY <3>4, <4>1, LeaveMoves DEF Leaving, TryLeaves, TryBecomes
    <3> QED BY <1>6, <3>1, <3>2, <3>3, <3>4
  <2>4. LeasedTo(r)'
    BY <2>3 DEF LeasedTo, Holds
  <2> QED BY <1>4, <2>1, <2>2, <2>4
<1>7. CASE Taking(r)
  <2>1. /\ Lands(home[r], TryOf(r)) /\ TryOf(r).do \in InStore /\ TryOf(r).do \in {"update", "force"}
        /\ TryOf(r).do = "force" => holder = TryOf(r).found
        /\ lease'[r] = TryOf(r).sent + TTL /\ pc'[r] = "holding"
        /\ TryOf(r)' = NoOp /\ RenewalOf(r)' = Sleep(Every)
    BY <1>7 DEF Taking, TryTakes, InStore
  <2>2. \A q \in Refreshes \ {r} : LeasedTo(q)'
    BY <1>4, <1>7, <2>1 DEF Taking, TryTakes
  <2>3. NoOp.do = "none" /\ Sleep(Every).do = "sleep"
    BY DEF NoOp, Sleep
  <2>4. now <= TryOf(r).sent + Latency /\ TryOf(r).sent <= now
    BY <1>1, <2>1 DEF Timely
  <2>5. now < lease'[r] /\ lease'[r] <= now + TTL
    BY <1>2, <2>1, <2>4
  <2>6. Safe(r)' => holder' = home[r] /\ expires' = lease'[r]
    <3>1. CASE TryOf(r).do = "force"
      BY <2>1, <3>1, LandsTakes
    <3>2. CASE TryOf(r).do = "update"
      <4>1. Safe(r)' => Safe(r)
        BY <1>7, <2>1, OvertakenGrows DEF Safe, Taking
      <4>2. Safe(r) => holder = home[r]
        BY <1>2, <3>2 DEF LeasedTo
      <4> QED BY <2>1, <3>2, <4>1, <4>2, LandsTakes
    <3> QED BY <2>1, <3>1, <3>2
  <2>7. expires' \in Nat
    <3>1. expires' = expires \/ expires' = TryOf(r).sent + TTL
      BY <2>1, LandsIs
    <3> QED BY <1>2, <3>1 DEF Shape
  <2>8. LeasedTo(r)'
    BY <1>1, <1>2, <2>1, <2>3, <2>5, <2>6, <2>7 DEF LeasedTo, Holds, InStore
  <2> QED BY <2>2, <2>8
<1> QED BY <1>5, <1>6, <1>7, CalmTry

LEMMA RenewalKeepsLeases ==
  ASSUME Shape, Local, Ops, CalmOps, Owned, Leased, Calm, Calm', NEW r \in Refreshes, RenewalStep(r)
  PROVE  \A q \in Refreshes : LeasedTo(q)'
<1>1. /\ Undisturbed /\ now' = now /\ home' = home /\ RenewalOf(r) \in Op /\ pc[r] \in {"holding", "finishing"}
      /\ RenewalOf(r).do # "none" /\ home[r] # NoOne /\ CalmOp(RenewalOf(r)) /\ Timely(RenewalOf(r))
      /\ TryOf(r).do = "none" /\ TryOf(r)' = TryOf(r)
  BY CalmRenewal, RenewalEffects, RenewalKeepsTries, ThreadIsActive, NamesAssumption
     DEF Undisturbed, CalmOps, Ops
<1>2. /\ now \in Nat /\ RenewalOf(r).sent \in Nat /\ TTL \in Nat /\ Latency \in Nat /\ Latency < TTL
      /\ expires \in Nat /\ lease[r] \in Nat
      /\ \A q \in Refreshes : LeasedTo(q)
  BY <1>1, OpTypes, Times DEF Shape, Leased
<1>3. \A q \in Refreshes : q # r /\ Covered(q) => home[q] # home[r]
  BY <1>1, CoveredIs, OneHolder DEF OneHolderPerBackend, PastLocal
<1>4. lapsed' = lapsed /\ (Lands(home[r], RenewalOf(r)) \/ Stays) /\ (RenewalOf(r).do \in InStore \/ Stays)
  BY CalmRenewal
     DEF RFinding, RenewalFinds, RSeeing, RWaking, Renewing, Losing, Missing, SameLeases, InStore
<1>5. \A q \in Refreshes \ {r} : /\ pc'[q] = pc[q] /\ TryOf(q)' = TryOf(q) /\ RenewalOf(q)' = RenewalOf(q)
                                 /\ lease'[q] = lease[q]
  BY CalmRenewal
     DEF RFinding, RenewalFinds, RSeeing, RenewalSees, RWaking, RenewalWakes, Renewing, Losing, Missing,
         GoesOn, RenewalSleeps, RenewalIsOver, RenewalBecomes, SameLeases
<1>6. \A q \in Refreshes : Safe(q)' => Safe(q)
  BY <1>4, OvertakenGrows DEF Safe
<1>7. ASSUME NEW q \in Refreshes, q # r PROVE LeasedTo(q)'
  <2>1. Covered(q) /\ Safe(q)' => holder' = holder /\ expires' = expires
    <3>1. CASE Stays
      BY <3>1 DEF Stays, storeVars
    <3>2. CASE ~Stays
      BY <1>1, <1>3, <1>4, <1>7, <3>2, Spared DEF CalmOp, Safe
    <3> QED BY <3>1, <3>2
  <2> QED BY <1>1, <1>2, <1>5, <1>6, <1>7, <2>1, OthersLeased
<1>8. ASSUME pc[r] = "holding", Safe(r)' PROVE Covered(r) /\ holder = home[r] /\ lease[r] <= expires /\ now < lease[r]
  BY <1>2, <1>6, <1>8 DEF Covered, Holds, LeasedTo
<1>9. Holds(r)' => pc[r] = "holding"
  BY <1>1, CalmRenewal
     DEF RFinding, RenewalFinds, RSeeing, RenewalSees, RWaking, RenewalWakes, Renewing, Losing, Missing,
         GoesOn, RenewalSleeps, RenewalIsOver, Holds
<1>10. CASE RFinding(r) \/ RSeeing(r) \/ RWaking(r)
  <2>1. lease'[r] = lease[r]
    BY <1>10 DEF RFinding, RSeeing, RWaking, SameLeases
  <2>2. pc[r] = "holding" /\ Safe(r)' => holder' = holder /\ expires' = expires
    <3>1. CASE RFinding(r)
      BY <1>1, <1>8, <3>1, LandsTakes DEF RFinding, RenewalFinds
    <3>2. CASE RSeeing(r) \/ RWaking(r)
      BY <3>2 DEF RSeeing, RWaking, Stays, storeVars
    <3> QED BY <1>10, <3>1, <3>2
  <2>3. /\ RenewalOf(r)'.sent = now \/ RenewalOf(r)'.sent = RenewalOf(r).sent
        /\ RenewalOf(r)'.sent # now => RenewalOf(r).do \in InStore
    <3>1. CASE RFinding(r)
      <4>1. [RenewalOf(r) EXCEPT !.do = "update"].sent = RenewalOf(r).sent
        BY <1>1, Fields
      <4> QED BY <3>1, <4>1 DEF RFinding, RenewalFinds, RenewalBecomes, InStore
    <3>2. CASE RSeeing(r)
      <4>1. [RenewalOf(r) EXCEPT !.do = "force", !.found = holder, !.saw = expires].sent = RenewalOf(r).sent
        BY <1>1, Fields
      <4> QED BY <3>2, <4>1 DEF RSeeing, RenewalSees, RenewalBecomes, InStore
    <3>3. CASE RWaking(r)
      <4>1. [NoOp EXCEPT !.do = "find", !.sent = now, !.due = now + Every].sent = now
        BY DEF NoOp
      <4> QED BY <3>3, <4>1 DEF RWaking, RenewalWakes, RenewalBecomes
    <3> QED BY <1>10, <3>1, <3>2, <3>3
  <2>4. Holds(r)' /\ Safe(r)' => holder' = home'[r] /\ lease'[r] <= expires' /\ now' < lease'[r]
    BY <1>1, <1>8, <1>9, <2>1, <2>2
  <2>5. Holds(r)' => lease'[r] <= now' + TTL /\ lease'[r] <= RenewalOf(r)'.sent + TTL
    BY <1>1, <1>2, <1>9, <2>1, <2>3 DEF LeasedTo, Holds
  <2> QED BY <1>1, <1>7, <2>4, <2>5 DEF LeasedTo
<1>11. ASSUME RenewalOf(r)' \in {NoOp, Sleep(Every)},
              Holds(r)' /\ Safe(r)' => holder' = home[r] /\ lease'[r] <= expires' /\ now < lease'[r],
              Holds(r)' => lease'[r] <= now + TTL
       PROVE  \A q \in Refreshes : LeasedTo(q)'
  <2>1. RenewalOf(r)'.do \notin InStore
    <3>1. NoOp.do = "none" /\ Sleep(Every).do = "sleep"
      BY DEF NoOp, Sleep
    <3> QED BY <1>11, <3>1 DEF InStore
  <2> QED BY <1>1, <1>7, <1>11, <2>1 DEF LeasedTo
<1>12. ASSUME GoesOn(r) \/ RenewalIsOver(r) PROVE RenewalOf(r)' \in {NoOp, Sleep(Every)}
  BY <1>12 DEF GoesOn, RenewalSleeps, RenewalIsOver, RenewalBecomes
<1>13. CASE Losing(r)
  <2>1. lease'[r] = lease[r] /\ holder' = holder /\ expires' = expires
    BY <1>13 DEF Losing, SameLeases, Stays, storeVars
  <2> QED BY <1>2, <1>8, <1>9, <1>11, <1>12, <1>13, <2>1 DEF Losing, LeasedTo, Holds
<1>14. ASSUME pc[r] = "holding", Safe(r)', RenewalOf(r).do = "force", holder = RenewalOf(r).found,
              Lands(home[r], RenewalOf(r))
       PROVE  FALSE
  <2>1. holder = home[r] /\ now < expires
    BY <1>2, <1>8, <1>14
  <2>2. expires # RenewalOf(r).saw
    BY <1>1, <1>2, <1>14, <2>1 DEF CalmOp
  <2> QED BY <1>14, <2>1, <2>2 DEF Lands, Safe, PastLocal
<1>15. CASE Renewing(r)
  <2>1. lease'[r] = RenewalOf(r).sent + TTL /\ Lands(home[r], RenewalOf(r)) /\ RenewalOf(r).do \in {"update", "force"}
        /\ (RenewalOf(r).do = "force" => holder = RenewalOf(r).found) /\ GoesOn(r)
    BY <1>15 DEF Renewing
  <2>2. now <= RenewalOf(r).sent + Latency /\ RenewalOf(r).sent <= now
    BY <1>1, <2>1 DEF Timely, InStore
  <2>3. Holds(r)' /\ Safe(r)' => holder' = home[r] /\ expires' = RenewalOf(r).sent + TTL
    BY <1>8, <1>9, <1>14, <2>1, LandsTakes
  <2>4. now < lease'[r] /\ lease'[r] <= now + TTL /\ lease'[r] <= RenewalOf(r).sent + TTL
    BY <1>2, <2>1, <2>2
  <2> QED BY <1>11, <1>12, <2>1, <2>3, <2>4
<1>16. CASE Missing(r)
  <2>1. lease'[r] = lease[r] /\ RenewalOf(r).do \in InStore /\ GoesOn(r) /\ (Lands(home[r], RenewalOf(r)) \/ Stays)
    BY <1>16 DEF Missing, SameLeases
  <2>2. pc[r] = "holding" => lease[r] <= now + TTL /\ lease[r] <= RenewalOf(r).sent + TTL
    BY <1>2, <2>1 DEF LeasedTo, Holds
  <2>3. ASSUME pc[r] = "holding", Safe(r)' PROVE holder' = home[r] /\ lease[r] <= expires'
    <3>1. holder = home[r] /\ lease[r] <= expires
      BY <1>8, <2>3
    <3>2. CASE Stays
      BY <3>1, <3>2 DEF Stays, storeVars
    <3>3. CASE Lands(home[r], RenewalOf(r))
      BY <1>1, <1>14, <2>1, <2>2, <2>3, <3>1, <3>3, LandsIs
    <3> QED BY <2>1, <3>2, <3>3
  <2> QED BY <1>8, <1>9, <1>11, <1>12, <2>1, <2>2, <2>3
<1> QED BY <1>10, <1>13, <1>15, <1>16, CalmRenewal

LEMMA LeasedStep == ASSUME Shape, Local, Ops, CalmOps, Owned, Leased, Next PROVE Leased'
<1> SUFFICES ASSUME Calm' PROVE \A q \in Refreshes : LeasedTo(q)'
  BY DEF Leased
<1>1. Calm /\ \A q \in Refreshes : LeasedTo(q)
  BY TroublesStay DEF Calm, Leased
<1>2. ASSUME NEW r \in Refreshes, Stays, now' = now, SameLeases, OpsStay,
             home'[r] = home[r] \/ (pc'[r] = "local" /\ TryOf(r).do # "update"),
             pc'[r] = pc[r] \/ (pc'[r] # "holding" /\ TryOf(r).do # "update")
      PROVE  LeasedTo(r)'
  <2>1. CASE pc'[r] = "local" /\ TryOf(r).do # "update"
    BY <1>1, <1>2, <2>1 DEF LeasedTo, Holds, OpsStay, Stays, storeVars, SameLeases, Safe
  <2>2. CASE home'[r] = home[r]
    BY <1>1, <1>2, <2>2, OthersLeased DEF OpsStay, Stays, storeVars, SameLeases, Safe
  <2> QED BY <1>2, <2>1, <2>2
<1>3. ASSUME NEW r \in Refreshes, NEW b \in Backends, NEW w \in {0, Wait}, Ask(r, b, w)
      PROVE  \A q \in Refreshes : LeasedTo(q)'
  <2>1. /\ pc[r] = "idle" /\ now' = now /\ Stays /\ op' = op /\ SameLeases
        /\ \A q \in Refreshes : pc'[q] = IF q = r THEN "local" ELSE pc[q]
        /\ \A q \in Refreshes : home'[q] = IF q = r THEN b ELSE home[q]
    BY <1>3 DEF Ask, Move, Shape, Stays, SameLeases, leaseVars
  <2>2. OpsStay /\ TryOf(r).do = "none"
    BY <2>1, Becomes DEF Ops
  <2> QED BY <1>2, <2>1, <2>2
<1>4. ASSUME NEW r \in Refreshes, GetLocal(r) PROVE \A q \in Refreshes : LeasedTo(q)'
  <2>1. /\ pc[r] = "local" /\ TryBecomes(r, FirstTry(r)) /\ FirstTry(r).do = "find"
        /\ UNCHANGED <<now, storeVars, home, lease, lapsed>>
        /\ \A q \in Refreshes : pc'[q] = IF q = r THEN "trying" ELSE pc[q]
    BY <1>4, TurnComes
  <2>2. LeasedTo(r)'
    BY <2>1 DEF LeasedTo, Holds, TryBecomes
  <2>3. ASSUME NEW q \in Refreshes, q # r PROVE LeasedTo(q)'
    BY <1>1, <2>1, <2>3, OthersLeased DEF TryBecomes, Safe, storeVars
  <2> QED BY <2>2, <2>3
<1>5. ASSUME NEW r \in Refreshes, WaysOut(r) PROVE \A q \in Refreshes : LeasedTo(q)'
  <2>1. /\ now' = now /\ home' = home /\ lapsed' = lapsed \ {r} /\ OpsStay
        /\ \A q \in Refreshes : pc'[q] = IF q = r THEN "over" ELSE pc[q]
        /\ \A q \in Refreshes : lease'[q] = IF q = r THEN 0 ELSE lease[q]
    BY <1>1, <1>5, CalmOut DEF Undisturbed
  <2>2. TryOf(r).do # "update"
    BY <1>1, <1>5, CalmOut DEF Ops
  <2>3. LeasedTo(r)'
    BY <2>1, <2>2 DEF LeasedTo, Holds, OpsStay
  <2>4. ASSUME NEW q \in Refreshes, q # r PROVE LeasedTo(q)'
    <3>1. CASE pc[r] = "local" /\ Stays
      BY <1>1, <2>1, <2>4, <3>1, OthersLeased DEF OpsStay, Safe, Stays, storeVars
    <3>2. CASE pc[r] = "releasing" /\ Lands(home[r], Delete)
      <4>1. Delete.do = "delete"
        BY DEF Delete, NoOp
      <4>2. expires' = expires /\ overtaken' = overtaken /\ (holder # home[r] => holder' = holder)
        BY <3>2, <4>1, LandsTakes
      <4>3. Covered(q) => holder # home[r]
        BY <1>1, <2>4, <3>2, CoveredIs, OneHolder DEF OneHolderPerBackend, PastLocal
      <4> QED BY <1>1, <2>1, <2>4, <4>2, <4>3, OthersLeased DEF OpsStay, Safe
    <3> QED BY <1>1, <1>5, <3>1, <3>2, CalmOut
  <2> QED BY <2>3, <2>4
<1>6. ASSUME NEW r \in Refreshes, WorkDone(r) PROVE \A q \in Refreshes : LeasedTo(q)'
  <2>1. /\ UNCHANGED <<now, storeVars, home, lease, lapsed>> /\ pc[r] = "holding" /\ pc'[r] # "holding"
        /\ TryOf(r)' = TryOf(r) /\ TryOf(r).do # "update"
        /\ \A q \in Refreshes \ {r} : /\ pc'[q] = pc[q] /\ TryOf(q)' = TryOf(q)
                                      /\ RenewalOf(q)' = RenewalOf(q)
    BY <1>6, HoldEnds DEF OpsStay, RenewalBecomes, Ops
  <2>2. LeasedTo(r)'
    BY <2>1 DEF LeasedTo, Holds
  <2>3. ASSUME NEW q \in Refreshes, q # r PROVE LeasedTo(q)'
    BY <1>1, <2>1, <2>3, OthersLeased DEF Safe, storeVars
  <2> QED BY <2>2, <2>3
<1>7. ASSUME NEW t \in Threads, Steps(t) PROVE \A q \in Refreshes : LeasedTo(q)'
  BY <1>1, <1>7, ThreadSteps, TryKeepsLeases, RenewalKeepsLeases
<1>8. ASSUME NEW g \in ghosts, LandsLate(g) PROVE \A q \in Refreshes : LeasedTo(q)'
  <2>1. g.do \in InStore /\ g.by \in crashed /\ (g.do = "force" => g.saw < now) /\ Lands(g.by, g)
    BY <1>1, <1>8 DEF CalmOps, LandsLate
  <2>2. /\ now' = now /\ home' = home /\ pc' = pc /\ lease' = lease /\ lapsed' = lapsed /\ OpsStay
    BY <1>8, Becomes DEF LandsLate, askVars, leaseVars, OpsStay, TryOf, RenewalOf
  <2>3. ASSUME NEW q \in Refreshes PROVE LeasedTo(q)'
    <3>1. Covered(q) => home[q] # g.by
      BY <1>1, <2>1, CoveredIs
    <3>2. Safe(q)' => Safe(q)
      BY <2>1, <2>2, OvertakenGrows DEF Safe
    <3>3. Covered(q) /\ Safe(q)' => holder' = holder /\ expires' = expires
      BY <1>1, <2>1, <3>1, Spared DEF Safe
    <3> QED BY <1>1, <2>2, <3>2, <3>3, OthersLeased DEF OpsStay
  <2> QED BY <2>3
<1>9. ASSUME NEW b \in Backends, Crash(b) PROVE \A q \in Refreshes : LeasedTo(q)'
  <2> SUFFICES ASSUME NEW q \in Refreshes PROVE LeasedTo(q)'
    OBVIOUS
  <2>1. CASE home[q] = b
    <3>1. NoOp.do = "none"
      BY DEF NoOp
    <3> QED BY <1>9, <2>1, <3>1, DeadIsOver DEF LeasedTo, Holds
  <2>2. CASE home[q] # b
    BY <1>1, <1>9, <2>2, DeadIsOver, OthersLeased DEF Safe
  <2> QED BY <2>1, <2>2
<1>10. ASSUME Collected PROVE \A q \in Refreshes : LeasedTo(q)'
  <2>1. /\ now' = now /\ home' = home /\ pc' = pc /\ lease' = lease /\ lapsed' = lapsed /\ OpsStay
        /\ overtaken' = overtaken /\ expires <= now
    BY <1>10, Becomes DEF Collected, askVars, leaseVars, OpsStay, TryOf, RenewalOf
  <2>2. ASSUME NEW q \in Refreshes PROVE LeasedTo(q)'
    <3>1. ~Covered(q)
      BY <1>1, <2>1, CoveredIs DEF Shape
    <3> QED BY <1>1, <2>1, <3>1, OthersLeased DEF OpsStay, Safe
  <2> QED BY <2>2
<1>11. ASSUME Tick PROVE \A q \in Refreshes : LeasedTo(q)'
  <2>1. /\ UNCHANGED <<storeVars, home, pc, lease>> /\ OpsStay /\ now' \in {now, now + 1} /\ now' \in Nat
        /\ lapsed' = lapsed \cup {q \in Refreshes : pc[q] = "holding" /\ lease[q] <= now'}
    BY <1>11, Becomes, TickIs DEF Tick, askVars, OpsStay, TryOf, RenewalOf
  <2>2. ASSUME NEW q \in Refreshes PROVE LeasedTo(q)'
    <3>1. /\ lease[q] \in Nat /\ now \in Nat /\ TTL \in Nat /\ LeasedTo(q)
          /\ Safe(q)' => Safe(q) /\ (Holds(q) => now' < lease[q])
      BY <1>1, <2>1, Times DEF Shape, Safe, storeVars, Holds
    <3> QED BY <2>1, <3>1 DEF LeasedTo, Holds, OpsStay, storeVars
  <2> QED BY <2>2
<1> QED BY <1>3, <1>4, <1>5, <1>6, <1>7, <1>8, <1>9, <1>10, <1>11 DEF Next, WaysOut

-----------------------------------------------------------------------------
(* A lease outlasts a missed renewal                                       *)

\* Whose document it is, it has not expired.
LEMMA Unexpired ==
  ASSUME Shape, Ops, Lasts, OneAtMost, NEW r \in Refreshes, Owns(r)
  PROVE  holder = home[r] /\ now < expires
<1>1. /\ now \in Nat /\ expires \in Nat /\ Latency \in Nat /\ Every \in Nat /\ TTL \in Nat
      /\ 2 * Every + 3 * Latency < TTL
      /\ TryOf(r).sent \in Nat /\ RenewalOf(r).sent \in Nat /\ RenewalOf(r).due \in Nat
      /\ Timely(TryOf(r)) /\ Timely(RenewalOf(r))
  BY OpIn, OpTypes, Times DEF Shape, Ops
<1>2. Slack \in {Latency + Every, 2 * (Latency + Every)}
  BY <1>1 DEF Slack
<1>3. CASE pc[r] \in {"holding", "finishing"}
  <2>1. holder = home[r] /\ RenewsInTime(r)
    BY <1>3 DEF Lasts
  <2> QED BY <1>1, <1>2, <2>1 DEF RenewsInTime, Timely, InStore
<1>4. CASE TryOf(r).do = "update"
  BY <1>1, <1>4 DEF Lasts, Timely, InStore
<1>5. CASE pc[r] = "releasing"
  BY <1>5 DEF Lasts
<1> QED BY <1>3, <1>4, <1>5 DEF Owns

Kept(r) ==
  /\ pc[r] \in {"holding", "finishing"} => holder = home[r] /\ RenewsInTime(r)
  /\ TryOf(r).do = "update" => holder = home[r] /\ expires = TryOf(r).sent + TTL
  /\ pc[r] = "releasing" => holder = home[r] /\ now < expires
  /\ ForcesTheDead(TryOf(r)) /\ ForcesTheDead(RenewalOf(r))

LEMMA SlackIs ==
  ASSUME Shape
  PROVE  /\ Slack \in Nat /\ Slack' \in Nat /\ Slack \in {Latency + Every, 2 * (Latency + Every)}
         /\ Latency + Every <= Slack
         /\ trouble' = trouble => Slack' = Slack
         /\ trouble = <<>> => Slack = Latency + Every /\ Slack <= Slack'
         /\ trouble' = <<"renewalFails">> => Slack' = 2 * (Latency + Every)
<1>1. PICK d \in Nat : d = Latency + Every
  BY Times
<1>2. /\ Slack = IF trouble = <<"renewalFails">> THEN d * 2 ELSE d * 1
      /\ Slack' = IF trouble' = <<"renewalFails">> THEN d * 2 ELSE d * 1
  BY <1>1 DEF Slack
<1>3. d * 2 = 2 * d /\ d * 1 = d /\ 2 * d \in Nat /\ d <= 2 * d /\ <<>> # <<"renewalFails">>
  OBVIOUS
<1>4. Slack \in {d, 2 * d} /\ Slack' \in {d, 2 * d}
  BY <1>2, <1>3
<1>5. trouble = <<>> => Slack = d
  BY <1>2, <1>3
<1>6. trouble' = trouble => Slack' = Slack
  BY <1>2
<1>7. trouble' = <<"renewalFails">> => Slack' = 2 * d
  BY <1>2, <1>3
<1> QED BY <1>1, <1>3, <1>4, <1>5, <1>6, <1>7

LEMMA OthersKept ==
  ASSUME Shape, Shape', Slack <= Slack', now' = now, crashed \subseteq crashed', NEW q \in Refreshes, Kept(q),
         pc'[q] = pc[q] \/ (pc'[q] \in {"local", "over", "trying"} /\ TryOf(q).do # "update"),
         TryOf(q)' = TryOf(q), RenewalOf(q)' = RenewalOf(q),
         home'[q] = home[q], Owns(q) => holder' = holder /\ expires' = expires
  PROVE  Kept(q)'
<1>1. ForcesTheDead(TryOf(q))' /\ ForcesTheDead(RenewalOf(q))'
  BY DEF Kept, ForcesTheDead
<1>2. CASE pc'[q] \in {"local", "over", "trying"} /\ TryOf(q).do # "update"
  BY <1>1, <1>2 DEF Kept
<1>3. CASE pc'[q] = pc[q]
  <2>1. CASE Owns(q)
    <3>1. RenewsInTime(q) => RenewsInTime(q)'
      <4>1. /\ RenewalOf(q).due \in Nat /\ RenewalOf(q).sent \in Nat /\ TTL \in Nat /\ expires \in Nat
            /\ Slack \in Nat /\ Slack' \in Nat
        BY OpIn, OpTypes, Times, SlackIs DEF Shape
      <4> QED BY <2>1, <4>1 DEF RenewsInTime
    <3> QED BY <1>1, <1>3, <2>1, <3>1 DEF Kept
  <2>2. CASE ~Owns(q)
    BY <1>1, <1>3, <2>2 DEF Kept, Owns
  <2> QED BY <2>1, <2>2
<1> QED BY <1>2, <1>3

\* There is one such refresh at most.
LEMMA OneOwner ==
  ASSUME Shape, Local, Ops, Lasts, OneAtMost, NEW r \in Refreshes, NEW q \in Refreshes,
         Owns(q), pc[r] \in PastLocal, holder = home[r]
  PROVE  q = r
BY Unexpired, OwnersAre, OneHolder DEF OneHolderPerBackend

\* A document that expired is that of a backend that died.
LEMMA ExpiredIsDead ==
  ASSUME Shape, Ops, Owned, Lasts, OneAtMost, holder # NoOne, expires < now
  PROVE  holder \in crashed
<1> SUFFICES ASSUME holder \notin crashed PROVE FALSE
  OBVIOUS
<1>1. PICK p \in Refreshes : Owns(p) /\ home[p] = holder
  BY DEF Owned, OneAtMost
<1>2. now < expires
  BY <1>1, Unexpired
<1> QED BY <1>2 DEF Shape

LEMMA TryKeepsLasting ==
  ASSUME Shape, Shape', Local, Ops, CalmOps, Owned, Lasts, OneAtMost, OneAtMost', NEW r \in Refreshes, TryStep(r)
  PROVE  \A q \in Refreshes : Kept(q)'
<1>1. /\ Undisturbed /\ now' = now /\ home' = home /\ crashed' = crashed /\ TryOf(r) \in Op /\ pc[r] = "trying"
      /\ TryOf(r).do # "none" /\ home[r] # NoOne /\ Timely(TryOf(r)) /\ RenewalOf(r).do = "none"
      /\ trouble' = trouble
  BY CalmTry, TryEffects, ThreadIsActive, NamesAssumption DEF Undisturbed, Ops, OneAtMost
<1>2. /\ now \in Nat /\ TryOf(r).sent \in Nat /\ TTL \in Nat /\ Latency \in Nat /\ Every \in Nat
      /\ home[r] \notin crashed /\ Slack' = Slack /\ Slack \in Nat /\ Latency + Every <= Slack
      /\ \A q \in Refreshes : Kept(q)
  BY <1>1, OpTypes, Times, SlackIs, Active DEF Shape, Lasts, Kept
<1>3. ASSUME NEW q \in Refreshes, q # r, Lands(home[r], TryOf(r)) \/ Stays, TryOf(r).do \in InStore \/ Stays,
             pc'[q] = pc[q], TryOf(q)' = TryOf(q), RenewalOf(q)' = RenewalOf(q)
      PROVE  Kept(q)'
  <2>1. ASSUME Owns(q) PROVE holder' = holder /\ expires' = expires
    <3>1. holder = home[q] /\ home[q] # NoOne /\ home[q] \notin crashed
      BY <2>1, Unexpired, OwnersAre
    <3>2. holder # home[r]
      BY <1>1, <1>3, <2>1, OneOwner DEF PastLocal
    <3>3. TryOf(r).do = "force" => TryOf(r).found \in crashed
      BY <1>2 DEF Kept, ForcesTheDead
    <3>4. CASE Stays
      BY <3>4 DEF Stays, storeVars
    <3>5. CASE ~Stays
      BY <1>3, <3>1, <3>2, <3>3, <3>5, LandsIs
    <3> QED BY <3>4, <3>5
  <2> QED BY <1>1, <1>2, <1>3, <2>1, OthersKept
<1>4. CASE Finding(r)
  <2>1. Lands(home[r], TryOf(r)) /\ TryOf(r).do = "find" /\ pc' = pc
        /\ TryBecomes(r, [TryOf(r) EXCEPT !.do = "update"]) /\ holder = NoOne
    BY <1>4, FindsNone DEF Finding, TryFinds, OneAtMost
  <2>2. \A q \in Refreshes \ {r} : Kept(q)'
    BY <1>3, <2>1 DEF TryBecomes, InStore
  <2>3. holder' = home[r] /\ expires' = TryOf(r).sent + TTL
    BY <2>1, LandsTakes
  <2>4. [TryOf(r) EXCEPT !.do = "update"].sent = TryOf(r).sent /\ [TryOf(r) EXCEPT !.do = "update"].do = "update"
    BY <1>1, Fields
  <2>5. TryOf(r)'.sent = TryOf(r).sent /\ TryOf(r)'.do = "update" /\ RenewalOf(r)' = RenewalOf(r)
    BY <2>1, <2>4 DEF TryBecomes
  <2>6. Kept(r)'
    BY <1>1, <2>1, <2>3, <2>5 DEF Kept, ForcesTheDead
  <2> QED BY <2>2, <2>6
<1>5. CASE Seeing(r) \/ Waking(r) \/ Sleeping(r) \/ Leaving(r)
  <2>1. Stays
    BY <1>5 DEF Seeing, Waking, Sleeping, Leaving
  <2>2. /\ \A q \in Refreshes \ {r} : TryOf(q)' = TryOf(q) /\ pc'[q] = pc[q]
        /\ \A q \in Refreshes : RenewalOf(q)' = RenewalOf(q)
        /\ pc'[r] \in {"trying", "over"}
    <3>1. CASE Seeing(r) \/ Waking(r) \/ Sleeping(r)
      BY <1>1, <3>1 DEF Seeing, Waking, Sleeping, TrySees, TryWakes, TrySleeps, TryBecomes
    <3>2. CASE Leaving(r)
      BY <3>2, LeaveMoves DEF Leaving, TryLeaves, TryBecomes
    <3> QED BY <1>5, <3>1, <3>2
  <2>3. TryOf(r)'.do # "update" /\ (TryOf(r)'.do = "force" => TryOf(r)'.found \in crashed)
    <3>1. CASE Seeing(r)
      <4>1. LET f == [TryOf(r) EXCEPT !.do = "force", !.found = holder, !.saw = expires]
            IN  f.do = "force" /\ f.found = holder
        BY <1>1, Fields
      <4>2. holder \in crashed
        BY <3>1, ExpiredIsDead DEF Seeing
      <4> QED BY <1>1, <3>1, <4>1, <4>2 DEF Seeing, TrySees, TryBecomes
    <3>2. CASE Waking(r)
      <4>1. [NoOp EXCEPT !.do = "find", !.sent = now, !.due = TryUntil(r)].do = "find"
        BY DEF NoOp
      <4> QED BY <1>1, <3>2, <4>1 DEF Waking, TryWakes, TryBecomes
    <3>3. CASE Sleeping(r)
      BY <1>1, <3>3 DEF Sleeping, TrySleeps, TryBecomes
    <3>4. CASE Leaving(r)
      <4>1. NoOp.do = "none"
        BY DEF NoOp
      <4> QED BY <3>4, <4>1, LeaveMoves DEF Leaving, TryLeaves, TryBecomes
    <3> QED BY <1>5, <3>1, <3>2, <3>3, <3>4
  <2>4. Kept(r)'
    BY <1>1, <2>2, <2>3 DEF Kept, ForcesTheDead
  <2> QED BY <1>3, <2>1, <2>2, <2>4
<1>6. CASE Taking(r)
  <2>1. /\ Lands(home[r], TryOf(r)) /\ TryOf(r).do \in InStore /\ TryOf(r).do \in {"update", "force"}
        /\ TryOf(r).do = "force" => holder = TryOf(r).found
        /\ pc'[r] = "holding" /\ TryOf(r)' = NoOp /\ RenewalOf(r)' = Sleep(Every)
    BY <1>6 DEF Taking, TryTakes, InStore
  <2>2. \A q \in Refreshes \ {r} : Kept(q)'
    BY <1>3, <1>6, <2>1 DEF Taking, TryTakes
  <2>3. NoOp.do = "none" /\ Sleep(Every).do = "sleep" /\ Sleep(Every).due = now + Every
    BY DEF NoOp, Sleep
  <2>4. now <= TryOf(r).sent + Latency
    BY <1>1, <2>1 DEF Timely
  <2>5. holder' = home[r] /\ expires' = TryOf(r).sent + TTL
    BY <1>2, <2>1, LandsTakes DEF Kept
  <2>6. now + Every + TTL <= expires' + Slack
    BY <1>2, <2>4, <2>5
  <2>7. RenewsInTime(r)'
    BY <1>1, <1>2, <2>1, <2>3, <2>6 DEF RenewsInTime
  <2> QED BY <1>1, <2>1, <2>2, <2>3, <2>5, <2>7 DEF Kept, ForcesTheDead
<1> QED BY <1>4, <1>5, <1>6, CalmTry DEF OneAtMost

LEMMA RenewalKeepsLasting ==
  ASSUME Shape, Shape', Local, Ops, CalmOps, Owned, Lasts, OneAtMost, OneAtMost', NEW r \in Refreshes, RenewalStep(r)
  PROVE  \A q \in Refreshes : Kept(q)'
<1>1. /\ Undisturbed /\ now' = now /\ home' = home /\ crashed' = crashed /\ RenewalOf(r) \in Op
      /\ pc[r] \in {"holding", "finishing"} /\ Timely(RenewalOf(r)) /\ TryOf(r).do = "none"
      /\ TryOf(r)' = TryOf(r)
  BY CalmRenewal, RenewalEffects, RenewalKeepsTries DEF Undisturbed, Ops, OneAtMost
<1>2. /\ now \in Nat /\ RenewalOf(r).sent \in Nat /\ RenewalOf(r).due \in Nat /\ TTL \in Nat
      /\ Latency \in Nat /\ Every \in Nat /\ expires \in Nat /\ 2 * Every + 3 * Latency < TTL
      /\ Slack \in Nat /\ Slack' \in Nat /\ Latency + Every <= Slack
      /\ Slack \in {Latency + Every, 2 * (Latency + Every)}
      /\ \A q \in Refreshes : Kept(q)
  BY <1>1, OpTypes, Times, SlackIs DEF Shape, Lasts, Kept
<1>3. /\ Owns(r) /\ holder = home[r] /\ now < expires /\ home[r] # NoOne /\ home[r] \notin crashed
      /\ RenewsInTime(r)
  BY <1>1, <1>2, Unexpired, OwnersAre DEF Owns, Kept
<1>4. RenewalOf(r).do # "force" /\ ~RSeeing(r) /\ ~Losing(r)
  BY <1>3 DEF RenewsInTime, RSeeing, Losing
<1>5. \/ RFinding(r) \/ RWaking(r) \/ Renewing(r) \/ Missing(r)
  BY <1>4, CalmRenewal DEF OneAtMost
<1>6. /\ Slack <= Slack' /\ (~Missing(r) => Slack' = Slack)
      /\ Missing(r) => Slack = Latency + Every /\ Slack' = 2 * (Latency + Every)
  <2>1. CASE Missing(r)
    <3>1. trouble = <<>> /\ trouble' = <<"renewalFails">>
      BY <2>1, TroubleGrows DEF Missing, OneAtMost, Shape
    <3> QED BY <2>1, <3>1, SlackIs
  <2>2. CASE ~Missing(r)
    <3>1. trouble' = trouble
      BY <1>5, <2>2 DEF RFinding, RWaking, Renewing
    <3> QED BY <1>2, <2>2, <3>1, SlackIs
  <2> QED BY <2>1, <2>2
<1>7. ASSUME NEW q \in Refreshes, q # r PROVE Kept(q)'
  <2>1. ~Owns(q)
    BY <1>1, <1>3, <1>7, OneOwner DEF PastLocal
  <2>2. pc'[q] = pc[q] /\ TryOf(q)' = TryOf(q) /\ RenewalOf(q)' = RenewalOf(q)
    BY <1>5, <1>7
       DEF RFinding, RenewalFinds, RWaking, RenewalWakes, Renewing, Missing,
           GoesOn, RenewalSleeps, RenewalIsOver, RenewalBecomes
  <2> QED BY <1>1, <1>2, <1>6, <2>1, <2>2, OthersKept
<1>8. CASE RFinding(r)
  <2>1. pc'[r] = pc[r] /\ RenewalOf(r).do = "find" /\ RenewalOf(r)' = [RenewalOf(r) EXCEPT !.do = "update"]
        /\ Lands(home[r], RenewalOf(r))
    BY <1>8 DEF RFinding, RenewalFinds, RenewalBecomes
  <2>2. RenewalOf(r)'.do = "update" /\ RenewalOf(r)'.sent = RenewalOf(r).sent
    BY <1>1, <2>1, Fields
  <2>3. holder' = holder /\ expires' = expires
    BY <1>3, <2>1, LandsTakes
  <2>4. Slack' = Slack
    <3>1. trouble' = trouble
      BY <1>8 DEF RFinding
    <3> QED BY <3>1, SlackIs
  <2>5. RenewsInTime(r)'
    BY <1>3, <2>1, <2>2, <2>3, <2>4 DEF RenewsInTime
  <2> QED BY <1>1, <1>3, <1>7, <2>1, <2>2, <2>3, <2>5 DEF Kept, ForcesTheDead
<1>9. CASE RWaking(r)
  <2>1. pc'[r] = pc[r] /\ RenewalOf(r).do = "sleep" /\ holder' = holder /\ expires' = expires
        /\ RenewalOf(r)' = [NoOp EXCEPT !.do = "find", !.sent = now, !.due = now + Every]
    BY <1>9 DEF RWaking, RenewalWakes, RenewalBecomes, Stays, storeVars
  <2>2. RenewalOf(r)'.do = "find" /\ RenewalOf(r)'.sent = now
    BY <2>1 DEF NoOp
  <2>3. RenewalOf(r).due + TTL <= expires + Slack /\ now <= RenewalOf(r).due
    BY <1>1, <1>3, <2>1 DEF RenewsInTime, Timely
  <2>4. Slack' = Slack
    <3>1. trouble' = trouble
      BY <1>9 DEF RWaking
    <3> QED BY <3>1, SlackIs
  <2>5. now + TTL <= expires + Slack
    BY <1>2, <2>3
  <2>6. RenewsInTime(r)'
    BY <2>1, <2>2, <2>4, <2>5 DEF RenewsInTime
  <2> QED BY <1>1, <1>3, <1>7, <2>1, <2>2, <2>6 DEF Kept, ForcesTheDead
<1>10. CASE Renewing(r) \/ Missing(r)
  <2>1. RenewalOf(r).do \in InStore /\ GoesOn(r) /\ (Lands(home[r], RenewalOf(r)) \/ Stays)
        /\ (~Missing(r) => RenewalOf(r).do = "update" /\ Lands(home[r], RenewalOf(r)))
    BY <1>4, <1>10 DEF Renewing, Missing, InStore
  <2>2. now <= RenewalOf(r).sent + Latency /\ RenewalOf(r).sent + TTL <= expires + Slack
    BY <1>1, <1>3, <2>1 DEF Timely, RenewsInTime, InStore
  <2>3. /\ holder' = home[r] /\ expires' \in {expires, RenewalOf(r).sent + TTL}
        /\ ~Missing(r) => expires' = RenewalOf(r).sent + TTL
    <3>1. CASE Stays
      <4>1. holder' = holder /\ expires' = expires
        BY <3>1 DEF Stays, storeVars
      <4>2. ~Missing(r) => expires' = RenewalOf(r).sent + TTL
        BY <1>3, <2>1, LandsTakes
      <4> QED BY <1>3, <4>1, <4>2
    <3>2. CASE Lands(home[r], RenewalOf(r))
      <4>1. /\ RenewalOf(r).do = "update" => holder' = home[r] /\ expires' = RenewalOf(r).sent + TTL
            /\ RenewalOf(r).do = "find" => holder' = holder /\ expires' = expires
        BY <1>3, <3>2, LandsTakes
      <4> QED BY <1>3, <1>4, <2>1, <4>1 DEF InStore
    <3> QED BY <2>1, <3>1, <3>2
  <2>4. now < expires' /\ now + Every + TTL <= expires' + Slack'
    <3>1. PICK d \in Nat : d = Latency + Every /\ Latency <= d /\ d + Latency < TTL
      BY <1>2
    <3>2. PICK s \in Nat : s = RenewalOf(r).sent
      BY <1>2
    <3>3. PICK e \in Nat : e = expires'
      BY DEF Shape
    <3>4. PICK k \in Nat : k = Slack'
      BY <1>2
    <3>5. now + Every <= s + d /\ now < s + TTL /\ d <= k /\ now \in Nat /\ Every \in Nat /\ TTL \in Nat
      BY <1>2, <1>6, <2>2, <3>1, <3>2, <3>4
    <3>6. CASE e = s + TTL
      <4>1. now < e /\ now + Every + TTL <= e + k
        BY <3>5, <3>6
      <4> QED BY <3>3, <3>4, <4>1
    <3>7. CASE expires' = expires /\ Missing(r)
      <4>1. s + TTL <= e + d /\ k = d + d /\ now < e
        BY <1>2, <1>3, <1>6, <2>2, <3>1, <3>2, <3>3, <3>4, <3>7
      <4>2. now < e /\ now + Every + TTL <= e + k
        BY <3>5, <4>1
      <4> QED BY <3>3, <3>4, <4>2
    <3> QED BY <2>3, <3>2, <3>3, <3>6, <3>7
  <2>5. NoOp.do = "none" /\ Sleep(Every).do = "sleep" /\ Sleep(Every).due = now + Every
    BY DEF NoOp, Sleep
  <2>6. CASE RenewalSleeps(r)
    <3>1. RenewalOf(r)' = Sleep(Every)
      BY <2>6 DEF RenewalSleeps, RenewalBecomes
    <3>2. RenewsInTime(r)'
      BY <2>4, <2>5, <3>1 DEF RenewsInTime
    <3> QED BY <1>1, <1>7, <2>3, <2>5, <2>6, <3>1, <3>2 DEF Kept, ForcesTheDead, RenewalSleeps
  <2>7. CASE RenewalIsOver(r) /\ pc[r] = "finishing"
    <3>1. RenewalOf(r)' = NoOp /\ pc'[r] = "releasing"
      BY <2>7 DEF RenewalIsOver, RenewalBecomes
    <3> QED BY <1>1, <1>7, <2>3, <2>4, <2>5, <3>1 DEF Kept, ForcesTheDead
  <2> QED BY <2>1, <2>6, <2>7 DEF GoesOn
<1> QED BY <1>5, <1>8, <1>9, <1>10

LEMMA LastsStep ==
  ASSUME Shape, Shape', Local, Ops, CalmOps, Owned, Lasts, NobodyDead, Next PROVE Lasts'
<1> SUFFICES ASSUME OneAtMost' PROVE (\A q \in Refreshes : Kept(q)') /\ \A g \in ghosts' : g.do # "force"
  BY DEF Lasts, Kept
<1>1. Calm /\ Calm' /\ OneAtMost /\ \A q \in Refreshes : Kept(q)
  <2>1. Calm' /\ Len(trouble') <= 1
    BY DEF OneAtMost
  <2>2. Calm /\ Len(trouble) <= 1
    BY <2>1, TroublesStay DEF Calm
  <2> QED BY <2>1, <2>2 DEF OneAtMost, Lasts, Kept
<1>2. (\A g \in ghosts : g.do # "force") /\ Slack \in Nat /\ now \in Nat
      /\ (trouble' = trouble => Slack' = Slack /\ Slack <= Slack')
  BY <1>1, SlackIs DEF Lasts, Shape
<1> DEFINE Goal == (\A q \in Refreshes : Kept(q)') /\ \A g \in ghosts' : g.do # "force"
<1>3. ASSUME NEW r \in Refreshes, NEW b \in Backends, NEW w \in {0, Wait}, Ask(r, b, w) PROVE Goal
  <2>1. /\ pc[r] = "idle" /\ now' = now /\ holder' = holder /\ expires' = expires /\ op' = op /\ crashed' = crashed
        /\ ghosts' = ghosts /\ trouble' = trouble
        /\ \A q \in Refreshes : pc'[q] = IF q = r THEN "local" ELSE pc[q]
        /\ \A q \in Refreshes : home'[q] = IF q = r THEN b ELSE home[q]
    BY <1>3 DEF Ask, Move, Shape, storeVars
  <2>2. OpsStay /\ TryOf(r).do = "none"
    BY <2>1, Becomes DEF Ops
  <2>3. Kept(r)'
    BY <1>1, <2>1, <2>2 DEF OpsStay, Kept, ForcesTheDead
  <2>4. \A q \in Refreshes \ {r} : Kept(q)'
    BY <1>1, <1>2, <2>1, <2>2, OthersKept DEF OpsStay
  <2> QED BY <1>2, <2>1, <2>3, <2>4
<1>4. ASSUME NEW r \in Refreshes, GetLocal(r) PROVE Goal
  <2>1. /\ pc[r] = "local" /\ TryBecomes(r, FirstTry(r)) /\ FirstTry(r).do = "find"
        /\ UNCHANGED <<now, holder, expires, home, crashed, ghosts, trouble>>
        /\ \A q \in Refreshes : pc'[q] = IF q = r THEN "trying" ELSE pc[q]
    BY <1>4, TurnComes DEF storeVars
  <2>2. Kept(r)'
    BY <1>1, <2>1 DEF Kept, ForcesTheDead, TryBecomes
  <2>3. \A q \in Refreshes \ {r} : Kept(q)'
    BY <1>1, <1>2, <2>1, OthersKept DEF TryBecomes
  <2> QED BY <1>2, <2>1, <2>2, <2>3
<1>5. ASSUME NEW r \in Refreshes, WaysOut(r) PROVE Goal
  <2>1. /\ UNCHANGED <<now, ghosts, crashed, home, trouble>> /\ OpsStay
        /\ \A q \in Refreshes : pc'[q] = IF q = r THEN "over" ELSE pc[q]
        /\ TryOf(r).do # "update"
    BY <1>1, <1>5, CalmOut DEF Undisturbed, Ops
  <2>2. Kept(r)'
    BY <1>1, <2>1 DEF Kept, ForcesTheDead, OpsStay
  <2>3. ASSUME NEW q \in Refreshes, q # r PROVE Kept(q)'
    <3>1. Owns(q) => holder' = holder /\ expires' = expires
      <4>1. CASE Stays
        BY <4>1 DEF Stays, storeVars
      <4>2. CASE pc[r] = "releasing" /\ Lands(home[r], Delete)
        <5>1. Delete.do = "delete"
          BY DEF Delete, NoOp
        <5>2. holder = home[r]
          BY <1>1, <4>2 DEF Kept
        <5>3. ~Owns(q)
          BY <1>1, <2>3, <4>2, <5>2, OneOwner DEF PastLocal
        <5> QED BY <5>3
      <4> QED BY <1>1, <1>5, <4>1, <4>2, CalmOut
    <3> QED BY <1>1, <1>2, <2>1, <2>3, <3>1, OthersKept DEF OpsStay
  <2> QED BY <1>2, <2>1, <2>2, <2>3
<1>6. ASSUME NEW r \in Refreshes, WorkDone(r) PROVE Goal
  <2>1. /\ UNCHANGED <<now, holder, expires, home, crashed, ghosts, trouble>> /\ pc[r] = "holding"
        /\ TryOf(r)' = TryOf(r) /\ TryOf(r).do # "update"
        /\ \A q \in Refreshes \ {r} : /\ pc'[q] = pc[q] /\ TryOf(q)' = TryOf(q)
                                      /\ RenewalOf(q)' = RenewalOf(q)
    BY <1>6, HoldEnds DEF OpsStay, RenewalBecomes, Ops, storeVars
  <2>2. holder = home[r] /\ now < expires /\ RenewsInTime(r)
    BY <1>1, <2>1, Unexpired DEF Owns, Kept
  <2>3. \/ RenewalOf(r)' = RenewalOf(r) /\ pc'[r] = "finishing"
        \/ RenewalOf(r)'.do = "none" /\ pc'[r] = "releasing"
    <3>1. NoOp.do = "none"
      BY DEF NoOp
    <3> QED BY <1>6, <3>1, HoldEnds DEF OpsStay, RenewalBecomes
  <2>4. RenewalOf(r)' = RenewalOf(r) => RenewsInTime(r)'
    BY <1>2, <2>1, <2>2 DEF RenewsInTime
  <2>5. Kept(r)'
    BY <1>1, <2>1, <2>2, <2>3, <2>4 DEF Kept, ForcesTheDead
  <2>6. \A q \in Refreshes \ {r} : Kept(q)'
    BY <1>1, <1>2, <2>1, OthersKept
  <2> QED BY <1>2, <2>1, <2>5, <2>6
<1>7. ASSUME NEW r \in Refreshes, TryStep(r) \/ RenewalStep(r) PROVE Goal
  <2>1. ghosts' = ghosts
    BY <1>1, <1>7, CalmTry, CalmRenewal DEF Undisturbed
  <2> QED BY <1>1, <1>2, <1>7, <2>1, TryKeepsLasting, RenewalKeepsLasting
<1>8. ASSUME NEW g \in ghosts, LandsLate(g) PROVE Goal
  <2>1. g.do \in InStore /\ g.by \in crashed /\ g.do # "force" /\ Lands(g.by, g)
    BY <1>1, <1>2, <1>8 DEF CalmOps, LandsLate
  <2>2. /\ UNCHANGED <<now, crashed, home, pc, trouble>> /\ OpsStay /\ ghosts' \subseteq ghosts
    BY <1>8, Becomes DEF LandsLate, askVars, OpsStay, TryOf, RenewalOf
  <2>3. ASSUME NEW q \in Refreshes PROVE Kept(q)'
    <3>1. Owns(q) => holder' = holder /\ expires' = expires
      BY <1>1, <2>1, Unexpired, OwnersAre, LandsIs
    <3> QED BY <1>1, <1>2, <2>2, <3>1, OthersKept DEF OpsStay
  <2> QED BY <1>2, <2>2, <2>3
<1>9. ASSUME NEW b \in Backends, Crash(b) PROVE Goal
  <2>1. trouble = <<>> /\ Slack <= Slack'
    <3>1. Len(trouble') <= 1 /\ Trouble("crash")
      BY <1>9, DeadIsOver DEF OneAtMost
    <3>2. trouble = <<>>
      BY <3>1, TroubleGrows DEF Shape
    <3> QED BY <3>2, SlackIs
  <2>2. crashed = {}
    BY <2>1 DEF NobodyDead, OnlyHappened
  <2>3. \A g \in ghosts' : g.do # "force"
    <3> SUFFICES ASSUME NEW g \in ghosts', g.do = "force", g \notin ghosts PROVE FALSE
      BY <1>2
    <3>1. PICK t \in DeadThreads(b) : g = GhostOf(t)
      BY <1>9, CrashSends
    <3>2. t \in Threads /\ op[t].do = "force"
      BY <1>9, <3>1, CrashSends
    <3>3. ForcesTheDead(op[t])
      BY <1>1, <3>2, ThreadsAre DEF Kept, TryOf, RenewalOf
    <3> QED BY <2>2, <3>2, <3>3 DEF ForcesTheDead
  <2>4. ASSUME NEW q \in Refreshes PROVE Kept(q)'
    <3>1. CASE home[q] = b
      <4>1. NoOp.do = "none"
        BY DEF NoOp
      <4> QED BY <1>9, <3>1, <4>1, DeadIsOver DEF Kept, ForcesTheDead
    <3>2. CASE home[q] # b
      BY <1>1, <1>9, <2>1, <3>2, DeadIsOver, OthersKept
    <3> QED BY <3>1, <3>2
  <2> QED BY <2>3, <2>4
<1>10. ASSUME Collected PROVE Goal
  <2>1. /\ UNCHANGED <<now, crashed, home, pc, trouble, ghosts>> /\ OpsStay /\ expires <= now
    BY <1>10, Becomes DEF Collected, askVars, OpsStay, TryOf, RenewalOf
  <2>2. ASSUME NEW q \in Refreshes PROVE Kept(q)'
    <3>1. ~Owns(q)
      BY <1>1, <2>1, Unexpired DEF Shape
    <3> QED BY <1>1, <1>2, <2>1, <3>1, OthersKept DEF OpsStay
  <2> QED BY <1>2, <2>1, <2>2
<1>11. ASSUME Tick PROVE Goal
  <2>1. /\ UNCHANGED <<holder, expires, crashed, home, pc, trouble, ghosts>> /\ OpsStay
        /\ \A q \in Refreshes : pc[q] # "releasing"
    BY <1>11, Becomes DEF Tick, Due, storeVars, askVars, OpsStay, TryOf, RenewalOf
  <2>2. \A q \in Refreshes : RenewsInTime(q) => RenewsInTime(q)'
    BY <1>2, <2>1 DEF RenewsInTime, OpsStay
  <2>3. \A q \in Refreshes : Kept(q)'
    BY <1>1, <2>1, <2>2 DEF Kept, OpsStay, ForcesTheDead
  <2> QED BY <1>2, <2>1, <2>3
<1>12. ASSUME NEW t \in Threads, Steps(t) PROVE Goal
  BY <1>7, <1>12, ThreadSteps
<1> HIDE DEF Goal
<1>13. Goal
  BY <1>3, <1>4, <1>5, <1>6, <1>8, <1>9, <1>10, <1>11, <1>12 DEF Next, WaysOut
<1> QED BY <1>13 DEF Goal

-----------------------------------------------------------------------------
(* The theorems                                                            *)

LEMMA InitIInv == ASSUME Init PROVE IInv
<1>1. /\ now = 0 /\ holder = NoOne /\ expires = 0 /\ overtaken = {} /\ ghosts = {} /\ crashed = {} /\ trouble = <<>>
      /\ \A q \in Refreshes : /\ users[q] = 0 /\ home[q] = NoOne /\ mine[q] = NoOne /\ pc[q] = "idle"
                              /\ TryOf(q) = NoOp /\ RenewalOf(q) = NoOp
      /\ \A b \in Backends : entry[b] = NoOne
      /\ NoOp.do = "none" /\ NoOp \in Op /\ NoOne \notin Refreshes
  BY ThreadsAre, OpTypes, NamesAssumption DEF Init, TryOf, RenewalOf, NoOp
<1>2. Shape
  BY <1>1, Times DEF Init, Shape, Places
<1>3. Local
  <2>1. \A e \in Refreshes : Using(e) = {}
    BY <1>1 DEF Using
  <2> QED BY <1>1, <2>1, FS_EmptySet DEF Local, PastLocal
<1>4. Ops /\ InTime
  BY <1>1 DEF Ops, Timely, InTime, InStore
<1>5. CalmOps /\ Owned /\ NobodyDead
  BY <1>1 DEF CalmOps, CalmOp, Owned, NobodyDead
<1>6. Leased /\ Lasts
  BY <1>1 DEF Leased, LeasedTo, Lasts, Holds, ForcesTheDead
<1> QED BY <1>2, <1>3, <1>4, <1>5, <1>6 DEF IInv

LEMMA NextIInv == ASSUME IInv, [Next]_vars PROVE IInv'
<1>1. CASE Next
  <2>1. Shape'
    BY <1>1, ShapeStep DEF IInv
  <2> QED BY <1>1, <2>1, LocalStep, OpsStep, InTimeStep, CalmOpsStep, OwnedStep, LeasedStep, LastsStep,
             NobodyDeadStep DEF IInv
<1>2. CASE UNCHANGED vars
  <2> USE <1>2 DEF vars, storeVars, localVars, askVars, leaseVars
  <2>1. Shape'
    BY DEF IInv, Shape
  <2>2. Local'
    BY DEF IInv, Local, Using
  <2>3. Ops' /\ InTime'
    BY DEF IInv, Ops, Timely, InTime, TryOf, RenewalOf
  <2>4. Calm' = Calm /\ OneAtMost' = OneAtMost /\ Slack' = Slack
    BY DEF Calm, OnlyHappened, OneAtMost, Slack
  <2>5. CalmOps' /\ NobodyDead'
    BY <2>4 DEF IInv, CalmOps, CalmOp, NobodyDead, OnlyHappened, TryOf, RenewalOf
  <2>6. Owned'
    BY <2>4 DEF IInv, Owned, Owns, TryOf
  <2>7. Leased'
    BY <2>4 DEF IInv, Leased, LeasedTo, Holds, Safe, TryOf, RenewalOf
  <2>8. Lasts'
    BY <2>4 DEF IInv, Lasts, RenewsInTime, ForcesTheDead, TryOf, RenewalOf
  <2> QED BY <2>1, <2>2, <2>3, <2>5, <2>6, <2>7, <2>8 DEF IInv
<1> QED BY <1>1, <1>2

\* The invariant holds in every reachable state.
THEOREM IInvHolds == Spec => []IInv
<1>1. Init => IInv
  BY InitIInv
<1>2. IInv /\ [Next]_vars => IInv'
  BY NextIInv
<1> QED BY <1>1, <1>2, PTL DEF Spec

\* One refresh at a time within a backend (hold's local lock), an answer within
\* the wait and one try whatever the store does, a lock that is kept through a
\* failed renewal and others' crashes (_keep_renewing), and a document that is
\* gone once every refresh is over (_hold's finally).
THEOREM LockKeepsItsWordHolds == Spec => []LockKeepsItsWord
<1>1. IInv => OneHolderPerBackend
  BY OneHolder DEF IInv
<1>2. IInv => WaitIsBounded
  <2> SUFFICES ASSUME IInv, NEW r \in Refreshes, pc[r] \in {"local", "trying"} PROVE now <= due[r] + Try
    BY DEF WaitIsBounded
  <2>1. /\ now \in Nat /\ due[r] \in Nat /\ Try \in Nat /\ Latency \in Nat /\ TryOf(r) \in Op
        /\ TryOf(r).due \in Nat /\ TryOf(r).sent \in Nat
    BY OpIn, OpTypes, Times DEF IInv, Shape
  <2>2. CASE pc[r] = "local"
    BY <2>1, <2>2 DEF IInv, InTime
  <2>3. CASE pc[r] = "trying"
    <3>1. TryOf(r).do \in {"sleep", "hung"} \cup InStore
      BY <2>1, <2>3 DEF IInv, Ops, Op
    <3>2. Timely(TryOf(r))
      BY DEF IInv, Ops
    <3> QED BY <2>1, <3>1, <3>2 DEF IInv, InTime, Timely
  <2> QED BY <2>2, <2>3
<1>3. IInv => KeptThroughAFailedRenewal
  <2> SUFFICES ASSUME IInv, OneAtMost, NEW r \in Refreshes, Holds(r) PROVE holder = home[r] /\ expires >= now
    BY DEF KeptThroughAFailedRenewal, OneAtMost, Calm
  <2>1. holder = home[r] /\ now < expires
    BY Unexpired DEF IInv, Owns, Holds
  <2> QED BY <2>1 DEF IInv, Shape
<1>4. IInv => ReleasedMeansFree
  <2> SUFFICES ASSUME IInv, OnlyHappened({"renewalFails"}),
                      \A r \in Refreshes : pc[r] \in {"idle", "over"}, holder # NoOne
               PROVE  FALSE
    BY DEF ReleasedMeansFree
  <2>1. Calm /\ crashed = {}
    BY DEF IInv, NobodyDead, Calm, OnlyHappened
  <2>2. PICK r \in Refreshes : Owns(r)
    BY <2>1 DEF IInv, Owned
  <2>3. pc[r] \in PastLocal
    BY <2>2, OwnersAre DEF IInv
  <2> QED BY <2>3 DEF PastLocal
<1>5. IInv => LockKeepsItsWord
  BY <1>1, <1>2, <1>3, <1>4 DEF LockKeepsItsWord
<1> QED BY <1>5, IInvHolds, PTL

\* However many renewals fail and backends die, two refreshes of the sign-in
\* run at once only after the lease of one of them ran out under it, or its
\* document was forced stale (MongoDistributedLock.acquire).
THEOREM ExclusiveWhileLeasedHolds == Spec => []ExclusiveWhileLeased
<1>1. IInv => ExclusiveWhileLeased
  <2> SUFFICES ASSUME IInv, Calm, NEW r \in Refreshes, NEW q \in Refreshes, Holds(r), Holds(q), r # q,
                      {r, q} \cap (lapsed \cup overtaken) = {}
               PROVE  FALSE
    BY DEF ExclusiveWhileLeased, Calm
  <2>1. Covered(r) /\ Covered(q)
    BY DEF Covered, Safe
  <2>2. home[r] = home[q] /\ pc[r] \in PastLocal /\ pc[q] \in PastLocal
    BY <2>1, CoveredIs DEF IInv
  <2> QED BY <2>2, OneHolder DEF IInv, OneHolderPerBackend
<1> QED BY <1>1, IInvHolds, PTL
=============================================================================
