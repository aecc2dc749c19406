------------------------ MODULE ClientSessionsProofs ------------------------
(***************************************************************************)
(* Proofs about ClientSessions and RateLimits, for any number of callers,  *)
(* sessions and calls: no window has more calls logged than the limits     *)
(* allow, a session is registered for its owner alone, a revoked caller is *)
(* served no more save in requests accepted before, and the idle sweep     *)
(* closes nothing that works.                                              *)
(*                                                                         *)
(* The invariant says of each session what its stage lets there be (Fresh, *)
(* IdleOfOwned), of each request what it may hold (AtTheGuard, Served,     *)
(* GoneFirst), counts what works in a session that is owned (Counted), and *)
(* follows a revocation (CutOff).                                          *)
(***************************************************************************)
EXTENDS ClientSessions, FiniteSetTheorems, WellFoundedInduction, TLAPS

-----------------------------------------------------------------------------
(* The inductive invariants                                                *)

\* What is logged has a time that is not ahead.
LogShape ==
  /\ now \in Nat /\ hits \in [Callers -> SUBSET (Nat \X Calls)]
  /\ \A c \in Callers : \A h \in hits[c] : h[1] <= now

\* The part of a log that a window which ends at t holds.
InWindow(log, t) == {h \in log : t - Window < h[1] /\ h[1] <= t}

\* Of a log: no window has more than limit calls.
Within(log, limit) ==
  \A t \in Nat : IsFiniteSet(InWindow(log, t)) /\ Cardinality(InWindow(log, t)) <= limit

LimitInv ==
  /\ LogShape
  /\ \A c \in Callers : Within(hits[c], CallerLimit)
  /\ Within(UNION {hits[c] : c \in Callers}, OrgLimit)

RequestRecords ==
  [at : {"unborn", "arrived", "sweeping", "opening", "inside", "over"},
   kind : {"open", "use", "delete"}, caller : Callers \cup {Nobody},
   sid : Sessions \cup {NoSession}, idle : SUBSET Sessions,
   closing : Sessions \cup {NoSession}, since : Int,
   http : BOOLEAN, handler : {"none", "queued", "running"}]

Shape ==
  /\ transport \in [Sessions -> {"unborn", "live", "terminated", "gone"}]
  /\ owner \in [Sessions -> Callers \cup {Nobody}]
  /\ registered \in [Sessions -> Callers \cup {Nobody}]
  /\ inProgress \in [Sessions -> Int]
  /\ idleSince \in [Sessions -> Int] /\ nextSweep \in Int /\ now \in Nat
  /\ access \subseteq Callers
  /\ request \in [Calls -> RequestRecords]
  /\ cut \in [Callers -> [how : {"none", "revoked", "removed"},
       at : {"none", "closing", "over"}, todo : SUBSET Sessions,
       late : SUBSET Calls, near : SUBSET Sessions]]

InAt(r, s) == request[r].sid = s /\ (request[r].http \/ request[r].handler # "none")

\* A request has entered no session before the guard let it in; one that is
\* about a session names it, and each is someone's until it is over.
Placed(x) ==
  /\ x.at # "inside" => x.http = FALSE /\ x.handler = "none"
  /\ x.at \in {"arrived", "sweeping"} /\ x.kind # "open" => x.sid \in Sessions
  /\ x.at = "inside" => x.sid \in Sessions
  /\ x.at \notin {"unborn", "over"} => x.caller \in Callers

AtTheGuard == \A r \in Calls : Placed(request[r])

\* A session that was not given out, or that its opener has not recorded, has
\* no owner and nothing in it; it is opened by one request.
Untouched(s) ==
  /\ owner[s] = Nobody /\ inProgress[s] = 0
  /\ \A r \in Calls : ~InAt(r, s)

Fresh ==
  /\ \A s \in Sessions : transport[s] = "unborn" =>
       Untouched(s) /\ \A r \in Calls : request[r].sid # s
  /\ \A r \in Calls : request[r].at = "opening" =>
       /\ request[r].sid \in Sessions /\ Untouched(request[r].sid)
       /\ \A q \in Calls \ {r} : request[q].at = "opening" => request[q].sid # request[r].sid

IdleOfOwned == \A s \in Sessions : owner[s] = Nobody <=> idleSince[s] = Never

\* What the sweep closes has left the manager.
GoneFirst ==
  \A r \in Calls : request[r].closing # NoSession => transport[request[r].closing] = "gone"

\* A request that is open in a session that lives is its owner's, and has it
\* registered.
Served ==
  \A r \in Calls : request[r].http =>
    /\ request[r].sid \in Sessions
    /\ Alive(request[r].sid) =>
         /\ request[r].caller \in Callers /\ owner[request[r].sid] = request[r].caller
         /\ registered[request[r].sid] = request[r].caller

Open(s) == {r \in Calls : request[r].sid = s /\ request[r].http}
Running(s) == {r \in Calls : request[r].sid = s /\ request[r].handler = "running"}

Counted ==
  \A s \in Sessions :
    /\ IsFiniteSet(Open(s)) /\ IsFiniteSet(Running(s))
    /\ owner[s] # Nobody => inProgress[s] = Cardinality(Open(s)) + Cardinality(Running(s))

AtGuard == {"arrived", "sweeping"}
BeforeTheGuard == AtGuard \cup {"opening"}

\* What is left to the caller c after a revocation: a request before the
\* guard is one that the revocation found there, one that uses a session is
\* in a session it knew of, and whatever is registered or served is still to
\* be ended or came of such a request.
CutOffFrom(c) ==
  /\ c \notin access /\ cut[c].at \in {"closing", "over"}
  /\ \A r \in Calls : request[r].caller = c /\ request[r].at \in BeforeTheGuard => r \in cut[c].late
  /\ \A r \in Calls : request[r].caller = c /\ request[r].at \in AtGuard /\ request[r].kind # "open" =>
       request[r].sid \in cut[c].near
  /\ SessionsOf(c) \subseteq cut[c].todo \cup cut[c].near
  /\ \A r \in Calls : request[r].caller = c /\ request[r].http /\ Alive(request[r].sid) =>
       r \in cut[c].late \/ request[r].sid \in cut[c].todo
  /\ cut[c].at = "over" => cut[c].todo = {}

CutOff == \A c \in Callers : cut[c].how = "revoked" => CutOffFrom(c)

SessionsInv ==
  /\ Shape /\ AtTheGuard /\ Fresh /\ IdleOfOwned /\ GoneFirst /\ Served
  /\ RegisteredIsOwned /\ Counted
-----------------------------------------------------------------------------
(* The limits                                                              *)

\* Some time of a set is the earliest.
LEMMA Earliest ==
  ASSUME NEW T \in SUBSET Nat, T # {}
  PROVE  \E t \in T : \A u \in T : t <= u
<1>1. PICK t \in T : \A u \in T : ~(<<u, t>> \in OpToRel(<, Nat))
  BY NatLessThanWellFounded, WFMin
<1>2. ASSUME NEW u \in T PROVE t <= u
  <2>1. t \in Nat /\ u \in Nat OBVIOUS
  <2>2. ~(u < t)
    BY <1>1, <2>1 DEF OpToRel
  <2> QED BY <2>1, <2>2
<1> QED BY <1>2

\* A bucket that asks for no wait has room.
LEMMA RoomWhenNoWait ==
  ASSUME NEW log \in SUBSET (Nat \X Calls), NEW limit \in Nat \ {0}, now \in Nat,
         IsFiniteSet(Kept(log))
  PROVE  /\ Wait(log, limit) \in Int
         /\ Wait(log, limit) <= 0 => Cardinality(Kept(log)) < limit
<1> DEFINE times == {h[1] : h \in Kept(log)}
           first == CHOOSE t \in times : \A u \in times : t <= u
<1>1. Cardinality(Kept(log)) \in Nat
  BY FS_CardinalityType
<1>2. CASE Cardinality(Kept(log)) < limit
  BY <1>2 DEF Wait
<1>3. CASE ~(Cardinality(Kept(log)) < limit)
  <2>1. Kept(log) # {}
    BY <1>3, <1>1, FS_EmptySet
  <2>2. times # {} /\ times \subseteq Nat
    BY <2>1 DEF Kept
  <2>3. first \in times
    <3> HIDE DEF times
    <3> QED BY <2>2, Earliest
  <2>4. first \in Nat /\ first > now - Window
    BY <2>3, <2>2 DEF Kept
  <2>5. Wait(log, limit) = first + Window - now
    BY <1>3 DEF Wait
  <2> HIDE DEF first
  <2> QED BY <2>4, <2>5, RateLimitsAssumption
<1> QED BY <1>2, <1>3

LEMMA KeptIsInWindow ==
  ASSUME NEW log \in SUBSET (Nat \X Calls), now \in Nat, \A h \in log : h[1] <= now
  PROVE  Kept(log) = InWindow(log, now)
BY DEF Kept, InWindow

\* Fewer calls fit where more did.
LEMMA ThinnerIsWithin ==
  ASSUME NEW log, NEW less \in SUBSET log, NEW limit \in Nat, Within(log, limit)
  PROVE  Within(less, limit)
<1>1. ASSUME NEW t \in Nat
      PROVE  IsFiniteSet(InWindow(less, t)) /\ Cardinality(InWindow(less, t)) <= limit
  <2>1. IsFiniteSet(InWindow(log, t)) /\ Cardinality(InWindow(log, t)) <= limit
    BY DEF Within
  <2>2. InWindow(less, t) \in SUBSET InWindow(log, t)
    BY DEF InWindow
  <2>3. IsFiniteSet(InWindow(less, t)) /\ Cardinality(InWindow(less, t)) <= Cardinality(InWindow(log, t))
    BY <2>1, <2>2, FS_Subset
  <2>4. Cardinality(InWindow(log, t)) \in Nat /\ Cardinality(InWindow(less, t)) \in Nat
    BY <2>1, <2>3, FS_CardinalityType
  <2> QED BY <2>1, <2>3, <2>4
<1> QED BY <1>1 DEF Within

\* A call more fits where a bucket had room.
LEMMA OneMoreIsWithin ==
  ASSUME NEW log \in SUBSET (Nat \X Calls), NEW limit \in Nat, Within(log, limit),
         now \in Nat, \A h \in log : h[1] <= now,
         Cardinality(Kept(log)) < limit,
         NEW call, NEW more \in SUBSET (log \cup {<<now, call>>})
  PROVE  Within(more, limit)
<1> DEFINE new == <<now, call>>
<1>0. IsFiniteSet(Kept(log))
  BY KeptIsInWindow DEF Within
<1>1. ASSUME NEW t \in Nat
      PROVE  IsFiniteSet(InWindow(more, t)) /\ Cardinality(InWindow(more, t)) <= limit
  <2>1. CASE t < now
    <3>1. InWindow(more, t) \in SUBSET InWindow(log, t)
      BY <2>1 DEF InWindow
    <3>2. IsFiniteSet(InWindow(log, t)) /\ Cardinality(InWindow(log, t)) <= limit
      BY DEF Within
    <3>3. IsFiniteSet(InWindow(more, t)) /\ Cardinality(InWindow(more, t)) <= Cardinality(InWindow(log, t))
      BY <3>1, <3>2, FS_Subset
    <3>4. Cardinality(InWindow(log, t)) \in Nat /\ Cardinality(InWindow(more, t)) \in Nat
      BY <3>2, <3>3, FS_CardinalityType
    <3> QED BY <3>2, <3>3, <3>4
  <2>2. CASE t >= now
    <3>1. InWindow(more, t) \in SUBSET (Kept(log) \cup {new})
      BY <2>2, RateLimitsAssumption DEF InWindow, Kept
    <3>2. /\ IsFiniteSet(Kept(log) \cup {new})
          /\ Cardinality(Kept(log) \cup {new}) <= Cardinality(Kept(log)) + 1
      <4>1. Cardinality(Kept(log)) \in Nat
        BY <1>0, FS_CardinalityType
      <4>2. /\ IsFiniteSet(Kept(log) \cup {new})
            /\ Cardinality(Kept(log) \cup {new})
                 = IF new \in Kept(log) THEN Cardinality(Kept(log)) ELSE Cardinality(Kept(log)) + 1
        BY <1>0, FS_AddElement
      <4> HIDE DEF new
      <4> QED BY <4>1, <4>2
    <3>3. /\ IsFiniteSet(InWindow(more, t))
          /\ Cardinality(InWindow(more, t)) <= Cardinality(Kept(log) \cup {new})
      BY <3>1, <3>2, FS_Subset
    <3>4. /\ Cardinality(InWindow(more, t)) \in Nat /\ Cardinality(Kept(log) \cup {new}) \in Nat
          /\ Cardinality(Kept(log)) \in Nat
      BY <1>0, <3>2, <3>3, FS_CardinalityType
    <3> QED BY <3>2, <3>3, <3>4
  <2> QED BY <2>1, <2>2
<1> QED BY <1>1 DEF Within

Logs == UNION {hits[c] : c \in Callers}

\* Logs that only lose calls.
LEMMA ThinnedLogs ==
  ASSUME LimitInv, now' = now, hits' \in [Callers -> SUBSET (Nat \X Calls)],
         \A c \in Callers : hits'[c] \subseteq hits[c]
  PROVE  LimitInv'
<1>1. LogShape'
  BY DEF LimitInv, LogShape
<1>2. ASSUME NEW c \in Callers PROVE Within(hits'[c], CallerLimit)
  <2>1. Within(hits[c], CallerLimit) /\ hits'[c] \in SUBSET hits[c]
    BY DEF LimitInv
  <2> QED BY <2>1, ThinnerIsWithin, RateLimitsAssumption
<1>3. Within(Logs', OrgLimit)
  <2>1. Within(Logs, OrgLimit) /\ Logs' \in SUBSET Logs
    BY DEF LimitInv, Logs
  <2> QED BY <2>1, ThinnerIsWithin, RateLimitsAssumption
<1> QED BY <1>1, <1>2, <1>3 DEF LimitInv, Logs, Within, InWindow

\* The logs of a call that was charged, where neither bucket asked for a wait.
LEMMA ChargedLogs ==
  ASSUME LimitInv, NEW c \in Callers, NEW call \in Calls, ~(WaitFor(c) > 0),
         now' = now, hits' \in [Callers -> SUBSET (Nat \X Calls)],
         \A d \in Callers : hits'[d] \subseteq hits[d] \cup (IF d = c THEN {<<now, call>>} ELSE {})
  PROVE  LimitInv'
<1>1. /\ now \in Nat /\ hits[c] \in SUBSET (Nat \X Calls) /\ Logs \in SUBSET (Nat \X Calls)
      /\ \A h \in Logs : h[1] <= now
      /\ \A d \in Callers : hits[d] \subseteq Logs
      /\ Within(hits[c], CallerLimit) /\ Within(Logs, OrgLimit)
  BY DEF LimitInv, LogShape, Logs
<1>2. CallerLimit \in Nat \ {0} /\ OrgLimit \in Nat \ {0}
  BY RateLimitsAssumption
<1>3. Kept(hits[c]) = InWindow(hits[c], now) /\ Kept(Logs) = InWindow(Logs, now)
  BY <1>1, KeptIsInWindow
<1>4. IsFiniteSet(Kept(hits[c])) /\ IsFiniteSet(Kept(Logs))
  BY <1>1, <1>3 DEF Within
<1>5. /\ Wait(hits[c], CallerLimit) \in Int
      /\ Wait(hits[c], CallerLimit) <= 0 => Cardinality(Kept(hits[c])) < CallerLimit
  BY <1>1, <1>2, <1>4, RoomWhenNoWait
<1>6. /\ Wait(Logs, OrgLimit) \in Int
      /\ Wait(Logs, OrgLimit) <= 0 => Cardinality(Kept(Logs)) < OrgLimit
  BY <1>1, <1>2, <1>4, RoomWhenNoWait
<1>7. Wait(hits[c], CallerLimit) <= 0 /\ Wait(Logs, OrgLimit) <= 0
  <2>1. WaitFor(c) = Longer(Wait(hits[c], CallerLimit), Wait(Logs, OrgLimit))
    BY DEF WaitFor, OrgLog, Logs
  <2> QED BY <2>1, <1>5, <1>6 DEF Longer
<1>8. LogShape'
  <2>1. ASSUME NEW d \in Callers, NEW h \in hits'[d] PROVE h[1] <= now'
    BY <2>1, <1>1
  <2> QED BY <2>1, <1>1 DEF LogShape
<1>9. ASSUME NEW d \in Callers PROVE Within(hits'[d], CallerLimit)
  <2>1. CASE d = c
    <3>1. hits'[c] \in SUBSET (hits[c] \cup {<<now, call>>})
      BY <2>1
    <3>2. \A h \in hits[c] : h[1] <= now
      BY <1>1
    <3> QED BY <2>1, <3>1, <3>2, <1>1, <1>2, <1>5, <1>7, OneMoreIsWithin
  <2>2. CASE d # c
    <3>1. hits'[d] \in SUBSET hits[d] /\ Within(hits[d], CallerLimit)
      BY <2>2 DEF LimitInv
    <3> QED BY <3>1, <1>2, ThinnerIsWithin
  <2> QED BY <2>1, <2>2
<1>10. Within(Logs', OrgLimit)
  <2>1. Logs' \in SUBSET (Logs \cup {<<now, call>>})
    BY <1>1 DEF Logs
  <2> QED BY <2>1, <1>1, <1>2, <1>6, <1>7, OneMoreIsWithin
<1> QED BY <1>8, <1>9, <1>10 DEF LimitInv, Logs, Within, InWindow

LEMMA LimitsInitially == LimitsInit => LimitInv
<1> SUFFICES ASSUME LimitsInit PROVE LimitInv
  OBVIOUS
<1>1. \A t \in Nat, limit \in Nat : InWindow({}, t) = {}
  BY DEF InWindow
<1>2. \A limit \in Nat : Within({}, limit)
  BY <1>1, FS_EmptySet DEF Within
<1>3. Logs = {} /\ \A c \in Callers : hits[c] = {}
  BY DEF LimitsInit, Logs
<1> QED BY <1>2, <1>3, RateLimitsAssumption DEF LimitsInit, LimitInv, LogShape, Logs

\* What a step does to the logs: the clock ticks, a call is answered by the
\* limiter, or nothing.
LimitStep ==
  \/ Tick
  \/ \E r \in Calls : Admit(request[r].caller, r) \/ FailOpen(request[r].caller, r)
  \/ UNCHANGED limitVars

LEMMA LimitsStep == LimitInv /\ LimitStep => LimitInv'
<1> SUFFICES ASSUME LimitInv, LimitStep PROVE LimitInv'
  OBVIOUS
<1>0. now \in Nat /\ hits \in [Callers -> SUBSET (Nat \X Calls)]
  BY DEF LimitInv, LogShape
<1>1. CASE Tick
  BY <1>1, <1>0 DEF Tick, LimitInv, LogShape, Within, InWindow
<1>2. CASE UNCHANGED limitVars
  BY <1>2, <1>0, ThinnedLogs DEF limitVars
<1>3. ASSUME NEW r \in Calls, NEW c, Admit(c, r) PROVE LimitInv'
  <2>1. /\ now' = now /\ WaitFor(c) = 0
        /\ hits' = [d \in Callers |-> Kept(hits[d]) \cup (IF d = c THEN {<<now, r>>} ELSE {})]
    BY <1>3 DEF Admit
  <2>2. /\ hits' \in [Callers -> SUBSET (Nat \X Calls)]
        /\ \A d \in Callers : hits'[d] \subseteq hits[d] \cup (IF d = c THEN {<<now, r>>} ELSE {})
    BY <2>1, <1>0 DEF Kept
  <2>3. CASE c \in Callers
    BY <2>1, <2>2, <2>3, ChargedLogs
  <2>4. CASE c \notin Callers
    BY <2>1, <2>2, <2>4, ThinnedLogs
  <2> QED BY <2>3, <2>4
<1>4. ASSUME NEW r \in Calls, NEW c, FailOpen(c, r) PROVE LimitInv'
  <2>1. CASE now' = now /\ hits' = hits
    BY <2>1, <1>0, ThinnedLogs
  <2>2. CASE /\ now' = now /\ ~(WaitFor(c) > 0)
             /\ hits' = [hits EXCEPT ![c] = Kept(@) \cup {<<now, r>>}]
    <3>1. CASE c \in Callers
      <4>1. /\ hits' \in [Callers -> SUBSET (Nat \X Calls)]
            /\ \A d \in Callers : hits'[d] \subseteq hits[d] \cup (IF d = c THEN {<<now, r>>} ELSE {})
        BY <2>2, <3>1, <1>0 DEF Kept
      <4> QED BY <2>2, <3>1, <4>1, ChargedLogs
    <3>2. CASE c \notin Callers
      <4>1. hits' = hits
        BY <2>2, <3>2, <1>0
      <4> QED BY <2>2, <4>1, <1>0, ThinnedLogs
    <3> QED BY <3>1, <3>2
  <2> QED BY <1>4, <2>1, <2>2 DEF FailOpen
<1> QED BY <1>1, <1>2, <1>3, <1>4 DEF LimitStep

-----------------------------------------------------------------------------
(* What each action does to its request                                    *)

\* Only the request r moves, to the record y.
Becomes(r, y) ==
  /\ y \in RequestRecords /\ request' \in [Calls -> RequestRecords] /\ request'[r] = y
  /\ \A q \in Calls \ {r} : request'[q] = request[q]

\* It is about the same session, for the same caller, and holds the same there.
SamePlace(x, y) ==
  y.sid = x.sid /\ y.caller = x.caller /\ y.kind = x.kind /\ y.http = x.http /\ y.handler = x.handler

IsOver(y) ==
  y.at = "over" /\ y.sid = NoSession /\ y.closing = NoSession /\ y.caller = Nobody
  /\ y.http = FALSE /\ y.handler = "none"

\* What a call's end comes to.
CallEnds(x, y) ==
  IF x.http
  THEN /\ y.at = x.at /\ y.sid = x.sid /\ y.caller = x.caller /\ y.kind = x.kind
       /\ y.closing = x.closing /\ y.http = x.http /\ y.handler = "none"
  ELSE IsOver(y)

\* What a step does not touch.
SameTransport == transport' = transport
SameGuard == owner' = owner /\ inProgress' = inProgress /\ idleSince' = idleSince /\ registered' = registered
SameAccess == access' = access /\ cut' = cut

\* One session leaves the manager.
Goes(s) == \A e \in Sessions : transport'[e] = IF e = s THEN "gone" ELSE transport[e]

\* One session is forgotten; what works in one has ended.
IsForgotten(s) ==
  \A e \in Sessions :
    /\ owner'[e] = IF e = s THEN Nobody ELSE owner[e]
    /\ inProgress'[e] = IF e = s THEN 0 ELSE inProgress[e]
    /\ idleSince'[e] = IF e = s THEN Never ELSE idleSince[e]
    /\ registered'[e] = IF e = s /\ owner[e] # Nobody THEN Nobody ELSE registered[e]

WorkEnds(s) ==
  /\ owner' = owner /\ registered' = registered
  /\ \A e \in Sessions :
       /\ inProgress'[e] = IF e = s /\ owner[e] # Nobody THEN inProgress[e] - 1 ELSE inProgress[e]
       /\ idleSince'[e] = IF e = s /\ owner[e] # Nobody /\ inProgress[e] = 1 THEN now ELSE idleSince[e]

LEMMA NeverIsInt == Never \in Int
BY DEF Never

LEMMA OverIs == Over \in RequestRecords /\ IsOver(Over)
BY NeverIsInt DEF Over, NoRequest, RequestRecords, IsOver

LEMMA RequestIs ==
  ASSUME Shape, NEW r \in Calls
  PROVE  request[r] \in RequestRecords /\ request \in [Calls -> RequestRecords]
BY DEF Shape

LEMMA Replaced ==
  ASSUME request \in [Calls -> RequestRecords], NEW r \in Calls, NEW y \in RequestRecords,
         request' = [request EXCEPT ![r] = y]
  PROVE  Becomes(r, y)
BY DEF Becomes

LEMMA GoesIs ==
  ASSUME Shape, NEW s, transport' = [transport EXCEPT ![s] = "gone"]
  PROVE  Goes(s)
BY DEF Shape, Goes

LEMMA ForgetIs ==
  ASSUME Shape, NEW s, Forget({s})
  PROVE  IsForgotten(s)
BY DEF Forget, Reported, IsForgotten

LEMMA WorkDoneIs ==
  ASSUME Shape, NEW s, WorkDone(s), owner' = owner, registered' = registered
  PROVE  WorkEnds(s)
<1>1. ASSUME NEW e \in Sessions
      PROVE  /\ inProgress'[e] = IF e = s /\ owner[e] # Nobody THEN inProgress[e] - 1 ELSE inProgress[e]
             /\ idleSince'[e] = IF e = s /\ owner[e] # Nobody /\ inProgress[e] = 1 THEN now ELSE idleSince[e]
  <2>1. CASE e = s
    BY <2>1 DEF Shape, WorkDone
  <2>2. CASE e # s
    BY <2>2 DEF Shape, WorkDone
  <2> QED BY <2>1, <2>2
<1> QED BY <1>1 DEF WorkEnds

LEMMA ArrivesIs ==
  ASSUME Shape, NEW r \in Calls, NEW c, NEW kind, NEW s, c \in Callers,
         kind \in {"open", "use", "delete"}, s \in Sessions \cup {NoSession}, Arrives(r, c, kind, s)
  PROVE  LET y == request'[r] IN
         /\ Becomes(r, y) /\ y.at = "arrived" /\ y.caller = c /\ y.kind = kind /\ y.sid = s
         /\ y.closing = NoSession /\ y.http = FALSE /\ y.handler = "none"
         /\ request[r].at = "unborn" /\ c \in access /\ (kind = "open" <=> s = NoSession)
         /\ (s # NoSession => transport[s] # "unborn")
         /\ SameTransport /\ SameGuard /\ SameAccess
<1> DEFINE y == [NoRequest EXCEPT !.at = "arrived", !.kind = kind, !.caller = c, !.sid = s]
<1>1. /\ y \in RequestRecords /\ y.at = "arrived" /\ y.caller = c /\ y.kind = kind /\ y.sid = s
      /\ y.closing = NoSession /\ y.http = FALSE /\ y.handler = "none"
  BY NeverIsInt DEF NoRequest, RequestRecords
<1>2. request' = [request EXCEPT ![r] = y]
  BY DEF Arrives
<1> HIDE DEF y
<1>3. /\ request[r].at = "unborn" /\ c \in access /\ (kind = "open" <=> s = NoSession)
      /\ (s # NoSession => transport[s] # "unborn")
      /\ SameTransport /\ SameGuard /\ SameAccess
  BY DEF Arrives, SameTransport, SameGuard, SameAccess, guardVars
<1> QED BY <1>3, <1>1, <1>2, Replaced, RequestIs DEF Becomes

\* Some request comes to the gateway.
Arrival(r) ==
  \E c \in Callers, kind \in {"open", "use", "delete"}, s \in Sessions \cup {NoSession} :
    Arrives(r, c, kind, s)

LEMMA ArrivalDoes ==
  ASSUME Shape, NEW r \in Calls, Arrival(r)
  PROVE  LET y == request'[r] IN
         /\ Becomes(r, y) /\ request[r].at = "unborn" /\ y.at = "arrived"
         /\ y.caller \in Callers /\ y.caller \in access
         /\ y.kind # "open" => y.sid \in Sessions
         /\ y.sid = NoSession \/ transport[y.sid] # "unborn"
         /\ y.closing = NoSession /\ y.http = FALSE /\ y.handler = "none"
         /\ SameTransport /\ SameGuard /\ SameAccess
<1>1. PICK c \in Callers, kind \in {"open", "use", "delete"}, s \in Sessions \cup {NoSession} :
        Arrives(r, c, kind, s)
  BY DEF Arrival
<1> DEFINE y == request'[r]
<1>2. /\ Becomes(r, y) /\ y.at = "arrived" /\ y.caller = c /\ y.kind = kind /\ y.sid = s
      /\ y.closing = NoSession /\ y.http = FALSE /\ y.handler = "none"
      /\ request[r].at = "unborn" /\ c \in access /\ (kind = "open" <=> s = NoSession)
      /\ (s # NoSession => transport[s] # "unborn")
      /\ SameTransport /\ SameGuard /\ SameAccess
  BY <1>1, ArrivesIs
<1> HIDE DEF y
<1>3. y.kind # "open" => y.sid \in Sessions
  BY <1>2
<1>4. y.sid = NoSession \/ transport[y.sid] # "unborn"
  BY <1>2
<1> QED BY <1>2, <1>3, <1>4 DEF y

LEMMA SweepsDoes ==
  ASSUME Shape, NEW r \in Calls, Sweeps(r)
  PROVE  LET x == request[r]  y == request'[r] IN
         /\ Becomes(r, y) /\ SamePlace(x, y) /\ y.closing = x.closing /\ x.at = "arrived" /\ y.at = "sweeping"
         /\ SameTransport /\ SameGuard /\ SameAccess
<1>1. PICK x \in RequestRecords : x = request[r]
  BY RequestIs
<1> DEFINE I == {s \in Sessions \ {x.sid} : IdleLong(s, now)}
           y == [x EXCEPT !.at = "sweeping", !.since = now, !.idle = I]
<1>2. I \in SUBSET Sessions /\ now \in Int
  BY DEF Shape
<1>3. request' = [request EXCEPT ![r] = y] /\ x.at = "arrived"
  BY <1>1, RequestIs DEF Sweeps
<1> HIDE DEF I
<1>4. y \in RequestRecords /\ SamePlace(x, y) /\ y.closing = x.closing /\ y.at = "sweeping"
  BY <1>2 DEF RequestRecords, SamePlace
<1> HIDE DEF y
<1>5. SameTransport /\ SameGuard /\ SameAccess
  BY DEF Sweeps, SameTransport, SameGuard, SameAccess, guardVars
<1> QED BY <1>5, <1>1, <1>3, <1>4, Replaced, RequestIs DEF Becomes

LEMMA EndsIdleDoes ==
  ASSUME Shape, NEW r \in Calls, NEW s \in Sessions, EndsIdle(r, s)
  PROVE  LET x == request[r]  y == request'[r] IN
         /\ Becomes(r, y) /\ SamePlace(x, y) /\ y.at = x.at /\ x.closing = NoSession
         /\ \/ y.closing = s /\ StillIdle(s, x.since) /\ Goes(s)
            \/ y.closing = NoSession /\ SameTransport
         /\ SameGuard /\ SameAccess
<1>1. PICK x \in RequestRecords : x = request[r]
  BY RequestIs
<1> DEFINE y == [x EXCEPT !.idle = x.idle \ {s}, !.closing = s]
           z == [x EXCEPT !.idle = x.idle \ {s}]
<1>2. x.closing = NoSession
  BY <1>1 DEF EndsIdle
<1>3. \/ /\ StillIdle(s, x.since) /\ transport' = [transport EXCEPT ![s] = "gone"]
         /\ request' = [request EXCEPT ![r] = y]
      \/ SameTransport /\ request' = [request EXCEPT ![r] = z]
  BY <1>1, RequestIs DEF EndsIdle, SameTransport
<1>4. /\ y \in RequestRecords /\ SamePlace(x, y) /\ y.closing = s /\ y.at = x.at
      /\ z \in RequestRecords /\ SamePlace(x, z) /\ z.closing = x.closing /\ z.at = x.at
  BY DEF RequestRecords, SamePlace
<1> HIDE DEF y, z
<1>5. SameGuard /\ SameAccess
  BY DEF EndsIdle, SameGuard, SameAccess, guardVars
<1> QED BY <1>5, GoesIs, <1>1, <1>2, <1>3, <1>4, Replaced, RequestIs DEF Becomes

LEMMA ForgetsDoes ==
  ASSUME Shape, NEW r \in Calls, Forgets(r)
  PROVE  LET x == request[r]  y == request'[r] IN
         /\ Becomes(r, y) /\ SamePlace(x, y) /\ y.at = x.at
         /\ x.closing # NoSession /\ y.closing = NoSession
         /\ SameTransport /\ IsForgotten(x.closing) /\ SameAccess
<1>1. PICK x \in RequestRecords : x = request[r]
  BY RequestIs
<1> DEFINE y == [x EXCEPT !.closing = NoSession]
<1>2. request' = [request EXCEPT ![r] = y] /\ x.closing # NoSession
  BY <1>1, RequestIs DEF Forgets
<1>3. y \in RequestRecords /\ SamePlace(x, y) /\ y.closing = NoSession /\ y.at = x.at
  BY DEF RequestRecords, SamePlace
<1> HIDE DEF y
<1>4. SameTransport /\ IsForgotten(x.closing) /\ SameAccess
  BY <1>1, ForgetIs DEF Forgets, SameTransport, SameAccess
<1> QED BY <1>4, <1>1, <1>2, <1>3, Replaced, RequestIs DEF Becomes

LEMMA InsideIs ==
  ASSUME NEW k \in {"open", "use", "delete"}, NEW c \in Callers \cup {Nobody},
         NEW s \in Sessions \cup {NoSession}, NEW h \in {"queued", "none"}
  PROVE  [NoRequest EXCEPT !.at = "inside", !.kind = k, !.caller = c, !.sid = s,
                           !.http = TRUE, !.handler = h] \in RequestRecords
BY NeverIsInt DEF RequestRecords, NoRequest

LEMMA PassesDoes ==
  ASSUME Shape, NEW r \in Calls, Passes(r)
  PROVE  LET x == request[r]  y == request'[r] IN
         /\ Becomes(r, y) /\ x.at \in {"arrived", "sweeping"} /\ x.kind # "open"
         /\ IF IsOwner(x.sid, x.caller)
            THEN /\ y.at = "inside" /\ y.sid = x.sid /\ y.caller = x.caller /\ y.http = TRUE
                 /\ y.handler \in {"queued", "none"} /\ y.closing = NoSession
                 /\ \A e \in Sessions :
                      /\ registered'[e] = IF e = x.sid THEN x.caller ELSE registered[e]
                      /\ inProgress'[e] = IF e = x.sid THEN inProgress[e] + 1 ELSE inProgress[e]
            ELSE IsOver(y) /\ registered' = registered /\ inProgress' = inProgress
         /\ SameTransport /\ owner' = owner /\ idleSince' = idleSince /\ SameAccess
<1>1. PICK x \in RequestRecords : x = request[r]
  BY RequestIs
<1> DEFINE y == [NoRequest EXCEPT
               !.at = "inside", !.kind = x.kind, !.caller = x.caller, !.sid = x.sid,
               !.http = TRUE, !.handler = IF x.kind = "use" THEN "queued" ELSE "none"]
<1>2. x.at \in {"arrived", "sweeping"} /\ x.kind # "open"
  BY <1>1 DEF Passes, Guarded
<1>3. request' = [request EXCEPT ![r] = IF IsOwner(x.sid, x.caller) THEN y ELSE Over]
  BY <1>1 DEF Passes
<1>4. /\ y \in RequestRecords /\ y.at = "inside" /\ y.sid = x.sid /\ y.caller = x.caller /\ y.http = TRUE
      /\ y.handler \in {"queued", "none"} /\ y.closing = NoSession
  <2>1. /\ x.kind \in {"open", "use", "delete"} /\ x.caller \in Callers \cup {Nobody}
        /\ x.sid \in Sessions \cup {NoSession}
    BY DEF RequestRecords
  <2>2. (IF x.kind = "use" THEN "queued" ELSE "none") \in {"queued", "none"}
    OBVIOUS
  <2>3. y \in RequestRecords
    BY <2>1, <2>2, InsideIs
  <2>4. /\ y.at = "inside" /\ y.sid = x.sid /\ y.caller = x.caller /\ y.http = TRUE
        /\ y.handler \in {"queued", "none"} /\ y.closing = NoSession
    BY <2>2, SMTT(60) DEF NoRequest
  <2> QED BY <2>3, <2>4
<1> HIDE DEF y
<1>5. /\ IF IsOwner(x.sid, x.caller)
         THEN \A e \in Sessions :
                /\ registered'[e] = IF e = x.sid THEN x.caller ELSE registered[e]
                /\ inProgress'[e] = IF e = x.sid THEN inProgress[e] + 1 ELSE inProgress[e]
         ELSE registered' = registered /\ inProgress' = inProgress
      /\ SameTransport /\ owner' = owner /\ idleSince' = idleSince /\ SameAccess
  <2>1. /\ IF IsOwner(x.sid, x.caller)
           THEN /\ registered' = [registered EXCEPT ![x.sid] = x.caller]
                /\ inProgress' = [inProgress EXCEPT ![x.sid] = @ + 1]
           ELSE registered' = registered /\ inProgress' = inProgress
        /\ SameTransport /\ owner' = owner /\ idleSince' = idleSince /\ SameAccess
    BY <1>1 DEF Passes, SameTransport, SameAccess
  <2> QED BY <2>1 DEF Shape
<1>6. CASE IsOwner(x.sid, x.caller)
  <2>1. Becomes(r, y) /\ request'[r] = y
    BY <1>3, <1>4, <1>6, Replaced, RequestIs DEF Becomes
  <2> QED BY <2>1, <1>1, <1>2, <1>4, <1>5, <1>6
<1>7. CASE ~IsOwner(x.sid, x.caller)
  <2>1. Becomes(r, Over) /\ request'[r] = Over /\ IsOver(Over)
    BY <1>3, <1>7, Replaced, RequestIs, OverIs DEF Becomes
  <2> QED BY <2>1, <1>1, <1>2, <1>5, <1>7
<1> QED BY <1>6, <1>7

LEMMA OpensDoes ==
  ASSUME Shape, NEW r \in Calls, Opens(r)
  PROVE  LET x == request[r]  y == request'[r] IN
         /\ Becomes(r, y) /\ x.at \in {"arrived", "sweeping"} /\ y.at = "opening"
         /\ y.caller = x.caller /\ y.http = x.http /\ y.handler = x.handler /\ y.closing = x.closing
         /\ y.sid \in Sessions /\ transport[y.sid] = "unborn"
         /\ \A e \in Sessions : transport'[e] = IF e = y.sid THEN "live" ELSE transport[e]
         /\ SameGuard /\ SameAccess
<1>1. PICK x \in RequestRecords : x = request[r]
  BY RequestIs
<1>2. PICK s \in Sessions :
        /\ transport[s] = "unborn" /\ transport' = [transport EXCEPT ![s] = "live"]
        /\ request' = [request EXCEPT ![r].at = "opening", ![r].sid = s, ![r].since = Never]
  BY DEF Opens
<1> DEFINE y == [x EXCEPT !.at = "opening", !.sid = s, !.since = Never]
<1>3. request' = [request EXCEPT ![r] = y] /\ x.at \in {"arrived", "sweeping"}
  BY <1>1, <1>2, RequestIs DEF Opens, Guarded
<1>4. /\ y \in RequestRecords /\ y.at = "opening" /\ y.sid = s /\ y.caller = x.caller /\ y.http = x.http
      /\ y.handler = x.handler /\ y.closing = x.closing
  BY NeverIsInt DEF RequestRecords
<1> HIDE DEF y
<1>5. /\ \A e \in Sessions : transport'[e] = IF e = s THEN "live" ELSE transport[e]
      /\ SameGuard /\ SameAccess
  BY <1>2 DEF Shape, Opens, SameGuard, SameAccess, guardVars
<1>6. Becomes(r, y) /\ request'[r] = y
  BY <1>3, <1>4, Replaced, RequestIs DEF Becomes
<1>7. y.sid \in Sessions /\ transport[y.sid] = "unborn"
  BY <1>2, <1>4
<1>8. \A e \in Sessions : transport'[e] = IF e = y.sid THEN "live" ELSE transport[e]
  BY <1>4, <1>5
<1> QED BY <1>1, <1>3, <1>4, <1>5, <1>6, <1>7, <1>8

LEMMA RecordsDoes ==
  ASSUME Shape, Fresh, NEW r \in Calls, Records(r)
  PROVE  LET s == request[r].sid  c == request[r].caller
             Ended(e) == owner[e] # Nobody /\ ~Alive(e) IN
         /\ Becomes(r, request'[r]) /\ request[r].at = "opening" /\ IsOver(request'[r])
         /\ \/ /\ \A e \in Sessions :
                   /\ owner'[e] = IF e = s THEN c ELSE IF Ended(e) THEN Nobody ELSE owner[e]
                   /\ idleSince'[e] = IF e = s THEN now ELSE IF Ended(e) THEN Never ELSE idleSince[e]
                   /\ inProgress'[e] = IF Ended(e) THEN 0 ELSE inProgress[e]
                   /\ registered'[e] = IF Ended(e) THEN Nobody ELSE registered[e]
                /\ SameTransport
            \/ Goes(s) /\ SameGuard
         /\ SameAccess
<1> DEFINE s == request[r].sid
           c == request[r].caller
           Ended(e) == owner[e] # Nobody /\ ~Alive(e)
           ended == {e \in Sessions : owner[e] # Nobody /\ ~Alive(e)}
<1>1. request' = [request EXCEPT ![r] = Over] /\ request[r].at = "opening" /\ SameAccess
  BY DEF Records, SameAccess
<1>0. owner[s] = Nobody
  BY <1>1 DEF Fresh, Untouched
<1>2. Becomes(r, request'[r]) /\ IsOver(request'[r])
  BY <1>1, Replaced, RequestIs, OverIs DEF Becomes
<1>3. CASE /\ owner' = [e \in Sessions |-> CASE e = s -> c [] e \in ended -> Nobody [] OTHER -> owner[e]]
           /\ idleSince' = [e \in Sessions |-> CASE e = s -> now [] e \in ended -> Never
                                               [] OTHER -> idleSince[e]]
           /\ inProgress' = [e \in Sessions |-> IF e \in ended THEN 0 ELSE inProgress[e]]
           /\ registered' = Reported(ended) /\ UNCHANGED transport
  <2>1. SameTransport
    BY <1>3 DEF SameTransport
  <2>2. ASSUME NEW e \in Sessions
        PROVE  /\ owner'[e] = IF e = s THEN c ELSE IF Ended(e) THEN Nobody ELSE owner[e]
               /\ idleSince'[e] = IF e = s THEN now ELSE IF Ended(e) THEN Never ELSE idleSince[e]
               /\ inProgress'[e] = IF Ended(e) THEN 0 ELSE inProgress[e]
               /\ registered'[e] = IF Ended(e) THEN Nobody ELSE registered[e]
    <3>1. e \in ended <=> Ended(e)
      OBVIOUS
    <3>2. ~(e = s /\ Ended(e))
      BY <1>0
    <3>3. e \in ended => owner[e] # Nobody
      OBVIOUS
    <3> HIDE DEF ended, Ended, s, c
    <3> QED BY <1>3, <3>1, <3>2, <3>3 DEF Reported
  <2> QED BY <1>1, <1>2, <2>1, <2>2
<1>4. CASE transport' = [transport EXCEPT ![s] = "gone"] /\ UNCHANGED guardVars
  BY <1>1, <1>2, <1>4, GoesIs DEF SameGuard, guardVars
<1> QED
  <2>1. \/ /\ owner' = [e \in Sessions |-> CASE e = s -> c [] e \in ended -> Nobody [] OTHER -> owner[e]]
           /\ idleSince' = [e \in Sessions |-> CASE e = s -> now [] e \in ended -> Never
                                               [] OTHER -> idleSince[e]]
           /\ inProgress' = [e \in Sessions |-> IF e \in ended THEN 0 ELSE inProgress[e]]
           /\ registered' = Reported(ended) /\ UNCHANGED transport
        \/ transport' = [transport EXCEPT ![s] = "gone"] /\ UNCHANGED guardVars
    BY DEF Records
  <2> QED BY <2>1, <1>3, <1>4

LEMMA CallOverDoes ==
  ASSUME Shape, NEW r \in Calls, CallOver(r)
  PROVE  Becomes(r, request'[r]) /\ CallEnds(request[r], request'[r])
<1>1. PICK x \in RequestRecords : x = request[r]
  BY RequestIs
<1> DEFINE y == [x EXCEPT !.handler = "none"]
<1>2. request' = [request EXCEPT ![r] = IF x.http THEN y ELSE Over]
  BY <1>1, RequestIs DEF CallOver
<1>3. y \in RequestRecords /\ (x.http => CallEnds(x, y)) /\ (~x.http => CallEnds(x, Over))
  BY OverIs DEF RequestRecords, CallEnds
<1> HIDE DEF y
<1> QED BY <1>1, <1>2, <1>3, Replaced, RequestIs, OverIs DEF Becomes

LEMMA BeginsDoes ==
  ASSUME Shape, NEW r \in Calls, RequestBegins(r)
  PROVE  LET x == request[r]  y == request'[r] IN
         /\ Becomes(r, y) /\ x.handler = "queued" /\ Alive(x.sid)
         /\ \/ /\ y.at = x.at /\ y.sid = x.sid /\ y.caller = x.caller /\ y.kind = x.kind
               /\ y.closing = x.closing /\ y.http = x.http /\ y.handler = "running"
               /\ \A e \in Sessions : inProgress'[e] = IF e = x.sid /\ owner[e] # Nobody
                                                      THEN inProgress[e] + 1 ELSE inProgress[e]
            \/ CallEnds(x, y) /\ inProgress' = inProgress
         /\ SameTransport /\ owner' = owner /\ idleSince' = idleSince /\ registered' = registered /\ SameAccess
<1>1. PICK x \in RequestRecords : x = request[r]
  BY RequestIs
<1> DEFINE y == [x EXCEPT !.handler = "running"]
<1>2. x.handler = "queued" /\ Alive(x.sid)
  BY <1>1 DEF RequestBegins
<1>3. \/ request' = [request EXCEPT ![r] = y] /\ inProgress' = Busier({x.sid})
      \/ CallOver(r) /\ inProgress' = inProgress
  BY <1>1, RequestIs DEF RequestBegins
<1>4. /\ y \in RequestRecords /\ y.at = x.at /\ y.sid = x.sid /\ y.caller = x.caller /\ y.kind = x.kind
      /\ y.closing = x.closing /\ y.http = x.http /\ y.handler = "running"
  BY DEF RequestRecords
<1> HIDE DEF y
<1>5. inProgress' = Busier({x.sid}) =>
        \A e \in Sessions : inProgress'[e] = IF e = x.sid /\ owner[e] # Nobody
                                             THEN inProgress[e] + 1 ELSE inProgress[e]
  BY DEF Busier
<1>6. SameTransport /\ owner' = owner /\ idleSince' = idleSince /\ registered' = registered /\ SameAccess
  BY DEF RequestBegins, SameTransport, SameAccess
<1> QED BY <1>5, <1>6, <1>1, <1>2, <1>3, <1>4, Replaced, RequestIs, CallOverDoes DEF Becomes

LEMMA ClosesDoes ==
  ASSUME Shape, NEW r \in Calls, Closes(r)
  PROVE  LET x == request[r]  y == request'[r] IN
         /\ Becomes(r, y) /\ x.http
         /\ IF x.handler # "none" /\ (x.handler # "queued" \/ Alive(x.sid))
            THEN /\ y.at = x.at /\ y.sid = x.sid /\ y.caller = x.caller /\ y.kind = x.kind
                 /\ y.closing = x.closing /\ y.http = FALSE /\ y.handler = x.handler
            ELSE IsOver(y)
         /\ \/ x.kind # "delete" /\ WorkEnds(x.sid) /\ SameTransport
            \/ x.kind = "delete" /\ Goes(x.sid) /\ IsForgotten(x.sid)
         /\ SameAccess
<1>1. PICK x \in RequestRecords : x = request[r]
  BY RequestIs
<1> DEFINE y == [x EXCEPT !.http = FALSE]
<1>2. /\ x.http
      /\ request' = [request EXCEPT ![r] =
           IF x.handler # "none" /\ (x.handler # "queued" \/ Alive(x.sid)) THEN y ELSE Over]
  BY <1>1, RequestIs DEF Closes
<1>3. /\ y \in RequestRecords /\ y.at = x.at /\ y.sid = x.sid /\ y.caller = x.caller /\ y.kind = x.kind
      /\ y.closing = x.closing /\ y.http = FALSE /\ y.handler = x.handler
  BY DEF RequestRecords
<1> HIDE DEF y
<1>4. /\ \/ x.kind # "delete" /\ WorkEnds(x.sid) /\ SameTransport
         \/ x.kind = "delete" /\ Goes(x.sid) /\ IsForgotten(x.sid)
      /\ SameAccess
  <2>1. /\ \/ x.kind # "delete" /\ WorkDone(x.sid) /\ UNCHANGED <<transport, owner, registered>>
           \/ x.kind = "delete" /\ transport' = [transport EXCEPT ![x.sid] = "gone"] /\ Forget({x.sid})
        /\ SameAccess
    BY <1>1 DEF Closes, SameAccess
  <2> QED BY <2>1, GoesIs, ForgetIs, WorkDoneIs DEF SameTransport
<1> QED BY <1>4, <1>1, <1>2, <1>3, Replaced, RequestIs, OverIs DEF Becomes

LEMMA RepliesDoes ==
  ASSUME Shape, NEW r \in Calls, Replies(r)
  PROVE  LET x == request[r]  y == request'[r] IN
         /\ Becomes(r, y) /\ x.handler = "running" /\ CallEnds(x, y)
         /\ WorkEnds(x.sid) /\ SameTransport /\ SameAccess
BY CallOverDoes, WorkDoneIs DEF Replies, SameTransport, SameAccess

LEMMA TerminatesDoes ==
  ASSUME Shape, NEW c \in Callers, NEW s \in Sessions, Terminates(c, s)
  PROVE  /\ request' = request /\ owner' = owner /\ inProgress' = inProgress /\ idleSince' = idleSince
         /\ Goes(s) /\ access' = access
         /\ \A e \in Sessions : registered'[e] = IF e = s THEN Nobody ELSE registered[e]
BY GoesIs DEF Terminates, Shape

LEMMA NotifiesDoes ==
  ASSUME Shape, Notifies
  PROVE  /\ request' = request /\ owner' = owner /\ inProgress' = inProgress /\ idleSince' = idleSince
         /\ SameTransport /\ SameAccess
         /\ \A e \in Sessions : registered'[e] = IF transport[e] = "gone" THEN Nobody ELSE registered[e]
BY DEF Notifies, SameTransport, SameAccess

\* The rest leaves the sessions and the requests alone.
Elsewhere == request' = request /\ SameTransport /\ SameGuard

LEMMA ElsewhereIs ==
  /\ \A c \in Callers : Revokes(c) \/ (\E how \in Hows : Cuts(c, how)) => Elsewhere
  /\ ClockNext \/ UNCHANGED sessionVars => Elsewhere /\ SameAccess
BY DEF Revokes, Cuts, ClockNext, Elsewhere, SameTransport, SameGuard, SameAccess, sessionVars, guardVars

-----------------------------------------------------------------------------
(* The parts of the invariant                                              *)

LEMMA PlacedWhenMoved ==
  ASSUME AtTheGuard, NEW r \in Calls, Becomes(r, request'[r]), Placed(request'[r])
  PROVE  AtTheGuard'
BY DEF AtTheGuard, Becomes

\* Nobody is in a session that the guard did not let in.
LEMMA AtTheGuardStep ==
  ASSUME Shape, Fresh, AtTheGuard, [SessionsNext]_sessionVars
  PROVE  AtTheGuard'
<1>1. ASSUME NEW r \in Calls, Arrival(r)
      PROVE  AtTheGuard'
  <2> DEFINE y == request'[r]
  <2>1. Becomes(r, y) /\ y.at = "arrived" /\ y.caller \in Callers /\ (y.kind # "open" => y.sid \in Sessions)
    BY <1>1, ArrivalDoes
  <2>2. y.http = FALSE /\ y.handler = "none"
    BY <1>1, ArrivalDoes
  <2>3. Placed(y)
    BY <2>1, <2>2 DEF Placed
  <2> QED BY <2>1, <2>3, PlacedWhenMoved
<1>2. ASSUME NEW r \in Calls, Sweeps(r)
      PROVE  AtTheGuard'
  <2>1. Placed(request[r])
    BY DEF AtTheGuard
  <2>2. Becomes(r, request'[r]) /\ Placed(request'[r])
    BY <1>2, SweepsDoes, <2>1 DEF Placed, SamePlace
  <2> QED BY <2>2, PlacedWhenMoved
<1>3. ASSUME NEW r \in Calls, NEW s \in Sessions, EndsIdle(r, s)
      PROVE  AtTheGuard'
  <2>1. Placed(request[r])
    BY DEF AtTheGuard
  <2>2. Becomes(r, request'[r]) /\ Placed(request'[r])
    BY <1>3, EndsIdleDoes, <2>1 DEF Placed, SamePlace
  <2> QED BY <2>2, PlacedWhenMoved
<1>4. ASSUME NEW r \in Calls, Forgets(r)
      PROVE  AtTheGuard'
  <2>1. Placed(request[r])
    BY DEF AtTheGuard
  <2>2. Becomes(r, request'[r]) /\ Placed(request'[r])
    BY <1>4, ForgetsDoes, <2>1 DEF Placed, SamePlace
  <2> QED BY <2>2, PlacedWhenMoved
<1>5. ASSUME NEW r \in Calls, Passes(r)
      PROVE  AtTheGuard'
  <2>1. Placed(request[r])
    BY DEF AtTheGuard
  <2>2. Becomes(r, request'[r]) /\ Placed(request'[r])
    BY <1>5, PassesDoes, <2>1 DEF Placed, IsOver
  <2> QED BY <2>2, PlacedWhenMoved
<1>6. ASSUME NEW r \in Calls, Opens(r)
      PROVE  AtTheGuard'
  <2>1. Placed(request[r])
    BY DEF AtTheGuard
  <2>2. Becomes(r, request'[r]) /\ Placed(request'[r])
    BY <1>6, OpensDoes, <2>1 DEF Placed
  <2> QED BY <2>2, PlacedWhenMoved
<1>7. ASSUME NEW r \in Calls, Records(r)
      PROVE  AtTheGuard'
  <2>1. Placed(request[r])
    BY DEF AtTheGuard
  <2>2. Becomes(r, request'[r]) /\ Placed(request'[r])
    BY <1>7, RecordsDoes, <2>1 DEF Placed, IsOver
  <2> QED BY <2>2, PlacedWhenMoved
<1>8. ASSUME NEW r \in Calls, RequestBegins(r)
      PROVE  AtTheGuard'
  <2>1. Placed(request[r])
    BY DEF AtTheGuard
  <2>2. Becomes(r, request'[r]) /\ Placed(request'[r])
    BY <1>8, BeginsDoes, <2>1 DEF Placed, CallEnds, IsOver
  <2> QED BY <2>2, PlacedWhenMoved
<1>9. ASSUME NEW r \in Calls, Replies(r)
      PROVE  AtTheGuard'
  <2>1. Placed(request[r])
    BY DEF AtTheGuard
  <2>2. Becomes(r, request'[r]) /\ Placed(request'[r])
    BY <1>9, RepliesDoes, <2>1 DEF Placed, CallEnds, IsOver
  <2> QED BY <2>2, PlacedWhenMoved
<1>10. ASSUME NEW r \in Calls, Closes(r)
      PROVE  AtTheGuard'
  <2>1. Placed(request[r])
    BY DEF AtTheGuard
  <2>2. Becomes(r, request'[r]) /\ Placed(request'[r])
    BY <1>10, ClosesDoes, <2>1 DEF Placed, CallEnds, IsOver
  <2> QED BY <2>2, PlacedWhenMoved
<1>11. ASSUME NEW c \in Callers, NEW s \in Sessions, Terminates(c, s)
      PROVE  AtTheGuard'
  BY <1>11, TerminatesDoes DEF AtTheGuard
<1>12. ASSUME Notifies
      PROVE  AtTheGuard'
  BY <1>12, NotifiesDoes DEF AtTheGuard
<1>13. CASE Elsewhere
  BY <1>13 DEF Elsewhere, SameTransport, SameGuard, AtTheGuard
<1> QED
  BY <1>1, <1>2, <1>3, <1>4, <1>5, <1>6, <1>7, <1>8, <1>9, <1>10, <1>11, <1>12, <1>13, ElsewhereIs
  DEF SessionsNext, RequestNext, CutNext, Arrival

\* A session that is gone stays so, and none is unborn again.
Aging ==
  \A e \in Sessions : /\ transport[e] = "gone" => transport'[e] = "gone"
                      /\ transport'[e] = "unborn" => transport[e] = "unborn"

\* No step brings a session back.
LEMMA AgingStep ==
  ASSUME Shape, Fresh, [SessionsNext]_sessionVars
  PROVE  Aging
<1>1. ASSUME NEW r \in Calls, Arrival(r)
      PROVE  Aging
  BY <1>1, ArrivalDoes DEF SameTransport, Aging, Becomes
<1>2. ASSUME NEW r \in Calls, Sweeps(r)
      PROVE  Aging
  BY <1>2, SweepsDoes DEF SameTransport, Aging, Becomes
<1>3. ASSUME NEW r \in Calls, NEW s \in Sessions, EndsIdle(r, s)
      PROVE  Aging
  BY <1>3, EndsIdleDoes DEF SameTransport, Goes, Aging, Becomes
<1>4. ASSUME NEW r \in Calls, Forgets(r)
      PROVE  Aging
  BY <1>4, ForgetsDoes DEF SameTransport, Aging, Becomes
<1>5. ASSUME NEW r \in Calls, Passes(r)
      PROVE  Aging
  BY <1>5, PassesDoes DEF SameTransport, Aging, Becomes
<1>6. ASSUME NEW r \in Calls, Opens(r)
      PROVE  Aging
  BY <1>6, OpensDoes DEF Aging
<1>7. ASSUME NEW r \in Calls, Records(r)
      PROVE  Aging
  BY <1>7, RecordsDoes DEF SameTransport, Goes, Aging, Becomes
<1>8. ASSUME NEW r \in Calls, RequestBegins(r)
      PROVE  Aging
  BY <1>8, BeginsDoes DEF SameTransport, Aging, Becomes
<1>9. ASSUME NEW r \in Calls, Replies(r)
      PROVE  Aging
  BY <1>9, RepliesDoes DEF SameTransport, Aging, Becomes
<1>10. ASSUME NEW r \in Calls, Closes(r)
      PROVE  Aging
  BY <1>10, ClosesDoes DEF SameTransport, Goes, Aging, Becomes
<1>11. ASSUME NEW c \in Callers, NEW s \in Sessions, Terminates(c, s)
      PROVE  Aging
  BY <1>11, TerminatesDoes DEF SameTransport, Goes, Aging
<1>12. ASSUME Notifies
      PROVE  Aging
  BY <1>12, NotifiesDoes DEF SameTransport, Aging
<1>13. CASE Elsewhere
  BY <1>13 DEF Elsewhere, SameTransport, SameGuard, Aging
<1> QED
  BY <1>1, <1>2, <1>3, <1>4, <1>5, <1>6, <1>7, <1>8, <1>9, <1>10, <1>11, <1>12, <1>13, ElsewhereIs
  DEF SessionsNext, RequestNext, CutNext, Arrival

LEMMA GoneFirstWhenMoved ==
  ASSUME Shape, GoneFirst, Aging, NEW r \in Calls, Becomes(r, request'[r]),
         \/ request'[r].closing \in {NoSession, request[r].closing}
         \/ transport'[request'[r].closing] = "gone"
  PROVE  GoneFirst'
<1>1. ASSUME NEW q \in Calls, request'[q].closing # NoSession
      PROVE  transport'[request'[q].closing] = "gone"
  <2>1. CASE q # r
    <3>1. request'[q] = request[q] /\ request[q].closing \in Sessions
      BY <1>1, <2>1 DEF Becomes, Shape, RequestRecords
    <3> QED BY <1>1, <3>1 DEF GoneFirst, Aging
  <2>2. CASE q = r
    <3>1. request[r].closing \in Sessions \cup {NoSession}
      BY DEF Shape, RequestRecords
    <3> QED BY <1>1, <2>2, <3>1 DEF GoneFirst, Aging
  <2> QED BY <2>1, <2>2
<1> QED BY <1>1 DEF GoneFirst

\* What the sweep closes is gone before it is forgotten.
LEMMA GoneFirstStep ==
  ASSUME Shape, Fresh, GoneFirst, [SessionsNext]_sessionVars
  PROVE  GoneFirst'
<1>1. ASSUME NEW r \in Calls, Arrival(r)
      PROVE  GoneFirst'
  <2>1. /\ Becomes(r, request'[r])
        /\ \/ request'[r].closing \in {NoSession, request[r].closing}
           \/ transport'[request'[r].closing] = "gone"
    BY <1>1, ArrivalDoes
  <2> QED BY <2>1, AgingStep, GoneFirstWhenMoved
<1>2. ASSUME NEW r \in Calls, Sweeps(r)
      PROVE  GoneFirst'
  <2>1. /\ Becomes(r, request'[r])
        /\ \/ request'[r].closing \in {NoSession, request[r].closing}
           \/ transport'[request'[r].closing] = "gone"
    BY <1>2, SweepsDoes DEF SamePlace
  <2> QED BY <2>1, AgingStep, GoneFirstWhenMoved
<1>3. ASSUME NEW r \in Calls, NEW s \in Sessions, EndsIdle(r, s)
      PROVE  GoneFirst'
  <2>1. /\ Becomes(r, request'[r])
        /\ \/ request'[r].closing \in {NoSession, request[r].closing}
           \/ transport'[request'[r].closing] = "gone"
    BY <1>3, EndsIdleDoes DEF Goes
  <2> QED BY <2>1, AgingStep, GoneFirstWhenMoved
<1>4. ASSUME NEW r \in Calls, Forgets(r)
      PROVE  GoneFirst'
  <2>1. /\ Becomes(r, request'[r])
        /\ \/ request'[r].closing \in {NoSession, request[r].closing}
           \/ transport'[request'[r].closing] = "gone"
    BY <1>4, ForgetsDoes
  <2> QED BY <2>1, AgingStep, GoneFirstWhenMoved
<1>5. ASSUME NEW r \in Calls, Passes(r)
      PROVE  GoneFirst'
  <2>1. /\ Becomes(r, request'[r])
        /\ \/ request'[r].closing \in {NoSession, request[r].closing}
           \/ transport'[request'[r].closing] = "gone"
    BY <1>5, PassesDoes DEF IsOver
  <2> QED BY <2>1, AgingStep, GoneFirstWhenMoved
<1>6. ASSUME NEW r \in Calls, Opens(r)
      PROVE  GoneFirst'
  <2>1. /\ Becomes(r, request'[r])
        /\ \/ request'[r].closing \in {NoSession, request[r].closing}
           \/ transport'[request'[r].closing] = "gone"
    BY <1>6, OpensDoes
  <2> QED BY <2>1, AgingStep, GoneFirstWhenMoved
<1>7. ASSUME NEW r \in Calls, Records(r)
      PROVE  GoneFirst'
  <2>1. /\ Becomes(r, request'[r])
        /\ \/ request'[r].closing \in {NoSession, request[r].closing}
           \/ transport'[request'[r].closing] = "gone"
    BY <1>7, RecordsDoes DEF IsOver
  <2> QED BY <2>1, AgingStep, GoneFirstWhenMoved
<1>8. ASSUME NEW r \in Calls, RequestBegins(r)
      PROVE  GoneFirst'
  <2>1. /\ Becomes(r, request'[r])
        /\ \/ request'[r].closing \in {NoSession, request[r].closing}
           \/ transport'[request'[r].closing] = "gone"
    BY <1>8, BeginsDoes DEF CallEnds, IsOver
  <2> QED BY <2>1, AgingStep, GoneFirstWhenMoved
<1>9. ASSUME NEW r \in Calls, Replies(r)
      PROVE  GoneFirst'
  <2>1. /\ Becomes(r, request'[r])
        /\ \/ request'[r].closing \in {NoSession, request[r].closing}
           \/ transport'[request'[r].closing] = "gone"
    BY <1>9, RepliesDoes DEF CallEnds, IsOver
  <2> QED BY <2>1, AgingStep, GoneFirstWhenMoved
<1>10. ASSUME NEW r \in Calls, Closes(r)
      PROVE  GoneFirst'
  <2>1. /\ Becomes(r, request'[r])
        /\ \/ request'[r].closing \in {NoSession, request[r].closing}
           \/ transport'[request'[r].closing] = "gone"
    BY <1>10, ClosesDoes DEF CallEnds, IsOver
  <2> QED BY <2>1, AgingStep, GoneFirstWhenMoved
<1>11. ASSUME NEW c \in Callers, NEW s \in Sessions, Terminates(c, s)
      PROVE  GoneFirst'
  <2>1. \A q \in Calls : request[q].closing \in Sessions \cup {NoSession}
    BY DEF Shape, RequestRecords
  <2> QED BY <1>11, <2>1, AgingStep, TerminatesDoes DEF GoneFirst, Aging
<1>12. ASSUME Notifies
      PROVE  GoneFirst'
  <2>1. \A q \in Calls : request[q].closing \in Sessions \cup {NoSession}
    BY DEF Shape, RequestRecords
  <2> QED BY <1>12, <2>1, AgingStep, NotifiesDoes DEF GoneFirst, Aging
<1>13. CASE Elsewhere
  BY <1>13 DEF Elsewhere, SameTransport, SameGuard, GoneFirst
<1> QED
  BY <1>1, <1>2, <1>3, <1>4, <1>5, <1>6, <1>7, <1>8, <1>9, <1>10, <1>11, <1>12, <1>13, ElsewhereIs
  DEF SessionsNext, RequestNext, CutNext, Arrival

\* A session has a time since which it is idle while it is owned.
LEMMA IdleOfOwnedStep ==
  ASSUME Shape, Fresh, AtTheGuard, IdleOfOwned, [SessionsNext]_sessionVars
  PROVE  IdleOfOwned'
<1>1. ASSUME NEW r \in Calls, Arrival(r)
      PROVE  IdleOfOwned'
  BY <1>1, ArrivalDoes DEF SameGuard, IdleOfOwned, Becomes
<1>2. ASSUME NEW r \in Calls, Sweeps(r)
      PROVE  IdleOfOwned'
  BY <1>2, SweepsDoes DEF SameGuard, IdleOfOwned, Becomes
<1>3. ASSUME NEW r \in Calls, NEW s \in Sessions, EndsIdle(r, s)
      PROVE  IdleOfOwned'
  BY <1>3, EndsIdleDoes DEF SameGuard, IdleOfOwned, Becomes
<1>4. ASSUME NEW r \in Calls, Forgets(r)
      PROVE  IdleOfOwned'
  BY <1>4, ForgetsDoes DEF IsForgotten, IdleOfOwned, Becomes
<1>5. ASSUME NEW r \in Calls, Passes(r)
      PROVE  IdleOfOwned'
  BY <1>5, PassesDoes DEF IdleOfOwned, Becomes
<1>6. ASSUME NEW r \in Calls, Opens(r)
      PROVE  IdleOfOwned'
  BY <1>6, OpensDoes DEF SameGuard, IdleOfOwned, Becomes
<1>7. ASSUME NEW r \in Calls, Records(r)
      PROVE  IdleOfOwned'
  <2>1. request[r].caller \in Callers /\ request[r].at = "opening"
    BY <1>7, RecordsDoes DEF AtTheGuard, Placed
  <2>2. now \in Nat /\ now # Never
    BY DEF Shape, Never
  <2> QED BY <1>7, <2>1, <2>2, CallersAssumption, RecordsDoes DEF IdleOfOwned, SameGuard
<1>8. ASSUME NEW r \in Calls, RequestBegins(r)
      PROVE  IdleOfOwned'
  BY <1>8, BeginsDoes DEF IdleOfOwned, Becomes
<1>9. ASSUME NEW r \in Calls, Replies(r)
      PROVE  IdleOfOwned'
  <2>1. now \in Nat /\ now # Never
    BY DEF Shape, Never
  <2> QED BY <1>9, <2>1, RepliesDoes DEF IdleOfOwned, WorkEnds, IsForgotten
<1>10. ASSUME NEW r \in Calls, Closes(r)
      PROVE  IdleOfOwned'
  <2>1. now \in Nat /\ now # Never
    BY DEF Shape, Never
  <2> QED BY <1>10, <2>1, ClosesDoes DEF IdleOfOwned, WorkEnds, IsForgotten
<1>11. ASSUME NEW c \in Callers, NEW s \in Sessions, Terminates(c, s)
      PROVE  IdleOfOwned'
  BY <1>11, TerminatesDoes DEF IdleOfOwned
<1>12. ASSUME Notifies
      PROVE  IdleOfOwned'
  BY <1>12, NotifiesDoes DEF IdleOfOwned
<1>13. CASE Elsewhere
  BY <1>13 DEF Elsewhere, SameTransport, SameGuard, IdleOfOwned
<1> QED
  BY <1>1, <1>2, <1>3, <1>4, <1>5, <1>6, <1>7, <1>8, <1>9, <1>10, <1>11, <1>12, <1>13, ElsewhereIs
  DEF SessionsNext, RequestNext, CutNext, Arrival

\* A session is registered for its owner alone.
LEMMA RegisteredIsOwnedStep ==
  ASSUME Shape, Fresh, RegisteredIsOwned, [SessionsNext]_sessionVars
  PROVE  RegisteredIsOwned'
<1>1. ASSUME NEW r \in Calls, Arrival(r)
      PROVE  RegisteredIsOwned'
  BY <1>1, ArrivalDoes DEF SameGuard, RegisteredIsOwned, Becomes
<1>2. ASSUME NEW r \in Calls, Sweeps(r)
      PROVE  RegisteredIsOwned'
  BY <1>2, SweepsDoes DEF SameGuard, RegisteredIsOwned, Becomes
<1>3. ASSUME NEW r \in Calls, NEW s \in Sessions, EndsIdle(r, s)
      PROVE  RegisteredIsOwned'
  BY <1>3, EndsIdleDoes DEF SameGuard, RegisteredIsOwned, Becomes
<1>4. ASSUME NEW r \in Calls, Forgets(r)
      PROVE  RegisteredIsOwned'
  BY <1>4, ForgetsDoes DEF IsForgotten, RegisteredIsOwned, Becomes
<1>5. ASSUME NEW r \in Calls, Passes(r)
      PROVE  RegisteredIsOwned'
  <2>1. CASE IsOwner(request[r].sid, request[r].caller)
    <3>1. owner[request[r].sid] = request[r].caller
      BY <2>1 DEF IsOwner
    <3>2. /\ owner' = owner
          /\ \A e \in Sessions : registered'[e] = IF e = request[r].sid THEN request[r].caller ELSE registered[e]
      BY <1>5, <2>1, PassesDoes
    <3> QED BY <3>1, <3>2 DEF RegisteredIsOwned
  <2>2. CASE ~IsOwner(request[r].sid, request[r].caller)
    <3>1. owner' = owner /\ registered' = registered
      BY <1>5, <2>2, PassesDoes
    <3> QED BY <3>1 DEF RegisteredIsOwned
  <2> QED BY <2>1, <2>2
<1>6. ASSUME NEW r \in Calls, Opens(r)
      PROVE  RegisteredIsOwned'
  BY <1>6, OpensDoes DEF SameGuard, RegisteredIsOwned, Becomes
<1>7. ASSUME NEW r \in Calls, Records(r)
      PROVE  RegisteredIsOwned'
  <2>1. owner[request[r].sid] = Nobody
    BY <1>7, RecordsDoes DEF Fresh, Untouched
  <2> QED BY <1>7, <2>1, RecordsDoes DEF RegisteredIsOwned, SameGuard
<1>8. ASSUME NEW r \in Calls, RequestBegins(r)
      PROVE  RegisteredIsOwned'
  BY <1>8, BeginsDoes DEF RegisteredIsOwned, Becomes
<1>9. ASSUME NEW r \in Calls, Replies(r)
      PROVE  RegisteredIsOwned'
  BY <1>9, RepliesDoes DEF WorkEnds, RegisteredIsOwned, Becomes
<1>10. ASSUME NEW r \in Calls, Closes(r)
      PROVE  RegisteredIsOwned'
  BY <1>10, ClosesDoes DEF WorkEnds, IsForgotten, RegisteredIsOwned, Becomes
<1>11. ASSUME NEW c \in Callers, NEW s \in Sessions, Terminates(c, s)
      PROVE  RegisteredIsOwned'
  BY <1>11, TerminatesDoes DEF RegisteredIsOwned
<1>12. ASSUME Notifies
      PROVE  RegisteredIsOwned'
  BY <1>12, NotifiesDoes DEF RegisteredIsOwned
<1>13. CASE Elsewhere
  BY <1>13 DEF Elsewhere, SameTransport, SameGuard, RegisteredIsOwned
<1> QED
  BY <1>1, <1>2, <1>3, <1>4, <1>5, <1>6, <1>7, <1>8, <1>9, <1>10, <1>11, <1>12, <1>13, ElsewhereIs
  DEF SessionsNext, RequestNext, CutNext, Arrival

\* What a request holds in a session.
Holds(x) == x.http = TRUE \/ x.handler # "none"

\* Sessions that no one owns stay so, save for the one that is recorded.
OwnedByRecord(x, y) ==
  \A e \in Sessions : owner[e] = Nobody /\ inProgress[e] = 0 =>
    \/ owner'[e] = Nobody /\ inProgress'[e] = 0
    \/ x.at = "opening" /\ x.sid = e /\ IsOver(y)

\* A request stays in its session, or leaves it.
StaysPut(x, y) ==
  \/ /\ y.sid = x.sid /\ y.at \in {x.at, "sweeping", "over"}
     /\ Holds(y) => Holds(x)
  \/ y.sid = NoSession /\ y.at = "over"

\* A request enters no session but one that is owned.
EntersOwned(x, y) ==
  \A e \in Sessions : y.sid = e =>
    /\ transport[e] = "unborn" => x.sid = e
    /\ Holds(y) => owner[e] # Nobody \/ (x.sid = e /\ Holds(x))

LEMMA FreshWhenMoved ==
  ASSUME Shape, Fresh, Aging, NEW r \in Calls, Becomes(r, request'[r]),
         OwnedByRecord(request[r], request'[r]), EntersOwned(request[r], request'[r]),
         request'[r].at = "opening" => request[r].at = "opening" /\ request'[r].sid = request[r].sid
  PROVE  Fresh'
<1>0. \A q \in Calls \ {r} : request'[q] = request[q]
  BY DEF Becomes
<1>1. ASSUME NEW e \in Sessions, Untouched(e),
             request[r].at = "opening" /\ request[r].sid = e => request'[r].at = "opening"
      PROVE  Untouched(e)'
  <2>1. owner'[e] = Nobody /\ inProgress'[e] = 0 /\ owner[e] = Nobody
    BY <1>1 DEF OwnedByRecord, Untouched, IsOver
  <2>2. ASSUME NEW q \in Calls PROVE ~(request'[q].sid = e /\ (request'[q].http \/ request'[q].handler # "none"))
    <3>1. ~(request[q].sid = e /\ (request[q].http \/ request[q].handler # "none"))
      BY <1>1 DEF Untouched, InAt
    <3>2. CASE q # r
      BY <3>1, <3>2, <1>0
    <3>3. CASE q = r
      BY <3>1, <3>3, <2>1 DEF EntersOwned, Holds
    <3> QED BY <3>2, <3>3
  <2> QED BY <2>1, <2>2 DEF Untouched, InAt
<1>2. ASSUME NEW e \in Sessions, transport'[e] = "unborn"
      PROVE  Untouched(e)' /\ \A q \in Calls : request'[q].sid # e
  <2>1. transport[e] = "unborn" /\ Untouched(e) /\ \A q \in Calls : request[q].sid # e
    BY <1>2 DEF Aging, Fresh
  <2>2. request'[r].sid # e
    BY <2>1 DEF EntersOwned
  <2> QED BY <2>1, <2>2, <1>0, <1>1
<1>3. ASSUME NEW q \in Calls, request'[q].at = "opening"
      PROVE  /\ request'[q].sid \in Sessions /\ Untouched(request[q].sid)'
             /\ \A p \in Calls \ {q} : request'[p].at = "opening" => request'[p].sid # request'[q].sid
  <2>1. /\ request[q].at = "opening" /\ request'[q].sid = request[q].sid
        /\ \A p \in Calls : request'[p].at = "opening" =>
             request[p].at = "opening" /\ request'[p].sid = request[p].sid
    BY <1>3, <1>0
  <2>2. /\ request[q].sid \in Sessions /\ Untouched(request[q].sid)
        /\ \A p \in Calls \ {q} : request[p].at = "opening" => request[p].sid # request[q].sid
    BY <2>1 DEF Fresh
  <2>3. PICK e \in Sessions : e = request[q].sid
    BY <2>2
  <2>4. request[r].at = "opening" /\ request[r].sid = e => request'[r].at = "opening"
    <3>1. CASE q = r
      BY <1>3, <3>1
    <3>2. CASE q # r
      BY <2>2, <2>3, <3>2
    <3> QED BY <3>1, <3>2
  <2>5. Untouched(e)'
    BY <2>2, <2>3, <2>4, <1>1
  <2>6. request'[q].sid = e
    BY <2>1, <2>3
  <2> QED BY <2>1, <2>2, <2>5, <2>6 DEF Untouched, InAt
<1> QED
  <2>1. \A e \in Sessions : transport'[e] = "unborn" =>
          Untouched(e)' /\ \A q \in Calls : request'[q].sid # e
    BY <1>2
  <2>2. \A q \in Calls : request'[q].at = "opening" =>
          /\ request'[q].sid \in Sessions /\ Untouched(request[q].sid)'
          /\ \A p \in Calls \ {q} : request'[p].at = "opening" => request'[p].sid # request'[q].sid
    BY <1>3
  <2> QED BY <2>1, <2>2 DEF Fresh

\* A session is untouched until its opener has recorded it.
LEMMA FreshStep ==
  ASSUME Shape, AtTheGuard, Fresh, Served, [SessionsNext]_sessionVars
  PROVE  Fresh'
<1>1. ASSUME NEW r \in Calls, Arrival(r)
      PROVE  Fresh'
  <2>1. /\ Becomes(r, request'[r])
        /\ request'[r].at = "arrived" /\ ~Holds(request'[r])
        /\ \/ request'[r].sid = NoSession
           \/ transport[request'[r].sid] # "unborn"
    BY <1>1, ArrivalDoes DEF Holds
  <2>2. OwnedByRecord(request[r], request'[r])
    BY <1>1, ArrivalDoes DEF OwnedByRecord, SameGuard, IsForgotten, WorkEnds
  <2>3. EntersOwned(request[r], request'[r])
    BY <2>1, ClientSessionsAssumption DEF EntersOwned, Holds, StaysPut
  <2>4. request'[r].at = "opening" => request[r].at = "opening" /\ request'[r].sid = request[r].sid
    BY <2>1, ClientSessionsAssumption DEF StaysPut
  <2> QED BY <2>1, <2>2, <2>3, <2>4, AgingStep, FreshWhenMoved
<1>2. ASSUME NEW r \in Calls, Sweeps(r)
      PROVE  Fresh'
  <2>1. /\ Becomes(r, request'[r])
        /\ StaysPut(request[r], request'[r])
    BY <1>2, SweepsDoes DEF SamePlace, Holds, StaysPut
  <2>2. OwnedByRecord(request[r], request'[r])
    BY <1>2, SweepsDoes DEF OwnedByRecord, SameGuard, IsForgotten, WorkEnds
  <2>3. EntersOwned(request[r], request'[r])
    BY <2>1, ClientSessionsAssumption DEF EntersOwned, Holds, StaysPut
  <2>4. request'[r].at = "opening" => request[r].at = "opening" /\ request'[r].sid = request[r].sid
    BY <2>1, ClientSessionsAssumption DEF StaysPut
  <2> QED BY <2>1, <2>2, <2>3, <2>4, AgingStep, FreshWhenMoved
<1>3. ASSUME NEW r \in Calls, NEW s \in Sessions, EndsIdle(r, s)
      PROVE  Fresh'
  <2>1. /\ Becomes(r, request'[r])
        /\ StaysPut(request[r], request'[r])
    BY <1>3, EndsIdleDoes DEF SamePlace, Holds, StaysPut
  <2>2. OwnedByRecord(request[r], request'[r])
    BY <1>3, EndsIdleDoes DEF OwnedByRecord, SameGuard, IsForgotten, WorkEnds
  <2>3. EntersOwned(request[r], request'[r])
    BY <2>1, ClientSessionsAssumption DEF EntersOwned, Holds, StaysPut
  <2>4. request'[r].at = "opening" => request[r].at = "opening" /\ request'[r].sid = request[r].sid
    BY <2>1, ClientSessionsAssumption DEF StaysPut
  <2> QED BY <2>1, <2>2, <2>3, <2>4, AgingStep, FreshWhenMoved
<1>4. ASSUME NEW r \in Calls, Forgets(r)
      PROVE  Fresh'
  <2>1. /\ Becomes(r, request'[r])
        /\ StaysPut(request[r], request'[r])
    BY <1>4, ForgetsDoes DEF SamePlace, Holds, StaysPut
  <2>2. OwnedByRecord(request[r], request'[r])
    BY <1>4, ForgetsDoes DEF OwnedByRecord, SameGuard, IsForgotten, WorkEnds
  <2>3. EntersOwned(request[r], request'[r])
    BY <2>1, ClientSessionsAssumption DEF EntersOwned, Holds, StaysPut
  <2>4. request'[r].at = "opening" => request[r].at = "opening" /\ request'[r].sid = request[r].sid
    BY <2>1, ClientSessionsAssumption DEF StaysPut
  <2> QED BY <2>1, <2>2, <2>3, <2>4, AgingStep, FreshWhenMoved
<1>5. ASSUME NEW r \in Calls, Passes(r)
      PROVE  Fresh'
  <2>0. IsOwner(request[r].sid, request[r].caller) =>
          owner[request[r].sid] # Nobody /\ transport[request[r].sid] = "live"
    BY <1>5, PassesDoes, CallersAssumption DEF AtTheGuard, Placed, IsOwner, Alive
  <2>1. /\ Becomes(r, request'[r])
        /\ request'[r].at \in {"inside", "over"}
        /\ \/ request'[r].sid = request[r].sid /\ owner[request[r].sid] # Nobody
           \/ request'[r].sid = NoSession
    BY <1>5, PassesDoes, <2>0 DEF IsOver
  <2>2. OwnedByRecord(request[r], request'[r])
    BY <1>5, PassesDoes, <2>0 DEF OwnedByRecord, SameGuard, IsForgotten, WorkEnds
  <2>3. EntersOwned(request[r], request'[r])
    BY <2>1, ClientSessionsAssumption DEF EntersOwned, Holds, StaysPut
  <2>4. request'[r].at = "opening" => request[r].at = "opening" /\ request'[r].sid = request[r].sid
    BY <2>1, ClientSessionsAssumption DEF StaysPut
  <2> QED BY <2>1, <2>2, <2>3, <2>4, AgingStep, FreshWhenMoved
<1>6. ASSUME NEW r \in Calls, Opens(r)
      PROVE  Fresh'
  <2>0. PICK s \in Sessions : s = request'[r].sid
    BY <1>6, OpensDoes
  <2>1. /\ Becomes(r, request'[r]) /\ transport[s] = "unborn"
        /\ \A e \in Sessions : transport'[e] = IF e = s THEN "live" ELSE transport[e]
        /\ SameGuard /\ request[r].at # "opening" /\ (Holds(request'[r]) => Holds(request[r]))
    BY <1>6, <2>0, OpensDoes DEF Holds
  <2>2. Untouched(s) /\ \A q \in Calls : request[q].sid # s
    BY <2>1 DEF Fresh
  <2>3. ~Holds(request'[r])
    BY <2>1, OpensDoes, <1>6 DEF AtTheGuard, Placed, Holds
  <2>4. \A q \in Calls \ {r} : request'[q] = request[q]
    BY <2>1 DEF Becomes
  <2>5. ASSUME NEW e \in Sessions, Untouched(e) PROVE Untouched(e)'
    <3>1. owner'[e] = Nobody /\ inProgress'[e] = 0
      BY <2>1, <2>5 DEF SameGuard, Untouched
    <3>2. ASSUME NEW q \in Calls PROVE ~InAt(q, e)'
      BY <2>3, <2>4, <2>5 DEF Untouched, InAt, Holds
    <3> QED BY <3>1, <3>2 DEF Untouched
  <2>6. ASSUME NEW e \in Sessions, transport'[e] = "unborn"
        PROVE  Untouched(e)' /\ \A q \in Calls : request'[q].sid # e
    <3>1. e # s /\ transport[e] = "unborn" /\ Untouched(e) /\ \A q \in Calls : request[q].sid # e
      BY <2>1, <2>6 DEF Fresh
    <3>2. request'[r].sid # e
      BY <3>1, <2>0
    <3> QED BY <3>1, <3>2, <2>4, <2>5
  <2>7. ASSUME NEW q \in Calls, request'[q].at = "opening"
        PROVE  /\ request'[q].sid \in Sessions /\ Untouched(request[q].sid)'
               /\ \A p \in Calls \ {q} : request'[p].at = "opening" => request'[p].sid # request'[q].sid
    <3>1. CASE q = r
      <4>1. request'[q].sid = s
        BY <3>1, <2>0
      <4>2. Untouched(s)'
        BY <2>2, <2>5, <2>1
      <4> QED BY <2>1, <2>2, <2>4, <3>1, <4>1, <4>2 DEF Untouched, InAt
    <3>2. CASE q # r
      <4>1. /\ request'[q] = request[q] /\ request[q].sid \in Sessions /\ Untouched(request[q].sid)
            /\ \A p \in Calls \ {q} : request[p].at = "opening" => request[p].sid # request[q].sid
        BY <2>4, <2>7, <3>2 DEF Fresh
      <4>2. PICK e \in Sessions : e = request[q].sid
        BY <4>1
      <4>3. Untouched(e)' /\ request'[q].sid = e /\ request'[r].sid # e
        BY <2>2, <2>5, <4>1, <4>2, <2>0
      <4> QED BY <2>4, <4>1, <4>2, <4>3 DEF Untouched, InAt
    <3> QED BY <3>1, <3>2
  <2> QED
    <3>1. \A e \in Sessions : transport'[e] = "unborn" =>
            Untouched(e)' /\ \A q \in Calls : request'[q].sid # e
      BY <2>6
    <3>2. \A q \in Calls : request'[q].at = "opening" =>
            /\ request'[q].sid \in Sessions /\ Untouched(request[q].sid)'
            /\ \A p \in Calls \ {q} : request'[p].at = "opening" => request'[p].sid # request'[q].sid
      BY <2>7
    <3> QED BY <3>1, <3>2 DEF Fresh
<1>7. ASSUME NEW r \in Calls, Records(r)
      PROVE  Fresh'
  <2>1. /\ Becomes(r, request'[r])
        /\ request'[r].sid = NoSession /\ request'[r].at = "over"
    BY <1>7, RecordsDoes DEF IsOver
  <2>2. OwnedByRecord(request[r], request'[r])
    BY <1>7, RecordsDoes DEF OwnedByRecord, SameGuard, IsForgotten, WorkEnds
  <2>3. EntersOwned(request[r], request'[r])
    BY <2>1, ClientSessionsAssumption DEF EntersOwned, Holds, StaysPut
  <2>4. request'[r].at = "opening" => request[r].at = "opening" /\ request'[r].sid = request[r].sid
    BY <2>1, ClientSessionsAssumption DEF StaysPut
  <2> QED BY <2>1, <2>2, <2>3, <2>4, AgingStep, FreshWhenMoved
<1>8. ASSUME NEW r \in Calls, RequestBegins(r)
      PROVE  Fresh'
  <2>1. /\ Becomes(r, request'[r])
        /\ StaysPut(request[r], request'[r])
    BY <1>8, BeginsDoes DEF CallEnds, IsOver, Holds, StaysPut
  <2>2. OwnedByRecord(request[r], request'[r])
    BY <1>8, BeginsDoes DEF OwnedByRecord, SameGuard, IsForgotten, WorkEnds
  <2>3. EntersOwned(request[r], request'[r])
    BY <2>1, ClientSessionsAssumption DEF EntersOwned, Holds, StaysPut
  <2>4. request'[r].at = "opening" => request[r].at = "opening" /\ request'[r].sid = request[r].sid
    BY <2>1, ClientSessionsAssumption DEF StaysPut
  <2> QED BY <2>1, <2>2, <2>3, <2>4, AgingStep, FreshWhenMoved
<1>9. ASSUME NEW r \in Calls, Replies(r)
      PROVE  Fresh'
  <2>1. /\ Becomes(r, request'[r])
        /\ StaysPut(request[r], request'[r])
    BY <1>9, RepliesDoes DEF CallEnds, IsOver, Holds, StaysPut
  <2>2. OwnedByRecord(request[r], request'[r])
    BY <1>9, RepliesDoes DEF OwnedByRecord, SameGuard, IsForgotten, WorkEnds
  <2>3. EntersOwned(request[r], request'[r])
    BY <2>1, ClientSessionsAssumption DEF EntersOwned, Holds, StaysPut
  <2>4. request'[r].at = "opening" => request[r].at = "opening" /\ request'[r].sid = request[r].sid
    BY <2>1, ClientSessionsAssumption DEF StaysPut
  <2> QED BY <2>1, <2>2, <2>3, <2>4, AgingStep, FreshWhenMoved
<1>10. ASSUME NEW r \in Calls, Closes(r)
      PROVE  Fresh'
  <2>1. /\ Becomes(r, request'[r])
        /\ StaysPut(request[r], request'[r])
    BY <1>10, ClosesDoes DEF CallEnds, IsOver, Holds, StaysPut
  <2>2. OwnedByRecord(request[r], request'[r])
    BY <1>10, ClosesDoes DEF OwnedByRecord, SameGuard, IsForgotten, WorkEnds
  <2>3. EntersOwned(request[r], request'[r])
    BY <2>1, ClientSessionsAssumption DEF EntersOwned, Holds, StaysPut
  <2>4. request'[r].at = "opening" => request[r].at = "opening" /\ request'[r].sid = request[r].sid
    BY <2>1, ClientSessionsAssumption DEF StaysPut
  <2> QED BY <2>1, <2>2, <2>3, <2>4, AgingStep, FreshWhenMoved
<1>11. ASSUME NEW c \in Callers, NEW s \in Sessions, Terminates(c, s)
      PROVE  Fresh'
  BY <1>11, AgingStep, TerminatesDoes DEF Fresh, Aging, Untouched, InAt
<1>12. ASSUME Notifies
      PROVE  Fresh'
  BY <1>12, AgingStep, NotifiesDoes DEF Fresh, Aging, Untouched, InAt
<1>13. CASE Elsewhere
  BY <1>13 DEF Elsewhere, SameTransport, SameGuard, Fresh, Untouched, InAt
<1> QED
  BY <1>1, <1>2, <1>3, <1>4, <1>5, <1>6, <1>7, <1>8, <1>9, <1>10, <1>11, <1>12, <1>13, ElsewhereIs
  DEF SessionsNext, RequestNext, CutNext, Arrival

\* What lives on has the owner it had, and is registered for them if it was,
\* save for a session that nothing is in.
ServesAlike ==
  \A e \in Sessions : transport'[e] = "live" =>
    \/ Untouched(e)
    \/ /\ transport[e] = "live" /\ owner'[e] = owner[e]
       /\ registered'[e] \in {registered[e], owner[e]}

\* A request is where it was, or was let in to its caller's session.
LetIn(x, y) ==
  y.http => \/ x.http /\ y.sid = x.sid /\ y.caller = x.caller
            \/ /\ y.sid \in Sessions /\ y.caller \in Callers
               /\ owner'[y.sid] = y.caller /\ registered'[y.sid] = y.caller

LEMMA ServedWhenMoved ==
  ASSUME Shape, Served, ServesAlike, NEW r \in Calls,
         \A q \in Calls \ {r} : request'[q] = request[q],
         LetIn(request[r], request'[r])
  PROVE  Served'
<1>1. ASSUME NEW q \in Calls, request[q].http, request[q].sid \in Sessions,
             transport'[request[q].sid] = "live"
      PROVE  /\ request[q].caller \in Callers /\ owner'[request[q].sid] = request[q].caller
             /\ registered'[request[q].sid] = request[q].caller
  <2>1. PICK e \in Sessions : e = request[q].sid
    BY <1>1
  <2>2. ~Untouched(e)
    BY <1>1, <2>1 DEF Untouched, InAt
  <2>3. /\ transport[e] = "live" /\ owner'[e] = owner[e]
        /\ registered'[e] \in {registered[e], owner[e]}
    BY <1>1, <2>1, <2>2 DEF ServesAlike
  <2>4. /\ request[q].caller \in Callers /\ owner[e] = request[q].caller
        /\ registered[e] = request[q].caller
    BY <1>1, <2>1, <2>3 DEF Served, Alive
  <2> QED BY <2>1, <2>3, <2>4
<1>2. ASSUME NEW q \in Calls, request'[q].http
      PROVE  /\ request'[q].sid \in Sessions
             /\ transport'[request'[q].sid] = "live" =>
                  /\ request'[q].caller \in Callers /\ owner'[request'[q].sid] = request'[q].caller
                  /\ registered'[request'[q].sid] = request'[q].caller
  <2>1. CASE /\ request[q].http /\ request'[q].sid = request[q].sid
             /\ request'[q].caller = request[q].caller
    <3>1. request[q].sid \in Sessions
      BY <2>1 DEF Served
    <3> QED BY <2>1, <3>1, <1>1
  <2>2. CASE q # r
    <3>1. request'[q] = request[q]
      BY <2>2
    <3> QED BY <1>2, <2>1, <3>1
  <2>3. CASE q = r
    BY <1>2, <2>1, <2>3 DEF LetIn
  <2> QED BY <2>2, <2>3
<1> QED BY <1>2 DEF Served, Alive

\* A request that is open where a session lives is in its caller's own.
LEMMA ServedStep ==
  ASSUME Shape, AtTheGuard, Fresh, GoneFirst, Served, [SessionsNext]_sessionVars
  PROVE  Served'
<1>1. ASSUME NEW r \in Calls, Arrival(r)
      PROVE  Served'
  <2>1. \A q \in Calls \ {r} : request'[q] = request[q]
    BY <1>1, ArrivalDoes DEF Becomes
  <2>2. LetIn(request[r], request'[r])
    BY <1>1, ArrivalDoes DEF LetIn
  <2>3. ServesAlike
    BY <1>1, ArrivalDoes DEF SameTransport, SameGuard, ServesAlike
  <2> QED BY <2>1, <2>2, <2>3, ServedWhenMoved
<1>2. ASSUME NEW r \in Calls, Sweeps(r)
      PROVE  Served'
  <2>1. \A q \in Calls \ {r} : request'[q] = request[q]
    BY <1>2, SweepsDoes DEF Becomes
  <2>2. LetIn(request[r], request'[r])
    BY <1>2, SweepsDoes DEF SamePlace, LetIn
  <2>3. ServesAlike
    BY <1>2, SweepsDoes DEF SameTransport, SameGuard, ServesAlike
  <2> QED BY <2>1, <2>2, <2>3, ServedWhenMoved
<1>3. ASSUME NEW r \in Calls, NEW s \in Sessions, EndsIdle(r, s)
      PROVE  Served'
  <2>1. \A q \in Calls \ {r} : request'[q] = request[q]
    BY <1>3, EndsIdleDoes DEF Becomes
  <2>2. LetIn(request[r], request'[r])
    BY <1>3, EndsIdleDoes DEF SamePlace, LetIn
  <2>3. ServesAlike
    BY <1>3, EndsIdleDoes DEF SameTransport, SameGuard, Goes, ServesAlike
  <2> QED BY <2>1, <2>2, <2>3, ServedWhenMoved
<1>4. ASSUME NEW r \in Calls, Forgets(r)
      PROVE  Served'
  <2>0. transport[request[r].closing] = "gone"
    BY <1>4, ForgetsDoes DEF GoneFirst
  <2>1. \A q \in Calls \ {r} : request'[q] = request[q]
    BY <1>4, ForgetsDoes DEF Becomes
  <2>2. LetIn(request[r], request'[r])
    BY <1>4, ForgetsDoes DEF SamePlace, LetIn
  <2>3. ServesAlike
    BY <1>4, ForgetsDoes, <2>0 DEF SameTransport, IsForgotten, ServesAlike
  <2> QED BY <2>1, <2>2, <2>3, ServedWhenMoved
<1>5. ASSUME NEW r \in Calls, Passes(r)
      PROVE  Served'
  <2>0. /\ request[r].caller \in Callers /\ request[r].sid \in Sessions
        /\ IsOwner(request[r].sid, request[r].caller) => owner[request[r].sid] = request[r].caller
    BY <1>5, PassesDoes DEF AtTheGuard, Placed, IsOwner
  <2>1. CASE IsOwner(request[r].sid, request[r].caller)
    <3>1. /\ SameTransport /\ owner' = owner
          /\ request'[r].sid = request[r].sid /\ request'[r].caller = request[r].caller
      BY <1>5, <2>1, PassesDoes
    <3>2. \A e \in Sessions : registered'[e] = IF e = request[r].sid THEN request[r].caller ELSE registered[e]
      BY <1>5, <2>1, PassesDoes
    <3>3. owner[request[r].sid] = request[r].caller
      BY <2>0, <2>1
    <3>4. LetIn(request[r], request'[r])
      BY <2>0, <3>1, <3>2, <3>3 DEF LetIn
    <3>5. ServesAlike
      BY <2>0, <3>1, <3>2, <3>3 DEF SameTransport, ServesAlike
    <3>6. \A q \in Calls \ {r} : request'[q] = request[q]
      BY <1>5, PassesDoes DEF Becomes
    <3> QED BY <3>4, <3>5, <3>6, ServedWhenMoved
  <2>2. CASE ~IsOwner(request[r].sid, request[r].caller)
    <3>1. SameTransport /\ owner' = owner /\ registered' = registered /\ request'[r].http = FALSE
      BY <1>5, <2>2, PassesDoes DEF IsOver
    <3>2. LetIn(request[r], request'[r])
      BY <3>1 DEF LetIn
    <3>3. ServesAlike
      BY <3>1 DEF SameTransport, ServesAlike
    <3>4. \A q \in Calls \ {r} : request'[q] = request[q]
      BY <1>5, PassesDoes DEF Becomes
    <3> QED BY <3>2, <3>3, <3>4, ServedWhenMoved
  <2> QED BY <2>1, <2>2
<1>6. ASSUME NEW r \in Calls, Opens(r)
      PROVE  Served'
  <2>0. request'[r].sid \in Sessions /\ Untouched(request'[r].sid)
    BY <1>6, OpensDoes DEF Fresh
  <2>0a. PICK s \in Sessions : s = request'[r].sid /\ Untouched(s)
    BY <2>0
  <2>1. \A q \in Calls \ {r} : request'[q] = request[q]
    BY <1>6, OpensDoes DEF Becomes
  <2>0b. request'[r].http = FALSE
    BY <1>6, OpensDoes DEF AtTheGuard, Placed
  <2>2. LetIn(request[r], request'[r])
    BY <2>0b DEF LetIn
  <2>3. ServesAlike
    BY <1>6, OpensDoes, <2>0a DEF SameGuard, ServesAlike
  <2> QED BY <2>1, <2>2, <2>3, ServedWhenMoved
<1>7. ASSUME NEW r \in Calls, Records(r)
      PROVE  Served'
  <2>0. request[r].sid \in Sessions /\ Untouched(request[r].sid)
    BY <1>7, RecordsDoes DEF Fresh
  <2>0a. PICK s \in Sessions : s = request[r].sid /\ Untouched(s)
    BY <2>0
  <2>1. \A q \in Calls \ {r} : request'[q] = request[q]
    BY <1>7, RecordsDoes DEF Becomes
  <2>2. LetIn(request[r], request'[r])
    BY <1>7, RecordsDoes DEF IsOver, LetIn
  <2>3. ServesAlike
    BY <1>7, RecordsDoes, <2>0a DEF SameTransport, SameGuard, Goes, Alive, ServesAlike
  <2> QED BY <2>1, <2>2, <2>3, ServedWhenMoved
<1>8. ASSUME NEW r \in Calls, RequestBegins(r)
      PROVE  Served'
  <2>1. \A q \in Calls \ {r} : request'[q] = request[q]
    BY <1>8, BeginsDoes DEF Becomes
  <2>2. LetIn(request[r], request'[r])
    BY <1>8, BeginsDoes DEF CallEnds, IsOver, LetIn
  <2>3. ServesAlike
    BY <1>8, BeginsDoes DEF SameTransport, ServesAlike
  <2> QED BY <2>1, <2>2, <2>3, ServedWhenMoved
<1>9. ASSUME NEW r \in Calls, Replies(r)
      PROVE  Served'
  <2>1. \A q \in Calls \ {r} : request'[q] = request[q]
    BY <1>9, RepliesDoes DEF Becomes
  <2>2. LetIn(request[r], request'[r])
    BY <1>9, RepliesDoes DEF CallEnds, IsOver, LetIn
  <2>3. ServesAlike
    BY <1>9, RepliesDoes DEF SameTransport, WorkEnds, ServesAlike
  <2> QED BY <2>1, <2>2, <2>3, ServedWhenMoved
<1>10. ASSUME NEW r \in Calls, Closes(r)
      PROVE  Served'
  <2>1. \A q \in Calls \ {r} : request'[q] = request[q]
    BY <1>10, ClosesDoes DEF Becomes
  <2>2. LetIn(request[r], request'[r])
    BY <1>10, ClosesDoes DEF CallEnds, IsOver, LetIn
  <2>3. ServesAlike
    BY <1>10, ClosesDoes DEF SameTransport, WorkEnds, Goes, IsForgotten, ServesAlike
  <2> QED BY <2>1, <2>2, <2>3, ServedWhenMoved
<1>11. ASSUME NEW c \in Callers, NEW s \in Sessions, Terminates(c, s)
      PROVE  Served'
  <2>1. ServesAlike
    BY <1>11, TerminatesDoes DEF SameTransport, Goes, ServesAlike
  <2>2. \A q \in Calls : request'[q] = request[q] /\ LetIn(request[q], request'[q])
    BY <1>11, TerminatesDoes DEF LetIn
  <2> QED
    <3>1. CASE Calls = {}
      BY <3>1 DEF Served
    <3>2. CASE Calls # {}
      <4>1. PICK q \in Calls : TRUE
        BY <3>2
      <4> QED BY <2>1, <2>2, <4>1, ServedWhenMoved
    <3> QED BY <3>1, <3>2
<1>12. ASSUME Notifies
      PROVE  Served'
  <2>1. ServesAlike
    BY <1>12, NotifiesDoes DEF SameTransport, ServesAlike
  <2>2. \A q \in Calls : request'[q] = request[q] /\ LetIn(request[q], request'[q])
    BY <1>12, NotifiesDoes DEF LetIn
  <2> QED
    <3>1. CASE Calls = {}
      BY <3>1 DEF Served
    <3>2. CASE Calls # {}
      <4>1. PICK q \in Calls : TRUE
        BY <3>2
      <4> QED BY <2>1, <2>2, <4>1, ServedWhenMoved
    <3> QED BY <3>1, <3>2
<1>13. CASE Elsewhere
  BY <1>13 DEF Elsewhere, SameTransport, SameGuard, Served, Alive
<1> QED
  BY <1>1, <1>2, <1>3, <1>4, <1>5, <1>6, <1>7, <1>8, <1>9, <1>10, <1>11, <1>12, <1>13, ElsewhereIs
  DEF SessionsNext, RequestNext, CutNext, Arrival

\* What a request counts for in a session: once while it is open, and once
\* while its call runs.
Weight(x, s) ==
  (IF x.sid = s /\ x.http THEN 1 ELSE 0) + (IF x.sid = s /\ x.handler = "running" THEN 1 ELSE 0)

Load(s) == Cardinality(Open(s)) + Cardinality(Running(s))

LEMMA OneMoves ==
  ASSUME NEW S, NEW T, NEW r, IsFiniteSet(S), S \ {r} = T \ {r}
  PROVE  /\ IsFiniteSet(T) /\ Cardinality(S) \in Nat /\ Cardinality(T) \in Nat
         /\ Cardinality(T) = Cardinality(S) - (IF r \in S THEN 1 ELSE 0) + (IF r \in T THEN 1 ELSE 0)
<1> DEFINE U == S \ {r}
<1>1. /\ IsFiniteSet(U) /\ Cardinality(S) \in Nat
      /\ Cardinality(U) = IF r \in S THEN Cardinality(S) - 1 ELSE Cardinality(S)
  BY FS_RemoveElement, FS_CardinalityType
<1>2. Cardinality(U) \in Nat /\ r \notin U
  BY <1>1, FS_CardinalityType
<1>3. T = IF r \in T THEN U \cup {r} ELSE U
  OBVIOUS
<1> HIDE DEF U
<1>4. IsFiniteSet(U \cup {r}) /\ Cardinality(U \cup {r}) = Cardinality(U) + 1
  BY <1>1, <1>2, FS_AddElement
<1>5. IsFiniteSet(T) /\ Cardinality(T) = Cardinality(U) + (IF r \in T THEN 1 ELSE 0)
  <2>1. CASE r \in T
    BY <1>1, <1>2, <1>3, <1>4, <2>1
  <2>2. CASE r \notin T
    BY <1>1, <1>2, <1>3, <2>2
  <2> QED BY <2>1, <2>2
<1> QED BY <1>1, <1>2, <1>5

LEMMA LoadMoves ==
  ASSUME NEW r \in Calls, \A q \in Calls \ {r} : request'[q] = request[q],
         NEW s \in Sessions, IsFiniteSet(Open(s)), IsFiniteSet(Running(s))
  PROVE  /\ IsFiniteSet(Open(s)') /\ IsFiniteSet(Running(s)') /\ Load(s) \in Nat
         /\ Load(s)' = Load(s) - Weight(request[r], s) + Weight(request'[r], s)
<1>1. Open(s) \ {r} = Open(s)' \ {r} /\ Running(s) \ {r} = Running(s)' \ {r}
  BY DEF Open, Running
<1>2. /\ r \in Open(s) <=> request[r].sid = s /\ request[r].http
      /\ r \in Open(s)' <=> request'[r].sid = s /\ request'[r].http
      /\ r \in Running(s) <=> request[r].sid = s /\ request[r].handler = "running"
      /\ r \in Running(s)' <=> request'[r].sid = s /\ request'[r].handler = "running"
  BY DEF Open, Running
<1>3. /\ IsFiniteSet(Open(s)') /\ Cardinality(Open(s)) \in Nat /\ Cardinality(Open(s)') \in Nat
      /\ Cardinality(Open(s)') = Cardinality(Open(s)) - (IF r \in Open(s) THEN 1 ELSE 0)
                                 + (IF r \in Open(s)' THEN 1 ELSE 0)
  BY <1>1, OneMoves
<1>4. /\ IsFiniteSet(Running(s)') /\ Cardinality(Running(s)) \in Nat /\ Cardinality(Running(s)') \in Nat
      /\ Cardinality(Running(s)') = Cardinality(Running(s)) - (IF r \in Running(s) THEN 1 ELSE 0)
                                    + (IF r \in Running(s)' THEN 1 ELSE 0)
  BY <1>1, OneMoves
<1>5. Load(s)' = Cardinality(Open(s)') + Cardinality(Running(s)')
  BY DEF Load
<1> QED BY <1>2, <1>3, <1>4, <1>5 DEF Load, Weight

LEMMA Weighs ==
  ASSUME NEW x, NEW y, NEW e
  PROVE  /\ Weight(x, e) \in Nat
         /\ x.http = FALSE /\ x.handler # "running" => Weight(x, e) = 0
         /\ x.http = TRUE /\ x.handler # "running" => Weight(x, e) = IF e = x.sid THEN 1 ELSE 0
         /\ x.http = FALSE /\ x.handler = "running" => Weight(x, e) = IF e = x.sid THEN 1 ELSE 0
         /\ x.http = TRUE /\ x.handler = "running" => Weight(x, e) = IF e = x.sid THEN 2 ELSE 0
BY DEF Weight

LEMMA CallEndsWeighs ==
  ASSUME NEW x, NEW y, NEW e, x.http \in BOOLEAN, CallEnds(x, y)
  PROVE  Weight(y, e) = Weight(x, e) - IF e = x.sid /\ x.handler = "running" THEN 1 ELSE 0
<1>1. CASE x.http = TRUE
  BY <1>1 DEF CallEnds, Weight
<1>2. CASE x.http = FALSE
  BY <1>2 DEF CallEnds, IsOver, Weight
<1> QED BY <1>1, <1>2

LEMMA BeginsWeighs ==
  ASSUME NEW x, NEW y, NEW e, x.http \in BOOLEAN, x.handler = "queued",
         y.sid = x.sid, y.http = x.http, y.handler = "running"
  PROVE  Weight(y, e) = Weight(x, e) + IF e = x.sid THEN 1 ELSE 0
BY DEF Weight

LEMMA ClosesWeighs ==
  ASSUME NEW x, NEW y, NEW e, x.http = TRUE,
         \/ y.sid = x.sid /\ y.http = FALSE /\ y.handler = x.handler
         \/ x.handler # "running" /\ IsOver(y)
  PROVE  Weight(y, e) = Weight(x, e) - IF e = x.sid THEN 1 ELSE 0
BY DEF IsOver, Weight

LEMMA HttpIs ==
  ASSUME Shape, NEW r \in Calls
  PROVE  request[r].http \in BOOLEAN
BY DEF Shape, RequestRecords

\* What works in a session that is owned is counted as it comes and goes.
CountsAlong(x, y) ==
  \A e \in Sessions : owner'[e] # Nobody =>
    inProgress[e] = Load(e) /\ inProgress'[e] = inProgress[e] - Weight(x, e) + Weight(y, e)

LEMMA CountedWhenMoved ==
  ASSUME Counted, NEW r \in Calls, \A q \in Calls \ {r} : request'[q] = request[q],
         CountsAlong(request[r], request'[r])
  PROVE  Counted'
<1>1. ASSUME NEW e \in Sessions
      PROVE  /\ IsFiniteSet(Open(e)') /\ IsFiniteSet(Running(e)')
             /\ owner'[e] # Nobody => inProgress'[e] = Cardinality(Open(e)') + Cardinality(Running(e)')
  <2>1. IsFiniteSet(Open(e)) /\ IsFiniteSet(Running(e))
    BY DEF Counted
  <2>2. /\ IsFiniteSet(Open(e)') /\ IsFiniteSet(Running(e)')
        /\ Load(e)' = Load(e) - Weight(request[r], e) + Weight(request'[r], e)
    BY <2>1, LoadMoves
  <2>3. Load(e)' = Cardinality(Open(e)') + Cardinality(Running(e)')
    BY DEF Load
  <2> QED BY <2>2, <2>3 DEF CountsAlong
<1> QED BY <1>1 DEF Counted

LEMMA NothingCounts ==
  ASSUME NEW s \in Sessions, Untouched(s)
  PROVE  Load(s) = 0
<1>1. Open(s) = {} /\ Running(s) = {}
  BY DEF Untouched, InAt, Open, Running
<1> QED BY <1>1, FS_EmptySet DEF Load

\* What works in a session that is owned is counted.
LEMMA CountedStep ==
  ASSUME Shape, AtTheGuard, Fresh, Counted, [SessionsNext]_sessionVars
  PROVE  Counted'
<1>1. ASSUME NEW r \in Calls, Arrival(r)
      PROVE  Counted'
  <2>0. request[r].http = FALSE /\ request[r].handler = "none"
    BY <1>1, ArrivalDoes DEF AtTheGuard, Placed
  <2>1. \A q \in Calls \ {r} : request'[q] = request[q]
    BY <1>1, ArrivalDoes DEF Becomes
  <2>2. ASSUME NEW e \in Sessions, owner'[e] # Nobody
        PROVE  /\ inProgress[e] = Load(e)
               /\ inProgress'[e] = inProgress[e] - Weight(request[r], e) + Weight(request'[r], e)
    <3>1. owner[e] # Nobody /\ inProgress[e] \in Int
      BY <1>1, <2>2, ArrivalDoes, <2>0 DEF Shape, SameGuard, IsForgotten, WorkEnds
    <3>2. inProgress[e] = Load(e)
      BY <3>1 DEF Counted, Load
    <3>3. inProgress'[e] = inProgress[e]
      BY <1>1, ArrivalDoes DEF SameGuard
    <3>4. request'[r].http = FALSE /\ request'[r].handler = "none"
      BY <1>1, <2>0, ArrivalDoes
    <3>5. Weight(request[r], e) = 0 /\ Weight(request'[r], e) = 0
      BY <2>0, <3>4, Weighs
    <3> QED BY <3>1, <3>2, <3>3, <3>5
  <2> QED BY <2>1, <2>2, CountedWhenMoved DEF CountsAlong
<1>2. ASSUME NEW r \in Calls, Sweeps(r)
      PROVE  Counted'
  <2>1. \A q \in Calls \ {r} : request'[q] = request[q]
    BY <1>2, SweepsDoes DEF Becomes
  <2>2. ASSUME NEW e \in Sessions, owner'[e] # Nobody
        PROVE  /\ inProgress[e] = Load(e)
               /\ inProgress'[e] = inProgress[e] - Weight(request[r], e) + Weight(request'[r], e)
    <3>1. owner[e] # Nobody /\ inProgress[e] \in Int
      BY <1>2, <2>2, SweepsDoes DEF Shape, SameGuard, IsForgotten, WorkEnds
    <3>2. inProgress[e] = Load(e)
      BY <3>1 DEF Counted, Load
    <3>3. inProgress'[e] = inProgress[e] - Weight(request[r], e) + Weight(request'[r], e)
      BY <1>2, <2>2, <3>1, SweepsDoes DEF SamePlace, SameGuard, Weight
    <3> QED BY <3>2, <3>3
  <2> QED BY <2>1, <2>2, CountedWhenMoved DEF CountsAlong
<1>3. ASSUME NEW r \in Calls, NEW s \in Sessions, EndsIdle(r, s)
      PROVE  Counted'
  <2>1. \A q \in Calls \ {r} : request'[q] = request[q]
    BY <1>3, EndsIdleDoes DEF Becomes
  <2>2. ASSUME NEW e \in Sessions, owner'[e] # Nobody
        PROVE  /\ inProgress[e] = Load(e)
               /\ inProgress'[e] = inProgress[e] - Weight(request[r], e) + Weight(request'[r], e)
    <3>1. owner[e] # Nobody /\ inProgress[e] \in Int
      BY <1>3, <2>2, EndsIdleDoes DEF Shape, SameGuard, IsForgotten, WorkEnds
    <3>2. inProgress[e] = Load(e)
      BY <3>1 DEF Counted, Load
    <3>3. inProgress'[e] = inProgress[e] - Weight(request[r], e) + Weight(request'[r], e)
      BY <1>3, <2>2, <3>1, EndsIdleDoes DEF SamePlace, SameGuard, Weight
    <3> QED BY <3>2, <3>3
  <2> QED BY <2>1, <2>2, CountedWhenMoved DEF CountsAlong
<1>4. ASSUME NEW r \in Calls, Forgets(r)
      PROVE  Counted'
  <2>1. \A q \in Calls \ {r} : request'[q] = request[q]
    BY <1>4, ForgetsDoes DEF Becomes
  <2>2. ASSUME NEW e \in Sessions, owner'[e] # Nobody
        PROVE  /\ inProgress[e] = Load(e)
               /\ inProgress'[e] = inProgress[e] - Weight(request[r], e) + Weight(request'[r], e)
    <3>1. owner[e] # Nobody /\ inProgress[e] \in Int
      BY <1>4, <2>2, ForgetsDoes DEF Shape, SameGuard, IsForgotten, WorkEnds
    <3>2. inProgress[e] = Load(e)
      BY <3>1 DEF Counted, Load
    <3>3. inProgress'[e] = inProgress[e] - Weight(request[r], e) + Weight(request'[r], e)
      BY <1>4, <2>2, <3>1, ForgetsDoes DEF SamePlace, IsForgotten, Weight
    <3> QED BY <3>2, <3>3
  <2> QED BY <2>1, <2>2, CountedWhenMoved DEF CountsAlong
<1>5. ASSUME NEW r \in Calls, Passes(r)
      PROVE  Counted'
  <2>0. request[r].http = FALSE /\ request[r].handler = "none"
    BY <1>5, PassesDoes DEF AtTheGuard, Placed
  <2>1. \A q \in Calls \ {r} : request'[q] = request[q]
    BY <1>5, PassesDoes DEF Becomes
  <2>2. ASSUME NEW e \in Sessions, owner'[e] # Nobody
        PROVE  /\ inProgress[e] = Load(e)
               /\ inProgress'[e] = inProgress[e] - Weight(request[r], e) + Weight(request'[r], e)
    <3>1. owner[e] # Nobody /\ inProgress[e] \in Int
      BY <1>5, <2>2, PassesDoes, <2>0 DEF Shape, SameGuard, IsForgotten, WorkEnds
    <3>2. inProgress[e] = Load(e)
      BY <3>1 DEF Counted, Load
    <3>3. CASE IsOwner(request[r].sid, request[r].caller)
      <4>1. /\ inProgress'[e] = IF e = request[r].sid THEN inProgress[e] + 1 ELSE inProgress[e]
            /\ request'[r].sid = request[r].sid /\ request'[r].http = TRUE /\ request'[r].handler # "running"
        BY <1>5, <3>3, PassesDoes
      <4>2. Weight(request[r], e) = 0 /\ Weight(request'[r], e) = IF e = request[r].sid THEN 1 ELSE 0
        BY <2>0, <4>1, Weighs
      <4> QED BY <3>1, <3>2, <4>1, <4>2
    <3>4. CASE ~IsOwner(request[r].sid, request[r].caller)
      <4>1. inProgress' = inProgress /\ request'[r].http = FALSE /\ request'[r].handler = "none"
        BY <1>5, <3>4, PassesDoes DEF IsOver
      <4>2. Weight(request[r], e) = 0 /\ Weight(request'[r], e) = 0
        BY <2>0, <4>1, Weighs
      <4> QED BY <3>1, <3>2, <4>1, <4>2
    <3> QED BY <3>3, <3>4
  <2> QED BY <2>1, <2>2, CountedWhenMoved DEF CountsAlong
<1>6. ASSUME NEW r \in Calls, Opens(r)
      PROVE  Counted'
  <2>0. request[r].http = FALSE /\ request[r].handler = "none"
    BY <1>6, OpensDoes DEF AtTheGuard, Placed
  <2>1. \A q \in Calls \ {r} : request'[q] = request[q]
    BY <1>6, OpensDoes DEF Becomes
  <2>2. ASSUME NEW e \in Sessions, owner'[e] # Nobody
        PROVE  /\ inProgress[e] = Load(e)
               /\ inProgress'[e] = inProgress[e] - Weight(request[r], e) + Weight(request'[r], e)
    <3>1. owner[e] # Nobody /\ inProgress[e] \in Int
      BY <1>6, <2>2, OpensDoes, <2>0 DEF Shape, SameGuard, IsForgotten, WorkEnds
    <3>2. inProgress[e] = Load(e)
      BY <3>1 DEF Counted, Load
    <3>3. inProgress'[e] = inProgress[e]
      BY <1>6, OpensDoes DEF SameGuard
    <3>4. request'[r].http = FALSE /\ request'[r].handler = "none"
      BY <1>6, <2>0, OpensDoes
    <3>5. Weight(request[r], e) = 0 /\ Weight(request'[r], e) = 0
      BY <2>0, <3>4, Weighs
    <3> QED BY <3>1, <3>2, <3>3, <3>5
  <2> QED BY <2>1, <2>2, CountedWhenMoved DEF CountsAlong
<1>7. ASSUME NEW r \in Calls, Records(r)
      PROVE  Counted'
  <2>0. /\ request[r].http = FALSE /\ request[r].handler = "none"
        /\ request'[r].http = FALSE /\ request'[r].handler = "none"
    BY <1>7, RecordsDoes DEF AtTheGuard, Placed, IsOver
  <2>1. \A q \in Calls \ {r} : request'[q] = request[q]
    BY <1>7, RecordsDoes DEF Becomes
  <2>2. ASSUME NEW e \in Sessions, owner'[e] # Nobody
        PROVE  /\ inProgress[e] = Load(e)
               /\ inProgress'[e] = inProgress[e] - Weight(request[r], e) + Weight(request'[r], e)
    <3>1. inProgress[e] \in Int
      BY DEF Shape
    <3>2. Untouched(request[r].sid)
      BY <1>7, RecordsDoes DEF Fresh
    <3>3. inProgress[e] = Load(e)
      <4>1. CASE e = request[r].sid
        BY <3>2, <4>1, NothingCounts DEF Untouched
      <4>2. CASE e # request[r].sid
        BY <1>7, <2>2, <4>2, RecordsDoes DEF Counted, Load, SameGuard
      <4> QED BY <4>1, <4>2
    <3>4. inProgress'[e] = inProgress[e]
      BY <1>7, <2>2, <3>2, RecordsDoes DEF SameGuard, Untouched
    <3>5. Weight(request[r], e) = 0 /\ Weight(request'[r], e) = 0
      BY <2>0 DEF Weight
    <3> QED BY <3>1, <3>3, <3>4, <3>5
  <2> QED BY <2>1, <2>2, CountedWhenMoved DEF CountsAlong
<1>8. ASSUME NEW r \in Calls, RequestBegins(r)
      PROVE  Counted'
  <2>1. \A q \in Calls \ {r} : request'[q] = request[q]
    BY <1>8, BeginsDoes DEF Becomes
  <2>2. ASSUME NEW e \in Sessions, owner'[e] # Nobody
        PROVE  /\ inProgress[e] = Load(e)
               /\ inProgress'[e] = inProgress[e] - Weight(request[r], e) + Weight(request'[r], e)
    <3>1. owner[e] # Nobody /\ inProgress[e] \in Int
      BY <1>8, <2>2, BeginsDoes DEF Shape, SameGuard, IsForgotten, WorkEnds
    <3>2. inProgress[e] = Load(e)
      BY <3>1 DEF Counted, Load
    <3>3. request[r].http \in BOOLEAN
      BY HttpIs
    <3>4. CASE /\ request'[r].sid = request[r].sid /\ request'[r].http = request[r].http
               /\ request'[r].handler = "running"
               /\ \A d \in Sessions : inProgress'[d] = IF d = request[r].sid /\ owner[d] # Nobody
                                                       THEN inProgress[d] + 1 ELSE inProgress[d]
      <4>1. inProgress'[e] = IF e = request[r].sid THEN inProgress[e] + 1 ELSE inProgress[e]
        BY <3>1, <3>4
      <4>2. Weight(request'[r], e) = Weight(request[r], e) + IF e = request[r].sid THEN 1 ELSE 0
        <5>1. request[r].handler = "queued"
          BY <1>8, BeginsDoes
        <5> QED BY <3>3, <3>4, <5>1, BeginsWeighs
      <4>3. Weight(request[r], e) \in Nat
        BY Weighs
      <4> QED BY <3>1, <3>2, <4>1, <4>2, <4>3
    <3>5. CASE CallEnds(request[r], request'[r]) /\ inProgress' = inProgress
      <4>1. Weight(request'[r], e) = Weight(request[r], e)
        <5>1. request[r].handler = "queued"
          BY <1>8, BeginsDoes
        <5>2. Weight(request[r], e) \in Nat
          BY Weighs
        <5> QED BY <3>3, <3>5, <5>1, <5>2, CallEndsWeighs
      <4>2. Weight(request[r], e) \in Nat
        BY Weighs
      <4> QED BY <3>1, <3>2, <3>5, <4>1, <4>2
    <3> QED BY <1>8, <3>4, <3>5, BeginsDoes
  <2> QED BY <2>1, <2>2, CountedWhenMoved DEF CountsAlong
<1>9. ASSUME NEW r \in Calls, Replies(r)
      PROVE  Counted'
  <2>1. \A q \in Calls \ {r} : request'[q] = request[q]
    BY <1>9, RepliesDoes DEF Becomes
  <2>2. ASSUME NEW e \in Sessions, owner'[e] # Nobody
        PROVE  /\ inProgress[e] = Load(e)
               /\ inProgress'[e] = inProgress[e] - Weight(request[r], e) + Weight(request'[r], e)
    <3>1. owner[e] # Nobody /\ inProgress[e] \in Int
      BY <1>9, <2>2, RepliesDoes DEF Shape, SameGuard, IsForgotten, WorkEnds
    <3>2. inProgress[e] = Load(e)
      BY <3>1 DEF Counted, Load
    <3>3. request[r].http \in BOOLEAN
      BY HttpIs
    <3>4. inProgress'[e] = IF e = request[r].sid THEN inProgress[e] - 1 ELSE inProgress[e]
      BY <1>9, <2>2, <3>1, RepliesDoes DEF WorkEnds
    <3>5. Weight(request'[r], e) = Weight(request[r], e) - IF e = request[r].sid THEN 1 ELSE 0
      <4>1. request[r].handler = "running" /\ CallEnds(request[r], request'[r])
        BY <1>9, RepliesDoes
      <4> QED BY <3>3, <4>1, CallEndsWeighs
    <3>6. Weight(request[r], e) \in Nat
      BY Weighs
    <3> QED BY <3>1, <3>2, <3>4, <3>5, <3>6
  <2> QED BY <2>1, <2>2, CountedWhenMoved DEF CountsAlong
<1>10. ASSUME NEW r \in Calls, Closes(r)
      PROVE  Counted'
  <2>1. \A q \in Calls \ {r} : request'[q] = request[q]
    BY <1>10, ClosesDoes DEF Becomes
  <2>2. ASSUME NEW e \in Sessions, owner'[e] # Nobody
        PROVE  /\ inProgress[e] = Load(e)
               /\ inProgress'[e] = inProgress[e] - Weight(request[r], e) + Weight(request'[r], e)
    <3>1. owner[e] # Nobody /\ inProgress[e] \in Int
      BY <1>10, <2>2, ClosesDoes DEF Shape, SameGuard, IsForgotten, WorkEnds
    <3>2. inProgress[e] = Load(e)
      BY <3>1 DEF Counted, Load
    <3>3. request[r].http \in BOOLEAN
      BY HttpIs
    <3>4. inProgress'[e] = IF e = request[r].sid THEN inProgress[e] - 1 ELSE inProgress[e]
      BY <1>10, <2>2, <3>1, ClosesDoes DEF WorkEnds, IsForgotten
    <3>5. Weight(request'[r], e) = Weight(request[r], e) - IF e = request[r].sid THEN 1 ELSE 0
      <4>1. /\ request[r].http = TRUE
            /\ \/ /\ request'[r].sid = request[r].sid /\ request'[r].http = FALSE
                  /\ request'[r].handler = request[r].handler
               \/ request[r].handler # "running" /\ IsOver(request'[r])
        BY <1>10, <3>3, ClosesDoes
      <4> QED BY <4>1, ClosesWeighs
    <3>6. Weight(request[r], e) \in Nat
      BY Weighs
    <3> QED BY <3>1, <3>2, <3>4, <3>5, <3>6
  <2> QED BY <2>1, <2>2, CountedWhenMoved DEF CountsAlong
<1>11. ASSUME NEW c \in Callers, NEW s \in Sessions, Terminates(c, s)
      PROVE  Counted'
  BY <1>11, TerminatesDoes DEF Open, Running, Counted
<1>12. ASSUME Notifies
      PROVE  Counted'
  BY <1>12, NotifiesDoes DEF Open, Running, Counted
<1>13. CASE Elsewhere
  BY <1>13 DEF Elsewhere, SameTransport, SameGuard, Counted, Open, Running
<1> QED
  BY <1>1, <1>2, <1>3, <1>4, <1>5, <1>6, <1>7, <1>8, <1>9, <1>10, <1>11, <1>12, <1>13, ElsewhereIs
  DEF SessionsNext, RequestNext, CutNext, Arrival

\* A request comes to the guard with a token that is accepted.
ComesAccepted(x, y) ==
  y.at \in BeforeTheGuard =>
    \/ /\ x.at \in BeforeTheGuard /\ y.caller = x.caller
       /\ y.at \in AtGuard => x.at \in AtGuard /\ y.kind = x.kind /\ y.sid = x.sid
    \/ y.caller \in access

\* It is let in to a session from the guard alone, and stays there.
StaysServed(x, y) ==
  y.http => y.caller = x.caller /\ y.sid = x.sid /\ (x.http \/ x.at \in BeforeTheGuard)

\* A session is registered anew for a request that uses it, at the guard.
RegistersAtGuard(x) ==
  \A e \in Sessions :
    \/ registered'[e] \in {registered[e], Nobody}
    \/ x.at \in AtGuard /\ x.kind # "open" /\ e = x.sid /\ registered'[e] = x.caller

\* No session comes to life but one that has just been made.
NoneRises == \A e \in Sessions : Alive(e)' => Alive(e) \/ transport[e] = "unborn"

LEMMA NoneRisesIs ==
  SameTransport \/ (\E s \in Sessions \cup {NoSession} : Goes(s)) => NoneRises
<1>1. SameTransport => NoneRises
  BY DEF SameTransport, NoneRises, Alive
<1>2. ASSUME NEW s \in Sessions \cup {NoSession}, Goes(s) PROVE NoneRises
  BY <1>2 DEF Goes, NoneRises, Alive
<1> QED BY <1>1, <1>2

\* A request that is served in a session was, or entered it from the guard.
LEMMA ServedInOld ==
  ASSUME Fresh, Served, NoneRises, NEW q \in Calls, request[q].http,
         request'[q].sid = request[q].sid, transport'[request'[q].sid] = "live"
  PROVE  Alive(request[q].sid)
<1>1. request[q].sid \in Sessions
  BY DEF Served
<1>2. transport[request[q].sid] # "unborn"
  BY <1>1 DEF Fresh
<1>3. transport'[request[q].sid] = "live"
  OBVIOUS
<1> QED BY <1>1, <1>2, <1>3 DEF NoneRises, Alive

LEMMA CutOffWhenMoved ==
  ASSUME CutOff, Fresh, Served, SameAccess, NoneRises,
         NEW r \in Calls, \A q \in Calls \ {r} : request'[q] = request[q],
         ComesAccepted(request[r], request'[r]), StaysServed(request[r], request'[r]),
         RegistersAtGuard(request[r])
  PROVE  CutOff'
<1>1. ASSUME NEW c \in Callers, cut'[c].how = "revoked"
      PROVE  CutOffFrom(c)'
  <2>1. /\ access' = access /\ cut' = cut /\ c \notin access
        /\ CutOffFrom(c)
    BY <1>1 DEF CutOff, CutOffFrom, SameAccess
  <2>2. ASSUME NEW q \in Calls, request'[q].caller = c, request'[q].at \in BeforeTheGuard
        PROVE  /\ q \in cut[c].late
               /\ request'[q].at \in AtGuard /\ request'[q].kind # "open" => request'[q].sid \in cut[c].near
    <3>1. CASE q # r
      BY <2>1, <2>2, <3>1 DEF CutOffFrom
    <3>2. CASE q = r
      <4>1. /\ request[r].at \in BeforeTheGuard /\ request[r].caller = c
            /\ request'[r].at \in AtGuard =>
                 /\ request[r].at \in AtGuard /\ request'[r].kind = request[r].kind
                 /\ request'[r].sid = request[r].sid
        BY <2>1, <2>2, <3>2 DEF ComesAccepted
      <4> QED BY <2>1, <3>2, <4>1 DEF CutOffFrom
    <3> QED BY <3>1, <3>2
  <2>3. ASSUME NEW e \in Sessions, registered'[e] = c
        PROVE  e \in cut[c].todo \cup cut[c].near
    <3>1. c # Nobody
      BY CallersAssumption
    <3>2. CASE registered[e] = c
      BY <2>1, <3>2 DEF CutOffFrom, SessionsOf
    <3>3. CASE request[r].at \in AtGuard /\ request[r].kind # "open" /\ e = request[r].sid /\ request[r].caller = c
      BY <2>1, <3>3 DEF CutOffFrom
    <3> QED BY <2>3, <3>1, <3>2, <3>3 DEF RegistersAtGuard
  <2>4. SessionsOf(c)' \subseteq cut[c].todo \cup cut[c].near
    BY <2>3 DEF SessionsOf
  <2>5. ASSUME NEW q \in Calls, request'[q].caller = c, request'[q].http, transport'[request'[q].sid] = "live"
        PROVE  q \in cut[c].late \/ request'[q].sid \in cut[c].todo
    <3>1. /\ request[q].caller = c /\ request'[q].sid = request[q].sid
          /\ request[q].http \/ request[q].at \in BeforeTheGuard
      BY <2>5 DEF StaysServed
    <3>2. CASE request[q].http
      <4>1. Alive(request[q].sid)
        BY <2>5, <3>1, <3>2, ServedInOld
      <4> QED BY <2>1, <3>1, <3>2, <4>1 DEF CutOffFrom
    <3>3. CASE request[q].at \in BeforeTheGuard
      BY <2>1, <3>1, <3>3 DEF CutOffFrom
    <3> QED BY <3>1, <3>2, <3>3
  <2>6. /\ cut'[c] = cut[c] /\ c \notin access' /\ cut[c].at \in {"closing", "over"}
        /\ cut[c].at = "over" => cut[c].todo = {}
    BY <2>1 DEF CutOffFrom
  <2>7. \A q \in Calls : request'[q].caller = c /\ request'[q].at \in AtGuard =>
          request'[q].at \in BeforeTheGuard
    BY DEF BeforeTheGuard
  <2> QED BY <2>2, <2>4, <2>5, <2>6, <2>7 DEF CutOffFrom, Alive
<1> QED BY <1>1 DEF CutOff

\* A caller whose sign-in has been revoked is not let in again, save with a
\* request that was accepted before.
LEMMA CutOffStep ==
  ASSUME Shape, Fresh, AtTheGuard, Served, CutOff, [SessionsNext]_sessionVars
  PROVE  CutOff'
<1>1. ASSUME NEW r \in Calls, Arrival(r)
      PROVE  CutOff'
  <2>1. SameAccess /\ \A q \in Calls \ {r} : request'[q] = request[q]
    BY <1>1, ArrivalDoes DEF Becomes
  <2>2. ComesAccepted(request[r], request'[r]) /\ StaysServed(request[r], request'[r])
    BY <1>1, ArrivalDoes DEF ComesAccepted, StaysServed, BeforeTheGuard
  <2>3. RegistersAtGuard(request[r])
    BY <1>1, ArrivalDoes DEF SameGuard, RegistersAtGuard
  <2>4. NoneRises
    BY <1>1, ArrivalDoes, NoneRisesIs
  <2> QED BY <2>1, <2>2, <2>3, <2>4, CutOffWhenMoved
<1>2. ASSUME NEW r \in Calls, Sweeps(r)
      PROVE  CutOff'
  <2>1. SameAccess /\ \A q \in Calls \ {r} : request'[q] = request[q]
    BY <1>2, SweepsDoes DEF Becomes
  <2>2. ComesAccepted(request[r], request'[r]) /\ StaysServed(request[r], request'[r])
    BY <1>2, SweepsDoes DEF SamePlace, AtGuard, ComesAccepted, StaysServed, BeforeTheGuard
  <2>3. RegistersAtGuard(request[r])
    BY <1>2, SweepsDoes DEF SameGuard, RegistersAtGuard
  <2>4. NoneRises
    BY <1>2, SweepsDoes, NoneRisesIs
  <2> QED BY <2>1, <2>2, <2>3, <2>4, CutOffWhenMoved
<1>3. ASSUME NEW r \in Calls, NEW s \in Sessions, EndsIdle(r, s)
      PROVE  CutOff'
  <2>1. SameAccess /\ \A q \in Calls \ {r} : request'[q] = request[q]
    BY <1>3, EndsIdleDoes DEF Becomes
  <2>2. ComesAccepted(request[r], request'[r]) /\ StaysServed(request[r], request'[r])
    BY <1>3, EndsIdleDoes DEF SamePlace, AtGuard, ComesAccepted, StaysServed, BeforeTheGuard
  <2>3. RegistersAtGuard(request[r])
    BY <1>3, EndsIdleDoes DEF SameGuard, RegistersAtGuard
  <2>4. NoneRises
    BY <1>3, EndsIdleDoes, NoneRisesIs
  <2> QED BY <2>1, <2>2, <2>3, <2>4, CutOffWhenMoved
<1>4. ASSUME NEW r \in Calls, Forgets(r)
      PROVE  CutOff'
  <2>1. SameAccess /\ \A q \in Calls \ {r} : request'[q] = request[q]
    BY <1>4, ForgetsDoes DEF Becomes
  <2>2. ComesAccepted(request[r], request'[r]) /\ StaysServed(request[r], request'[r])
    BY <1>4, ForgetsDoes DEF SamePlace, ComesAccepted, StaysServed, BeforeTheGuard
  <2>3. RegistersAtGuard(request[r])
    BY <1>4, ForgetsDoes DEF IsForgotten, RegistersAtGuard
  <2>4. NoneRises
    BY <1>4, ForgetsDoes, NoneRisesIs
  <2> QED BY <2>1, <2>2, <2>3, <2>4, CutOffWhenMoved
<1>5. ASSUME NEW r \in Calls, Passes(r)
      PROVE  CutOff'
  <2>1. SameAccess /\ \A q \in Calls \ {r} : request'[q] = request[q]
    BY <1>5, PassesDoes DEF Becomes
  <2>2. ComesAccepted(request[r], request'[r]) /\ StaysServed(request[r], request'[r])
    BY <1>5, PassesDoes DEF IsOver, AtGuard, ComesAccepted, StaysServed, BeforeTheGuard
  <2>3. RegistersAtGuard(request[r])
    BY <1>5, PassesDoes DEF AtGuard, RegistersAtGuard
  <2>4. NoneRises
    BY <1>5, PassesDoes, NoneRisesIs
  <2> QED BY <2>1, <2>2, <2>3, <2>4, CutOffWhenMoved
<1>6. ASSUME NEW r \in Calls, Opens(r)
      PROVE  CutOff'
  <2>0. request[r].http = FALSE
    BY <1>6, OpensDoes DEF AtTheGuard, Placed
  <2>1. SameAccess /\ \A q \in Calls \ {r} : request'[q] = request[q]
    BY <1>6, OpensDoes DEF Becomes
  <2>2. ComesAccepted(request[r], request'[r]) /\ StaysServed(request[r], request'[r])
    BY <1>6, OpensDoes, <2>0 DEF AtGuard, ComesAccepted, StaysServed, BeforeTheGuard
  <2>3. RegistersAtGuard(request[r])
    BY <1>6, OpensDoes, <2>0 DEF SameGuard, RegistersAtGuard
  <2>4. NoneRises
    BY <1>6, OpensDoes DEF NoneRises, Alive
  <2> QED BY <2>1, <2>2, <2>3, <2>4, CutOffWhenMoved
<1>7. ASSUME NEW r \in Calls, Records(r)
      PROVE  CutOff'
  <2>1. SameAccess /\ \A q \in Calls \ {r} : request'[q] = request[q]
    BY <1>7, RecordsDoes DEF Becomes
  <2>2. ComesAccepted(request[r], request'[r]) /\ StaysServed(request[r], request'[r])
    BY <1>7, RecordsDoes DEF IsOver, ComesAccepted, StaysServed, BeforeTheGuard, AtGuard
  <2>3. RegistersAtGuard(request[r])
    BY <1>7, RecordsDoes DEF SameGuard, RegistersAtGuard
  <2>4. NoneRises
    <3>1. request[r].sid \in Sessions \cup {NoSession}
      BY RequestIs DEF RequestRecords
    <3>2. SameTransport \/ Goes(request[r].sid)
      BY <1>7, GoesIs DEF Records, SameTransport
    <3> QED BY <3>1, <3>2, NoneRisesIs
  <2> QED BY <2>1, <2>2, <2>3, <2>4, CutOffWhenMoved
<1>8. ASSUME NEW r \in Calls, RequestBegins(r)
      PROVE  CutOff'
  <2>0. request[r].at = "inside"
    BY <1>8, BeginsDoes DEF AtTheGuard, Placed
  <2>1. SameAccess /\ \A q \in Calls \ {r} : request'[q] = request[q]
    BY <1>8, BeginsDoes DEF Becomes
  <2>2. ComesAccepted(request[r], request'[r]) /\ StaysServed(request[r], request'[r])
    BY <1>8, BeginsDoes, <2>0 DEF CallEnds, IsOver, AtGuard, ComesAccepted, StaysServed, BeforeTheGuard
  <2>3. RegistersAtGuard(request[r])
    BY <1>8, BeginsDoes, <2>0 DEF RegistersAtGuard
  <2>4. NoneRises
    BY <1>8, BeginsDoes, NoneRisesIs
  <2> QED BY <2>1, <2>2, <2>3, <2>4, CutOffWhenMoved
<1>9. ASSUME NEW r \in Calls, Replies(r)
      PROVE  CutOff'
  <2>0. request[r].at = "inside"
    BY <1>9, RepliesDoes DEF AtTheGuard, Placed
  <2>1. SameAccess /\ \A q \in Calls \ {r} : request'[q] = request[q]
    BY <1>9, RepliesDoes DEF Becomes
  <2>2. ComesAccepted(request[r], request'[r]) /\ StaysServed(request[r], request'[r])
    BY <1>9, RepliesDoes, <2>0 DEF CallEnds, IsOver, AtGuard, ComesAccepted, StaysServed, BeforeTheGuard
  <2>3. RegistersAtGuard(request[r])
    BY <1>9, RepliesDoes, <2>0 DEF WorkEnds, RegistersAtGuard
  <2>4. NoneRises
    BY <1>9, RepliesDoes, NoneRisesIs
  <2> QED BY <2>1, <2>2, <2>3, <2>4, CutOffWhenMoved
<1>10. ASSUME NEW r \in Calls, Closes(r)
      PROVE  CutOff'
  <2>0. request[r].at = "inside"
    BY <1>10, ClosesDoes DEF AtTheGuard, Placed
  <2>1. SameAccess /\ \A q \in Calls \ {r} : request'[q] = request[q]
    BY <1>10, ClosesDoes DEF Becomes
  <2>2. ComesAccepted(request[r], request'[r]) /\ StaysServed(request[r], request'[r])
    BY <1>10, ClosesDoes, <2>0 DEF IsOver, AtGuard, ComesAccepted, StaysServed, BeforeTheGuard
  <2>3. RegistersAtGuard(request[r])
    BY <1>10, ClosesDoes, <2>0 DEF WorkEnds, IsForgotten, RegistersAtGuard
  <2>4. NoneRises
    BY <1>10, ClosesDoes, RequestIs, NoneRisesIs DEF RequestRecords
  <2> QED BY <2>1, <2>2, <2>3, <2>4, CutOffWhenMoved
<1>11. ASSUME NEW c \in Callers, NEW s \in Sessions, Terminates(c, s)
      PROVE  CutOff'
  <2>1. /\ request' = request /\ access' = access /\ Goes(s)
        /\ \A e \in Sessions : registered'[e] = IF e = s THEN Nobody ELSE registered[e]
    BY <1>11, TerminatesDoes
  <2>2. \A d \in Callers : /\ cut'[d].how = cut[d].how /\ cut'[d].at = cut[d].at
                           /\ cut'[d].late = cut[d].late /\ cut'[d].near = cut[d].near
                           /\ cut'[d].todo = IF d = c THEN cut[d].todo \ {s} ELSE cut[d].todo
    BY <1>11 DEF Terminates, Shape
  <2>3. ASSUME NEW d \in Callers, NEW e \in Sessions, registered'[e] = d
        PROVE  registered[e] = d /\ e # s
    BY <2>1, <2>3, CallersAssumption
  <2>4. \A d \in Callers : SessionsOf(d)' \subseteq SessionsOf(d) \ {s}
    BY <2>3 DEF SessionsOf
  <2>5. cut[c].at = "closing"
    BY <1>11 DEF Terminates
  <2>6. ASSUME NEW q \in Calls, request[q].http, transport'[request'[q].sid] = "live"
        PROVE  Alive(request[q].sid) /\ request[q].sid # s
    <3>1. NoneRises
      BY <2>1, NoneRisesIs
    <3>2. request[q].sid # s
      BY <2>1, <2>6 DEF Goes, Alive
    <3> QED BY <2>1, <2>6, <3>1, <3>2, ServedInOld
  <2>7. ASSUME NEW d \in Callers, cut'[d].how = "revoked"
        PROVE  CutOffFrom(d)'
    <3>1. CutOffFrom(d)
      BY <2>2, <2>7 DEF CutOff
    <3>2. SessionsOf(d)' \subseteq cut'[d].todo \cup cut'[d].near
      BY <2>2, <2>4, <3>1 DEF CutOffFrom
    <3>3. \A q \in Calls : request'[q].caller = d /\ request'[q].http /\ transport'[request'[q].sid] = "live" =>
            q \in cut'[d].late \/ request'[q].sid \in cut'[d].todo
      BY <2>1, <2>2, <2>6, <3>1 DEF CutOffFrom
    <3>4. cut'[d].at = "over" => cut'[d].todo = {}
      BY <2>2, <2>5, <3>1 DEF CutOffFrom
    <3> QED BY <2>1, <2>2, <3>1, <3>2, <3>3, <3>4 DEF CutOffFrom, Alive
  <2> QED BY <2>7 DEF CutOff
<1>12. ASSUME Notifies
      PROVE  CutOff'
  <2>1. request' = request /\ SameAccess /\ SameTransport
    BY <1>12, NotifiesDoes
  <2>2. \A d \in Callers : SessionsOf(d)' \subseteq SessionsOf(d)
    BY <1>12, NotifiesDoes, CallersAssumption DEF SessionsOf
  <2> QED BY <2>1, <2>2 DEF CutOff, CutOffFrom, SameAccess, SameTransport, Alive
<1>13. ASSUME NEW c \in Callers, NEW how \in Hows, Cuts(c, how)
      PROVE  CutOff'
  <2>1. /\ request' = request /\ registered' = registered /\ transport' = transport
        /\ access' = IF how = "revoked" THEN access \ {c} ELSE access
    BY <1>13 DEF Cuts, AccessAfter, guardVars
  <2>2. /\ cut'[c].how = how /\ cut'[c].at = "closing" /\ cut'[c].todo = SessionsOf(c)
        /\ cut'[c].late = OnTheWay(c)
        /\ cut'[c].near = {request[r].sid : r \in {q \in OnTheWay(c) : request[q].kind # "open"}}
        /\ \A d \in Callers \ {c} : cut'[d] = cut[d]
    BY <1>13 DEF Cuts, Shape
  <2>3. \A d \in Callers : SessionsOf(d)' = SessionsOf(d)
    BY <2>1 DEF SessionsOf
  <2>4. ASSUME NEW d \in Callers \ {c}, cut'[d].how = "revoked"
        PROVE  CutOffFrom(d)'
    <3>1. CutOffFrom(d) /\ cut'[d] = cut[d]
      BY <2>2, <2>4 DEF CutOff
    <3> QED BY <2>1, <2>3, <3>1 DEF CutOffFrom, Alive
  <2>5. ASSUME how = "revoked"
        PROVE  CutOffFrom(c)'
    <3>1. c \notin access' /\ SessionsOf(c)' \subseteq cut'[c].todo
      BY <2>1, <2>2, <2>3, <2>5
    <3>2. \A r \in Calls : request[r].caller = c /\ request[r].at \in BeforeTheGuard => r \in cut'[c].late
      BY <2>2 DEF OnTheWay, BeforeTheGuard, AtGuard
    <3>3. \A r \in Calls : request[r].caller = c /\ request[r].at \in AtGuard /\ request[r].kind # "open" =>
            request[r].sid \in cut'[c].near
      BY <2>2 DEF OnTheWay, AtGuard
    <3>4. \A r \in Calls : request[r].caller = c /\ request[r].http /\ Alive(request[r].sid) =>
            request[r].sid \in cut'[c].todo
      BY <2>2 DEF Served, SessionsOf
    <3> QED BY <2>1, <2>2, <3>1, <3>2, <3>3, <3>4 DEF CutOffFrom, Alive
  <2> QED BY <2>2, <2>4, <2>5 DEF CutOff
<1>14. ASSUME NEW c \in Callers, Revokes(c)
      PROVE  CutOff'
  <2>1. /\ request' = request /\ registered' = registered /\ transport' = transport
        /\ access' \subseteq access
    BY <1>14 DEF Revokes, guardVars
  <2>2. /\ cut'[c].how = cut[c].how /\ cut'[c].at = "over" /\ cut'[c].todo = {}
        /\ cut'[c].late = cut[c].late /\ cut'[c].near = cut[c].near
        /\ cut[c].todo = {}
        /\ \A d \in Callers \ {c} : cut'[d] = cut[d]
    BY <1>14 DEF Revokes, Shape
  <2>3. \A d \in Callers : SessionsOf(d)' = SessionsOf(d)
    BY <2>1 DEF SessionsOf
  <2>4. ASSUME NEW d \in Callers, cut'[d].how = "revoked"
        PROVE  CutOffFrom(d)'
    <3>1. /\ CutOffFrom(d) /\ cut'[d].at \in {"over", cut[d].at}
          /\ cut'[d].late = cut[d].late /\ cut'[d].near = cut[d].near /\ cut'[d].todo = cut[d].todo
          /\ cut'[d].at = "over" => cut'[d].todo = {}
      BY <2>2, <2>4 DEF CutOff, CutOffFrom
    <3> QED BY <2>1, <2>3, <3>1 DEF CutOffFrom, Alive
  <2> QED BY <2>4 DEF CutOff
<1>15. CASE ClockNext \/ UNCHANGED sessionVars
  <2>1. /\ request' = request /\ registered' = registered /\ access' = access /\ cut' = cut
        /\ transport' = transport
    BY <1>15, ElsewhereIs DEF Elsewhere, SameGuard, SameAccess, SameTransport
  <2> QED BY <2>1 DEF CutOff, CutOffFrom, SessionsOf, Alive
<1> QED
  BY <1>1, <1>2, <1>3, <1>4, <1>5, <1>6, <1>7, <1>8, <1>9, <1>10, <1>11, <1>12, <1>13, <1>14, <1>15
  DEF SessionsNext, RequestNext, CutNext, Arrival


\* What the guard keeps, as the actions change it.
GuardShape ==
  /\ owner \in [Sessions -> Callers \cup {Nobody}] /\ registered \in [Sessions -> Callers \cup {Nobody}]
  /\ inProgress \in [Sessions -> Int] /\ idleSince \in [Sessions -> Int]

LEMMA NumberReplaced ==
  ASSUME NEW f \in [Sessions -> Int], NEW s, NEW v, s \in Sessions => v \in Int
  PROVE  [f EXCEPT ![s] = v] \in [Sessions -> Int]
OBVIOUS

LEMMA ForgetShape ==
  ASSUME Shape, NEW s, Forget({s})
  PROVE  GuardShape'
BY NeverIsInt DEF Shape, GuardShape, Forget, Reported

LEMMA WorkDoneShape ==
  ASSUME Shape, NEW s, WorkDone(s), owner' = owner, registered' = registered
  PROVE  GuardShape'
<1>1. owner' \in [Sessions -> Callers \cup {Nobody}] /\ registered' \in [Sessions -> Callers \cup {Nobody}]
  BY DEF Shape
<1>2. inProgress' \in [Sessions -> Int]
  <2>1. inProgress' = [inProgress EXCEPT ![s] = IF owner[s] = Nobody THEN inProgress[s] ELSE inProgress[s] - 1]
    BY DEF WorkDone
  <2>2. inProgress \in [Sessions -> Int]
    BY DEF Shape
  <2>3. s \in Sessions => (IF owner[s] = Nobody THEN inProgress[s] ELSE inProgress[s] - 1) \in Int
    BY <2>2
  <2> QED BY <2>1, <2>2, <2>3, NumberReplaced
<1>3. idleSince' \in [Sessions -> Int]
  <2>1. idleSince' = [idleSince EXCEPT ![s] =
                        IF owner[s] # Nobody /\ inProgress[s] = 1 THEN now ELSE idleSince[s]]
    BY DEF WorkDone
  <2>2. idleSince \in [Sessions -> Int] /\ now \in Int
    BY DEF Shape
  <2>3. s \in Sessions => (IF owner[s] # Nobody /\ inProgress[s] = 1 THEN now ELSE idleSince[s]) \in Int
    BY <2>2
  <2> QED BY <2>1, <2>2, <2>3, NumberReplaced
<1> QED BY <1>1, <1>2, <1>3 DEF GuardShape

CutShape ==
  cut \in [Callers -> [how : {"none", "revoked", "removed"},
                       at : {"none", "closing", "over"}, todo : SUBSET Sessions,
                       late : SUBSET Calls, near : SUBSET Sessions]]
TransportShape == transport \in [Sessions -> {"unborn", "live", "terminated", "gone"}]
ClockShape == nextSweep \in Int /\ now \in Nat

\* The sessions a revocation finds requests on their way to.
Used(c) == {request[r].sid : r \in {q \in OnTheWay(c) : request[q].kind # "open"}}

LEMMA UsedAreSessions ==
  ASSUME Fresh, AtTheGuard, NEW c
  PROVE  Used(c) \subseteq Sessions
<1>1. ASSUME NEW r \in OnTheWay(c), request[r].kind # "open"
      PROVE  request[r].sid \in Sessions
  BY <1>1 DEF OnTheWay, Fresh, AtTheGuard, Placed
<1> QED BY <1>1 DEF Used

LEMMA ShapeParts ==
  ASSUME TransportShape', GuardShape', ClockShape', CutShape',
         access' \subseteq Callers, request' \in [Calls -> RequestRecords]
  PROVE  Shape'
<1>1. GuardShape' /\ ClockShape' /\ TransportShape' /\ CutShape'
  OBVIOUS
<1>2. /\ owner' \in [Sessions -> Callers \cup {Nobody}] /\ registered' \in [Sessions -> Callers \cup {Nobody}]
      /\ inProgress' \in [Sessions -> Int] /\ idleSince' \in [Sessions -> Int]
  BY <1>1 DEF GuardShape
<1>3. nextSweep' \in Int /\ now' \in Nat
  BY <1>1 DEF ClockShape
<1> QED BY <1>1, <1>2, <1>3 DEF Shape, TransportShape, CutShape

\* Every step keeps the shape of the state.
LEMMA ShapeStep ==
  ASSUME Shape, Fresh, AtTheGuard, [SessionsNext]_sessionVars
  PROVE  Shape'
<1>1. ASSUME NEW r \in Calls, Arrival(r)
      PROVE  Shape'
  <2>1. access' \subseteq Callers /\ CutShape' /\ request' \in [Calls -> RequestRecords]
    <3>1. SameAccess /\ Becomes(r, request'[r])
      BY <1>1, ArrivalDoes
    <3> QED BY <3>1 DEF Becomes, SameAccess, Shape, CutShape
  <2>2. TransportShape'
    BY <1>1, ArrivalDoes DEF SameTransport, Shape, TransportShape
  <2>3. GuardShape'
    BY <1>1, ArrivalDoes DEF SameGuard, Shape, GuardShape
  <2>4. ClockShape'
    BY <1>1 DEF Arrival, Arrives, Shape, ClockShape, limitVars
  <2> QED BY <2>1, <2>2, <2>3, <2>4, ShapeParts
<1>2. ASSUME NEW r \in Calls, Sweeps(r)
      PROVE  Shape'
  <2>1. access' \subseteq Callers /\ CutShape' /\ request' \in [Calls -> RequestRecords]
    <3>1. SameAccess /\ Becomes(r, request'[r])
      BY <1>2, SweepsDoes
    <3> QED BY <3>1 DEF Becomes, SameAccess, Shape, CutShape
  <2>2. TransportShape'
    BY <1>2, SweepsDoes DEF SameTransport, Shape, TransportShape
  <2>3. GuardShape'
    BY <1>2, SweepsDoes DEF SameGuard, Shape, GuardShape
  <2>4. ClockShape'
    BY <1>2, ClientSessionsAssumption DEF Sweeps, Shape, ClockShape, limitVars
  <2> QED BY <2>1, <2>2, <2>3, <2>4, ShapeParts
<1>3. ASSUME NEW r \in Calls, NEW s \in Sessions, EndsIdle(r, s)
      PROVE  Shape'
  <2>1. access' \subseteq Callers /\ CutShape' /\ request' \in [Calls -> RequestRecords]
    <3>1. SameAccess /\ Becomes(r, request'[r])
      BY <1>3, EndsIdleDoes
    <3> QED BY <3>1 DEF Becomes, SameAccess, Shape, CutShape
  <2>2. TransportShape'
    BY <1>3 DEF EndsIdle, Shape, TransportShape
  <2>3. GuardShape'
    BY <1>3, EndsIdleDoes DEF SameGuard, Shape, GuardShape
  <2>4. ClockShape'
    BY <1>3 DEF EndsIdle, Shape, ClockShape, limitVars
  <2> QED BY <2>1, <2>2, <2>3, <2>4, ShapeParts
<1>4. ASSUME NEW r \in Calls, Forgets(r)
      PROVE  Shape'
  <2>1. access' \subseteq Callers /\ CutShape' /\ request' \in [Calls -> RequestRecords]
    <3>1. SameAccess /\ Becomes(r, request'[r])
      BY <1>4, ForgetsDoes
    <3> QED BY <3>1 DEF Becomes, SameAccess, Shape, CutShape
  <2>2. TransportShape'
    BY <1>4, ForgetsDoes DEF SameTransport, Shape, TransportShape
  <2>3. GuardShape'
    BY <1>4, ForgetShape DEF Forgets
  <2>4. ClockShape'
    BY <1>4 DEF Forgets, Shape, ClockShape, limitVars
  <2> QED BY <2>1, <2>2, <2>3, <2>4, ShapeParts
<1>5. ASSUME NEW r \in Calls, Passes(r)
      PROVE  Shape'
  <2>1. access' \subseteq Callers /\ CutShape' /\ request' \in [Calls -> RequestRecords]
    <3>1. SameAccess /\ Becomes(r, request'[r])
      BY <1>5, PassesDoes
    <3> QED BY <3>1 DEF Becomes, SameAccess, Shape, CutShape
  <2>2. TransportShape'
    BY <1>5, PassesDoes DEF SameTransport, Shape, TransportShape
  <2>3. GuardShape'
    <3>1. CASE IsOwner(request[r].sid, request[r].caller)
      <4>1. /\ owner' = owner /\ idleSince' = idleSince
            /\ registered' = [registered EXCEPT ![request[r].sid] = request[r].caller]
            /\ inProgress' = [inProgress EXCEPT ![request[r].sid] = @ + 1]
        BY <1>5, <3>1 DEF Passes
      <4>2. request[r].caller \in Callers \cup {Nobody}
        BY DEF Shape, RequestRecords
      <4>3. owner' \in [Sessions -> Callers \cup {Nobody}] /\ registered' \in [Sessions -> Callers \cup {Nobody}]
        BY <4>1, <4>2 DEF Shape
      <4>4. idleSince' \in [Sessions -> Int] /\ inProgress' \in [Sessions -> Int]
        <5>1. inProgress \in [Sessions -> Int] /\ idleSince \in [Sessions -> Int]
          BY DEF Shape
        <5>2. inProgress' = [inProgress EXCEPT ![request[r].sid] = inProgress[request[r].sid] + 1]
          BY <4>1
        <5>3. request[r].sid \in Sessions => inProgress[request[r].sid] + 1 \in Int
          BY <5>1
        <5> QED BY <4>1, <5>1, <5>2, <5>3, NumberReplaced
      <4> QED BY <4>3, <4>4 DEF GuardShape
    <3>2. CASE ~IsOwner(request[r].sid, request[r].caller)
      BY <1>5, <3>2, PassesDoes DEF Shape, GuardShape
    <3> QED BY <3>1, <3>2
  <2>4. ClockShape'
    BY <1>5 DEF Passes, Shape, ClockShape, limitVars
  <2> QED BY <2>1, <2>2, <2>3, <2>4, ShapeParts
<1>6. ASSUME NEW r \in Calls, Opens(r)
      PROVE  Shape'
  <2>1. access' \subseteq Callers /\ CutShape' /\ request' \in [Calls -> RequestRecords]
    <3>1. SameAccess /\ Becomes(r, request'[r])
      BY <1>6, OpensDoes
    <3> QED BY <3>1 DEF Becomes, SameAccess, Shape, CutShape
  <2>2. TransportShape'
    BY <1>6 DEF Opens, Shape, TransportShape
  <2>3. GuardShape'
    BY <1>6, OpensDoes DEF SameGuard, Shape, GuardShape
  <2>4. ClockShape'
    BY <1>6 DEF Opens, Shape, ClockShape, limitVars
  <2> QED BY <2>1, <2>2, <2>3, <2>4, ShapeParts
<1>7. ASSUME NEW r \in Calls, Records(r)
      PROVE  Shape'
  <2>1. access' \subseteq Callers /\ CutShape' /\ request' \in [Calls -> RequestRecords]
    <3>1. SameAccess /\ Becomes(r, request'[r])
      BY <1>7, RecordsDoes
    <3> QED BY <3>1 DEF Becomes, SameAccess, Shape, CutShape
  <2>2. TransportShape'
    BY <1>7 DEF Records, Shape, TransportShape
  <2>3. GuardShape'
    <3>1. request[r].caller \in Callers \cup {Nobody}
      BY DEF Shape, RequestRecords
    <3>2. CASE UNCHANGED guardVars
      BY <3>2 DEF guardVars, Shape, GuardShape
    <3>3. CASE ~UNCHANGED guardVars
      <4> DEFINE s == request[r].sid
                 c == request[r].caller
                 ended == {e \in Sessions : owner[e] # Nobody /\ ~Alive(e)}
      <4>1. /\ owner' = [e \in Sessions |-> CASE e = s -> c [] e \in ended -> Nobody [] OTHER -> owner[e]]
            /\ idleSince' = [e \in Sessions |-> CASE e = s -> now [] e \in ended -> Never
                                                [] OTHER -> idleSince[e]]
            /\ inProgress' = [e \in Sessions |-> IF e \in ended THEN 0 ELSE inProgress[e]]
            /\ registered' = Reported(ended)
        BY <1>7, <3>3 DEF Records
      <4> HIDE DEF s, c, ended
      <4>2. c \in Callers \cup {Nobody}
        BY <3>1 DEF c
      <4>3. owner' \in [Sessions -> Callers \cup {Nobody}]
        BY <4>1, <4>2 DEF Shape
      <4>4. idleSince' \in [Sessions -> Int]
        BY <4>1, NeverIsInt DEF Shape
      <4>5. inProgress' \in [Sessions -> Int] /\ registered' \in [Sessions -> Callers \cup {Nobody}]
        BY <4>1 DEF Shape, Reported
      <4> QED BY <4>3, <4>4, <4>5 DEF GuardShape
    <3> QED BY <3>2, <3>3
  <2>4. ClockShape'
    BY <1>7 DEF Records, Shape, ClockShape, limitVars
  <2> QED BY <2>1, <2>2, <2>3, <2>4, ShapeParts
<1>8. ASSUME NEW r \in Calls, RequestBegins(r)
      PROVE  Shape'
  <2>1. access' \subseteq Callers /\ CutShape' /\ request' \in [Calls -> RequestRecords]
    <3>1. SameAccess /\ Becomes(r, request'[r])
      BY <1>8, BeginsDoes
    <3> QED BY <3>1 DEF Becomes, SameAccess, Shape, CutShape
  <2>2. TransportShape'
    BY <1>8, BeginsDoes DEF SameTransport, Shape, TransportShape
  <2>3. GuardShape'
    <3>1. inProgress' = inProgress \/ inProgress' = Busier({request[r].sid})
      BY <1>8 DEF RequestBegins
    <3>2. inProgress' \in [Sessions -> Int]
      BY <3>1 DEF Shape, Busier
    <3> QED BY <1>8, <3>2, BeginsDoes DEF Shape, GuardShape
  <2>4. ClockShape'
    BY <1>8 DEF RequestBegins, Shape, ClockShape, Admit, FailOpen, Refuse
  <2> QED BY <2>1, <2>2, <2>3, <2>4, ShapeParts
<1>9. ASSUME NEW r \in Calls, Replies(r)
      PROVE  Shape'
  <2>1. access' \subseteq Callers /\ CutShape' /\ request' \in [Calls -> RequestRecords]
    <3>1. SameAccess /\ Becomes(r, request'[r])
      BY <1>9, RepliesDoes
    <3> QED BY <3>1 DEF Becomes, SameAccess, Shape, CutShape
  <2>2. TransportShape'
    BY <1>9, RepliesDoes DEF SameTransport, Shape, TransportShape
  <2>3. GuardShape'
    BY <1>9, WorkDoneShape DEF Replies
  <2>4. ClockShape'
    BY <1>9 DEF Replies, Shape, ClockShape, limitVars
  <2> QED BY <2>1, <2>2, <2>3, <2>4, ShapeParts
<1>10. ASSUME NEW r \in Calls, Closes(r)
      PROVE  Shape'
  <2>1. access' \subseteq Callers /\ CutShape' /\ request' \in [Calls -> RequestRecords]
    <3>1. SameAccess /\ Becomes(r, request'[r])
      BY <1>10, ClosesDoes
    <3> QED BY <3>1 DEF Becomes, SameAccess, Shape, CutShape
  <2>2. TransportShape'
    BY <1>10 DEF Closes, Shape, TransportShape
  <2>3. GuardShape'
    BY <1>10, ForgetShape, WorkDoneShape DEF Closes
  <2>4. ClockShape'
    BY <1>10 DEF Closes, Shape, ClockShape, limitVars
  <2> QED BY <2>1, <2>2, <2>3, <2>4, ShapeParts
<1>11. ASSUME NEW c \in Callers, NEW s \in Sessions, Terminates(c, s)
      PROVE  Shape'
  <2>1. TransportShape' /\ CutShape'
    BY <1>11 DEF Terminates, Shape, TransportShape, CutShape
  <2>2. GuardShape'
    BY <1>11 DEF Terminates, Shape, GuardShape
  <2>3. ClockShape' /\ access' \subseteq Callers /\ request' \in [Calls -> RequestRecords]
    BY <1>11 DEF Terminates, Shape, ClockShape, limitVars
  <2> QED BY <2>1, <2>2, <2>3, ShapeParts
<1>12. ASSUME Notifies
      PROVE  Shape'
  <2>1. GuardShape'
    BY <1>12 DEF Notifies, Shape, GuardShape
  <2>2. /\ TransportShape' /\ CutShape' /\ ClockShape'
        /\ access' \subseteq Callers /\ request' \in [Calls -> RequestRecords]
    BY <1>12 DEF Notifies, Shape, TransportShape, CutShape, ClockShape, limitVars
  <2> QED BY <2>1, <2>2, ShapeParts
<1>13. ASSUME NEW c \in Callers, NEW how \in Hows, Cuts(c, how)
      PROVE  Shape'
  <2>1. /\ UNCHANGED <<limitVars, transport, guardVars, nextSweep, request>>
        /\ access' = IF how = "revoked" THEN access \ {c} ELSE access
        /\ cut' = [cut EXCEPT ![c] = [how |-> how, at |-> "closing", todo |-> SessionsOf(c),
                                      late |-> OnTheWay(c), near |-> Used(c)]]
    BY <1>13 DEF Cuts, AccessAfter, Used
  <2>2. /\ how \in {"revoked", "removed"} /\ SessionsOf(c) \in SUBSET Sessions
        /\ OnTheWay(c) \in SUBSET Calls /\ Used(c) \in SUBSET Sessions
    <3>1. OnTheWay(c) \in SUBSET Calls /\ SessionsOf(c) \in SUBSET Sessions
      BY DEF OnTheWay, SessionsOf
    <3>2. how \in {"revoked", "removed"}
      BY ClientSessionsAssumption
    <3> QED BY <3>1, <3>2, UsedAreSessions
  <2>3. CutShape'
    <3>1. [how |-> how, at |-> "closing", todo |-> SessionsOf(c), late |-> OnTheWay(c), near |-> Used(c)]
            \in [how : {"none", "revoked", "removed"}, at : {"none", "closing", "over"},
                 todo : SUBSET Sessions, late : SUBSET Calls, near : SUBSET Sessions]
      BY <2>2
    <3> QED BY <2>1, <3>1 DEF Shape, CutShape
  <2>4. /\ TransportShape' /\ GuardShape' /\ ClockShape' /\ access' \subseteq Callers
        /\ request' \in [Calls -> RequestRecords]
    BY <2>1 DEF Shape, TransportShape, GuardShape, ClockShape, limitVars, guardVars
  <2> QED BY <2>3, <2>4, ShapeParts
<1>14. ASSUME NEW c \in Callers, Revokes(c)
      PROVE  Shape'
  <2>1. /\ UNCHANGED <<limitVars, transport, guardVars, nextSweep, request>>
        /\ access' \subseteq access /\ cut' = [cut EXCEPT ![c].at = "over"]
    BY <1>14 DEF Revokes
  <2>2. CutShape'
    BY <2>1 DEF Shape, CutShape
  <2>3. /\ TransportShape' /\ GuardShape' /\ ClockShape' /\ access' \subseteq Callers
        /\ request' \in [Calls -> RequestRecords]
    BY <2>1 DEF Shape, TransportShape, GuardShape, ClockShape, limitVars, guardVars
  <2> QED BY <2>2, <2>3, ShapeParts
<1>15. CASE ClockNext \/ UNCHANGED sessionVars
  BY <1>15 DEF ClockNext, Tick, Shape, sessionVars, limitVars, guardVars
<1> QED
  BY <1>1, <1>2, <1>3, <1>4, <1>5, <1>6, <1>7, <1>8, <1>9, <1>10, <1>11, <1>12, <1>13, <1>14, <1>15
  DEF SessionsNext, RequestNext, CutNext, Arrival

-----------------------------------------------------------------------------
(* The theorems                                                            *)

LEMMA SessionsInitially == SessionsInit => SessionsInv /\ CutOff
<1> SUFFICES ASSUME SessionsInit PROVE SessionsInv /\ CutOff
  OBVIOUS
<1>1. /\ owner \in [Sessions -> Callers \cup {Nobody}] /\ registered = owner
      /\ transport = [s \in Sessions |-> IF owner[s] = Nobody THEN "unborn" ELSE "live"]
      /\ idleSince = [s \in Sessions |-> IF owner[s] = Nobody THEN Never ELSE 0]
      /\ inProgress = [s \in Sessions |-> 0] /\ access = Callers
  BY DEF SessionsInit
<1>2. \A r \in Calls : /\ request[r].at = "unborn" /\ request[r].sid = NoSession
                       /\ request[r].closing = NoSession /\ request[r].http = FALSE
                       /\ request[r].handler = "none"
  BY DEF SessionsInit, NoRequest
<1>3. \A c \in Callers : cut[c].how = "none"
  BY DEF SessionsInit, NoCut
<1>4. Shape
  <2>1. request \in [Calls -> RequestRecords]
    BY NeverIsInt DEF SessionsInit, NoRequest, RequestRecords
  <2>2. cut \in [Callers -> [how : {"none", "revoked", "removed"},
                             at : {"none", "closing", "over"}, todo : SUBSET Sessions,
                             late : SUBSET Calls, near : SUBSET Sessions]]
    BY DEF SessionsInit, NoCut
  <2>3. nextSweep \in Int /\ now \in Nat
    BY ClientSessionsAssumption DEF SessionsInit, LimitsInit
  <2> QED BY <1>1, <2>1, <2>2, <2>3, NeverIsInt DEF Shape
<1>5. AtTheGuard
  BY <1>2 DEF AtTheGuard, Placed
<1>6. \A s \in Sessions : inProgress[s] = 0 /\ \A r \in Calls : request[r].sid # s /\ ~InAt(r, s)
  BY <1>1, <1>2, ClientSessionsAssumption DEF InAt
<1>7. Fresh
  BY <1>1, <1>2, <1>6 DEF Fresh, Untouched
<1>8. IdleOfOwned
  <2>1. Never # 0
    BY DEF Never
  <2> QED BY <1>1, <2>1 DEF IdleOfOwned
<1>9. GoneFirst /\ Served /\ RegisteredIsOwned /\ CutOff
  BY <1>1, <1>2, <1>3 DEF GoneFirst, Served, RegisteredIsOwned, CutOff
<1>10. Counted
  <2>1. \A s \in Sessions : Open(s) = {} /\ Running(s) = {}
    BY <1>2 DEF Open, Running
  <2> QED BY <1>6, <2>1, FS_EmptySet DEF Counted
<1> QED BY <1>4, <1>5, <1>7, <1>8, <1>9, <1>10 DEF SessionsInv

LEMMA SessionsStep == SessionsInv /\ [SessionsNext]_sessionVars => SessionsInv'
<1> SUFFICES ASSUME SessionsInv, [SessionsNext]_sessionVars PROVE SessionsInv'
  OBVIOUS
<1>1. /\ Shape /\ AtTheGuard /\ Fresh /\ IdleOfOwned /\ GoneFirst /\ Served
      /\ RegisteredIsOwned /\ Counted
  BY DEF SessionsInv
<1>2. Shape' /\ AtTheGuard' /\ Fresh'
  BY <1>1, ShapeStep, AtTheGuardStep, FreshStep
<1>3. IdleOfOwned' /\ GoneFirst' /\ Served'
  BY <1>1, IdleOfOwnedStep, GoneFirstStep, ServedStep
<1>4. RegisteredIsOwned' /\ Counted'
  BY <1>1, RegisteredIsOwnedStep, CountedStep
<1> QED BY <1>2, <1>3, <1>4 DEF SessionsInv

\* The invariant of the gateway's sessions.
THEOREM SessionsAreInOrder == SessionsSpec => []SessionsInv
<1>1. SessionsInit => SessionsInv
  BY SessionsInitially
<1>2. SessionsInv /\ [SessionsNext]_sessionVars => SessionsInv'
  BY SessionsStep
<1> QED BY <1>1, <1>2, PTL DEF SessionsSpec

\* Notices and later revocations find a session under its owner alone: what
\* the registry holds never outlives the guard's owner or names another
\* (GatewaySessionRegistry, SessionOwnerGuard).
THEOREM RegisteredForTheirOwners == SessionsSpec => []RegisteredIsOwned
<1>1. SessionsInv => RegisteredIsOwned
  BY DEF SessionsInv
<1> QED BY <1>1, SessionsAreInOrder, PTL

LEMMA CutOffIsCutOff ==
  ASSUME CutOff
  PROVE  RevokedIsCutOff
<1>1. ASSUME NEW c \in Callers, cut[c].how = "revoked", cut[c].at = "over"
      PROVE  /\ SessionsOf(c) \cap {s \in Sessions : Alive(s)} \subseteq cut[c].near
             /\ \A r \in Calls : request[r].caller = c /\ request[r].http /\ Alive(request[r].sid) =>
                  r \in cut[c].late
  <2>1. CutOffFrom(c) /\ cut[c].todo = {}
    BY <1>1 DEF CutOff, CutOffFrom
  <2> QED BY <2>1 DEF CutOffFrom
<1> QED BY <1>1 DEF RevokedIsCutOff

\* Registry and owners agree, and once a sign-in has been revoked its caller
\* is served in no request but one that had been accepted and was not yet at
\* the guard, and has no session registered but one such a request came to
\* use (revoke_gateway_sign_in, terminate_user_sessions).
THEOREM SessionsAreTheirOwners == SessionsSpec => []SessionsFollowTheirOwners
<1>1. SessionsInit => SessionsInv /\ CutOff
  BY SessionsInitially
<1>2. (SessionsInv /\ CutOff) /\ [SessionsNext]_sessionVars => (SessionsInv /\ CutOff)'
  <2> SUFFICES ASSUME SessionsInv, CutOff, [SessionsNext]_sessionVars
               PROVE  SessionsInv' /\ CutOff'
    OBVIOUS
  <2>1. Shape /\ Fresh /\ AtTheGuard /\ Served
    BY DEF SessionsInv
  <2> QED BY <2>1, SessionsStep, CutOffStep
<1>3. SessionsInv /\ CutOff => SessionsFollowTheirOwners
  BY CutOffIsCutOff DEF SessionsInv, SessionsFollowTheirOwners
<1> QED BY <1>1, <1>2, <1>3, PTL DEF SessionsSpec

\* What the sweep takes from the manager was idle when it was looked at again.
LEMMA ClosesTheIdle ==
  ASSUME SessionsInv, [SessionsNext]_sessionVars, NEW s \in Sessions, NEW q \in Calls,
         request'[q].closing = s, request[q].closing # s
  PROVE  \E t : StillIdle(s, t)
<1>0. Shape /\ Fresh /\ s # NoSession
  BY ClientSessionsAssumption DEF SessionsInv
<1>1. ASSUME NEW r \in Calls, NEW d \in Sessions, EndsIdle(r, d)
      PROVE  \E t : StillIdle(s, t)
  <2>1. /\ \A p \in Calls \ {r} : request'[p] = request[p]
        /\ \/ request'[r].closing = d /\ StillIdle(d, request[r].since)
           \/ request'[r].closing = NoSession
    BY <1>0, <1>1, EndsIdleDoes DEF Becomes
  <2>2. q = r /\ d = s
    BY <1>0, <2>1
  <2> QED BY <1>0, <2>1, <2>2
<1>2. ASSUME NEW r \in Calls, \A p \in Calls \ {r} : request'[p] = request[p],
             request'[r].closing \in {NoSession, request[r].closing}
      PROVE  FALSE
  BY <1>0, <1>2
<1>3. ASSUME NEW r \in Calls, Arrival(r)
      PROVE  FALSE
  <2>1. Becomes(r, request'[r]) /\ request'[r].closing = NoSession
    BY <1>0, <1>3, ArrivalDoes
  <2> QED BY <2>1, <1>2 DEF Becomes
<1>4. ASSUME NEW r \in Calls, Sweeps(r) \/ Forgets(r) PROVE FALSE
  BY <1>0, <1>4, <1>2, SweepsDoes, ForgetsDoes DEF Becomes
<1>5. ASSUME NEW r \in Calls, Passes(r) \/ Opens(r) \/ Records(r) PROVE FALSE
  BY <1>0, <1>5, <1>2, PassesDoes, OpensDoes, RecordsDoes DEF Becomes, IsOver
<1>6. ASSUME NEW r \in Calls, RequestBegins(r) \/ Replies(r) PROVE FALSE
  BY <1>0, <1>6, <1>2, BeginsDoes, RepliesDoes DEF Becomes, CallEnds, IsOver
<1>7. ASSUME NEW r \in Calls, Closes(r) PROVE FALSE
  BY <1>0, <1>7, <1>2, ClosesDoes DEF Becomes, IsOver
<1>8. ASSUME NEW c \in Callers, NEW d \in Sessions, Terminates(c, d) PROVE FALSE
  BY <1>0, <1>8, TerminatesDoes
<1>9. CASE Notifies
  BY <1>0, <1>9, NotifiesDoes
<1>10. CASE Elsewhere
  BY <1>10 DEF Elsewhere
<1> QED
  BY <1>1, <1>3, <1>4, <1>5, <1>6, <1>7, <1>8, <1>9, <1>10, ElsewhereIs
  DEF SessionsNext, RequestNext, CutNext, Arrival

LEMMA NothingWorksInTheIdle ==
  ASSUME SessionsInv, NEW s \in Sessions, NEW t, StillIdle(s, t), NEW r \in Calls
  PROVE  ~Works(r, s)
<1>1. owner[s] # Nobody /\ inProgress[s] = 0
  BY DEF SessionsInv, IdleOfOwned, StillIdle, IdleLong
<1>2. IsFiniteSet(Open(s)) /\ IsFiniteSet(Running(s)) /\ Cardinality(Open(s)) + Cardinality(Running(s)) = 0
  BY <1>1 DEF SessionsInv, Counted
<1>3. Cardinality(Open(s)) = 0 /\ Cardinality(Running(s)) = 0
  BY <1>2, FS_CardinalityType
<1>4. Open(s) = {} /\ Running(s) = {}
  BY <1>2, <1>3, FS_EmptySet
<1> QED BY <1>4 DEF Works, Open, Running

\* The idle sweep closes no session in which a request is open or a call
\* runs, however its close waits and whatever comes in meanwhile
\* (_end_idle_sessions).
THEOREM SweepClosesNothingBusy == SessionsSpec => SweepSparesTheBusy
<1> DEFINE Spares == \A s \in Sessions, r \in Calls :
             (\E q \in Calls : request'[q].closing = s /\ request[q].closing # s) => ~Works(r, s)
<1>1. SessionsInv /\ [SessionsNext]_sessionVars => [Spares]_sessionVars
  <2> SUFFICES ASSUME SessionsInv, [SessionsNext]_sessionVars PROVE Spares
    OBVIOUS
  <2> QED BY ClosesTheIdle, NothingWorksInTheIdle
<1>2. SessionsSpec => []SessionsInv /\ [][SessionsNext]_sessionVars
  BY SessionsAreInOrder DEF SessionsSpec
<1> HIDE DEF Spares
<1>3. SessionsSpec => [][Spares]_sessionVars
  BY <1>1, <1>2, PTL
<1> QED BY <1>3 DEF SweepSparesTheBusy, Spares

\* Every step of the sessions is one the logs allow.
LEMMA SessionsLimit ==
  ASSUME SessionsInv, [SessionsNext]_sessionVars
  PROVE  LimitStep
<1>1. ASSUME NEW r \in Calls, RequestBegins(r) PROVE LimitStep
  <2>1. \/ Admit(request[r].caller, r) \/ FailOpen(request[r].caller, r)
        \/ Refuse(request[r].caller)
    BY <1>1 DEF RequestBegins
  <2> QED BY <2>1 DEF LimitStep, Refuse, limitVars
<1>2. ASSUME NEW r \in Calls, Arrival(r) PROVE LimitStep
  BY <1>2 DEF Arrival, Arrives, LimitStep
<1>3. ASSUME NEW r \in Calls, NEW s, Sweeps(r) \/ EndsIdle(r, s) \/ Forgets(r) PROVE LimitStep
  BY <1>3 DEF Sweeps, EndsIdle, Forgets, LimitStep
<1>4. ASSUME NEW r \in Calls, Passes(r) \/ Opens(r) \/ Records(r) PROVE LimitStep
  BY <1>4 DEF Passes, Opens, Records, LimitStep
<1>5. ASSUME NEW r \in Calls, Replies(r) \/ Closes(r) PROVE LimitStep
  BY <1>5 DEF Replies, Closes, LimitStep
<1>6. ASSUME NEW c, NEW s, NEW how, Cuts(c, how) \/ Terminates(c, s) \/ Revokes(c) PROVE LimitStep
  BY <1>6 DEF Cuts, Terminates, Revokes, LimitStep
<1>7. CASE Notifies \/ ClockNext \/ UNCHANGED sessionVars
  BY <1>7 DEF Notifies, ClockNext, LimitStep, sessionVars
<1> QED
  BY <1>1, <1>2, <1>3, <1>4, <1>5, <1>6, <1>7 DEF SessionsNext, RequestNext, CutNext, Arrival

\* No window of time holds more calls than the limits allow, of a caller or
\* of all together, though checks fail open and logs are pruned
\* (admit_tool_call).
THEOREM CallsStayWithinLimits == SessionsSpec => []WithinLimit
<1>1. SessionsInit => LimitInv
  BY LimitsInitially DEF SessionsInit
<1>2. SessionsInv /\ LimitInv /\ [SessionsNext]_sessionVars => LimitInv'
  BY SessionsLimit, LimitsStep
<1>3. LimitInv => WithinLimit
  <2>1. Times \subseteq Nat
    BY RateLimitsAssumption DEF Times
  <2> QED BY <2>1 DEF LimitInv, Within, InWindow, WithinLimit
<1> QED BY <1>1, <1>2, <1>3, SessionsAreInOrder, PTL DEF SessionsSpec
=============================================================================
