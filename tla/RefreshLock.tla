---------------------------- MODULE RefreshLock ----------------------------
(***************************************************************************)
(* One refresh of a sign-in's tokens at a time, on every backend.          *)
(*                                                                         *)
(* Translated from domain/services/sign_in_refresh_lock.py over            *)
(* adapters/distributed_lock_mongo.py.  One sign-in, hence one key.        *)
(*                                                                         *)
(* Time is counted in ticks, the same on every backend.  A timer never     *)
(* fires late; an operation of the store takes at most Latency ticks       *)
(* unless it hangs.  An operation that hangs may still reach the store at  *)
(* any later time, also after its caller has stopped waiting for it.       *)
(***************************************************************************)
EXTENDS Naturals, FiniteSets, SequencesExt, FiniteSetsExt

CONSTANTS Backends,   \* processes, each with its own holder id
          Refreshes,  \* refreshes of the sign-in, each made at most once
          NoOne,
          Wait,       \* REFRESH_LOCK_WAIT_SECONDS
          TTL,        \* REFRESH_LOCK_TTL_SECONDS
          Every,      \* a third of the lifetime
          Try,        \* DISTRIBUTED_TRY_SECONDS
          Poll,       \* _DISTRIBUTED_POLL_SECONDS
          Latency,    \* bound on an acquire that does not hang
          Troubles,   \* the kinds of trouble that may happen, once, ...
          Together,   \* ... and those that may happen after each other,
          MaxTrouble, \* up to so many times
          MaxTime     \* bound on the clock

AllTroubles == {"tryFails", "tryHangs", "renewalFails", "renewalHangs",
                "releaseFails", "cancel", "crash"}

ASSUME TimesAssumption ==
  /\ {Wait, TTL, Every, Try, Poll} \subseteq Nat \ {0}
  /\ {Latency, MaxTrouble, MaxTime} \subseteq Nat
ASSUME TroublesAssumption == Together \subseteq Troubles /\ Troubles \subseteq AllTroubles
ASSUME NamesAssumption == NoOne \notin Backends \cup Refreshes /\ IsFiniteSet(Refreshes)

\* A store that answers does so before a try's timer, and soon enough for a
\* renewal to be missed and the next one made within one lifetime.
ASSUME LatencyAssumption == Latency <= Try /\ 2 * Every + 3 * Latency < TTL

VARIABLES
  now,
  holder,   \* the store: holder of the lock's document, NoOne without one
  expires,  \* its expires_at
  overtaken, \* refreshes whose document was forced though it had been renewed
            \* or taken anew since it was found expired (read by no action)
  ghosts,   \* operations their callers no longer wait for
  crashed,  \* backends that died
  entry,    \* _local: a backend's _LocalLock, named by the refresh that made it
  users,    \* _LocalLock.users
  owner,    \* the refresh that holds a _LocalLock's lock
  queue,    \* the refreshes that wait for it, oldest first
  home,     \* the backend of a refresh
  mine,     \* the _LocalLock a refresh uses
  wait,     \* how long it waits: Wait (hold) or 0 (hold_if_free)
  due,      \* its deadline
  pc,       \* where it is
  op,       \* its try at the distributed lock, and its renewal
  lease,    \* expires_at as it last set it (read by no action)
  lapsed,   \* refreshes whose lease ran out while they held (idem)
  trouble   \* what happened so far, first to last

storeVars == <<holder, expires, overtaken>>
localVars == <<entry, users, owner, queue>>
askVars == <<home, mine, wait, due>>
leaseVars == <<lease, lapsed>>
vars == <<now, storeVars, ghosts, crashed, localVars, askVars, pc, op, leaseVars, trouble>>

Threads == Refreshes \X {"try", "renewal"}
InStore == {"find", "update", "force"}

\* A thread's operation: what it does, when it was sent, when its timer fires,
\* and the holder it found (with the expiry it saw, which it does not use).
NoOp == [do |-> "none", sent |-> 0, due |-> 0, found |-> NoOne, saw |-> 0]

\* Where a refresh has the local lock and no other of its backend may be.
PastLocal == {"trying", "holding", "finishing", "releasing"}

TypeOK ==
  /\ now \in 0..MaxTime
  /\ holder \in Backends \cup {NoOne}
  /\ expires \in Nat
  /\ overtaken \subseteq Refreshes
  /\ \A g \in ghosts : g.by \in Backends /\ g.do \in InStore \cup {"delete"}
  /\ crashed \subseteq Backends
  /\ entry \in [Backends -> Refreshes \cup {NoOne}]
  /\ users \in [Refreshes -> 0..Cardinality(Refreshes)]
  /\ owner \in [Refreshes -> Refreshes \cup {NoOne}]
  /\ queue \in [Refreshes -> Seq(Refreshes)]
  /\ home \in [Refreshes -> Backends \cup {NoOne}]
  /\ mine \in [Refreshes -> Refreshes \cup {NoOne}]
  /\ wait \in [Refreshes -> {0, Wait}]
  /\ due \in [Refreshes -> Nat]
  /\ pc \in [Refreshes -> {"idle", "local", "over"} \cup PastLocal]
  /\ op \in [Threads -> [do : {"none", "sleep", "hung"} \cup InStore,
                         sent : Nat, due : Nat, found : Backends \cup {NoOne}, saw : Nat]]
  /\ lease \in [Refreshes -> Nat]
  /\ lapsed \subseteq Refreshes
  /\ trouble \in Seq(Troubles) /\ Len(trouble) <= MaxTrouble + 1

Init ==
  /\ now = 0
  /\ holder = NoOne
  /\ expires = 0
  /\ overtaken = {}
  /\ ghosts = {}
  /\ crashed = {}
  /\ entry = [b \in Backends |-> NoOne]
  /\ users = [r \in Refreshes |-> 0]
  /\ owner = [r \in Refreshes |-> NoOne]
  /\ queue = [r \in Refreshes |-> <<>>]
  /\ home = [r \in Refreshes |-> NoOne]
  /\ mine = [r \in Refreshes |-> NoOne]
  /\ wait = [r \in Refreshes |-> 0]
  /\ due = [r \in Refreshes |-> 0]
  /\ pc = [r \in Refreshes |-> "idle"]
  /\ op = [t \in Threads |-> NoOp]
  /\ lease = [r \in Refreshes |-> 0]
  /\ lapsed = {}
  /\ trouble = <<>>

-----------------------------------------------------------------------------
(* The local lock: an asyncio.Lock per sign-in, first come first served *)

Free(e) == owner[e] = NoOne

Move(r, where) == pc' = [pc EXCEPT ![r] = where]

\* Mutant: the entry goes with its holder, whoever still waits for it.
LastUserHoldsIt(r) == owner[mine[r]] = r

LastUser(r) == users[mine[r]] = 1

\* _hold's innermost finally, and _hold is over.
Leave(r) ==
  LET e == mine[r]
  IN /\ owner' = [owner EXCEPT ![e] = IF @ = r THEN NoOne ELSE @]
     /\ queue' = [queue EXCEPT ![e] = SelectSeq(@, LAMBDA q : q # r)]
     /\ users' = [users EXCEPT ![e] = @ - 1]
     /\ entry' = IF LastUser(r) THEN [entry EXCEPT ![home[r]] = NoOne] ELSE entry
     /\ Move(r, "over")
     /\ mine' = [mine EXCEPT ![r] = NoOne]
     /\ wait' = [wait EXCEPT ![r] = 0]
     /\ due' = [due EXCEPT ![r] = 0]
     /\ lease' = [lease EXCEPT ![r] = 0]
     /\ lapsed' = lapsed \ {r}
     /\ UNCHANGED home

\* Mutant: only the caller that makes the entry is counted.
CountedOnce(n) == 1

\* entry.users += 1
Counted(n) == n + 1

\* hold (w = Wait) and hold_if_free (w = 0), up to the local lock.
Ask(r, b, w) ==
  /\ pc[r] = "idle"
  /\ b \notin crashed
  /\ LET e == IF entry[b] = NoOne THEN r ELSE entry[b]
     IN /\ entry' = [entry EXCEPT ![b] = e]
        /\ mine' = [mine EXCEPT ![r] = e]
        /\ users' = [users EXCEPT ![e] = Counted(@)]
        /\ queue' = [queue EXCEPT ![e] = Append(@, r)]
  /\ home' = [home EXCEPT ![r] = b]
  /\ wait' = [wait EXCEPT ![r] = w]
  /\ due' = [due EXCEPT ![r] = now + w]
  /\ Move(r, "local")
  /\ UNCHANGED <<now, storeVars, ghosts, crashed, owner, op, leaseVars, trouble>>

\* Mutant: a try is bounded by the whole wait, not by what is left of it.
TryForTheWholeWait(r) == Max({now + wait[r], now + Try})

\* try_seconds: what is left of the wait, or one round trip.
TryUntil(r) == Max({due[r], now + Try})

\* _take: its turn has come; the first try at the distributed lock is sent.
GetLocal(r) ==
  /\ pc[r] = "local"
  /\ Free(mine[r])
  /\ Head(queue[mine[r]]) = r
  /\ owner' = [owner EXCEPT ![mine[r]] = r]
  /\ queue' = [queue EXCEPT ![mine[r]] = Tail(@)]
  /\ Move(r, "trying")
  /\ op' = [op EXCEPT ![<<r, "try">>] =
              [NoOp EXCEPT !.do = "find", !.sent = now, !.due = TryUntil(r)]]
  /\ UNCHANGED <<now, storeVars, ghosts, crashed, entry, users, askVars, leaseVars, trouble>>

\* _take: the wait is over.  A free lock is taken without waiting.
LocalTimeout(r) ==
  /\ pc[r] = "local"
  /\ now >= due[r]
  /\ ~(wait[r] = 0 /\ Free(mine[r]) /\ Head(queue[mine[r]]) = r)
  /\ Leave(r)
  /\ UNCHANGED <<now, storeVars, ghosts, crashed, op, trouble>>

-----------------------------------------------------------------------------
(* What an acquire that was answered does to its thread *)

Set(t, o) == op' = [op EXCEPT ![t] = o]
Sleep(for) == [NoOp EXCEPT !.do = "sleep", !.due = now + for]

\* A renewal ends.  Its hold may be waiting for it.
RenewalEnds(r) ==
  /\ Set(<<r, "renewal">>, NoOp)
  /\ IF pc[r] = "finishing" THEN Move(r, "releasing") ELSE UNCHANGED pc

\* A renewal's try is over: it sleeps again, or ends once its hold has ended.
RenewalGoesOn(r) ==
  IF pc[r] = "holding"
  THEN Set(<<r, "renewal">>, Sleep(Every)) /\ UNCHANGED pc
  ELSE RenewalEnds(r)

\* acquire returned True: the hold begins, with its renewal, or goes on.
Granted(t) ==
  LET r == t[1]
  IN /\ IF pc[r] = "over" THEN UNCHANGED lease
        ELSE lease' = [lease EXCEPT ![r] = op[t].sent + TTL]
     /\ IF t[2] = "try"
        THEN /\ Move(r, "holding")
             /\ op' = [op EXCEPT ![t] = NoOp, ![<<r, "renewal">>] = Sleep(Every)]
        ELSE RenewalGoesOn(r)
     /\ UNCHANGED <<localVars, askVars, lapsed>>

\* Mutant: gives up a poll early.
GiveUpEarly(r) == now + Poll >= due[r]

\* remaining <= 0
GiveUp(r) == now >= due[r]

\* acquire returned False: a try is made again within the wait; a renewal ends.
Refused(t) ==
  LET r == t[1]
  IN \/ /\ t[2] = "try"
        /\ ~GiveUp(r)
        /\ Set(t, Sleep(Min({Poll, due[r] - now})))
        /\ UNCHANGED <<pc, localVars, askVars, leaseVars>>
     \/ /\ t[2] = "try"
        /\ GiveUp(r)
        /\ Set(t, NoOp)
        /\ Leave(r)
     \/ /\ t[2] = "renewal"
        /\ RenewalEnds(r)
        /\ UNCHANGED <<localVars, askVars, leaseVars>>

\* Mutant: a renewal that fails is the last one.
EndsAtAFailure(r) == RenewalEnds(r)

\* A renewal that failed is logged, and the next one may still make it.
AfterAFailure(r) == RenewalGoesOn(r)

\* acquire raised or timed out: a try is given up, a renewal goes on.
Failed(t) ==
  LET r == t[1]
  IN IF t[2] = "try"
     THEN Set(t, NoOp) /\ Leave(r)
     ELSE AfterAFailure(r) /\ UNCHANGED <<localVars, askVars, leaseVars>>

\* The sleep between two tries, or between two renewals, is over.
Wake(t) ==
  /\ op[t].do = "sleep"
  /\ now >= op[t].due
  /\ Set(t, [NoOp EXCEPT !.do = "find", !.sent = now,
                          !.due = IF t[2] = "try" THEN TryUntil(t[1]) ELSE now + Every])
  /\ UNCHANGED <<now, storeVars, ghosts, crashed, localVars, askVars, pc, leaseVars, trouble>>

-----------------------------------------------------------------------------
(* MongoDistributedLock.acquire: two operations of the store, one by one *)

\* Mutant: the stored time is misread, so every lock looks expired.
LooksExpired == holder # NoOne

\* stored_expires < datetime.now(UTC)
Expired == expires < now

\* What the operation `o` of backend b does to the lock's document.
Lands(b, o) ==
  LET takes == \/ o.do = "find" /\ holder = NoOne
               \/ o.do = "update" /\ holder = b
               \/ o.do = "force" /\ holder = o.found
      gives == o.do = "delete" /\ holder = b
  IN /\ holder' = IF takes THEN b ELSE IF gives THEN NoOne ELSE holder
     /\ expires' = IF takes THEN o.sent + TTL ELSE expires
     /\ overtaken' = IF takes /\ o.do = "force" /\ expires # o.saw
                     THEN overtaken \cup {r \in Refreshes : home[r] = holder /\ pc[r] \in PastLocal}
                     ELSE overtaken

\* find_one_and_update with upsert, and what its answer leads to.
FindOrInsert(t) ==
  LET b == home[t[1]]
  IN /\ op[t].do = "find"
     /\ Lands(b, op[t])
     /\ \/ /\ holder \in {NoOne, b}
           /\ Set(t, [op[t] EXCEPT !.do = "update"])
           /\ UNCHANGED <<pc, localVars, askVars, leaseVars>>
        \/ /\ holder \notin {NoOne, b}
           /\ Expired
           /\ Set(t, [op[t] EXCEPT !.do = "force", !.found = holder, !.saw = expires])
           /\ UNCHANGED <<pc, localVars, askVars, leaseVars>>
        \/ /\ holder \notin {NoOne, b}
           /\ ~Expired
           /\ Refused(t)
     /\ UNCHANGED <<now, ghosts, crashed, trouble>>

\* update_one of the expiry: acquire returns True whatever it matched.
Confirm(t) ==
  /\ op[t].do = "update"
  /\ Lands(home[t[1]], op[t])
  /\ Granted(t)
  /\ UNCHANGED <<now, ghosts, crashed, trouble>>

\* find_one_and_update of an expired lock, unless its holder has changed: that
\* the same holder has made it valid again is not looked at.
ForceTake(t) ==
  /\ op[t].do = "force"
  /\ Lands(home[t[1]], op[t])
  /\ IF holder = op[t].found THEN Granted(t) ELSE Refused(t)
  /\ UNCHANGED <<now, ghosts, crashed, trouble>>

\* The TTL index deletes an expired document, whoever looks for it.
Collected ==
  /\ holder # NoOne
  /\ expires <= now
  /\ holder' = NoOne
  /\ UNCHANGED <<now, expires, overtaken, ghosts, crashed, localVars, askVars, pc, op,
                 leaseVars, trouble>>

-----------------------------------------------------------------------------
(* The end of a hold *)

UnderWay(r) == op[<<r, "renewal">>].do \notin {"none", "sleep"}

\* Mutant: the lock is released while a renewal is under way.
NeverAwaited(r) == FALSE

\* asyncio.wait({renewal})
Awaited(r) == UnderWay(r)

\* The refresh is done: a renewal that sleeps ends, one under way is waited for.
WorkDone(r) ==
  /\ pc[r] = "holding"
  /\ Move(r, IF Awaited(r) THEN "finishing" ELSE "releasing")
  /\ Set(<<r, "renewal">>, IF UnderWay(r) THEN op[<<r, "renewal">>] ELSE NoOp)
  /\ UNCHANGED <<now, storeVars, ghosts, crashed, localVars, askVars, leaseVars, trouble>>

\* delete_one of the document, when this backend holds it.
Delete == [NoOp EXCEPT !.do = "delete"]

\* _release_distributed, then the local lock.
Release(r) ==
  /\ pc[r] = "releasing"
  /\ Lands(home[r], Delete)
  /\ Leave(r)
  /\ UNCHANGED <<now, ghosts, crashed, op, trouble>>

-----------------------------------------------------------------------------
(* Trouble *)

OnlyHappened(kinds) == {trouble[i] : i \in DOMAIN trouble} \subseteq kinds

Trouble(kind) ==
  /\ kind \in Troubles
  /\ trouble' = Append(trouble, kind)
  /\ trouble # <<>> => Len(trouble) < MaxTrouble /\ OnlyHappened(Together)'

KindOf(t, how) ==
  CASE t[2] = "try" /\ how = "fails" -> "tryFails"
    [] t[2] = "try" /\ how = "hangs" -> "tryHangs"
    [] t[2] = "renewal" /\ how = "fails" -> "renewalFails"
    [] t[2] = "renewal" /\ how = "hangs" -> "renewalHangs"

\* An operation that raises may have reached the store all the same.
OpFails(t) ==
  /\ op[t].do \in InStore
  /\ Trouble(KindOf(t, "fails"))
  /\ Lands(home[t[1]], op[t]) \/ UNCHANGED storeVars
  /\ Failed(t)
  /\ UNCHANGED <<now, ghosts, crashed>>

Ghost(b, o) == [by |-> b, do |-> o.do, found |-> o.found, saw |-> o.saw, sent |-> o.sent]
GhostOf(t) == Ghost(home[t[1]], op[t])

\* No answer comes until the timer fires, and the operation is under way.
Hangs(t) ==
  /\ op[t].do \in InStore
  /\ Trouble(KindOf(t, "hangs"))
  /\ ghosts' = ghosts \cup {GhostOf(t)}
  /\ Set(t, [op[t] EXCEPT !.do = "hung"])
  /\ UNCHANGED <<now, storeVars, crashed, localVars, askVars, pc, leaseVars>>

HungTimeout(t) ==
  /\ op[t].do = "hung"
  /\ now >= op[t].due
  /\ Failed(t)
  /\ UNCHANGED <<now, storeVars, ghosts, crashed, trouble>>

\* An operation nobody waits for any more reaches the store.
LandsLate(g) ==
  /\ g \in ghosts
  /\ Lands(g.by, g)
  /\ ghosts' = ghosts \ {g}
  /\ UNCHANGED <<now, crashed, localVars, askVars, pc, op, leaseVars, trouble>>

ReleaseFails(r) ==
  /\ pc[r] = "releasing"
  /\ Trouble("releaseFails")
  /\ Lands(home[r], Delete) \/ UNCHANGED storeVars
  /\ Leave(r)
  /\ UNCHANGED <<now, ghosts, crashed, op>>

\* The caller is cancelled: while it waits, or in _hold's finally, where the
\* renewal ends by itself and the lock's lifetime has to free it.
Cancel(r) ==
  /\ pc[r] \in {"local", "trying", "finishing", "releasing"}
  /\ Trouble("cancel")
  /\ LET sent == {o \in {op[<<r, "try">>]} : o.do \in InStore}
                   \cup {o \in {Delete} : pc[r] = "releasing"}
     IN ghosts' = ghosts \cup {Ghost(home[r], o) : o \in sent}
  /\ Set(<<r, "try">>, NoOp)
  /\ Leave(r)
  /\ UNCHANGED <<now, storeVars, crashed>>

\* The process dies: what it sent is under way.
Crash(b) ==
  LET dead == {r \in Refreshes : home[r] = b}
      sent == {t \in dead \X {"try", "renewal"} : op[t].do \in InStore}
  IN /\ b \notin crashed
     /\ Trouble("crash")
     /\ crashed' = crashed \cup {b}
     /\ ghosts' = ghosts \cup {GhostOf(t) : t \in sent}
     /\ pc' = [r \in Refreshes |-> IF r \in dead THEN "over" ELSE pc[r]]
     /\ op' = [t \in Threads |-> IF t[1] \in dead THEN NoOp ELSE op[t]]
     /\ entry' = [entry EXCEPT ![b] = NoOne]
     /\ users' = [r \in Refreshes |-> IF r \in dead THEN 0 ELSE users[r]]
     /\ owner' = [r \in Refreshes |-> IF r \in dead THEN NoOne ELSE owner[r]]
     /\ queue' = [r \in Refreshes |-> IF r \in dead THEN <<>> ELSE queue[r]]
     /\ mine' = [r \in Refreshes |-> IF r \in dead THEN NoOne ELSE mine[r]]
     /\ wait' = [r \in Refreshes |-> IF r \in dead THEN 0 ELSE wait[r]]
     /\ due' = [r \in Refreshes |-> IF r \in dead THEN 0 ELSE due[r]]
     /\ lease' = [r \in Refreshes |-> IF r \in dead THEN 0 ELSE lease[r]]
     /\ lapsed' = lapsed \ dead
     /\ UNCHANGED <<now, storeVars, home>>

-----------------------------------------------------------------------------
(* Time *)

\* A refresh or a thread has something to do at this tick already.
Due(r) ==
  \/ pc[r] = "local" /\ (now >= due[r] \/ Free(mine[r]))
  \/ pc[r] = "releasing"
ThreadDue(t) ==
  \/ op[t].do \in {"sleep", "hung"} /\ now >= op[t].due
  \/ op[t].do \in InStore /\ now >= op[t].sent + Latency

\* At MaxTime the clock stands: it is the end of what is looked at.
Tick ==
  /\ \A r \in Refreshes : ~Due(r)
  /\ \A t \in Threads : ~ThreadDue(t)
  /\ now' = Min({now + 1, MaxTime})
  /\ lapsed' = lapsed \cup {r \in Refreshes : pc[r] = "holding" /\ lease[r] <= now'}
  /\ UNCHANGED <<storeVars, ghosts, crashed, localVars, askVars, pc, op, lease, trouble>>

Steps(t) ==
  \/ FindOrInsert(t) \/ Confirm(t) \/ ForceTake(t)
  \/ Wake(t) \/ OpFails(t) \/ Hangs(t) \/ HungTimeout(t)

Next ==
  \/ \E r \in Refreshes, b \in Backends, w \in {0, Wait} : Ask(r, b, w)
  \/ \E r \in Refreshes : GetLocal(r) \/ LocalTimeout(r) \/ WorkDone(r)
                          \/ Release(r) \/ ReleaseFails(r) \/ Cancel(r)
  \/ \E t \in Threads : Steps(t)
  \/ \E g \in ghosts : LandsLate(g)
  \/ \E b \in Backends : Crash(b)
  \/ Collected
  \/ Tick

Spec == Init /\ [][Next]_vars

-----------------------------------------------------------------------------
(* What the lock promises *)

Holds(r) == pc[r] = "holding"

\* Of the refreshes of one live backend only one at a time is past the local
\* lock, whoever times out, is cancelled or leaves while others wait: the
\* distributed lock, held per backend, could not tell them apart.
OneHolderPerBackend ==
  \A r, q \in Refreshes :
    (pc[r] \in PastLocal /\ pc[q] \in PastLocal /\ home[r] = home[q]) => r = q

\* Two refreshes of the sign-in run at once only after the lease of one of them
\* ran out under it, as distributed_lock.py's first line promises, through
\* renewals that fail and backends that die.  Two limits of acquire are left
\* out.  It forces a document it found expired although its backend has taken
\* or renewed it since (`overtaken').  And after any other trouble a document
\* can be left that its backend takes for a lock of its own: acquire then
\* sends an update without looking at what it matches.
ExclusiveWhileLeased ==
  OnlyHappened({"renewalFails", "crash"}) =>
    \A r, q \in Refreshes :
      (Holds(r) /\ Holds(q) /\ r # q) => {r, q} \cap (lapsed \cup overtaken) # {}

\* A refresh keeps the lock as long as it runs, through a renewal that failed
\* and others' crashes.
KeptThroughAFailedRenewal ==
  OnlyHappened({"renewalFails", "crash"}) /\ Len(trouble) <= 1 =>
    \A r \in Refreshes : Holds(r) => holder = home[r] /\ expires >= now

\* Whatever the store does, a caller is answered within its wait and one try.
WaitIsBounded ==
  \A r \in Refreshes : pc[r] \in {"local", "trying"} => now <= due[r] + Try

\* Once every refresh is over the lock is free at once, not when its lifetime
\* ends: no renewal comes after the release and takes the lock back.
ReleasedMeansFree ==
  (OnlyHappened({"renewalFails"}) /\ \A r \in Refreshes : pc[r] \in {"idle", "over"}) => holder = NoOne

\* What the lock promises a caller besides: one at a time within a backend, an
\* answer in time, a lease that lasts, and nothing left behind.
LockKeepsItsWord ==
  OneHolderPerBackend /\ WaitIsBounded /\ KeptThroughAFailedRenewal /\ ReleasedMeansFree

\* A reconnect that finds the lock of a backend that died waits it out: it gives
\* up only when its wait does not reach the end of that lock's lifetime.
OrphanIsWaitedOut ==
  [][\A r \in Refreshes :
       /\ pc[r] = "trying" /\ pc'[r] = "over"
       /\ wait[r] = Wait /\ home[r] \notin crashed'
       /\ holder \in crashed
       => due[r] <= expires]_vars
=============================================================================
