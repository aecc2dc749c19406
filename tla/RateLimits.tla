----------------------------- MODULE RateLimits -----------------------------
(***************************************************************************)
(* The limits on an organization's tool calls: a log of the calls admitted *)
(* in the last window for each caller, and for the organization as a       *)
(* whole.                                                                  *)
(*                                                                         *)
(* Translated from domain/services/rate_limit_service.py and the two       *)
(* limiters, adapters/rate_limiter_inprocess.py and rate_limiter_redis.py, *)
(* which answer alike.  The plan, and so the limits, stays.  A module that *)
(* extends this one says when a call is charged.                           *)
(***************************************************************************)
EXTENDS Integers, FiniteSets

CONSTANTS
  Callers, Calls,         \* who calls, and what is charged at most once
  CallerLimit, OrgLimit,  \* calls a window
  Window,                 \* in ticks of the clock
  MaxTime                 \* bound on the clock

ASSUME RateLimitsAssumption ==
  /\ {CallerLimit, OrgLimit, Window} \subseteq Nat \ {0} /\ MaxTime \in Nat

VARIABLES
  now,     \* the clock
  hits     \* of each caller: the calls that are logged, with their time

limitVars == <<now, hits>>

Never == -1
Times == 0..MaxTime

LimitsTypeOK ==
  now \in Times /\ hits \in [Callers -> SUBSET (Times \X Calls)]

LimitsInit == now = 0 /\ hits = [c \in Callers |-> {}]

Tick == now < MaxTime /\ now' = now + 1 /\ UNCHANGED hits

\* What a check keeps of a log.
Kept(log) == {h \in log : h[1] > now - Window}

\* The organization's log holds every caller's hits.
OrgLog(c) == UNION {hits[d] : d \in Callers}

\* How long until a full bucket has room again.
Wait(log, limit) ==
  LET times == {h[1] : h \in Kept(log)} IN
  IF Cardinality(Kept(log)) < limit THEN 0
  ELSE (CHOOSE t \in times : \A u \in times : t <= u) + Window - now

Longer(a, b) == IF a < b THEN b ELSE a

\* Mutant: the caller's own bucket is not asked.
OrgWait(c) == Wait(OrgLog(c), OrgLimit)

\* admit_tool_call: a call is charged to both buckets, or refused by the
\* one with the longer wait and charged to none.
WaitFor(c) == Longer(Wait(hits[c], CallerLimit), Wait(OrgLog(c), OrgLimit))

Admit(c, call) ==
  /\ WaitFor(c) = 0
  /\ hits' = [d \in Callers |-> Kept(hits[d]) \cup (IF d = c THEN {<<now, call>>} ELSE {})]
  /\ UNCHANGED now

Refuse(c) == WaitFor(c) > 0 /\ UNCHANGED <<now, hits>>

\* A limiter that fails or does not answer in time lets the call through,
\* whether or not it has charged it.
FailOpen(c, call) ==
  /\ hits' \in {hits, IF WaitFor(c) > 0 THEN hits
                      ELSE [hits EXCEPT ![c] = Kept(@) \cup {<<now, call>>}]}
  /\ UNCHANGED now

-----------------------------------------------------------------------------
(* Properties                                                              *)

\* No more calls than the limits allow are logged of any window: a caller's,
\* and all callers' together, though some are let through uncounted.
WithinLimit ==
  LET InWindow(log, t) == {h \in log : t - Window < h[1] /\ h[1] <= t} IN
  \A t \in Times :
    /\ \A c \in Callers : Cardinality(InWindow(hits[c], t)) <= CallerLimit
    /\ Cardinality(InWindow(UNION {hits[c] : c \in Callers}, t)) <= OrgLimit
=============================================================================
