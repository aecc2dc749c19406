------------------------ MODULE SessionSingleFlight ------------------------
(***************************************************************************)
(* One connect at a time per session slot.                                 *)
(*                                                                         *)
(* Translated from adapters/upstream_clients/session_single_flight.py and  *)
(* from the flight bodies, the teardowns and the entry points of           *)
(* adapters/upstream_clients/client_manager.py that run through it.        *)
(*                                                                         *)
(* A call (one invocation of ensure, renew or replace) starts at most one  *)
(* flight, and a flight builds at most one session: the flight and the     *)
(* session are both named by the call that started the flight.             *)
(*                                                                         *)
(* The slots are those of one upstream: its shared session and one session *)
(* per user.  The program is a single asyncio thread, so an action is what *)
(* one task does between two awaits.                                       *)
(***************************************************************************)
EXTENDS Naturals, FiniteSets, SequencesExt

CONSTANTS SharedSlots,  \* the upstream's shared slot (ensure and renew)
          UserSlots,    \* one slot per user (ensure and replace)
          Calls,        \* the calls that may be made, each at most once
          NoOne,        \* no flight, no session, no slot
          MaxAborts     \* bound on the teardowns of one slot

Slots == SharedSlots \cup UserSlots

ASSUME SlotsAssumption == SharedSlots \cap UserSlots = {}
ASSUME NoOneAssumption == NoOne \notin Calls \cup Slots
ASSUME CallsAssumption == IsFiniteSet(Calls)
ASSUME MaxAbortsAssumption == MaxAborts \in Nat

VARIABLES
  flights,       \* _flights: the flight registered for a slot
  replacements,  \* _replacements: queued or running replacements, oldest first
  aborts,        \* _aborts: teardowns of the slot so far
  shutDown,      \* _shut_down
  stopped,       \* is_stopped: an admin stopped the upstream
  session,       \* _user_sessions / shared_session: the session recorded
  alive,         \* sessions whose transport is alive
  task,          \* the phase of a flight's asyncio.Task
  waiters,       \* _Flight.waiters
  abandoned,     \* flights whose _Flight.abandoned is set: they were cancelled
  began,         \* aborts_at_start: the abort count a body read as it began
  kind,          \* which of the three ways a call asks
  slot,          \* the slot a call asks for
  stale,         \* the session a renew saw fail
  seen,          \* aborts_seen of a replacement; for the others the abort
                 \* count when they started a flight (read by no action)
  pc,            \* where a call is
  on,            \* the replacements or the flight a call waits for
  answer         \* the session a call returned

vars == <<flights, replacements, aborts, shutDown, stopped, session, alive,
          task, waiters, abandoned, began, kind, slot, stale, seen, pc, on,
          answer>>

Running == {"created", "preparing", "opening", "persisting"}
Finished == {"ok", "failed", "aborted", "cancelled"}
Phases == {"none"} \cup Running \cup Finished

Waiting == {"waitTurn", "queued", "windDown", "joined"}
Over == {"returned", "failed", "aborted", "cancelled"}

TypeOK ==
  /\ flights \in [Slots -> Calls \cup {NoOne}]
  /\ replacements \in [Slots -> Seq(Calls)]
  /\ aborts \in [Slots -> 0..MaxAborts]
  /\ shutDown \in BOOLEAN
  /\ stopped \in BOOLEAN
  /\ session \in [Slots -> Calls \cup {NoOne}]
  /\ alive \subseteq Calls
  /\ task \in [Calls -> Phases]
  /\ waiters \in [Calls -> Nat]
  /\ abandoned \subseteq Calls
  /\ began \in [Calls -> 0..MaxAborts]
  /\ kind \in [Calls -> {"none", "ensure", "renew", "replace"}]
  /\ slot \in [Calls -> Slots \cup {NoOne}]
  /\ stale \in [Calls -> Calls \cup {NoOne}]
  /\ seen \in [Calls -> 0..MaxAborts]
  /\ pc \in [Calls -> {"idle"} \cup Waiting \cup Over]
  /\ on \in [Calls -> SUBSET Calls]
  /\ answer \in [Calls -> Calls \cup {NoOne}]

Init ==
  /\ flights = [s \in Slots |-> NoOne]
  /\ replacements = [s \in Slots |-> <<>>]
  /\ aborts = [s \in Slots |-> 0]
  /\ shutDown = FALSE
  /\ stopped = FALSE
  /\ session = [s \in Slots |-> NoOne]
  /\ alive = {}
  /\ task = [c \in Calls |-> "none"]
  /\ waiters = [c \in Calls |-> 0]
  /\ abandoned = {}
  /\ began = [c \in Calls |-> 0]
  /\ kind = [c \in Calls |-> "none"]
  /\ slot = [c \in Calls |-> NoOne]
  /\ stale = [c \in Calls |-> NoOne]
  /\ seen = [c \in Calls |-> 0]
  /\ pc = [c \in Calls |-> "idle"]
  /\ on = [c \in Calls |-> {}]
  /\ answer = [c \in Calls |-> NoOne]

-----------------------------------------------------------------------------
(* The slot as a call reads it *)

Done(f) == task[f] \in Finished

\* _current: a finished flight whose done-callback has not run is no flight.
Current(s) ==
  IF flights[s] # NoOne /\ Done(flights[s]) THEN NoOne ELSE flights[s]

\* _live_shared_session, find_user_session: a session recorded on a dead
\* transport counts as absent, and so does a user's on a stopped upstream.
Live(s) ==
  IF session[s] \in alive /\ ~(stopped /\ s \in UserSlots)
  THEN session[s] ELSE NoOne

\* Mutant: a heal takes whatever session is live.
ReusableThoughStale(k, s, x) == Live(s) # NoOne

Reusable(k, s, x) ==
  /\ Live(s) # NoOne
  /\ k = "renew" => x # Live(s)

\* _wait_out_replacements: a replacement is queued or running.
ReplacementAhead(s) == replacements[s] # <<>>

\* Mutant: a replacement waits only for the oldest one before it.
EarlierOldest(s) == {Head(replacements[s])}

\* earlier: the replacements a new one waits for.
Earlier(s) == ToSet(replacements[s])

\* list.remove: the queue of a slot without the replacement c.
Without(q, c) ==
  IF \E i \in 1..Len(q) : q[i] = c
  THEN RemoveAt(q, CHOOSE i \in 1..Len(q) : q[i] = c)
  ELSE q

-----------------------------------------------------------------------------
(* Steps shared by the three ways to ask *)

Park(c, where, what) ==
  /\ pc' = [pc EXCEPT ![c] = where]
  /\ on' = [on EXCEPT ![c] = what]

\* _join
Join(c, f) ==
  /\ Park(c, "joined", {f})
  /\ waiters' = [waiters EXCEPT ![f] = @ + 1]

\* _join's finally
Leave(f) == waiters' = [waiters EXCEPT ![f] = @ - 1]

\* Mutant: whoever gives up takes the flight with it.
AnyoneAbandons(f) == ~Done(f)

\* _join's finally, for a waiter that gave up.
LastAbandons(f) == waiters[f] = 1 /\ ~Done(f)

\* _start, then _join of the new flight.
StartAndJoin(c, s) ==
  /\ flights' = [flights EXCEPT ![s] = c]
  /\ task' = [task EXCEPT ![c] = "created"]
  /\ Join(c, c)

\* The loop body of ensure and renew, up to its first await or its return.
Decide(c, k, s, x) ==
  /\ \/ /\ ReplacementAhead(s)
        /\ Park(c, "waitTurn", {Last(replacements[s])})
        /\ UNCHANGED <<flights, task, waiters, seen, answer>>
     \/ /\ ~ReplacementAhead(s)
        /\ Current(s) = NoOne
        /\ Reusable(k, s, x)
        /\ Park(c, "returned", {})
        /\ answer' = [answer EXCEPT ![c] = Live(s)]
        /\ flights' = [flights EXCEPT ![s] = NoOne]
        /\ UNCHANGED <<task, waiters, seen>>
     \/ /\ ~ReplacementAhead(s)
        /\ Current(s) = NoOne
        /\ ~Reusable(k, s, x)
        /\ ~shutDown
        /\ StartAndJoin(c, s)
        /\ seen' = [seen EXCEPT ![c] = aborts[s]]
        /\ UNCHANGED answer
     \/ /\ ~ReplacementAhead(s)
        /\ Current(s) = NoOne
        /\ ~Reusable(k, s, x)
        /\ shutDown
        /\ Park(c, "aborted", {})
        /\ flights' = [flights EXCEPT ![s] = NoOne]
        /\ UNCHANGED <<task, waiters, seen, answer>>
     \/ /\ ~ReplacementAhead(s)
        /\ Current(s) # NoOne
        /\ flights[s] \in abandoned
        /\ Park(c, "windDown", {flights[s]})
        /\ UNCHANGED <<flights, task, waiters, seen, answer>>
     \/ /\ ~ReplacementAhead(s)
        /\ Current(s) # NoOne
        /\ flights[s] \notin abandoned
        /\ Join(c, flights[s])
        /\ UNCHANGED <<flights, task, seen, answer>>
  /\ UNCHANGED replacements

\* replace, once every earlier replacement is over: wait out the flight in
\* progress, then give up on an abort or start.  q is the queue with c in it.
WaitOutOrStart(c, s, aborts_seen, q) ==
  \/ /\ Current(s) # NoOne
     /\ Park(c, "windDown", {flights[s]})
     /\ replacements' = [replacements EXCEPT ![s] = q]
     /\ UNCHANGED <<flights, task, waiters>>
  \/ /\ Current(s) = NoOne
     /\ aborts[s] # aborts_seen \/ shutDown
     /\ Park(c, "aborted", {})
     /\ flights' = [flights EXCEPT ![s] = NoOne]
     /\ replacements' = [replacements EXCEPT ![s] = Without(q, c)]
     /\ UNCHANGED <<task, waiters>>
  \/ /\ Current(s) = NoOne
     /\ aborts[s] = aborts_seen
     /\ ~shutDown
     /\ StartAndJoin(c, s)
     /\ replacements' = [replacements EXCEPT ![s] = q]

modeVars == <<aborts, shutDown, stopped>>
slotVars == <<session, alive>>
askVars == <<kind, slot, stale>>
bodyVars == <<abandoned, began>>

-----------------------------------------------------------------------------
(* A call: ensure, renew, replace *)

Ask(c, k, s, x) ==
  /\ pc[c] = "idle"
  /\ kind' = [kind EXCEPT ![c] = k]
  /\ slot' = [slot EXCEPT ![c] = s]
  /\ stale' = [stale EXCEPT ![c] = x]

\* ensure: connect_shared, ensure_shared_connected, ensure_user_session
Ensure(c, s) ==
  /\ Ask(c, "ensure", s, NoOne)
  /\ Decide(c, "ensure", s, NoOne)
  /\ UNCHANGED <<modeVars, slotVars, bodyVars>>

\* The sessions of a slot a caller may hold and have seen fail: those that
\* calls returned (acquire_upstream_session).
Held(s) == {answer[c] : c \in {d \in Calls : pc[d] = "returned" /\ slot[d] = s}}

\* renew: reconnect_shared_fresh, told by heal_stalled_session what failed
Renew(c, s, x) ==
  /\ s \in SharedSlots
  /\ x \in Held(s)
  /\ Ask(c, "renew", s, x)
  /\ Decide(c, "renew", s, x)
  /\ UNCHANGED <<modeVars, slotVars, bodyVars>>

\* replace: replace_user_session, after a fresh sign-in
Replace(c, s) ==
  /\ s \in UserSlots
  /\ Ask(c, "replace", s, NoOne)
  /\ seen' = [seen EXCEPT ![c] = aborts[s]]
  /\ IF replacements[s] # <<>>
     THEN /\ Park(c, "queued", Earlier(s))
          /\ replacements' = [replacements EXCEPT ![s] = Append(@, c)]
          /\ UNCHANGED <<flights, task, waiters>>
     ELSE WaitOutOrStart(c, s, aborts[s], <<c>>)
  /\ UNCHANGED <<modeVars, slotVars, bodyVars, answer>>

\* What a call waits for is over.
Woken(c) ==
  \/ /\ pc[c] \in {"waitTurn", "queued"}
     /\ on[c] \cap ToSet(replacements[slot[c]]) = {}
  \/ /\ pc[c] \in {"windDown", "joined"}
     /\ \A f \in on[c] : Done(f)

\* ensure and renew go round their loop again.
Again(c) ==
  /\ pc[c] \in {"waitTurn", "windDown"}
  /\ kind[c] # "replace"
  /\ Woken(c)
  /\ Decide(c, kind[c], slot[c], stale[c])
  /\ UNCHANGED <<modeVars, slotVars, askVars, bodyVars>>

\* replace goes on with its wait.
GoOn(c) ==
  /\ pc[c] \in {"queued", "windDown"}
  /\ kind[c] = "replace"
  /\ Woken(c)
  /\ WaitOutOrStart(c, slot[c], seen[c], replacements[slot[c]])
  /\ UNCHANGED <<modeVars, slotVars, askVars, bodyVars, seen, answer>>

\* Mutant: a replacement that is over stays in the queue.
StayInQueue(c) == UNCHANGED replacements

\* replace's finally: its future resolves and leaves the queue.
LeaveQueue(c) ==
  replacements' = IF kind[c] = "replace"
                  THEN [replacements EXCEPT ![slot[c]] = Without(@, c)]
                  ELSE replacements

\* A lazy attach or a heal that failed records the failure, which drops a
\* session whose transport is dead; a Start records none.
RecordReopenFailure(c, how) ==
  \/ /\ how = "failed"
     /\ slot[c] \in SharedSlots
     /\ Live(slot[c]) = NoOne
     /\ session' = [session EXCEPT ![slot[c]] = NoOne]
  \/ /\ how # "failed" \/ kind[c] # "renew"
     /\ UNCHANGED session
  \/ /\ Live(slot[c]) # NoOne
     /\ UNCHANGED session

\* A joined flight is done: its session, its error, or ConnectAborted when
\* it was cancelled or refused.
Return(c) ==
  /\ pc[c] = "joined"
  /\ Woken(c)
  /\ \E f \in on[c] :
       LET how == CASE task[f] = "ok" -> "returned"
                    [] task[f] = "failed" -> "failed"
                    [] OTHER -> "aborted"
       IN /\ Park(c, how, {})
          /\ answer' = IF how = "returned" THEN [answer EXCEPT ![c] = f]
                                           ELSE answer
          /\ Leave(f)
          /\ RecordReopenFailure(c, how)
  /\ LeaveQueue(c)
  /\ UNCHANGED <<modeVars, alive, askVars, bodyVars, flights, task, seen>>

\* The caller's own cancellation is delivered.  The last waiter of a running
\* flight takes the flight with it.
Cancel(c) ==
  /\ pc[c] \in Waiting
  /\ Park(c, "cancelled", {})
  /\ IF pc[c] = "joined"
     THEN \E f \in on[c] :
            /\ Leave(f)
            /\ abandoned' = IF LastAbandons(f) THEN abandoned \cup {f} ELSE abandoned
     ELSE UNCHANGED <<waiters, abandoned>>
  /\ LeaveQueue(c)
  /\ UNCHANGED <<modeVars, slotVars, askVars, began, flights, task, seen, answer>>

callVars == <<askVars, seen, pc, on, answer>>

-----------------------------------------------------------------------------
(* A flight: the body of ensure_user_session, replace_user_session or      *)
(* _open_shared.  It waits on nothing it does not own.                     *)

\* The recorded session, if any, leaves the slot and its transport closes.
DropSessions(S) ==
  /\ session' = [s \in Slots |-> IF s \in S THEN NoOne ELSE session[s]]
  /\ alive' = alive \ {session[s] : s \in S}

Move(f, phase) == task' = [task EXCEPT ![f] = phase]

\* Mutant: a connect opens a stopped upstream.
NeverRefused == FALSE

\* _refuse_if_stopped
RefusedAsStopped == stopped

\* A task cancelled before its first step never runs its body.
NeverBegins(f) ==
  /\ task[f] = "created"
  /\ f \in abandoned
  /\ Move(f, "cancelled")
  /\ UNCHANGED <<modeVars, slotVars, callVars, bodyVars, flights, replacements, waiters>>

\* First step: refused on a stopped upstream, else read the abort count.  A
\* reconnect from stored tokens refreshes them before it closes the session.
Begin(f) ==
  /\ task[f] = "created"
  /\ f \notin abandoned
  /\ \/ /\ RefusedAsStopped
        /\ Move(f, "aborted")
        /\ UNCHANGED <<slotVars, began>>
     \/ /\ ~RefusedAsStopped
        /\ began' = [began EXCEPT ![f] = aborts[slot[f]]]
        /\ \/ /\ slot[f] \in UserSlots
              /\ kind[f] = "ensure"
              /\ Move(f, "preparing")
              /\ UNCHANGED slotVars
           \/ /\ Move(f, "opening")
              /\ DropSessions({slot[f]})
  /\ UNCHANGED <<modeVars, callVars, abandoned, flights, replacements, waiters>>

\* Mutant: connects beside the session that is there.
OpenBeside(f) ==
  /\ task[f] = "preparing"
  /\ Move(f, "opening")
  /\ UNCHANGED <<modeVars, callVars, bodyVars, slotVars, flights, replacements, waiters>>

\* The tokens are refreshed: close what is there and connect.
CloseAndOpen(f) ==
  /\ task[f] = "preparing"
  /\ Move(f, "opening")
  /\ DropSessions({slot[f]})
  /\ UNCHANGED <<modeVars, callVars, bodyVars, flights, replacements, waiters>>

\* Mutant: the abort count is not asked again.
NotAborted(f) == FALSE

\* aborted_since, asked with the count the body read as it began.
AbortedSince(f) == aborts[slot[f]] # began[f]

\* The connect succeeds: recorded, unless the slot was aborted since the body
\* began (its cancel may have been swallowed on the way).
Land(f) ==
  /\ task[f] = "opening"
  /\ IF AbortedSince(f)
     THEN /\ Move(f, "aborted")
          /\ UNCHANGED slotVars
     ELSE /\ Move(f, IF slot[f] \in SharedSlots THEN "persisting" ELSE "ok")
          /\ session' = [session EXCEPT ![slot[f]] = f]
          /\ alive' = alive \cup {f}
  /\ UNCHANGED <<modeVars, callVars, bodyVars, flights, replacements, waiters>>

\* A shared connect saves its config hash and metadata after it went LIVE;
\* a storage failure there is swallowed.
Persisted(f) ==
  /\ task[f] = "persisting"
  /\ Move(f, "ok")
  /\ UNCHANGED <<modeVars, slotVars, callVars, bodyVars, flights, replacements, waiters>>

\* The refresh or the connect raises.
Fail(f) ==
  /\ task[f] \in {"preparing", "opening"}
  /\ Move(f, "failed")
  /\ UNCHANGED <<modeVars, slotVars, callVars, bodyVars, flights, replacements, waiters>>

\* The cancel reaches the body at one of its awaits (or is swallowed there,
\* and the body goes on by the actions above).
Unwind(f) ==
  /\ task[f] \in {"preparing", "opening", "persisting"}
  /\ f \in abandoned
  /\ Move(f, "cancelled")
  /\ UNCHANGED <<modeVars, slotVars, callVars, bodyVars, flights, replacements, waiters>>

\* _forget: the done-callback, which may run after _current saw the task done.
Forget(f) ==
  /\ Done(f)
  /\ \E s \in Slots :
       /\ flights[s] = f
       /\ flights' = [flights EXCEPT ![s] = NoOne]
  /\ UNCHANGED <<modeVars, slotVars, callVars, bodyVars, replacements, task, waiters>>

-----------------------------------------------------------------------------
(* What happens to a session and the teardowns *)

\* The transport dies under the session recorded.
Dies(s) ==
  /\ session[s] \in alive
  /\ alive' = alive \ {session[s]}
  /\ UNCHANGED <<modeVars, callVars, bodyVars, session, flights, replacements, task, waiters>>

\* evict_user_session_if_current: by a caller that saw it fail or idle.
Evict(s) ==
  /\ s \in UserSlots
  /\ session[s] # NoOne
  /\ DropSessions({s})
  /\ UNCHANGED <<modeVars, callVars, bodyVars, flights, replacements, task, waiters>>

\* abort of each slot of A, and the sessions of D dropped in the same step.
TearDown(A, D) ==
  /\ \A s \in A : aborts[s] < MaxAborts
  /\ aborts' = [s \in Slots |-> IF s \in A THEN aborts[s] + 1 ELSE aborts[s]]
  /\ flights' = [s \in Slots |-> IF s \in A THEN Current(s) ELSE flights[s]]
  /\ abandoned' = abandoned \cup ({Current(s) : s \in A} \ {NoOne})
  /\ DropSessions(D)
  /\ UNCHANGED <<callVars, began, replacements, task, waiters>>

\* abort_matching's slots: those with a flight or a replacement.
Busy(S) == {s \in S : flights[s] # NoOne \/ replacements[s] # <<>>}

\* disconnect_user_session
Disconnect(s) ==
  /\ s \in UserSlots
  /\ TearDown({s}, {s})
  /\ UNCHANGED <<shutDown, stopped>>

\* disconnect_all_user_sessions: the user left the org
LeaveOrg(s) ==
  /\ s \in UserSlots
  /\ TearDown(Busy({s}), {s})
  /\ UNCHANGED <<shutDown, stopped>>

\* transition_to_disabled: an admin's Stop of the upstream
Stop ==
  /\ ~shutDown
  /\ stopped' = TRUE
  /\ TearDown(SharedSlots \cup Busy(UserSlots), Slots)
  /\ UNCHANGED shutDown

\* An admin's Start lifts the stop: transition_out_of_disabled or, before a
\* connect, transition_to_connecting.
Start ==
  /\ stopped
  /\ stopped' = FALSE
  /\ UNCHANGED <<aborts, shutDown, slotVars, callVars, bodyVars, flights,
                 replacements, task, waiters>>

\* stop_all: shut_down of both single-flights, every session detached, the
\* state records cleared.
StopAll ==
  /\ ~shutDown
  /\ shutDown' = TRUE
  /\ stopped' = FALSE
  /\ TearDown(Busy(Slots), Slots)

-----------------------------------------------------------------------------

Invoke(c) ==
  \E s \in Slots :
    \/ Ensure(c, s)
    \/ \E x \in Calls : Renew(c, s, x)
    \/ Replace(c, s)

CallStep(c) == Again(c) \/ GoOn(c) \/ Return(c)

FlightStep(f) ==
  \/ NeverBegins(f)
  \/ Begin(f)
  \/ CloseAndOpen(f)
  \/ Land(f)
  \/ Persisted(f)
  \/ Fail(f)
  \/ Unwind(f)

Environment ==
  \/ \E c \in Calls : Cancel(c)
  \/ \E s \in Slots : Dies(s) \/ Evict(s) \/ Disconnect(s) \/ LeaveOrg(s)
  \/ Stop
  \/ Start
  \/ StopAll

Next ==
  \/ \E c \in Calls : Invoke(c) \/ CallStep(c) \/ FlightStep(c) \/ Forget(c)
  \/ Environment

Spec == Init /\ [][Next]_vars

\* The event loop runs every ready task, and every await of a connect ends:
\* each network step has its own timeout.
Fairness ==
  \A c \in Calls : WF_vars(CallStep(c)) /\ WF_vars(FlightStep(c))

FairSpec == Spec /\ Fairness
-----------------------------------------------------------------------------
(* Properties *)

\* Every flight still running is the one registered for its slot, so two
\* connects never overlap on one slot (_start, _current, _forget).
OneConnectPerSlot ==
  \A f \in Calls : task[f] \in Running => flights[slot[f]] = f

\* A flight's waiters counter is the number of calls waiting on it, through
\* joins, cancellations and returns in any order (_join).
WaitersCounted ==
  \A f \in Calls :
    waiters[f] = Cardinality({c \in Calls : pc[c] = "joined" /\ f \in on[c]})

\* A call that stops waiting never takes the flight from under another one:
\* a running flight is cancelled with waiters on it only by a teardown (_join,
\* abort).
CancelledOnlyWhenUnwanted ==
  \A f \in Calls :
    task[f] \in Running /\ f \in abandoned /\ waiters[f] > 0
      => aborts[slot[f]] # seen[f]

\* The session recorded in a slot was asked for or started after the slot's
\* last teardown, whatever swallowed a cancel and however long a fresh sign-in
\* queued (aborted_since, the aborts_seen of replace).
SessionNewerThanTeardown ==
  \A s \in Slots : session[s] # NoOne => seen[session[s]] = aborts[s]

\* A stopped upstream has no session in any slot, and neither has a manager
\* that was shut down (_refuse_if_stopped, transition_to_disabled, stop_all).
StoppedHasNoSession ==
  stopped \/ shutDown => \A s \in Slots : session[s] = NoOne

\* Nobody but the sign-in that asked for it waits on a replacement's flight,
\* whose failure is handled by that sign-in (_wait_out_replacements).
ReplacementNotShared ==
  \A c, f \in Calls :
    pc[c] = "joined" /\ f \in on[c] /\ kind[f] = "replace" => c = f

\* A heal is never answered with the session it reported as failed (renew).
RenewedIsNotStale ==
  \A c \in Calls :
    kind[c] = "renew" /\ pc[c] = "returned" => answer[c] # stale[c]

\* A connect closes a session whose transport is alive only for a fresh
\* sign-in or for a heal that named that session: a tool call's connect never
\* closes the session just built for another call.
ClosesOnlyWhatItReplaces ==
  [][\A s \in Slots, f \in Calls :
       /\ task'[f] # task[f]
       /\ slot[f] = s
       /\ session[s] \in alive
       /\ session'[s] # session[s]
       => \/ kind[f] = "replace"
          \/ kind[f] = "renew" /\ stale[f] = session[s]]_vars

\* Fresh sign-ins land in the order they were asked, so the latest wins: a
\* replacement's session is recorded while it is the oldest in the queue, or
\* after its caller left (replace, earlier).
ReplacementsLandInOrder ==
  [][\A f \in Calls :
       /\ kind[f] = "replace"
       /\ task[f] = "opening"
       /\ session'[slot[f]] = f
       => LET q == replacements[slot[f]]
          IN f \in ToSet(q) => Head(q) = f]_vars

\* Flights are shared and called off as the module docstring says: one runs
\* per slot, whoever joined is counted, nobody's leaving takes it from those
\* who stay, and a fresh sign-in has its own (_join, _wait_out_replacements).
FlightsAreShared ==
  /\ OneConnectPerSlot
  /\ WaitersCounted
  /\ CancelledOnlyWhenUnwanted
  /\ ReplacementNotShared

\* What a connect closes and what it puts there is what its caller asked for:
\* the latest sign-in wins, and nobody loses a session they did not report.
ReplacedInOrder == ReplacementsLandInOrder /\ ClosesOnlyWhatItReplaces

\* Every call returns, with a session or an error.
EveryCallReturns ==
  \A c \in Calls : pc[c] \in Waiting ~> pc[c] \in Over

\* The slots keep their promise whatever the callers do.
Promise == INSTANCE SessionSlots WITH
  Connects <- Calls,
  connecting <- [s \in Slots |-> Current(s)],
  doomed <- {s \in Slots : Current(s) # NoOne /\ aborts[s] # seen[Current(s)]},
  live <- session,
  spent <- {f \in Calls : task[f] # "none"}

SlotsKeepTheirPromise == Promise!SlotsSpec
=============================================================================
