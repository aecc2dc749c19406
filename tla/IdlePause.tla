------------------------------ MODULE IdlePause -----------------------------
(***************************************************************************)
(* A sandbox session's traffic, and the timer that keeps the provider from *)
(* pausing the sandbox while callers use it, and only then.                *)
(*                                                                         *)
(* Translated from adapters/sandbox_e2b/idle_pause_timer.py and from the   *)
(* streams and the teardown of E2BSandboxService._session_cm.              *)
(*                                                                         *)
(* The provider pauses the sandbox when its deadline passes, which severs  *)
(* the stream its output comes through.  Everything else is one asyncio    *)
(* thread: the pump that writes requests, the watcher of the stream, the   *)
(* loop of the timer and the close of the session.  Only a refresh and the *)
(* program's answers take time: the clock waits for every other step, and  *)
(* stops with the stream, after which no time is measured any more.        *)
(***************************************************************************)
EXTENDS Integers, FiniteSets

CONSTANTS Idle,        \* idle_seconds: the provider's window
          MinGap,      \* min_refresh_gap_seconds
          MaxRefresh,  \* max_refresh_seconds
          MaxAwaited,  \* max_awaited_call_seconds
          Frames,    \* the requests that may be sent, each at most once
          Counted,     \* those a caller caused (COUNTED_METHODS)
          MaxMissed, \* bound on the refreshes that fail in a row
          MaxStrays,   \* bound on the answers to nothing
          MaxTime      \* bound on the clock

ASSUME TimesAssumption == {Idle, MinGap, MaxRefresh, MaxAwaited, MaxTime} \subseteq Nat \ {0} /\ Idle >= 6
ASSUME CountedAssumption == Counted \subseteq Frames
ASSUME TrafficAssumption == {MaxMissed, MaxStrays} \subseteq Nat

VARIABLES
  now,          \* time.monotonic()
  deadline,     \* when the provider pauses the sandbox
  paused,       \* the provider paused it
  severed,      \* no output comes any more: it was paused, or the process ended
  killed,       \* the sandbox was killed
  call,         \* how far each request is
  askedAt,      \* when the pump took each request
  strays,       \* answers to nothing so far
  pump,         \* the stdin pump, or the request it is writing
  streamDead,   \* stream_dead: the watcher saw the stream end
  failed,       \* transport_failed, and the read side is closed
  closing,      \* how far the close of the session is
  armedAt, lastAttempt, trafficSeen, awaited, wake, timerStopped,
  loop,         \* where the timer's loop is, until when it waits, and
                \* whether its refresh has reached the provider
  missed,     \* refreshes that failed since the last that did not
  lastUse,      \* when a caller last sent a request or had its answer
  owed          \* the last of those the sandbox must stay awake after, and
                \* what was left of the window then

traffic == <<call, askedAt, strays, pump>>
stream == <<streamDead, failed, closing>>
timer == <<armedAt, lastAttempt, trafficSeen, awaited, wake, timerStopped>>
provider == <<deadline, paused, severed, killed>>
ghosts == <<missed, lastUse, owed>>
idleVars == <<now, provider, traffic, stream, timer, loop, ghosts>>

Least(S) == CHOOSE x \in S : \A y \in S : x <= y
Most(S) == CHOOSE x \in S : \A y \in S : x >= y

Gap == Least({MinGap, Idle \div 4})
AwaitedRefreshEvery == Idle \div 3
RefreshLimit == Least({MaxRefresh, Idle \div 6})

Never == -1

\* The process was started; opening the session may have used up part of
\* the window.
IdleInit ==
  /\ now = 0 /\ deadline \in {Idle, Idle \div 2} /\ paused = FALSE /\ severed = FALSE /\ killed = FALSE
  /\ call = [r \in Frames |-> "unsent"] /\ askedAt = [r \in Frames |-> Never]
  /\ strays = 0 /\ pump = "reading"
  /\ streamDead = FALSE /\ failed = FALSE /\ closing = "open"
  /\ armedAt = 0 /\ lastAttempt = -Gap /\ trafficSeen = FALSE /\ awaited = {} /\ wake = FALSE /\ timerStopped = FALSE
  /\ loop = [at |-> "looking", until |-> Never, landed |-> FALSE]
  /\ missed = 0 /\ lastUse = 0 /\ owed = [at |-> Never, left |-> 0]

---------------------------------------------------------------------------
(* The session's input and output.                                         *)

\* A caller's use of the sandbox, now.
Used == lastUse' = now /\ owed' = [at |-> now, left |-> deadline - now]

\* A request is given to a session whose transport looks alive.
AskRequest(r) ==
  /\ call[r] = "unsent" /\ ~failed /\ closing = "open"
  /\ call' = [call EXCEPT ![r] = "asked"]
  /\ UNCHANGED <<now, provider, askedAt, strays, pump, stream, timer, loop, ghosts>>

RecordAny(r) == awaited' = awaited \cup {r} /\ trafficSeen' = TRUE /\ wake' = TRUE
RecordNothing(r) == UNCHANGED <<awaited, trafficSeen, wake>>

\* request_sent.
RequestSent(r) ==
  IF r \in Counted THEN RecordAny(r) ELSE RecordNothing(r)

\* The pump takes a request and records it before it writes it.
TakeRequest(r) ==
  /\ pump = "reading" /\ call[r] = "asked" /\ ~streamDead
  /\ RequestSent(r)
  /\ IF r \in Counted THEN Used ELSE UNCHANGED <<lastUse, owed>>
  /\ call' = [call EXCEPT ![r] = "taken"] /\ askedAt' = [askedAt EXCEPT ![r] = now] /\ pump' = r
  /\ UNCHANGED <<now, provider, strays, stream, armedAt, lastAttempt, timerStopped, loop, missed>>

\* The write reaches the process.  It wakes a sandbox that was paused.
Deliver(r) ==
  /\ pump = r /\ call[r] = "taken" /\ ~killed
  /\ call' = [call EXCEPT ![r] = "written"]
  /\ paused' = FALSE /\ deadline' = IF paused THEN now + Idle ELSE deadline
  /\ UNCHANGED <<now, severed, killed, askedAt, strays, pump, stream, timer, loop, ghosts>>

\* send_stdin returns.
WriteReturns(r) ==
  /\ pump = r /\ call[r] \in {"written", "answered"}
  /\ pump' = "reading"
  /\ UNCHANGED <<now, provider, call, askedAt, strays, stream, timer, loop, ghosts>>

\* _fail_transport.
FailTransport == failed' = TRUE /\ timerStopped' = TRUE /\ wake' = TRUE

\* send_stdin raises, whether or not the request arrived.
WriteFails(r) ==
  /\ pump = r
  /\ FailTransport /\ pump' = "ended"
  /\ UNCHANGED <<now, provider, call, askedAt, strays, streamDead, closing,
                 armedAt, lastAttempt, trafficSeen, awaited, loop, ghosts>>

\* The stream is dead: the request is not written, and the process is retired.
RetireProcess(r) ==
  /\ pump = "reading" /\ call[r] = "asked" /\ streamDead
  /\ FailTransport /\ pump' = "ended"
  /\ UNCHANGED <<now, provider, call, askedAt, strays, streamDead, closing,
                 armedAt, lastAttempt, trafficSeen, awaited, loop, ghosts>>

\* An answer is matched under the request's id, also when the server writes
\* the number as a text.
MatchedAsWritten(r, as_text) == IF as_text THEN {} ELSE {r}
Matched(r, as_text) == {r}

\* response_received.
AnyAnswerCounts(ids) == awaited' = awaited \ ids /\ trafficSeen' = TRUE /\ wake' = TRUE
ResponseReceived(ids) ==
  IF ids \cap awaited # {}
  THEN awaited' = awaited \ ids /\ trafficSeen' = TRUE /\ wake' = TRUE
  ELSE UNCHANGED <<awaited, trafficSeen, wake>>

\* The process answers a request, perhaps before its write has returned.
Answer(r, as_text) ==
  /\ call[r] = "written" /\ ~severed /\ ~killed
  /\ ResponseReceived(Matched(r, as_text))
  /\ call' = [call EXCEPT ![r] = "answered"]
  /\ IF r \in Counted /\ now - askedAt[r] < MaxAwaited THEN Used
     ELSE lastUse' = (IF r \in Counted THEN now ELSE lastUse) /\ UNCHANGED owed
  /\ UNCHANGED <<now, provider, askedAt, strays, pump, stream, armedAt, lastAttempt, timerStopped, loop, missed>>

\* The program answers what nobody asked, or answers again.
Stray(r) ==
  /\ strays < MaxStrays /\ call[r] \in {"unsent", "answered"} /\ ~severed /\ ~killed
  /\ ResponseReceived({r}) /\ strays' = strays + 1
  /\ UNCHANGED <<now, provider, call, askedAt, pump, stream, armedAt, lastAttempt, timerStopped, loop, ghosts>>

\* watch_stream: the stream ended, and the transport is declared dead.
StreamEnds ==
  /\ severed /\ ~streamDead
  /\ streamDead' = TRUE /\ FailTransport
  /\ UNCHANGED <<now, provider, traffic, closing, armedAt, lastAttempt, trafficSeen, awaited, loop, ghosts>>

---------------------------------------------------------------------------
(* The timer's loop.                                                       *)

KeptAwaited == awaited
StillAwaited == {r \in awaited : now - askedAt[r] < MaxAwaited}

\* _next_refresh_at: the times at which a refresh is due.
Due ==
  {lastAttempt + Gap : x \in {y \in {trafficSeen} : y}}
  \cup {Most({armedAt + AwaitedRefreshEvery, lastAttempt + Gap}) : r \in StillAwaited}

Awake == loop.at = "looking" \/ (loop.at = "waiting" /\ (wake \/ (loop.until # Never /\ loop.until <= now)))

LoopEnds ==
  /\ Awake /\ timerStopped
  /\ loop' = [loop EXCEPT !.at = "ended"]
  /\ UNCHANGED <<now, provider, traffic, stream, timer, ghosts>>

LoopWaits ==
  /\ Awake /\ ~timerStopped /\ \A t \in Due : t > now
  /\ wake' = FALSE /\ awaited' = StillAwaited
  /\ loop' = [loop EXCEPT !.at = "waiting", !.until = IF Due = {} THEN Never ELSE Least(Due)]
  /\ UNCHANGED <<now, provider, traffic, stream, armedAt, lastAttempt, trafficSeen, timerStopped, ghosts>>

LoopRefreshes ==
  /\ Awake /\ ~timerStopped /\ \E t \in Due : t <= now
  /\ wake' = FALSE /\ awaited' = StillAwaited
  /\ trafficSeen' = FALSE /\ lastAttempt' = now
  /\ loop' = [at |-> "refreshing", until |-> Never, landed |-> FALSE]
  /\ UNCHANGED <<now, provider, traffic, stream, armedAt, timerStopped, ghosts>>

\* set_timeout reaches the provider.
RefreshLands ==
  /\ loop.at = "refreshing" /\ ~loop.landed /\ ~paused /\ ~killed
  /\ deadline' = now + Idle
  /\ loop' = [loop EXCEPT !.landed = TRUE]
  /\ UNCHANGED <<now, paused, severed, killed, traffic, stream, timer, ghosts>>

\* Cleared before the call, not after.
ClearedAfter == FALSE
SeenMeanwhile == trafficSeen

RefreshSucceeds ==
  /\ loop.at = "refreshing" /\ loop.landed
  /\ armedAt' = lastAttempt /\ trafficSeen' = SeenMeanwhile /\ missed' = 0
  /\ loop' = [loop EXCEPT !.at = "looking"]
  /\ UNCHANGED <<now, provider, traffic, stream, lastAttempt, awaited, wake, timerStopped, lastUse, owed>>

NotTriedAgain == trafficSeen
TriedAgain == TRUE

\* It raised, or it took too long: tried again after the gap.
RefreshFails ==
  /\ loop.at = "refreshing" /\ missed < MaxMissed
  /\ trafficSeen' = TriedAgain /\ missed' = missed + 1
  /\ loop' = [loop EXCEPT !.at = "looking"]
  /\ UNCHANGED <<now, provider, traffic, stream, armedAt, lastAttempt, awaited, wake, timerStopped, lastUse, owed>>

\* The provider knows no such sandbox: it is paused or gone.
RefreshFindsNothing ==
  /\ loop.at = "refreshing" /\ ~loop.landed /\ (paused \/ killed)
  /\ loop' = [loop EXCEPT !.at = "ended"]
  /\ UNCHANGED <<now, provider, traffic, stream, timer, ghosts>>

---------------------------------------------------------------------------
(* The close of the session, from its first await to its last.             *)

CloseStream ==
  /\ closing = "open"
  /\ closing' = "streams"
  /\ UNCHANGED <<now, provider, traffic, streamDead, failed, timer, loop, ghosts>>

\* The pump ended, found its stream closed, or is cancelled; then the watcher
\* is, which declares the transport dead if it had not.
EndStreams ==
  /\ closing = "streams"
  /\ closing' = "timer" /\ pump' = "ended" /\ streamDead' = TRUE
  /\ IF streamDead THEN UNCHANGED <<failed, timerStopped, wake>> ELSE FailTransport
  /\ UNCHANGED <<now, provider, call, askedAt, strays, armedAt, lastAttempt, trafficSeen, awaited, loop, ghosts>>

TimerLeft == loop
TimerCancelled == [loop EXCEPT !.at = "ended"]

EndTimer ==
  /\ closing = "timer"
  /\ closing' = "sandbox" /\ loop' = TimerCancelled
  /\ UNCHANGED <<now, provider, traffic, streamDead, failed, timer, ghosts>>

\* The sandbox is killed, or kept for the next boot or the next session.
EndSandbox ==
  /\ closing = "sandbox"
  /\ closing' = "closed"
  /\ \/ killed' = TRUE /\ severed' = TRUE
     \/ UNCHANGED <<killed, severed>>
  /\ UNCHANGED <<now, deadline, paused, traffic, streamDead, failed, timer, loop, ghosts>>

---------------------------------------------------------------------------
(* The provider, the program and the clock.                                *)

Pause ==
  /\ now >= deadline /\ ~paused /\ ~killed
  /\ paused' = TRUE /\ severed' = TRUE
  /\ UNCHANGED <<now, deadline, killed, traffic, stream, timer, loop, ghosts>>

ProcessEnds ==
  /\ ~severed
  /\ severed' = TRUE
  /\ UNCHANGED <<now, deadline, paused, killed, traffic, stream, timer, loop, ghosts>>

RefreshMayGoOn == now + 1 - lastAttempt < RefreshLimit \/ missed < MaxMissed

Tick ==
  /\ now < MaxTime /\ closing = "open" /\ ~failed /\ ~severed
  /\ ~Awake /\ now < deadline /\ pump = "reading" /\ \A r \in Frames : call[r] # "asked"
  /\ loop.at = "refreshing" => now - lastAttempt < RefreshLimit /\ RefreshMayGoOn
  /\ now' = now + 1
  /\ UNCHANGED <<provider, traffic, stream, timer, loop, ghosts>>

---------------------------------------------------------------------------
IdleNext ==
  \/ \E r \in Frames :
       \/ AskRequest(r) \/ TakeRequest(r) \/ Deliver(r) \/ WriteReturns(r) \/ WriteFails(r)
       \/ RetireProcess(r) \/ Stray(r) \/ \E as_text \in BOOLEAN : Answer(r, as_text)
  \/ StreamEnds
  \/ LoopEnds \/ LoopWaits \/ LoopRefreshes
  \/ RefreshLands \/ RefreshSucceeds \/ RefreshFails \/ RefreshFindsNothing
  \/ CloseStream \/ EndStreams \/ EndTimer \/ EndSandbox
  \/ Pause \/ ProcessEnds \/ Tick

IdleSpec == IdleInit /\ [][IdleNext]_idleVars

---------------------------------------------------------------------------
(* What the timer promises.                                                *)

\* What the missed a refresh may meet can take of the window.
Margin == Gap + (MaxMissed + 1) * RefreshLimit

\* While the session's stream lives, the provider pauses a sandbox only when
\* no caller has used it for the whole window, and none waits for an answer
\* that may still count: whatever refreshes stall or fail before the one that
\* comes through, and though the traffic came while one was under way.
PausedOnlyWhenIdle ==
  [][(Pause /\ ~severed /\ ~timerStopped) =>
       /\ owed.left >= Margin => now >= owed.at + Idle
       /\ \A r \in Counted :
            (call[r] \in {"taken", "written"} /\ owed.left >= Margin) => now - askedAt[r] >= MaxAwaited]_idleVars

\* The timer is never a keep-alive: what the program does by itself, a
\* request the gateway sends of its own, and a call that is never answered
\* leave the deadline a window after the last use by a caller.  (Whatever is
\* written to a sandbox already paused wakes it; its stream is severed then.)
NeverAKeepAlive ==
  LET waited(r) == Least({now, askedAt[r] + MaxAwaited})
      use == Most({lastUse} \cup {waited(r) : r \in {x \in Counted : call[x] \in {"taken", "written"}}})
      longest == Most({Gap, RefreshLimit})
  IN ~severed => deadline <= use + Idle + (MaxMissed + 1) * longest + RefreshLimit

\* The provider's pause comes when the callers' use of the sandbox is over,
\* no earlier and no later.
PauseIsFair == PausedOnlyWhenIdle /\ []NeverAKeepAlive
=============================================================================
