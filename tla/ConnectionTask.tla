--------------------------- MODULE ConnectionTask ---------------------------
(***************************************************************************)
(* One connection to an upstream: the background task that owns its        *)
(* transport, whoever started it and may give up, the requests in flight   *)
(* on its session, and those who close it.                                 *)
(*                                                                         *)
(* Translated from adapters/upstream_clients/connection_task_base.py and   *)
(* the _run of SandboxConnectionTask and HttpConnectionTask.               *)
(***************************************************************************)
EXTENDS Naturals

CONSTANTS Sent,     \* requests that may be sent on the session
          Closers   \* those who may close it

VARIABLES
  transport,   \* "sandbox" or "http"
  run,         \* where the background task is
  holds,       \* it holds a transport
  shake,       \* the handshake: open, ok, failed, late
  exited,      \* the process ended before the handshake did (exit_signal)
  broken,      \* transport_failed
  ready,       \* _session_future: pending, cancelled, session, or why not
  starter,     \* the caller of start
  marked,       \* which of closed, abandoned and shutdown are set
  runEnded,    \* _run_ended, set by the callback of the task's end
  sent,        \* how far each request is
  closer       \* how far each close is

taskVars == <<transport, run, holds, shake, exited, broken, ready, starter,
              marked, runEnded, sent, closer>>

Failures == {"noTransport", "exited", "broken", "timedOut"}

TaskInit ==
  /\ transport \in {"sandbox", "http"}
  /\ run = "no" /\ holds = FALSE /\ shake = "open"
  /\ exited = FALSE /\ broken = FALSE
  /\ ready = "pending" /\ starter = "no" /\ marked = {} /\ runEnded = FALSE
  /\ sent = [r \in Sent |-> "no"] /\ closer = [k \in Closers |-> "no"]

\* What only the background task moves, and what only the others do.
Inside == UNCHANGED <<transport, holds, shake, exited, run>>
Outside == UNCHANGED <<transport, starter, marked, runEnded, closer>>

-----------------------------------------------------------------------------
(* The start.                                                              *)

StartTask ==
  /\ starter = "no" /\ starter' = "waiting" /\ run' = "acquiring"
  /\ UNCHANGED <<transport, holds, shake, exited, broken, ready, marked, runEnded, sent, closer>>

\* _fail_start: only if `start' still waits.
FailStart(why) == ready' = IF ready = "pending" THEN why ELSE ready

Acquire ==
  /\ run = "acquiring"
  /\ \/ run' = "handshake" /\ holds' = TRUE /\ UNCHANGED ready
     \/ run' = "closing" /\ FailStart("noTransport") /\ UNCHANGED holds
  /\ UNCHANGED <<shake, exited, broken, sent>> /\ Outside

\* The server answers or the handshake breaks; the process may end, which
\* breaks it as well, sooner or later; or its time is up.
Handshake ==
  /\ run = "handshake" /\ shake = "open"
  /\ \/ shake' \in {"ok", "failed"} /\ UNCHANGED exited
     \/ shake' = "late" /\ ~exited /\ UNCHANGED exited
     \/ transport = "sandbox" /\ ~exited /\ exited' = TRUE /\ UNCHANGED shake
  /\ UNCHANGED <<run, holds, broken, ready, sent>> /\ Outside

\* init_with_exit_race, when the handshake did not succeed.
Verdict ==
  CASE exited -> "exited" [] shake = "failed" -> "broken" [] OTHER -> "timedOut"

HandOver ==
  IF ready = "pending" THEN ready' = "session" /\ run' = "serving"
                       ELSE run' = "closing" /\ UNCHANGED ready

\* _unless_abandoned: both may be done in the same step, and then either
\* may be seen.
RaceOver ==
  /\ run = "handshake"
  /\ \/ /\ shake = "ok" /\ HandOver
     \/ /\ shake # "ok" /\ (exited \/ shake # "open")
        /\ FailStart(Verdict) /\ run' = "closing"
     \/ /\ "abandoned" \in marked
        /\ run' = "closing" /\ UNCHANGED ready
  /\ UNCHANGED <<holds, shake, exited, broken, sent>> /\ Outside

StartReturns ==
  /\ starter = "waiting" /\ ready # "pending"
  /\ starter' = IF ready = "session" THEN "got" ELSE "failed"
  /\ UNCHANGED <<broken, ready, marked, runEnded, sent, closer>> /\ Inside

\* A cancel of the caller cancels the future it awaits, unless the result
\* came in the very same step: then that is what it throws away.
StartCancelled ==
  /\ starter = "waiting" /\ starter' = "givingUp"
  /\ ready' = IF ready = "pending" THEN "cancelled" ELSE ready
  /\ UNCHANGED <<broken, marked, runEnded, sent, closer>> /\ Inside

\* Mutant: a task that is still starting is told to let go, no more.
ToldToLetGo == {"closed", "abandoned"}

\* A session handed over in the same step ends the way `close' ends it.
Told == {"closed", "abandoned", "shutdown"}

Abandon ==
  /\ starter = "givingUp"
  /\ IF run = "ended" THEN starter' = "gaveUp" /\ UNCHANGED marked
                      ELSE starter' = "abandoning" /\ marked' = marked \cup Told
  /\ UNCHANGED <<broken, ready, runEnded, sent, closer>> /\ Inside

\* The task has ended, or ABANDON_TIMEOUT is up.
AbandonOver ==
  /\ starter = "abandoning" /\ starter' = "gaveUp"
  /\ UNCHANGED <<broken, ready, marked, runEnded, sent, closer>> /\ Inside

-----------------------------------------------------------------------------
(* The session.                                                            *)

IsTransportAlive == ~runEnded /\ ~broken

\* A caller uses the session it holds, whatever has become of it since.
Send(r) ==
  /\ starter = "got" /\ sent[r] = "no"
  /\ sent' = [sent EXCEPT ![r] = IF IsTransportAlive THEN "inFlight" ELSE "refused"]
  /\ UNCHANGED <<broken, ready, starter, marked, runEnded, closer>> /\ Inside

Answer(r) ==
  /\ sent[r] = "inFlight" /\ run = "serving" /\ ~broken
  /\ sent' = [sent EXCEPT ![r] = "answered"]
  /\ UNCHANGED <<broken, ready, starter, marked, runEnded, closer>> /\ Inside

\* fail_in_flight_requests; the SDK does the same when its read loop ends
\* by itself.
Lost == [r \in Sent |-> IF sent[r] = "inFlight" THEN "lost" ELSE sent[r]]

\* A sandbox's stream ends under the session, and the task goes on waiting
\* for its close; an HTTP transport that fails cancels the task.
TransportFails ==
  /\ run = "serving" /\ ~broken
  /\ IF transport = "sandbox" THEN broken' = TRUE /\ sent' = Lost /\ UNCHANGED run
                              ELSE run' = "closing" /\ UNCHANGED <<broken, sent>>
  /\ UNCHANGED <<holds, shake, exited, ready>> /\ Outside

ShutdownSeen ==
  /\ run = "serving" /\ "shutdown" \in marked /\ run' = "closing"
  /\ UNCHANGED <<holds, shake, exited, broken, ready, sent>> /\ Outside

\* The context managers release everything on the way out.
RunEnds ==
  /\ run = "closing" /\ run' = "ended" /\ holds' = FALSE
  /\ UNCHANGED <<shake, exited, broken, ready, sent>> /\ Outside

\* Mutant: the requests are left to the SDK, whose own answer is cancelled.
LeftToSDK == UNCHANGED sent

AnswerLost == IF ready = "session" THEN sent' = Lost ELSE UNCHANGED sent

OnRunEnded ==
  /\ run = "ended" /\ ~runEnded /\ runEnded' = TRUE /\ AnswerLost
  /\ UNCHANGED <<broken, ready, starter, marked, closer>> /\ Inside

-----------------------------------------------------------------------------
(* The close.                                                              *)

Close(k) ==
  /\ starter = "got" /\ closer[k] = "no"
  /\ IF "closed" \in marked
     THEN closer' = [closer EXCEPT ![k] = "skipped"] /\ UNCHANGED marked
     ELSE closer' = [closer EXCEPT ![k] = "waiting"] /\ marked' = marked \cup {"closed", "shutdown"}
  /\ UNCHANGED <<broken, ready, starter, runEnded, sent>> /\ Inside

CloseDone(k) ==
  /\ closer[k] \in {"waiting", "forcing"} /\ run = "ended"
  /\ closer' = [closer EXCEPT ![k] = "done"]
  /\ UNCHANGED <<broken, ready, starter, marked, runEnded, sent>> /\ Inside

\* Mutant: the task is cancelled and no longer waited for.
CancelledAndLeft == "done"

\* Cancelled, the task may still finish a cleanup first: it is waited for.
AfterCancel == "forcing"

CloseOverdue(k) ==
  /\ closer[k] = "waiting" /\ run # "ended"
  /\ closer' = [closer EXCEPT ![k] = AfterCancel]
  /\ run' = "closing"
  /\ UNCHANGED <<transport, holds, shake, exited, broken, ready, starter, marked, runEnded, sent>>

\* A cancel of whoever closes is not passed on: the task goes on by itself.
CloserCancelled(k) ==
  /\ closer[k] \in {"waiting", "forcing"}
  /\ closer' = [closer EXCEPT ![k] = "cancelled"]
  /\ UNCHANGED <<broken, ready, starter, marked, runEnded, sent>> /\ Inside

TaskNext ==
  \/ StartTask \/ Acquire \/ Handshake \/ RaceOver
  \/ StartReturns \/ StartCancelled \/ Abandon \/ AbandonOver
  \/ TransportFails \/ ShutdownSeen \/ RunEnds \/ OnRunEnded
  \/ \E r \in Sent : Send(r) \/ Answer(r)
  \/ \E k \in Closers : Close(k) \/ CloseDone(k) \/ CloseOverdue(k) \/ CloserCancelled(k)

\* What the task and its callbacks do by themselves.  Every wait of theirs is
\* bounded: the transport's own timeouts, INIT_TIMEOUT, the cleanups'.
Proceeds ==
  \/ Acquire \/ Handshake \/ RaceOver \/ StartReturns \/ Abandon \/ AbandonOver
  \/ ShutdownSeen \/ RunEnds \/ OnRunEnded
  \/ \E k \in Closers : CloseDone(k)

TaskFairness == WF_taskVars(Proceeds)

TaskSpec == TaskInit /\ [][TaskNext]_taskVars /\ TaskFairness

-----------------------------------------------------------------------------
TaskTypeOK ==
  /\ transport \in {"sandbox", "http"} /\ holds \in BOOLEAN
  /\ run \in {"no", "acquiring", "handshake", "serving", "closing", "ended"}
  /\ shake \in {"open", "ok", "failed", "late"} /\ exited \in BOOLEAN /\ broken \in BOOLEAN
  /\ ready \in {"pending", "cancelled", "session"} \cup Failures
  /\ starter \in {"no", "waiting", "got", "failed", "givingUp", "abandoning", "gaveUp"}
  /\ marked \subseteq Told /\ runEnded \in BOOLEAN
  /\ sent \in [Sent -> {"no", "inFlight", "answered", "lost", "refused"}]
  /\ closer \in [Closers -> {"no", "waiting", "forcing", "skipped", "done", "cancelled"}]

\* A close that says it is done leaves nothing of the connection behind, also
\* when its wait ran out and the task had a cleanup to finish (close).
ClosedIsReleased ==
  \A k \in Closers : closer[k] = "done" => run = "ended" /\ ~holds

\* No request waits for an answer from a connection that has ended or whose
\* transport is gone (_on_run_ended's docstring: not for 30 s, either).
InFlightIsAnswered == (runEnded \/ broken) => \A r \in Sent : sent[r] # "inFlight"

\* The end of a connection, whoever brings it about: nothing of it stays held,
\* and nobody is left waiting on it (close, _on_run_ended).
EndsCleanly == ClosedIsReleased /\ InFlightIsAnswered

\* A connection nobody will use comes to its end: its start failed, or was
\* given up (even in the step in which the session became ready), or someone
\* closed it, whatever became of their wait (start's and close's docstrings).
UnwantedEnds ==
  (starter \in {"failed", "givingUp"} \/ \E k \in Closers : closer[k] # "no")
    ~> run = "ended"
=============================================================================
