------------------------------ MODULE Shutdown ------------------------------
(***************************************************************************)
(* Work that must not be cut half-way, the sets that hold it, and the      *)
(* shutdown that waits for it before the stores close.                     *)
(*                                                                         *)
(* Translated from domain/services/cancel_shield.py and                    *)
(* background_tasks.py, entrypoints/lifecycle.py, the lifespan of          *)
(* entrypoints/app.py, and the callers of finish_despite_cancels.          *)
(*                                                                         *)
(* A caller awaits its work under the shield of finish_despite_cancels;    *)
(* the work is a job of its own, which the caller's cancels do not reach.  *)
(* No clock is kept: a wait may run out only while something slow is still *)
(* on, and `slow' is chosen at the start.                                  *)
(***************************************************************************)
EXTENDS Naturals, FiniteSets

CONSTANTS Writes,   \* requests that change something on the dashboard
          Tools,    \* Admin MCP calls of a tool that changes something
          Rows,     \* gateway tool calls, each with its audit row
          Loops,    \* periodic loops, each with its shielded refresh
          Steps,    \* an action's own awaited steps, shielded as well
          Kills,    \* sandbox kills of a session a write closes
          Outer,    \* the action that awaits each step and kill
          Starts,   \* jobs an action leaves to its manager's set
          Flows,    \* sign-ins waiting for their browser step
          MaxSlow,  \* bound on how much is slow at once
          MaxWork   \* bound on how much work a behaviour starts

Handlers == Tools \cup Rows        \* run inside an MCP session manager
Asked == Writes \cup Handlers      \* what a client asks
Nested == Steps \cup Kills
Callers == Asked \cup Loops \cup Nested
Work == Callers \cup Starts \cup Flows \cup {"sessions", "runtimes"}

ASSUME KindsAssumption ==
  /\ Writes \cap Tools = {} /\ (Writes \cup Tools) \cap Rows = {}
  /\ Asked \cap Loops = {} /\ (Asked \cup Loops) \cap Steps = {}
  /\ (Asked \cup Loops \cup Steps) \cap Kills = {}
  /\ Callers \cap Starts = {} /\ (Callers \cup Starts) \cap Flows = {}
  /\ {"sessions", "runtimes"} \cap (Callers \cup Starts \cup Flows) = {}
ASSUME OuterAssumption == Outer \in [Nested -> Writes \cup Tools]
ASSUME BoundsAssumption == {MaxSlow, MaxWork} \subseteq Nat

VARIABLES
  slow,       \* the work that may outlast any wait
  await,      \* where each caller is
  struck,     \* callers with a cancel not delivered yet
  job,        \* how far each piece of work is
  told,       \* work whose failure was reported
  answered,   \* requests of handlers that ended before their handler
  drain,      \* DrainCoordinator: off, waiting, quiet, done
  fresh,      \* a request started since the quiet window opened
  lateAsked,  \* requests that came once the drain was over
  stage,      \* how far the server and shut_down are
  closedOff,    \* the runtimes' managers refuse new jobs
  left,       \* what a step that ran out left to the job drain
  leftovers,  \* what the job drain had to cancel
  overran     \* the drains that ran out: "requests", "jobs"

shutdownVars == <<slow, await, struck, job, told, answered, drain, fresh,
                  lateAsked, stage, closedOff, left, leftovers, overran>>

Ended == {"returned", "failed", "cancelled", "refused"}

\* A loop goes on after its refresh: only its cancel ends it.
Alive(c) == IF c \in Loops THEN await[c] # "cancelled"
                           ELSE await[c] \notin Ended \cup {"idle"}

Active(j) == job[j] \in {"running", "unwinding"}

\* Work started in a BackgroundTaskSet; the rest only its caller holds.
InASet == Writes \cup Tools \cup Steps \cup Starts \cup Flows \cup {"runtimes"}

StillRunning == {j \in (InASet \cup left) \ Loops : Active(j)}
                \cup {l \in left \cap Loops : Alive(l)}

RefusesEverywhere == stage \in {"flush", "stores", "closed"}
Refuses(j) == j \in InASet /\ (RefusesEverywhere \/ (j \in Starts /\ closedOff))

\* request_started to request_finished: a write counts while its work
\* runs, which sends the answer, an MCP call until it is answered.
ActiveRequests == {w \in Writes : Active(w)} \cup ({c \in Handlers : Alive(c)} \ answered)

\* A piece of work takes its time, or something it awaits does.
Outlasts(c) == c \in slow \/ \E n \in Nested \cap slow : Outer[n] = c /\ Alive(n)

\* Something slow is still on, so the wait for it may run out.
Late == \E x \in slow : Active(x) \/ (x \in Callers /\ Alive(x))

ShutdownInit ==
  /\ slow \in {S \in SUBSET Work : Cardinality(S) <= MaxSlow}
  /\ await = [c \in Callers |-> "idle"]
  /\ job = [j \in Work |-> "none"]
  /\ struck = {} /\ told = {} /\ answered = {} /\ lateAsked = {}
  /\ left = {} /\ leftovers = {} /\ overran = {}
  /\ drain = "off" /\ fresh = FALSE /\ stage = "up" /\ closedOff = FALSE

MayStart == Cardinality({c \in Callers : await[c] # "idle"}
                        \cup {j \in Starts \cup Flows : job[j] # "none"}) < MaxWork

Requests == UNCHANGED <<answered, drain, fresh, lateAsked>>
Onwards == UNCHANGED <<slow, drain, stage, closedOff, left, leftovers, overran>>

-----------------------------------------------------------------------------
(* What is asked and started.                                              *)

\* While draining only a request of an open MCP session is let in.
LetIn(c) == drain = "off" \/ c \in Handlers

\* DrainCoordinator.request_started
RequestStarted(c) ==
  /\ fresh' = (fresh \/ drain = "quiet")
  /\ lateAsked' = IF drain = "done" THEN lateAsked \cup {c} ELSE lateAsked

\* The server listens until it has seen its exit signal.
Request(c) ==
  /\ MayStart /\ await[c] = "idle" /\ stage \in {"up", "exiting"} /\ LetIn(c)
  /\ await' = [await EXCEPT ![c] = IF c \in Rows THEN "calling" ELSE "waiting"]
  /\ job' = IF c \in Rows THEN job ELSE [job EXCEPT ![c] = "running"]
  /\ RequestStarted(c) /\ UNCHANGED <<struck, told, answered>> /\ Onwards

\* The upstream answered, or a cancel broke its call: either way the row
\* is written, with that cancel still in force.
WriteRow(c) ==
  /\ await[c] = "calling"
  /\ await' = [await EXCEPT ![c] = "waiting"]
  /\ job' = [job EXCEPT ![c] = "running"]
  /\ UNCHANGED <<struck, told>> /\ Requests /\ Onwards

RefreshDue(l) ==
  /\ MayStart /\ await[l] = "idle" /\ l \notin struck
  /\ await' = [await EXCEPT ![l] = "waiting"]
  /\ job' = [job EXCEPT ![l] = "running"]
  /\ UNCHANGED <<struck, told>> /\ Requests /\ Onwards

\* An action reaches one of its steps, or a session it closes its kill. A
\* step refused while the stores close fails the action.
NestedBegins(n) ==
  /\ MayStart /\ await[n] = "idle" /\ Active(Outer[n])
  /\ \/ /\ ~Refuses(n)
        /\ await' = [await EXCEPT ![n] = "waiting"]
        /\ job' = [job EXCEPT ![n] = "running"]
     \/ /\ Refuses(n)
        /\ await' = [await EXCEPT ![n] = "refused"]
        /\ job' = [job EXCEPT ![Outer[n]] = "failed"]
  /\ told' = IF job'[Outer[n]] = "failed" /\ await[Outer[n]] = "cancelled"
             THEN told \cup {Outer[n]} ELSE told
  /\ UNCHANGED struck /\ Requests /\ Onwards

\* BackgroundTaskSet.spawn: refused, none of the job runs.
Spawn(s) ==
  /\ MayStart /\ job[s] = "none" /\ \E w \in Writes : job[w] = "running"
  /\ job' = [job EXCEPT ![s] = IF Refuses(s) THEN "refused" ELSE "running"]
  /\ UNCHANGED <<await, struck, told>> /\ Requests /\ Onwards

\* A member asks to sign in: a GET, refused once the app drains.
SignIn(f) ==
  /\ MayStart /\ job[f] = "none" /\ stage = "up" /\ drain = "off"
  /\ job' = [job EXCEPT ![f] = "running"]
  /\ UNCHANGED <<await, struck, told>> /\ Requests /\ Onwards

-----------------------------------------------------------------------------
(* Work.                                                                   *)

\* Mutant: no callback is left behind by a caller that stops waiting.
ReportsNothing(j, outcome) == FALSE

\* _report_failure, at once or by the callback of a caller that left.
Reports(j, outcome) ==
  outcome = "failed" /\ j \in Callers /\ await[j] = "cancelled"

MayEnd(j) ==
  /\ \A n \in Nested : Outer[n] = j => ~Alive(n)
  /\ (j \in Flows => drain = "off")       \* its callback is refused
  /\ (j = "runtimes" => closedOff)
  /\ (j = "sessions" => \A c \in Handlers : ~Alive(c))

WorkEnds(j) ==
  /\ job[j] = "running" /\ MayEnd(j)
  /\ \E outcome \in {"done", "failed"} :
       /\ outcome = "failed" => j \in Callers
       /\ job' = [job EXCEPT ![j] = outcome]
       /\ told' = IF Reports(j, outcome) THEN told \cup {j} ELSE told
  /\ UNCHANGED <<await, struck>> /\ Requests /\ Onwards

\* A cancelled job winds down, once the steps it awaits have ended.
WorkUnwinds(j) ==
  /\ job[j] = "unwinding"
  /\ \A n \in Steps : Outer[n] = j => ~Alive(n)
  /\ job' = [job EXCEPT ![j] = "cut"]
  /\ UNCHANGED <<await, struck, told>> /\ Requests /\ Onwards

\* A cancel of jobs S reaches the steps they are awaiting.
Cancelled(S) == [j \in Work |-> IF j \in S /\ job[j] = "running" THEN "unwinding" ELSE job[j]]
StepsOf(S) == {n \in Steps : Outer[n] \in S /\ Alive(n)}

-----------------------------------------------------------------------------
(* finish_despite_cancels, from its caller's side.                         *)

\* The client's notifications/cancelled: the SDK answers it right away.
ClientCancels(c) ==
  /\ Alive(c) /\ c \notin answered
  /\ struck' = struck \cup {c} /\ answered' = answered \cup {c}
  /\ UNCHANGED <<await, job, told, drain, fresh, lateAsked>> /\ Onwards

\* The close of a session gives up after its timeout and cancels the task
\* that is killing the sandbox.
CloseTimesOut(k) ==
  /\ await[k] = "waiting" /\ k \in slow /\ Active(k)
  /\ struck' = struck \cup {k}
  /\ UNCHANGED <<await, job, told>> /\ Requests /\ Onwards

\* Mutant: the caller's cancel goes on into the work it awaits.
CancelsTheWork(c) ==
  /\ c \in struck /\ await[c] = "waiting"
  /\ await' = [await EXCEPT ![c] = "shielded"]
  /\ struck' = struck \ {c} /\ job' = Cancelled({c})
  /\ UNCHANGED told /\ Requests /\ Onwards

\* The cancel interrupts the caller's wait, never the work.
CancelReaches(c) ==
  /\ c \in struck /\ await[c] = "waiting"
  /\ await' = [await EXCEPT ![c] = "shielded"]
  /\ struck' = struck \ {c}
  /\ UNCHANGED <<job, told>> /\ Requests /\ Onwards

LoopCancelled(l) ==
  /\ l \in struck /\ await[l] \in {"idle", "returned", "failed"}
  /\ await' = [await EXCEPT ![l] = "cancelled"]
  /\ struck' = struck \ {l}
  /\ UNCHANGED <<job, told>> /\ Requests /\ Onwards

\* _wait_ignoring_cancels: the first one is being handled.
CancelIgnored(c) ==
  /\ c \in struck /\ await[c] = "shielded"
  /\ struck' = struck \ {c}
  /\ UNCHANGED <<await, job, told>> /\ Requests /\ Onwards

Outcome(c) ==
  CASE await[c] = "shielded" \/ job[c] = "cut"  -> "cancelled"
    [] job[c] = "failed" /\ c \notin Kills -> "failed"
    [] OTHER -> "returned"

\* The wait is over: the cancel is passed on, or the outcome returned. A
\* failure nobody will read is reported, and a kill's always is.
WaitEnds(c) ==
  /\ \/ await[c] = "waiting" /\ c \notin struck
     \/ await[c] = "shielded"
  /\ ~Active(c)
  /\ await' = [await EXCEPT ![c] = Outcome(c)]
  /\ told' = IF job[c] = "failed" /\ (await[c] = "shielded" \/ c \in Kills)
             THEN told \cup {c} ELSE told
  /\ UNCHANGED <<struck, job>> /\ Requests /\ Onwards

\* wait_after_cancel is over: the tool goes on without its caller.
StopWaiting(c) ==
  /\ await[c] = "shielded" /\ Active(c) /\ Outlasts(c)
  /\ await' = [await EXCEPT ![c] = "cancelled"]
  /\ UNCHANGED <<struck, job, told>> /\ Requests /\ Onwards

\* The TimeLimit of a kill, waited for with or without a cancel.
LimitReached(k) == await[k] \in {"waiting", "shielded"} /\ job[k] = "running" /\ k \in slow

\* It is cut, and held until it has unwound.
KillOverdue(k) ==
  /\ LimitReached(k)
  /\ await' = [await EXCEPT ![k] = IF await[k] = "shielded" THEN "cancelled" ELSE "returned"]
  /\ job' = [job EXCEPT ![k] = "unwinding"]
  /\ left' = left \cup {k} /\ told' = told \cup {k}
  /\ UNCHANGED <<struck, slow, drain, stage, closedOff, leftovers, overran>> /\ Requests

-----------------------------------------------------------------------------
(* The drain of the requests, then uvicorn, then shut_down.                *)

Progress == UNCHANGED <<slow, answered, lateAsked, closedOff>>
Undisturbed == UNCHANGED <<await, struck, job, told, left, leftovers>>

\* DrainCoordinator.drain, called on SIGTERM, or by shut_down when the
\* server stopped on its own (SIGINT).
BeginDrain ==
  /\ drain = "off" /\ stage \in {"up", "teardown"}
  /\ drain' = IF ActiveRequests = {} THEN "done" ELSE "waiting"
  /\ stage' = IF stage = "up" /\ ActiveRequests = {} THEN "exiting" ELSE stage
  /\ UNCHANGED <<fresh, overran>> /\ Progress /\ Undisturbed

DrainIdle ==
  /\ drain = "waiting" /\ ActiveRequests = {}
  /\ drain' = "quiet" /\ fresh' = FALSE
  /\ UNCHANGED <<stage, overran>> /\ Progress /\ Undisturbed

\* drain_then_exit hands the signal to the server in the same step.
Drained(after) == /\ drain' = "done"
                  /\ stage' = IF stage = "up" THEN after ELSE stage

\* Mutant: the end of the quiet window is not checked again.
QuietEnough == TRUE

StillQuiet == ActiveRequests = {} /\ ~fresh

QuietOver ==
  /\ drain = "quiet"
  /\ \/ StillQuiet /\ Drained("exiting")
     \/ ~StillQuiet /\ drain' = "waiting" /\ UNCHANGED stage
  /\ UNCHANGED <<fresh, overran>> /\ Progress /\ Undisturbed

DrainTimesOut ==
  /\ drain \in {"waiting", "quiet"} /\ Late /\ Drained("exiting")
  /\ overran' = overran \cup {"requests"}
  /\ UNCHANGED fresh /\ Progress /\ Undisturbed

\* SIGINT goes to the server alone.
ServerToldToExit ==
  /\ stage = "up" /\ drain = "off" /\ stage' = "exiting"
  /\ UNCHANGED <<drain, fresh, overran>> /\ Progress /\ Undisturbed

StopListening ==
  /\ stage = "exiting" /\ stage' = "stopping"
  /\ UNCHANGED <<drain, fresh, overran>> /\ Progress /\ Undisturbed

\* uvicorn waits for its open requests, then cancels their tasks: that
\* reaches a write's caller, and not what an MCP call's handler runs in.
Unanswered == {w \in Writes : Alive(w)} \cup ({c \in Handlers : Alive(c)} \ answered)

ServerStops ==
  /\ stage = "stopping" /\ stage' = "teardown"
  /\ Unanswered = {} \/ \E c \in ActiveRequests : Outlasts(c)
  /\ struck' = struck \cup (Unanswered \cap Writes)
  /\ answered' = answered \cup (Unanswered \cap Handlers)
  /\ UNCHANGED <<slow, await, job, told, drain, fresh, lateAsked, closedOff, left, leftovers, overran>>

StopLoops ==
  /\ stage = "teardown" /\ drain = "done" /\ stage' = "loops"
  /\ struck' = struck \cup {l \in Loops : Alive(l)}
  /\ UNCHANGED <<await, job, told, left, leftovers, drain, fresh, overran>> /\ Progress

\* Mutant: a step that ran out is only logged.
Forgotten(S) == left

\* What a step that ran out leaves to the job drain.
LeftTo(S) == left \cup S

\* The loops ended, or their time did; every session manager is left,
\* which cancels what its handlers are doing.
CloseSessions ==
  /\ stage = "loops" /\ stage' = "sessions"
  /\ LET running == {l \in Loops : Alive(l)} IN
       /\ running \subseteq slow
       /\ left' = LeftTo(running)
  /\ struck' = struck \cup {c \in Handlers : Alive(c)}
  /\ job' = [job EXCEPT !["sessions"] = "running"]
  /\ UNCHANGED <<await, told, leftovers, drain, fresh, overran>> /\ Progress

\* Mutant: sign-ins are waited for like any other job.
AllMayFinish == {}

\* The runtimes' teardown starts as a job, and drain_every_set cancels at
\* once what cannot finish any more.
CannotFinish == Flows

DrainJobs ==
  /\ stage = "sessions" /\ stage' = "jobs"
  /\ Active("sessions") => "sessions" \in slow
  /\ left' = IF Active("sessions") THEN LeftTo({"sessions"}) ELSE left
  /\ job' = [Cancelled(CannotFinish) EXCEPT !["runtimes"] = "running"]
  /\ UNCHANGED <<await, struck, told, leftovers, drain, fresh, overran>> /\ Progress

\* UpstreamClientManager.stop_all, of every org at once.
StopRuntimes ==
  /\ job["runtimes"] = "running" /\ ~closedOff
  /\ closedOff' = TRUE /\ job' = Cancelled(Starts)
  /\ UNCHANGED <<slow, await, struck, told, answered, drain, fresh, lateAsked,
                 stage, left, leftovers, overran>>

JobsDrained ==
  /\ stage = "jobs" /\ StillRunning = {} /\ stage' = "flush"
  /\ UNCHANGED <<drain, fresh, overran>> /\ Progress /\ Undisturbed

JobsOverdue ==
  /\ stage = "jobs" /\ StillRunning # {} /\ Late /\ stage' = "unwind"
  /\ leftovers' = StillRunning
  /\ job' = Cancelled(StillRunning \ Loops)
  /\ struck' = struck \cup (StillRunning \cap Loops) \cup StepsOf(StillRunning)
  /\ overran' = overran \cup {"jobs"}
  /\ UNCHANGED <<await, told, left, drain, fresh>> /\ Progress

Unwound ==
  /\ stage = "unwind" /\ stage' = "flush"
  /\ leftovers \cap StillRunning = {} \/ Late
  /\ UNCHANGED <<drain, fresh, overran>> /\ Progress /\ Undisturbed

FlushSignIns ==
  /\ stage = "flush" /\ stage' = "stores"
  /\ UNCHANGED <<drain, fresh, overran>> /\ Progress /\ Undisturbed

CloseStores ==
  /\ stage = "stores" /\ stage' = "closed"
  /\ UNCHANGED <<drain, fresh, overran>> /\ Progress /\ Undisturbed

ShutdownStep ==
  \/ DrainIdle \/ QuietOver \/ DrainTimesOut \/ StopListening \/ ServerStops
  \/ (stage = "teardown" /\ BeginDrain) \/ StopLoops \/ CloseSessions \/ DrainJobs
  \/ StopRuntimes \/ JobsDrained \/ JobsOverdue \/ Unwound \/ FlushSignIns \/ CloseStores

CallerStep(c) ==
  \/ c \in Rows /\ WriteRow(c)
  \/ CancelReaches(c) \/ CancelIgnored(c) \/ WaitEnds(c)
  \/ c \in Loops /\ LoopCancelled(c)
  \/ c \in Tools /\ StopWaiting(c)
  \/ c \in Kills /\ KillOverdue(c)

ShutdownNext ==
  \/ ShutdownStep
  \/ BeginDrain \/ ServerToldToExit
  \/ \E c \in Callers : CallerStep(c)
  \/ \E c \in Asked : Request(c)
  \/ \E c \in Handlers : ClientCancels(c)
  \/ \E l \in Loops : RefreshDue(l)
  \/ \E n \in Nested : NestedBegins(n)
  \/ \E k \in Kills : CloseTimesOut(k)
  \/ \E s \in Starts : Spawn(s)
  \/ \E f \in Flows : SignIn(f)
  \/ \E j \in Work : WorkEnds(j) \/ WorkUnwinds(j)

ShutdownSpec == ShutdownInit /\ [][ShutdownNext]_shutdownVars

\* What is not slow goes on by itself; a slow upstream call does once its
\* cancel breaks it, and a row's write has a time limit of its own.
Goes(c) == c \notin slow \/ c \notin Rows \/ await[c] # "calling" \/ c \in struck

\* Whatever is ready in the one event loop runs: each piece of work takes a
\* bounded number of steps, so it is enough that some step is taken.
ShutdownFairness ==
  WF_shutdownVars(\/ ShutdownStep
                  \/ \E c \in Callers : Goes(c) /\ CallerStep(c)
                  \/ \E j \in Work : /\ (j \notin slow \/ j \in Rows)
                                      /\ (WorkEnds(j) \/ WorkUnwinds(j)))

-----------------------------------------------------------------------------
ShutdownTypeOK ==
  /\ slow \subseteq Work
  /\ await \in [Callers -> {"idle", "calling", "waiting", "shielded"} \cup Ended]
  /\ job \in [Work -> {"none", "running", "unwinding", "done", "failed", "cut", "refused"}]
  /\ struck \subseteq Callers /\ told \subseteq Work /\ answered \subseteq Handlers
  /\ drain \in {"off", "waiting", "quiet", "done"} /\ fresh \in BOOLEAN /\ lateAsked \subseteq Asked
  /\ stage \in {"up", "exiting", "stopping", "teardown", "loops", "sessions",
                "jobs", "unwind", "flush", "stores", "closed"}
  /\ closedOff \in BOOLEAN /\ left \subseteq Work /\ leftovers \subseteq Work
  /\ overran \subseteq {"requests", "jobs"}

\* Nothing runs any more when the stores are flushed and closed, unless the
\* wait for the jobs ran out (shut_down's "nothing outlives what it
\* needs"): neither what a set holds nor what only its caller does.
StoresCloseLast ==
  RefusesEverywhere /\ "jobs" \notin overran => \A j \in Work : ~Active(j)

\* No cancel of a caller, the shutdown's included, cuts an action, one of
\* its steps, an audit row or a refresh: only the job drain's end does,
\* and that never reaches what only its caller holds.
NothingIsCutShort ==
  \A c \in Callers \ Kills : job[c] \in {"unwinding", "cut"}
                             => c \in InASet /\ "jobs" \in overran

\* Work that failed is known to have: its caller got the failure, or it
\* was reported because that caller was cancelled or had left.
NoFailureIsLost ==
  \A c \in Callers : job[c] = "failed" /\ ~Alive(c) =>
    c \in told \/ await[c] = "failed" \/ (c \in Loops /\ await[c] = "cancelled")

\* The shutdown takes nothing away under what still needs it, and shows what
\* went wrong (finish_despite_cancels, drain_every_set, shut_down).
ShutdownIsOrderly == StoresCloseLast /\ NothingIsCutShort /\ NoFailureIsLost

\* A request the server gives up on had the whole drain for itself, unless
\* it came when the drain was over, or the server closedOff without one.
DrainIsWaitedFor ==
  [][stage = "stopping" /\ stage' = "teardown" /\ drain = "done" /\ "requests" \notin overran
     => ActiveRequests \subseteq lateAsked]_shutdownVars

\* Once begun, the shutdown closes the stores, whatever is slow: a wait
\* runs out only for that, so a drain waiting for something that cannot
\* end would show here.
ShutdownEnds == (stage # "up" \/ drain # "off") ~> stage = "closed"

\* The drain gives the requests the time it promises them, and no more.
DrainIsBounded == DrainIsWaitedFor /\ ShutdownEnds
=============================================================================
