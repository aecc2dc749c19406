--------------------------- MODULE ShutdownProofs ---------------------------
(***************************************************************************)
(* Proofs about Shutdown, for any amount of work of every kind: nothing    *)
(* shielded is cut short, no failure is lost, and the stores close last.   *)
(*                                                                         *)
(* The invariant IInv says who still waits for which work, and what each   *)
(* step of the shutdown has settled.  Every step is one of a few kinds     *)
(* (Waits, Begins, Ends, StageMoves, ...); the parts of the invariant are  *)
(* then preserved by each kind.                                            *)
(*                                                                         *)
(* And about ConnectionTask: a connection ends cleanly, whatever the       *)
(* number of requests in flight on it and of those who close it.           *)
(***************************************************************************)
EXTENDS Shutdown, ConnectionTask, TLAPS

-----------------------------------------------------------------------------
(* The inductive invariant                                                 *)

Early == {"up", "exiting", "stopping", "teardown", "loops"}
Overran == "jobs" \in overran

\* Only these may be left to the job drain by another step's limit.
LeftShape == left \subseteq Loops \cup Kills \cup {"sessions"}

\* Who has started work waits for it until it is over: only a tool's caller
\* may leave before, and a kill is left when it is overdue.
WaitsFor(c) == await[c] \in {"waiting", "shielded"} \/ (c \in Tools /\ await[c] = "cancelled")
Awaited ==
  /\ \A c \in Callers : Active(c) => WaitsFor(c) \/ (c \in Kills \cap left /\ job[c] = "unwinding")
  /\ \A c \in Callers : await[c] = "calling" => c \in Rows

\* The session managers' teardown is started after the loops are stopped,
\* ends with their handlers, and is left to the job drain otherwise.
Managers ==
  /\ stage \in Early => job["sessions"] = "none"
  /\ stage \notin Early => job["sessions"] \in {"running", "done"} \/ Overran
  /\ job["sessions"] = "done" => \A h \in Handlers : ~Alive(h)
  /\ stage \notin Early \cup {"sessions"} /\ job["sessions"] = "running" => "sessions" \in left
  /\ stage = "unwind" => Overran

\* A loop that outlasted its step is the job drain's.
LoopsAreLeft == stage \notin Early => \A l \in Loops : Alive(l) => l \in left

\* A step or kill is awaited within the action that reached it.
Within == ~Overran => \A n \in Nested : Alive(n) => Active(Outer[n])

\* When the job drain is over, so is everything that could start work.
AllOver ==
  RefusesEverywhere /\ ~Overran =>
    /\ \A j \in Work : ~Active(j)
    /\ \A l \in Loops : ~Alive(l)
    /\ job["sessions"] = "done"

IInv == /\ ShutdownTypeOK /\ LeftShape /\ Awaited /\ Managers /\ LoopsAreLeft /\ Within
        /\ AllOver /\ NothingIsCutShort /\ NoFailureIsLost

-----------------------------------------------------------------------------
(* The kinds of steps                                                      *)

Held == left' = left /\ stage' = stage /\ overran' = overran

\* A caller's wait goes on under the shield, or is over.
Waits(c, w) ==
  /\ c \in Callers /\ await' = [await EXCEPT ![c] = w] /\ job' = job /\ Held
  /\ \/ w = "shielded" /\ await[c] = "waiting" /\ told' = told
     \/ w = "cancelled" /\ await[c] = "shielded" /\ c \in Tools /\ Active(c) /\ told' = told
     \/ /\ w = "cancelled" /\ c \in Loops /\ await[c] \in {"idle", "returned", "failed"}
        /\ told' = told
     \/ /\ w \in {"cancelled", "failed", "returned"} /\ await[c] \in {"waiting", "shielded"}
        /\ ~Active(c) /\ told \subseteq told' /\ told' \subseteq told \cup {c}
        /\ job[c] = "failed" => w = "failed" \/ c \in told'

MayBegin(c) ==
  \/ c \in Asked \ Rows /\ await[c] = "idle" /\ stage \in {"up", "exiting"}
  \/ c \in Rows /\ await[c] = "calling"
  \/ c \in Loops /\ await[c] = "idle"
  \/ c \in Nested /\ await[c] = "idle" /\ Active(Outer[c])

Begins(c) ==
  /\ c \in Callers /\ MayBegin(c) /\ told' = told /\ Held
  /\ await' = [await EXCEPT ![c] = "waiting"] /\ job' = [job EXCEPT ![c] = "running"]

CallsUpstream(c) ==
  /\ c \in Rows /\ await[c] = "idle" /\ stage \in {"up", "exiting"}
  /\ await' = [await EXCEPT ![c] = "calling"] /\ UNCHANGED <<job, told>> /\ Held

IsRefused(n) ==
  /\ n \in Nested /\ await[n] = "idle" /\ Active(Outer[n]) /\ Refuses(n) /\ Held
  /\ await' = [await EXCEPT ![n] = "refused"] /\ job' = [job EXCEPT ![Outer[n]] = "failed"]
  /\ told' = IF await[Outer[n]] = "cancelled" THEN told \cup {Outer[n]} ELSE told

IsSpawned(j, v) ==
  /\ j \in Starts \cup Flows /\ v \in {"running", "refused"}
  /\ v = "running" => stage = "up" \/ \E w \in Writes : job[w] = "running"
  /\ job' = [job EXCEPT ![j] = v] /\ UNCHANGED <<await, told>> /\ Held

Ends(j, v) ==
  /\ j \in Work /\ job[j] = "running" /\ MayEnd(j) /\ await' = await /\ Held
  /\ v \in {"done", "failed"} /\ (v = "failed" => j \in Callers)
  /\ job' = [job EXCEPT ![j] = v]
  /\ told' = IF Reports(j, v) THEN told \cup {j} ELSE told

Unwinds(j) ==
  /\ j \in Work /\ job[j] = "unwinding" /\ job' = [job EXCEPT ![j] = "cut"]
  /\ UNCHANGED <<await, told>> /\ Held

IsOverdue(k, w) ==
  /\ k \in Kills /\ job[k] = "running" /\ job' = [job EXCEPT ![k] = "unwinding"]
  /\ w \in {"cancelled", "returned"} /\ await' = [await EXCEPT ![k] = w]
  /\ left' = left \cup {k} /\ told' = told \cup {k} /\ UNCHANGED <<stage, overran>>

StageMoves ==
  /\ UNCHANGED <<await, job, told, left>> /\ (Overran' <=> Overran)
  /\ overran' \subseteq {"requests", "jobs"}
  /\ \/ stage' = stage
     \/ stage \in Early /\ stage' \in Early
     \/ stage = "jobs" /\ stage' = "flush" /\ StillRunning = {}
     \/ stage = "unwind" /\ stage' = "flush"
     \/ stage \in {"flush", "stores"} /\ stage' \in {"stores", "closed"}

ClosesSessions ==
  /\ stage = "loops" /\ stage' = "sessions" /\ UNCHANGED <<await, told, overran>>
  /\ left' = left \cup {l \in Loops : Alive(l)}
  /\ job' = [job EXCEPT !["sessions"] = "running"]

DrainsJobs ==
  /\ stage = "sessions" /\ stage' = "jobs" /\ UNCHANGED <<await, told, overran>>
  /\ left' = IF Active("sessions") THEN left \cup {"sessions"} ELSE left
  /\ job' = [Cancelled(Flows) EXCEPT !["runtimes"] = "running"]

StopsStarts == job' = Cancelled(Starts) /\ UNCHANGED <<await, told>> /\ Held

CancelsLeftovers ==
  /\ stage = "jobs" /\ stage' = "unwind" /\ UNCHANGED <<await, told, left>>
  /\ job' = Cancelled(StillRunning \ Loops) /\ overran' = overran \cup {"jobs"}

StepKind ==
  \/ \E c \in Callers : (\E w \in {"shielded", "cancelled", "failed", "returned"} : Waits(c, w))
                        \/ Begins(c) \/ CallsUpstream(c) \/ IsRefused(c)
  \/ \E j \in Work : \/ \E v \in {"running", "refused"} : IsSpawned(j, v)
                     \/ \E v \in {"done", "failed"} : Ends(j, v)
                     \/ Unwinds(j)
  \/ \E k \in Kills, w \in {"cancelled", "returned"} : IsOverdue(k, w)
  \/ StageMoves \/ ClosesSessions \/ DrainsJobs \/ StopsStarts \/ CancelsLeftovers

\* Who is of one kind of work is of no other.
LEMMA Apart ==
  /\ \A c \in Callers : c \in Work /\ c \notin {"sessions", "runtimes"} \cup Starts \cup Flows
  /\ \A l \in Loops : l \in Callers /\ l \notin Asked \cup Nested
  /\ \A n \in Nested : n \in Callers /\ n \notin Asked \cup Loops /\ Outer[n] \in Writes \cup Tools
  /\ \A a \in Asked : a \in Callers /\ a \notin Loops \cup Nested
  /\ \A w \in Writes \cup Tools : w \in Asked /\ w \notin Rows
  /\ \A r \in Rows : r \in Handlers /\ r \notin InASet
  /\ \A k \in Kills : k \in Nested /\ k \notin InASet
  /\ {"sessions", "runtimes"} \subseteq Work /\ "sessions" \notin InASet
  /\ {"sessions", "runtimes"} \cap (Callers \cup Starts \cup Flows) = {}
  BY KindsAssumption, OuterAssumption
     DEF Callers, Work, Nested, Asked, Handlers, InASet

LEMMA StepKinds == ASSUME ShutdownTypeOK, LeftShape, [ShutdownNext]_shutdownVars PROVE StepKind
<1> USE DEF Held, StepKind
<1>1. CASE UNCHANGED shutdownVars
  BY <1>1 DEF shutdownVars, StageMoves, Overran, ShutdownTypeOK
<1>2. CASE ShutdownStep \/ BeginDrain \/ ServerToldToExit
  <2> USE DEF StageMoves, Overran, Progress, Undisturbed, Early, Drained
  <2>1. CASE DrainIdle \/ QuietOver \/ DrainTimesOut
    BY <2>1 DEF DrainIdle, QuietOver, DrainTimesOut, ShutdownTypeOK
  <2>2. CASE BeginDrain \/ ServerToldToExit \/ StopListening \/ ServerStops \/ StopLoops
    BY <2>2 DEF BeginDrain, ServerToldToExit, StopListening, ServerStops, StopLoops, ShutdownTypeOK
  <2>3. CASE JobsDrained \/ Unwound \/ FlushSignIns \/ CloseStores
    BY <2>3 DEF JobsDrained, Unwound, FlushSignIns, CloseStores, ShutdownTypeOK
  <2>4. CASE CloseSessions
    BY <2>4 DEF CloseSessions, ClosesSessions, LeftTo
  <2>5. CASE DrainJobs
    BY <2>5 DEF DrainJobs, DrainsJobs, LeftTo, CannotFinish
  <2>6. CASE StopRuntimes
    BY <2>6 DEF StopRuntimes, StopsStarts
  <2>7. CASE JobsOverdue
    BY <2>7 DEF JobsOverdue, CancelsLeftovers
  <2> QED BY <1>2, <2>1, <2>2, <2>3, <2>4, <2>5, <2>6, <2>7 DEF ShutdownStep
<1>3. ASSUME NEW c \in Callers, CallerStep(c) PROVE StepKind
  <2> USE DEF Onwards, Requests, Waits
  <2>1. CASE c \in Rows /\ WriteRow(c)
    BY <2>1 DEF WriteRow, Begins, MayBegin
  <2>2. CASE CancelReaches(c)
    BY <2>2 DEF CancelReaches
  <2>3. CASE CancelIgnored(c)
    BY <2>3 DEF CancelIgnored, StageMoves, Overran, ShutdownTypeOK
  <2>4. CASE WaitEnds(c)
    <3>1. Outcome(c) \in {"cancelled", "failed", "returned"}
      BY DEF Outcome
    <3>2. job[c] = "failed" => Outcome(c) = "failed" \/ await[c] = "shielded" \/ c \in Kills
      BY DEF Outcome
    <3> QED BY <2>4, <3>1, <3>2, Waits(c, Outcome(c)) DEF WaitEnds
  <2>5. CASE c \in Loops /\ LoopCancelled(c)
    BY <2>5 DEF LoopCancelled
  <2>6. CASE c \in Tools /\ StopWaiting(c)
    BY <2>6 DEF StopWaiting
  <2>7. CASE c \in Kills /\ KillOverdue(c)
    BY <2>7 DEF KillOverdue, LimitReached, IsOverdue
  <2> QED BY <1>3, <2>1, <2>2, <2>3, <2>4, <2>5, <2>6, <2>7 DEF CallerStep
<1>4. ASSUME NEW c \in Asked, Request(c) PROVE StepKind
  BY <1>4, Apart DEF Request, Onwards, RequestStarted, Begins, MayBegin, CallsUpstream
<1>5. CASE \E c \in Handlers : ClientCancels(c)
  BY <1>5 DEF ClientCancels, Onwards, StageMoves, Overran, ShutdownTypeOK
<1>6. ASSUME NEW l \in Loops, RefreshDue(l) PROVE StepKind
  BY <1>6, Apart DEF RefreshDue, Onwards, Begins, MayBegin
<1>7. ASSUME NEW n \in Nested, NestedBegins(n) PROVE StepKind
  <2>1. Outer[n] \in Work /\ Outer[n] # n /\ n \in Work /\ n \in Callers
    BY Apart
  <2>2. CASE ~Refuses(n)
    <3>1. job' = [job EXCEPT ![n] = "running"] /\ await' = [await EXCEPT ![n] = "waiting"]
      BY <1>7, <2>2 DEF NestedBegins
    <3>2. job'[Outer[n]] = job[Outer[n]] /\ job[Outer[n]] # "failed"
      BY <1>7, <2>1, <3>1 DEF NestedBegins, Active, ShutdownTypeOK
    <3> QED BY <1>7, <2>1, <2>2, <3>1, <3>2 DEF NestedBegins, Onwards, Begins, MayBegin
  <2>3. CASE Refuses(n)
    <3>1. job' = [job EXCEPT ![Outer[n]] = "failed"] /\ await' = [await EXCEPT ![n] = "refused"]
      BY <1>7, <2>3 DEF NestedBegins
    <3>2. job'[Outer[n]] = "failed"
      BY <2>1, <3>1 DEF ShutdownTypeOK
    <3> QED BY <1>7, <2>1, <2>3, <3>1, <3>2 DEF NestedBegins, Onwards, IsRefused
  <2> QED BY <2>2, <2>3
<1>8. CASE \E k \in Kills : CloseTimesOut(k)
  BY <1>8 DEF CloseTimesOut, Onwards, StageMoves, Overran, ShutdownTypeOK
<1>9. ASSUME NEW s \in Starts, Spawn(s) PROVE StepKind
  BY <1>9 DEF Spawn, Onwards, IsSpawned, Work
<1>10. ASSUME NEW f \in Flows, SignIn(f) PROVE StepKind
  BY <1>10 DEF SignIn, Onwards, IsSpawned, Work
<1>11. ASSUME NEW j \in Work, WorkEnds(j) PROVE StepKind
  BY <1>11 DEF WorkEnds, Onwards, Ends
<1>12. ASSUME NEW j \in Work, WorkUnwinds(j) PROVE StepKind
  BY <1>12 DEF WorkUnwinds, Onwards, Unwinds
<1> QED BY <1>1, <1>2, <1>3, <1>4, <1>5, <1>6, <1>7, <1>8, <1>9, <1>10, <1>11, <1>12
        DEF ShutdownNext

-----------------------------------------------------------------------------
(* The parts of the invariant, one by one                                  *)

Awaits == {"idle", "calling", "waiting", "shielded"} \cup Ended
Jobs == {"none", "running", "unwinding", "done", "failed", "cut", "refused"}

\* A cancel changes only how far what it reaches is.
LEMMA CancelledJobs ==
  ASSUME ShutdownTypeOK, NEW S
  PROVE  /\ Cancelled(S) \in [Work -> Jobs]
         /\ \A j \in Work : \/ Cancelled(S)[j] = job[j]
                            \/ j \in S /\ job[j] = "running" /\ Cancelled(S)[j] = "unwinding"
  BY DEF ShutdownTypeOK, Cancelled, Jobs

LEMMA ShapeInit == ShutdownInit => ShutdownTypeOK
  BY DEF ShutdownInit, ShutdownTypeOK, Ended

\* What the variables of the invariant hold.
LEMMA ShapeOfWork ==
  ASSUME ShutdownTypeOK, LeftShape, [ShutdownNext]_shutdownVars
  PROVE  /\ await' \in [Callers -> Awaits] /\ job' \in [Work -> Jobs] /\ told' \subseteq Work
         /\ left' \subseteq Work /\ overran' \subseteq {"requests", "jobs"}
<1> DEFINE Typed == /\ await' \in [Callers -> Awaits] /\ job' \in [Work -> Jobs]
                    /\ told' \subseteq Work /\ left' \subseteq Work
                    /\ overran' \subseteq {"requests", "jobs"}
<1> SUFFICES Typed
  OBVIOUS
<1> USE DEF ShutdownTypeOK, Awaits, Jobs, Ended, Held
<1>1. StepKind
  BY StepKinds
<1>2. ASSUME NEW c \in Callers, NEW w \in {"shielded", "cancelled", "failed", "returned"},
             Waits(c, w)
      PROVE  Typed
  BY <1>2, Apart DEF Waits
<1>3. ASSUME NEW c \in Callers, Begins(c) \/ CallsUpstream(c) \/ IsRefused(c) PROVE Typed
  <2>1. c \in Work /\ (IsRefused(c) => Outer[c] \in Work)
    BY Apart DEF IsRefused
  <2>2. CASE Begins(c)
    BY <2>1, <2>2 DEF Begins
  <2>3. CASE CallsUpstream(c)
    BY <2>3 DEF CallsUpstream
  <2>4. CASE IsRefused(c)
    <3>1. await' \in [Callers -> Awaits] /\ job' \in [Work -> Jobs]
      BY <2>4 DEF IsRefused
    <3> QED BY <2>1, <2>4, <3>1 DEF IsRefused
  <2> QED BY <1>3, <2>2, <2>3, <2>4
<1>4. ASSUME NEW j \in Work, NEW v \in {"running", "refused", "done", "failed"},
             IsSpawned(j, v) \/ Ends(j, v) \/ Unwinds(j)
      PROVE  Typed
  BY <1>4 DEF IsSpawned, Ends, Unwinds
<1>5. ASSUME NEW k \in Kills, NEW w \in {"cancelled", "returned"}, IsOverdue(k, w) PROVE Typed
  BY <1>5, Apart DEF IsOverdue, Nested
<1>6. CASE StageMoves \/ StopsStarts \/ CancelsLeftovers
  <2>1. CASE StageMoves
    BY <2>1 DEF StageMoves
  <2>2. CASE StopsStarts
    <3>1. Cancelled(Starts) \in [Work -> Jobs]
      BY CancelledJobs
    <3> QED BY <2>2, <3>1 DEF StopsStarts
  <2>3. CASE CancelsLeftovers
    <3>1. Cancelled(StillRunning \ Loops) \in [Work -> Jobs]
      BY CancelledJobs
    <3> QED BY <2>3, <3>1 DEF CancelsLeftovers
  <2> QED BY <1>6, <2>1, <2>2, <2>3
<1>7. CASE ClosesSessions \/ DrainsJobs
  <2>1. Cancelled(Flows) \in [Work -> Jobs] /\ Loops \subseteq Work /\ "sessions" \in Work
    BY Apart, CancelledJobs
  <2>2. CASE ClosesSessions
    BY <2>1, <2>2 DEF ClosesSessions
  <2>3. CASE DrainsJobs
    BY <2>1, <2>3 DEF DrainsJobs
  <2> QED BY <1>7, <2>2, <2>3
<1> QED BY <1>1, <1>2, <1>3, <1>4, <1>5, <1>6, <1>7 DEF StepKind

\* What the others hold.
LEMMA ShapeOfRest ==
  ASSUME ShutdownTypeOK, LeftShape, [ShutdownNext]_shutdownVars
  PROVE  /\ slow' \subseteq Work /\ struck' \subseteq Callers /\ answered' \subseteq Handlers
         /\ drain' \in {"off", "waiting", "quiet", "done"} /\ fresh' \in BOOLEAN
         /\ lateAsked' \subseteq Asked /\ closedOff' \in BOOLEAN /\ leftovers' \subseteq Work
         /\ stage' \in {"up", "exiting", "stopping", "teardown", "loops", "sessions",
                        "jobs", "unwind", "flush", "stores", "closed"}
<1> USE DEF ShutdownTypeOK, Onwards, Requests, Progress, Undisturbed
<1>0. StillRunning \subseteq Work /\ StillRunning \cap Loops \subseteq Callers
      /\ (\A S : StepsOf(S) \subseteq Callers) /\ Loops \subseteq Callers /\ Handlers \subseteq Callers
      /\ Writes \subseteq Callers /\ Kills \subseteq Callers /\ Nested \subseteq Callers
  BY Apart DEF StillRunning, InASet, StepsOf, Work, Callers, Asked, Nested, LeftShape
<1>1. CASE UNCHANGED shutdownVars
  BY <1>1 DEF shutdownVars
<1>2. CASE ShutdownStep \/ BeginDrain \/ ServerToldToExit
  <2>1. CASE DrainIdle \/ QuietOver \/ DrainTimesOut \/ BeginDrain \/ ServerToldToExit
    BY <2>1 DEF DrainIdle, QuietOver, DrainTimesOut, BeginDrain, ServerToldToExit, Drained
  <2>2. CASE StopListening \/ ServerStops \/ StopLoops
    BY <1>0, <2>2 DEF StopListening, ServerStops, StopLoops
  <2>3. CASE JobsDrained \/ Unwound \/ FlushSignIns \/ CloseStores
    BY <2>3 DEF JobsDrained, Unwound, FlushSignIns, CloseStores
  <2>4. CASE CloseSessions \/ DrainJobs \/ StopRuntimes
    BY <1>0, <2>4 DEF CloseSessions, DrainJobs, StopRuntimes
  <2>5. CASE JobsOverdue
    BY <1>0, <2>5 DEF JobsOverdue
  <2> QED BY <1>2, <2>1, <2>2, <2>3, <2>4, <2>5 DEF ShutdownStep
<1>3. ASSUME NEW c \in Callers, CallerStep(c)
      PROVE  /\ UNCHANGED <<slow, answered, drain, fresh, lateAsked, closedOff, leftovers, stage>>
             /\ struck' \subseteq struck
  BY <1>3 DEF CallerStep, WriteRow, CancelReaches, CancelIgnored, WaitEnds, LoopCancelled,
              StopWaiting, KillOverdue
<1>4. ASSUME NEW c \in Asked, Request(c)
      PROVE  /\ UNCHANGED <<slow, struck, answered, drain, closedOff, leftovers, stage>>
             /\ fresh' \in BOOLEAN /\ lateAsked' \subseteq Asked
  BY <1>4 DEF Request, RequestStarted
<1>5. ASSUME NEW c \in Handlers, ClientCancels(c)
      PROVE  /\ UNCHANGED <<slow, drain, fresh, lateAsked, closedOff, leftovers, stage>>
             /\ struck' \subseteq Callers /\ answered' \subseteq Handlers
  BY <1>0, <1>5 DEF ClientCancels
<1>6. ASSUME NEW k \in Kills, CloseTimesOut(k)
      PROVE  /\ UNCHANGED <<slow, answered, drain, fresh, lateAsked, closedOff, leftovers, stage>>
             /\ struck' \subseteq Callers
  BY <1>0, <1>6 DEF CloseTimesOut
<1>7. CASE \/ \E l \in Loops : RefreshDue(l)
           \/ \E n \in Nested : NestedBegins(n)
           \/ \E s \in Starts : Spawn(s)
           \/ \E f \in Flows : SignIn(f)
           \/ \E j \in Work : WorkEnds(j) \/ WorkUnwinds(j)
  <2>1. UNCHANGED <<slow, struck, answered, drain, fresh, lateAsked, closedOff, leftovers, stage>>
    BY <1>7 DEF RefreshDue, NestedBegins, Spawn, SignIn, WorkEnds, WorkUnwinds
  <2> QED BY <2>1
<1> QED BY <1>1, <1>2, <1>3, <1>4, <1>5, <1>6, <1>7 DEF ShutdownNext

LEMMA ShapeNext == ShutdownTypeOK /\ LeftShape /\ [ShutdownNext]_shutdownVars => ShutdownTypeOK'
  BY ShapeOfWork, ShapeOfRest DEF ShutdownTypeOK, Awaits, Jobs

LEMMA LeftShapeNext ==
  ShutdownTypeOK /\ LeftShape /\ [ShutdownNext]_shutdownVars => LeftShape'
<1> SUFFICES ASSUME ShutdownTypeOK, LeftShape, [ShutdownNext]_shutdownVars PROVE LeftShape'
  OBVIOUS
<1> QED BY StepKinds DEF StepKind, LeftShape, Held, Waits, Begins, CallsUpstream, IsRefused,
           IsSpawned, Ends, Unwinds, IsOverdue, StageMoves, ClosesSessions, DrainsJobs,
           StopsStarts, CancelsLeftovers

\* What is left to the job drain stays so.
LEMMA LeftGrows == StepKind => left \subseteq left'
  BY DEF StepKind, Held, Waits, Begins, CallsUpstream, IsRefused, IsSpawned, Ends, Unwinds,
         IsOverdue, StageMoves, ClosesSessions, DrainsJobs, StopsStarts, CancelsLeftovers

\* A step of the shutdown leaves its callers alone, and only cancels jobs.
Cancels ==
  /\ await' = await /\ told' = told
  /\ \A c \in Work \ {"sessions", "runtimes"} :
       job'[c] = job[c] \/ (job[c] = "running" /\ job'[c] = "unwinding")

LEMMA ShutdownCancels ==
  ASSUME ShutdownTypeOK,
         StageMoves \/ ClosesSessions \/ DrainsJobs \/ StopsStarts \/ CancelsLeftovers
  PROVE  Cancels
<1> USE DEF Cancels
<1>1. CASE StageMoves \/ ClosesSessions
  BY <1>1 DEF StageMoves, ClosesSessions, ShutdownTypeOK
<1>2. ASSUME NEW S, job' = Cancelled(S) \/ job' = [Cancelled(S) EXCEPT !["runtimes"] = "running"],
             await' = await, told' = told
      PROVE  Cancels
  BY <1>2, CancelledJobs
<1> QED BY <1>1, <1>2 DEF DrainsJobs, StopsStarts, CancelsLeftovers

LEMMA AwaitedNext == ASSUME ShutdownTypeOK, Awaited, LeftShape, StepKind PROVE Awaited'
<1> DEFINE Fine(c) == /\ Active(c) => WaitsFor(c) \/ (c \in Kills \cap left /\ job[c] = "unwinding")
                      /\ await[c] = "calling" => c \in Rows
<1> SUFFICES ASSUME NEW d \in Callers PROVE Fine(d)'
  BY DEF Awaited
<1> USE DEF Active, WaitsFor, ShutdownTypeOK, Held
<1>1. Fine(d) /\ left \subseteq left' /\ d \in Work /\ d \notin {"sessions", "runtimes"} \cup Starts \cup Flows
  BY Apart, LeftGrows DEF Awaited
<1>2. ASSUME await'[d] = await[d], job'[d] = job[d] PROVE Fine(d)'
  BY <1>1, <1>2
<1>3. ASSUME NEW c \in Callers, NEW w \in {"shielded", "cancelled", "failed", "returned"},
             Waits(c, w)
      PROVE  Fine(d)'
  <2>1. CASE c = d
    BY <1>1, <1>3, <2>1, Apart DEF Waits
  <2> QED BY <1>2, <1>3, <2>1 DEF Waits
<1>4. ASSUME NEW c \in Callers, Begins(c) \/ CallsUpstream(c) PROVE Fine(d)'
  <2>1. CASE c = d
    BY <1>1, <1>4, <2>1, Apart DEF Begins, CallsUpstream
  <2>2. CASE c # d
    <3>1. await'[d] = await[d] /\ job'[d] = job[d]
      BY <1>1, <1>4, <2>2 DEF Begins, CallsUpstream
    <3> QED BY <1>2, <3>1
  <2> QED BY <2>1, <2>2
<1>5. ASSUME NEW n \in Callers, IsRefused(n) PROVE Fine(d)'
  <2>1. n # Outer[n]
    BY <1>5, Apart DEF IsRefused
  <2>2. CASE d = n
    BY <1>1, <1>5, <2>1, <2>2, Apart DEF IsRefused
  <2>3. CASE d = Outer[n]
    BY <1>1, <1>5, <2>1, <2>3 DEF IsRefused
  <2> QED BY <1>2, <1>5, <2>2, <2>3 DEF IsRefused
<1>6. ASSUME NEW j \in Work, NEW v \in {"running", "refused", "done", "failed"},
             IsSpawned(j, v) \/ Ends(j, v) \/ Unwinds(j)
      PROVE  Fine(d)'
  BY <1>1, <1>2, <1>6 DEF IsSpawned, Ends, Unwinds
<1>7. ASSUME NEW k \in Kills, NEW w \in {"cancelled", "returned"}, IsOverdue(k, w) PROVE Fine(d)'
  BY <1>1, <1>2, <1>7 DEF IsOverdue
<1>8. CASE StageMoves \/ ClosesSessions \/ DrainsJobs \/ StopsStarts \/ CancelsLeftovers
  BY <1>1, <1>8, ShutdownCancels DEF Cancels
<1> QED BY <1>3, <1>4, <1>5, <1>6, <1>7, <1>8 DEF StepKind

-----------------------------------------------------------------------------
(* What the steps of the shutdown have settled                             *)

\* Nothing shielded is cut before the job drain runs out.
LEMMA UncutNext ==
  ASSUME ShutdownTypeOK, LeftShape, NothingIsCutShort, StepKind PROVE NothingIsCutShort'
<1> SUFFICES ASSUME NEW d \in Callers \ Kills, job'[d] \in {"unwinding", "cut"}
             PROVE  d \in InASet /\ Overran'
  BY DEF NothingIsCutShort, Overran
<1> USE DEF ShutdownTypeOK, Held, Overran
<1>1. /\ job[d] \in {"unwinding", "cut"} => d \in InASet /\ Overran
      /\ d \in Work /\ d \notin {"sessions", "runtimes"} \cup Starts \cup Flows
  BY Apart DEF NothingIsCutShort
<1>2. Overran => Overran'
  BY DEF StepKind, Waits, Begins, CallsUpstream, IsRefused, IsSpawned, Ends, Unwinds, IsOverdue,
         StageMoves, ClosesSessions, DrainsJobs, StopsStarts, CancelsLeftovers
<1>3. CASE CancelsLeftovers
  <2>1. job'[d] = job[d] \/ d \in StillRunning \ Loops
    BY <1>1, <1>3, CancelledJobs DEF CancelsLeftovers
  <2>2. d \in StillRunning \ Loops => d \in InASet
    BY <1>1 DEF StillRunning, LeftShape
  <2> QED BY <1>1, <1>3, <2>1, <2>2 DEF CancelsLeftovers
<1>4. CASE DrainsJobs \/ StopsStarts
  <2>1. job'[d] = job[d]
    BY <1>1, <1>4, CancelledJobs DEF DrainsJobs, StopsStarts
  <2> QED BY <1>1, <1>2, <2>1
<1>5. CASE StageMoves \/ ClosesSessions
  BY <1>1, <1>2, <1>5 DEF StageMoves, ClosesSessions
<1>6. ASSUME NEW c \in Callers,
             \/ \E w \in {"shielded", "cancelled", "failed", "returned"} : Waits(c, w)
             \/ Begins(c) \/ CallsUpstream(c) \/ IsRefused(c)
      PROVE  job[d] \in {"unwinding", "cut"}
  BY <1>1, <1>6 DEF Waits, Begins, CallsUpstream, IsRefused
<1>7. ASSUME NEW j \in Work, NEW v \in {"running", "refused", "done", "failed"},
             IsSpawned(j, v) \/ Ends(j, v) \/ Unwinds(j)
      PROVE  job[d] \in {"unwinding", "cut"}
  BY <1>1, <1>7 DEF IsSpawned, Ends, Unwinds
<1>8. ASSUME NEW k \in Kills, NEW w \in {"cancelled", "returned"}, IsOverdue(k, w)
      PROVE  job[d] \in {"unwinding", "cut"}
  BY <1>1, <1>8 DEF IsOverdue
<1> QED BY <1>1, <1>2, <1>3, <1>4, <1>5, <1>6, <1>7, <1>8 DEF StepKind

\* Once the server has stopped no handler begins.
LEMMA HandlersStayDead ==
  ASSUME ShutdownTypeOK, StepKind, stage \notin Early, NEW h \in Handlers, ~Alive(h)
  PROVE  ~Alive(h)'
<1> USE DEF ShutdownTypeOK, Early, Ended
<1>1. await[h] \in Ended \cup {"idle"} /\ h \in Callers /\ h \in Asked /\ h \notin Loops \cup Nested
  BY Apart DEF Alive, Asked
<1>2. await'[h] = await[h] => ~Alive(h)'
  BY <1>1 DEF Alive
<1>3. ASSUME NEW c \in Callers,
             \/ \E w \in {"shielded", "cancelled", "failed", "returned"} : Waits(c, w)
             \/ Begins(c) \/ CallsUpstream(c) \/ IsRefused(c)
      PROVE  await'[h] = await[h]
  <2>1. c # h
    BY <1>1, <1>3 DEF Waits, Begins, MayBegin, CallsUpstream, IsRefused
  <2> QED BY <1>1, <1>3, <2>1 DEF Waits, Begins, CallsUpstream, IsRefused
<1>4. ASSUME NEW k \in Kills, NEW w \in {"cancelled", "returned"}, IsOverdue(k, w)
      PROVE  await'[h] = await[h]
  BY <1>1, <1>4 DEF IsOverdue, Nested
<1> QED BY <1>2, <1>3, <1>4
        DEF StepKind, IsSpawned, Ends, Unwinds, StageMoves, ClosesSessions, DrainsJobs,
            StopsStarts, CancelsLeftovers

LEMMA OverrunStays == StepKind => (Overran => Overran')
  BY DEF StepKind, Held, Waits, Begins, CallsUpstream, IsRefused, IsSpawned, Ends, Unwinds,
         IsOverdue, StageMoves, ClosesSessions, DrainsJobs, StopsStarts, CancelsLeftovers, Overran

LEMMA ManagersNext ==
  ASSUME ShutdownTypeOK, LeftShape, Managers, StepKind PROVE Managers'
<1> USE DEF ShutdownTypeOK, Held, Early
<1>0. left \subseteq left' /\ (Overran => Overran') /\ "sessions" \in Work
      /\ "sessions" \notin Callers \cup Starts \cup Flows
  BY LeftGrows, OverrunStays, Apart
<1> DEFINE Dead == \A h \in Handlers : ~Alive(h)
<1>1. stage \notin Early /\ Dead => Dead'
  BY HandlersStayDead
<1> HIDE DEF Dead
<1>2. /\ stage \in Early => job["sessions"] = "none"
      /\ stage \notin Early => job["sessions"] \in {"running", "done"} \/ Overran
      /\ job["sessions"] = "done" => Dead
      /\ stage \notin Early \cup {"sessions"} /\ job["sessions"] = "running" => "sessions" \in left
      /\ stage = "unwind" => Overran
  BY DEF Managers, Dead
<1> DEFINE Goal ==
      /\ stage' \in Early => job'["sessions"] = "none"
      /\ stage' \notin Early => job'["sessions"] \in {"running", "done"} \/ Overran'
      /\ job'["sessions"] = "done" => Dead'
      /\ stage' \notin Early \cup {"sessions"} /\ job'["sessions"] = "running" => "sessions" \in left'
      /\ stage' = "unwind" => Overran'
<1> SUFFICES Goal
  BY DEF Managers, Dead
<1>3. stage' = stage /\ job'["sessions"] = job["sessions"] => Goal
  BY <1>0, <1>1, <1>2
<1>4. ASSUME NEW c \in Callers,
             \/ \E w \in {"shielded", "cancelled", "failed", "returned"} : Waits(c, w)
             \/ Begins(c) \/ CallsUpstream(c) \/ IsRefused(c)
      PROVE  stage' = stage /\ job'["sessions"] = job["sessions"]
  <2>1. IsRefused(c) => Outer[c] \in Callers
    BY Apart DEF IsRefused
  <2> QED BY <1>0, <1>4, <2>1 DEF Waits, Begins, CallsUpstream, IsRefused
<1>5. ASSUME NEW j \in Work, NEW v \in {"running", "refused"}, IsSpawned(j, v)
      PROVE  stage' = stage /\ job'["sessions"] = job["sessions"]
  BY <1>0, <1>5 DEF IsSpawned
<1>6. ASSUME NEW k \in Kills, NEW w \in {"cancelled", "returned"}, IsOverdue(k, w)
      PROVE  stage' = stage /\ job'["sessions"] = job["sessions"]
  BY <1>0, <1>6 DEF IsOverdue, Callers, Nested
<1>7. ASSUME NEW j \in Work, NEW v \in {"done", "failed"}, Ends(j, v) PROVE Goal
  <2>1. CASE j = "sessions"
    <3>1. job'["sessions"] = "done" /\ stage' = stage /\ job["sessions"] = "running"
      BY <1>0, <1>7, <2>1 DEF Ends
    <3>2. Dead
      BY <1>7, <2>1 DEF Ends, MayEnd, Dead
    <3> QED BY <1>0, <1>1, <1>2, <3>1, <3>2
  <2> QED BY <1>0, <1>3, <1>7, <2>1 DEF Ends
<1>8. ASSUME NEW j \in Work, Unwinds(j) PROVE Goal
  <2>1. CASE j = "sessions"
    <3>1. job'["sessions"] = "cut" /\ stage' = stage /\ job["sessions"] = "unwinding"
      BY <1>0, <1>8, <2>1 DEF Unwinds
    <3> QED BY <1>0, <1>2, <3>1
  <2> QED BY <1>0, <1>3, <1>8, <2>1 DEF Unwinds
<1>9. CASE StageMoves
  <2>1. job'["sessions"] = job["sessions"] /\ left' = left /\ (Dead <=> Dead')
    BY <1>9 DEF StageMoves, Dead, Alive
  <2> QED BY <1>0, <1>2, <1>9, <2>1 DEF StageMoves
<1>10. CASE ClosesSessions
  BY <1>0, <1>10 DEF ClosesSessions
<1>11. CASE DrainsJobs
  <2>1. job'["sessions"] = job["sessions"]
    BY <1>0, <1>11, CancelledJobs DEF DrainsJobs
  <2> QED BY <1>0, <1>1, <1>2, <1>11, <2>1 DEF DrainsJobs, Active
<1>12. CASE StopsStarts
  <2>1. job'["sessions"] = job["sessions"]
    BY <1>0, <1>12, CancelledJobs DEF StopsStarts
  <2> QED BY <1>3, <1>12, <2>1 DEF StopsStarts
<1>13. CASE CancelsLeftovers
  <2>1. Overran' /\ stage' = "unwind"
    BY <1>13 DEF CancelsLeftovers, Overran
  <2>2. \/ job'["sessions"] = job["sessions"]
        \/ job["sessions"] = "running" /\ job'["sessions"] = "unwinding"
    BY <1>0, <1>13, CancelledJobs DEF CancelsLeftovers
  <2> QED BY <1>0, <1>1, <1>2, <1>13, <2>1, <2>2 DEF CancelsLeftovers
<1> QED BY <1>3, <1>4, <1>5, <1>6, <1>7, <1>8, <1>9, <1>10, <1>11, <1>12, <1>13 DEF StepKind

LEMMA LoopsAreLeftNext ==
  ASSUME ShutdownTypeOK, LoopsAreLeft, StepKind PROVE LoopsAreLeft'
<1> SUFFICES ASSUME stage' \notin Early, NEW l \in Loops, await'[l] # "cancelled" PROVE l \in left'
  BY DEF LoopsAreLeft, Alive
<1>1. await[l] # "cancelled" => (stage \notin Early => l \in left) /\ Alive(l)
  BY DEF LoopsAreLeft, Alive
<1>2. left \subseteq left' /\ l \in Callers /\ l \notin Asked \cup Nested \cup Rows \cup Tools
  BY LeftGrows, Apart DEF Asked, Handlers
<1>3. await[l] # "cancelled"
  BY <1>2 DEF StepKind, ShutdownTypeOK, Held, Waits, Begins, MayBegin, CallsUpstream, IsRefused,
              IsSpawned, Ends, Unwinds, IsOverdue, Nested, StageMoves, ClosesSessions, DrainsJobs,
              StopsStarts, CancelsLeftovers
<1>4. CASE ClosesSessions
  BY <1>1, <1>3, <1>4 DEF ClosesSessions
<1>5. CASE ~ClosesSessions
  <2>1. stage \notin Early
    BY <1>5 DEF StepKind, Held, Waits, Begins, CallsUpstream, IsRefused, IsSpawned, Ends, Unwinds,
                IsOverdue, StageMoves, DrainsJobs, StopsStarts, CancelsLeftovers, Early
  <2> QED BY <1>1, <1>2, <1>3, <2>1
<1> QED BY <1>4, <1>5

LEMMA WithinNext ==
  ASSUME ShutdownTypeOK, LeftShape, Within, AllOver, NothingIsCutShort, StepKind PROVE Within'
<1> SUFFICES ASSUME ~Overran', NEW n \in Nested, Alive(n)' PROVE Active(Outer[n])'
  BY DEF Within
<1> DEFINE o == Outer[n]
<1> USE DEF ShutdownTypeOK, Held
<1>1. /\ n \in Callers /\ n \in Work /\ n \notin Loops \cup Asked /\ o \in Writes \cup Tools
      /\ o \in Callers \ Kills /\ o \in Work /\ o # n /\ o \notin Starts \cup Flows
      /\ o \notin {"sessions", "runtimes"} /\ n \notin Rows
  BY Apart DEF Nested, Asked, Handlers
<1>2. ~Overran /\ (Alive(n) => Active(o))
  BY OverrunStays DEF Within
<1> HIDE DEF o
<1>3. await'[n] = await[n] => Alive(n)
  BY <1>1 DEF Alive
<1>4. CASE await'[n] = await[n] /\ job'[o] = job[o]
  BY <1>2, <1>3, <1>4 DEF Active, o
<1>5. ASSUME NEW c \in Callers, NEW w \in {"shielded", "cancelled", "failed", "returned"},
             Waits(c, w)
      PROVE  Active(Outer[n])'
  <2>1. Alive(n)
    <3>1. CASE c = n
      BY <1>1, <1>5, <3>1 DEF Waits, Alive, Ended
    <3> QED BY <1>1, <1>3, <1>5, <3>1 DEF Waits
  <2> QED BY <1>2, <1>5, <2>1 DEF Waits, Active, o
<1>6. ASSUME NEW c \in Callers, Begins(c) PROVE Active(Outer[n])'
  <2>1. CASE c = n
    BY <1>1, <1>6, <2>1 DEF Begins, MayBegin, Active, o
  <2>2. CASE c = o
    BY <1>1, <1>6, <2>2 DEF Begins, Active, o
  <2> QED BY <1>1, <1>4, <1>6, <2>1, <2>2 DEF Begins
<1>7. ASSUME NEW c \in Callers, CallsUpstream(c) PROVE await'[n] = await[n] /\ job'[o] = job[o]
  BY <1>1, <1>7 DEF CallsUpstream
<1>8. ASSUME NEW m \in Callers, IsRefused(m) PROVE FALSE
  <2>1. Outer[m] \in Work /\ Active(Outer[m]) /\ m \notin Starts
    BY <1>8, Apart DEF IsRefused
  <2>2. RefusesEverywhere
    BY <1>8, <2>1 DEF IsRefused, Refuses
  <2> QED BY <1>2, <2>1, <2>2 DEF AllOver
<1>9. ASSUME NEW j \in Work, NEW v \in {"running", "refused"}, IsSpawned(j, v)
      PROVE  await'[n] = await[n] /\ job'[o] = job[o]
  BY <1>1, <1>9 DEF IsSpawned
<1>10. ASSUME NEW j \in Work, NEW v \in {"done", "failed"}, Ends(j, v)
       PROVE  await'[n] = await[n] /\ job'[o] = job[o]
  BY <1>3, <1>10 DEF Ends, MayEnd, o
<1>11. ASSUME NEW j \in Work, Unwinds(j) PROVE await'[n] = await[n] /\ job'[o] = job[o]
  <2>1. j # o
    BY <1>1, <1>2, <1>11 DEF Unwinds, NothingIsCutShort, Overran
  <2> QED BY <1>11, <2>1 DEF Unwinds
<1>12. ASSUME NEW k \in Kills, NEW w \in {"cancelled", "returned"}, IsOverdue(k, w)
       PROVE  await'[n] = await[n] /\ job'[o] = job[o]
  <2>1. k # n
    BY <1>1, <1>12 DEF IsOverdue, Alive, Ended
  <2> QED BY <1>1, <1>12, <2>1 DEF IsOverdue
<1>13. CASE StageMoves \/ ClosesSessions \/ DrainsJobs \/ StopsStarts \/ CancelsLeftovers
  BY <1>1, <1>2, <1>3, <1>13, ShutdownCancels DEF Cancels, Active, o
<1> QED BY <1>4, <1>5, <1>6, <1>7, <1>8, <1>9, <1>10, <1>11, <1>12, <1>13 DEF StepKind

\* The job drain that ended with nothing running left nothing anywhere: not
\* in a set, and not with a caller of its own.
LEMMA DrainedIsOver ==
  ASSUME ShutdownTypeOK, Awaited, Managers, LoopsAreLeft, Within,
         stage = "jobs", StillRunning = {}, ~Overran
  PROVE  /\ \A j \in Work : ~Active(j)
         /\ \A l \in Loops : ~Alive(l)
         /\ job["sessions"] = "done"
<1>1. /\ \A j \in (InASet \cup left) \ Loops : ~Active(j)
      /\ \A l \in left \cap Loops : ~Alive(l)
  BY DEF StillRunning
<1>2. job["sessions"] = "done"
  <2>1. job["sessions"] \in {"running", "done"} /\ (job["sessions"] = "running" => "sessions" \in left)
    BY DEF Managers, Early
  <2> QED BY <1>1, <2>1, Apart DEF Active
<1>3. \A h \in Handlers : ~Alive(h)
  BY <1>2 DEF Managers
<1>4. \A l \in Loops : ~Alive(l)
  BY <1>1 DEF LoopsAreLeft, Early
<1>5. \A c \in Callers : WaitsFor(c) /\ c \notin Tools => Alive(c)
  BY Apart DEF WaitsFor, Alive, Ended
<1>6. \A k \in Kills : ~Active(k)
  <2> SUFFICES ASSUME NEW k \in Kills, Active(k) PROVE FALSE
    OBVIOUS
  <2>1. k \in Callers /\ k \in Nested /\ k \notin Tools /\ k \notin Loops
        /\ Outer[k] \in InASet /\ Outer[k] \notin Loops
    BY Apart DEF InASet, Asked, Handlers
  <2>2. k \notin left
    BY <1>1, <2>1
  <2>3. Alive(k)
    BY <1>5, <2>1, <2>2 DEF Awaited
  <2> QED BY <1>1, <2>1, <2>3 DEF Within
<1>7. \A l \in Loops \cup Rows : ~Active(l)
  <2> SUFFICES ASSUME NEW l \in Loops \cup Rows, Active(l) PROVE FALSE
    OBVIOUS
  <2>1. l \in Callers /\ l \notin Tools /\ l \notin Kills /\ (l \in Rows => l \in Handlers)
    BY Apart, KindsAssumption DEF Nested, Asked, Handlers, Callers
  <2>2. Alive(l)
    BY <1>5, <2>1 DEF Awaited
  <2> QED BY <1>3, <1>4, <2>1, <2>2
<1>8. \A j \in InASet : ~Active(j)
  BY <1>1, <1>7
<1>9. Work \subseteq InASet \cup Kills \cup Loops \cup Rows \cup {"sessions"}
  BY DEF Work, InASet, Callers, Asked, Handlers, Nested
<1> QED BY <1>2, <1>4, <1>6, <1>7, <1>8, <1>9 DEF Active

LEMMA AllOverNext ==
  ASSUME ShutdownTypeOK, Awaited, Managers, LoopsAreLeft, Within, AllOver, StepKind PROVE AllOver'
<1> SUFFICES ASSUME RefusesEverywhere', ~Overran'
             PROVE  /\ \A j \in Work : ~Active(j)'
                    /\ \A l \in Loops : ~Alive(l)'
                    /\ job'["sessions"] = "done"
  BY DEF AllOver
<1>1. ~Overran
  BY OverrunStays
<1>2. CASE StageMoves
  <2>1. /\ \A j \in Work : ~Active(j)
        /\ \A l \in Loops : ~Alive(l)
        /\ job["sessions"] = "done"
    <3>1. \/ RefusesEverywhere
          \/ stage = "jobs" /\ StillRunning = {}
          \/ stage = "unwind"
      BY <1>2 DEF StageMoves, RefusesEverywhere, Early
    <3> QED BY <1>1, <3>1, DrainedIsOver DEF AllOver, Managers
  <2> QED BY <1>2, <2>1 DEF StageMoves, Active, Alive
<1>3. CASE ~StageMoves
  <2>1. RefusesEverywhere
    BY <1>3 DEF StepKind, Held, Waits, Begins, CallsUpstream, IsRefused, IsSpawned, Ends, Unwinds,
                IsOverdue, ClosesSessions, DrainsJobs, StopsStarts, CancelsLeftovers, RefusesEverywhere
  <2>2. /\ \A j \in Work : ~Active(j)
        /\ \A l \in Loops : await[l] = "cancelled"
        /\ job["sessions"] = "done"
        /\ \A h \in Handlers : ~Alive(h)
    BY <1>1, <2>1 DEF AllOver, Managers, Alive
  <2>3. Callers \subseteq Work /\ Kills \subseteq Work /\ Loops \subseteq Callers
        /\ Writes \subseteq Work
    BY DEF Work, Callers, Nested, Asked
  <2>4. ASSUME NEW c \in Callers, NEW w \in {"shielded", "cancelled", "failed", "returned"},
               Waits(c, w)
        PROVE  job' = job /\ \A l \in Loops : await'[l] = await[l]
    BY <2>2, <2>3, <2>4, Apart DEF Waits, ShutdownTypeOK
  <2>5. ASSUME NEW c \in Callers, Begins(c) \/ CallsUpstream(c) \/ IsRefused(c) PROVE FALSE
    <3>1. stage \notin {"up", "exiting"}
      BY <2>1 DEF RefusesEverywhere
    <3>2. c \in Rows => await[c] # "calling"
      BY <2>2, Apart DEF Alive, Ended
    <3>3. c \in Nested => ~Active(Outer[c])
      BY <2>2, Apart
    <3> QED BY <2>2, <2>5, <3>1, <3>2, <3>3 DEF Begins, MayBegin, CallsUpstream, IsRefused
  <2>6. ASSUME NEW j \in Work, NEW v \in {"running", "refused"}, IsSpawned(j, v)
        PROVE  /\ \A i \in Work : ~Active(i)'
               /\ await' = await /\ job'["sessions"] = "done"
    <3>1. v = "refused"
      BY <2>1, <2>2, <2>3, <2>6 DEF IsSpawned, RefusesEverywhere, Active
    <3> QED BY <2>2, <2>6, <3>1, Apart DEF IsSpawned, Active, ShutdownTypeOK
  <2>7. ASSUME NEW j \in Work, (\E v \in {"done", "failed"} : Ends(j, v)) \/ Unwinds(j) PROVE FALSE
    BY <2>2, <2>7 DEF Ends, Unwinds, Active
  <2>8. ~(\E k \in Kills, w \in {"cancelled", "returned"} : IsOverdue(k, w))
    BY <2>2, <2>3 DEF IsOverdue, Active
  <2>9. ~ClosesSessions /\ ~DrainsJobs /\ ~CancelsLeftovers
    BY <2>1 DEF ClosesSessions, DrainsJobs, CancelsLeftovers, RefusesEverywhere
  <2>10. CASE StopsStarts
    <3>1. \A j \in Work : job'[j] = job[j]
      BY <2>2, <2>10, CancelledJobs DEF StopsStarts, Active
    <3> QED BY <2>2, <2>10, <3>1, Apart DEF StopsStarts, Active, Alive
  <2> QED BY <1>3, <2>2, <2>4, <2>5, <2>6, <2>7, <2>8, <2>9, <2>10 DEF StepKind, Active, Alive
<1> QED BY <1>2, <1>3

\* Work ends while somebody waits for it, or with a report.
LEMMA NoFailureIsLostNext ==
  ASSUME ShutdownTypeOK, Awaited, NoFailureIsLost, StepKind PROVE NoFailureIsLost'
<1> DEFINE Known(c) == c \in told \/ await[c] = "failed" \/ (c \in Loops /\ await[c] = "cancelled")
<1> SUFFICES ASSUME NEW c \in Callers, job'[c] = "failed", ~Alive(c)' PROVE Known(c)'
  BY DEF NoFailureIsLost
<1> USE DEF ShutdownTypeOK, Held
<1>1. /\ job[c] = "failed" /\ ~Alive(c) => Known(c)
      /\ c \in Work /\ c \notin {"sessions", "runtimes"} \cup Starts \cup Flows
  BY Apart DEF NoFailureIsLost
<1>2. job[c] = "running" => WaitsFor(c)
  BY DEF Awaited, Active
<1>3. ASSUME await'[c] = await[c], job'[c] = job[c], told \subseteq told' PROVE Known(c)'
  BY <1>1, <1>3 DEF Alive
<1>4. ASSUME NEW d \in Callers, NEW w \in {"shielded", "cancelled", "failed", "returned"},
             Waits(d, w)
      PROVE  Known(c)'
  <2>1. CASE d = c
    BY <1>4, <2>1, Apart DEF Waits, Alive, Ended, Active
  <2> QED BY <1>3, <1>4, <2>1 DEF Waits
<1>5. ASSUME NEW d \in Callers, Begins(d) \/ CallsUpstream(d) PROVE Known(c)'
  <2>1. d # c
    BY <1>1, <1>5, Apart DEF Begins, CallsUpstream, Alive, Ended
  <2>2. await'[c] = await[c] /\ job'[c] = job[c] /\ told' = told
    <3>1. CASE Begins(d)
      BY <1>1, <2>1, <3>1 DEF Begins
    <3>2. CASE CallsUpstream(d)
      BY <2>1, <3>2 DEF CallsUpstream
    <3> QED BY <1>5, <3>1, <3>2
  <2> QED BY <1>3, <2>2
<1>6. ASSUME NEW n \in Callers, IsRefused(n) PROVE Known(c)'
  <2>1. n # Outer[n] /\ n \notin Loops /\ Outer[n] \in Callers /\ Outer[n] \notin Loops \cup Kills
    BY <1>6, Apart DEF IsRefused, Nested
  <2>2. CASE c = n
    <3>1. job[c] = "failed" /\ await[c] = "idle"
      BY <1>6, <2>1, <2>2 DEF IsRefused
    <3>2. c \in told
      BY <1>1, <2>1, <2>2, <3>1 DEF Alive
    <3> QED BY <1>6, <3>2 DEF IsRefused
  <2>3. CASE c = Outer[n]
    <3>1. WaitsFor(c) /\ await'[c] = await[c]
      BY <1>6, <2>1, <2>3 DEF IsRefused, Awaited
    <3>2. await[c] = "cancelled"
      BY <2>1, <2>3, <3>1 DEF WaitsFor, Alive, Ended
    <3> QED BY <1>6, <2>3, <3>2 DEF IsRefused
  <2>4. CASE c # n /\ c # Outer[n]
    <3>1. await'[c] = await[c] /\ job'[c] = job[c] /\ told \subseteq told'
      BY <1>6, <2>4 DEF IsRefused
    <3> QED BY <1>3, <3>1
  <2> QED BY <2>2, <2>3, <2>4
<1>7. ASSUME NEW j \in Work, NEW v \in {"done", "failed"}, Ends(j, v) PROVE Known(c)'
  <2>1. CASE j = c
    <3>1. v = "failed" /\ WaitsFor(c) /\ await' = await
      BY <1>1, <1>2, <1>7, <2>1 DEF Ends
    <3>2. await[c] = "cancelled"
      BY <3>1 DEF WaitsFor, Alive, Ended
    <3> QED BY <1>7, <2>1, <3>1, <3>2 DEF Ends, Reports
  <2>2. CASE j # c
    <3>1. job'[c] = job[c] /\ await'[c] = await[c] /\ told \subseteq told'
      BY <1>7, <2>2 DEF Ends
    <3> QED BY <1>3, <3>1
  <2> QED BY <2>1, <2>2
<1>8. ASSUME NEW j \in Work, Unwinds(j) \/ \E v \in {"running", "refused"} : IsSpawned(j, v)
      PROVE  Known(c)'
  <2>1. await'[c] = await[c] /\ job'[c] = job[c] /\ told' = told
    BY <1>1, <1>8 DEF Unwinds, IsSpawned
  <2> QED BY <1>3, <2>1
<1>9. ASSUME NEW k \in Kills, NEW w \in {"cancelled", "returned"}, IsOverdue(k, w) PROVE Known(c)'
  <2>1. CASE k = c
    BY <1>1, <1>9, <2>1 DEF IsOverdue
  <2> QED BY <1>3, <1>9, <2>1 DEF IsOverdue
<1>10. CASE StageMoves \/ ClosesSessions \/ DrainsJobs \/ StopsStarts \/ CancelsLeftovers
  BY <1>1, <1>3, <1>10, ShutdownCancels DEF Cancels
<1> QED BY <1>4, <1>5, <1>6, <1>7, <1>8, <1>9, <1>10 DEF StepKind

-----------------------------------------------------------------------------
(* The theorems                                                            *)

LEMMA IInvInit == ShutdownInit => IInv
<1> SUFFICES ASSUME ShutdownInit PROVE IInv
  OBVIOUS
<1>1. /\ \A c \in Callers : await[c] = "idle" /\ job[c] = "none"
      /\ \A j \in Work : job[j] = "none"
      /\ left = {} /\ stage = "up" /\ "sessions" \in Work
      /\ \A n \in Nested : n \in Callers /\ n \notin Loops
  BY Apart DEF ShutdownInit
<1> QED BY <1>1, ShapeInit
        DEF IInv, LeftShape, Awaited, Active, WaitsFor, Managers, Early, LoopsAreLeft, Within, Alive,
            AllOver, RefusesEverywhere, NothingIsCutShort, NoFailureIsLost

LEMMA IInvNext == IInv /\ [ShutdownNext]_shutdownVars => IInv'
  BY StepKinds, ShapeNext, LeftShapeNext, AwaitedNext, UncutNext, ManagersNext, LoopsAreLeftNext,
     WithinNext, AllOverNext, NoFailureIsLostNext DEF IInv

\* In every reachable state each part of the invariant holds.
THEOREM IInvHolds == ShutdownSpec => []IInv
  BY IInvInit, IInvNext, PTL DEF ShutdownSpec

\* However much work of each kind there is: when the stores are flushed and
\* closed nothing runs any more unless the wait for the jobs ran out; no
\* cancel of a caller cuts what it awaits; and no failure goes unreported
\* (finish_despite_cancels, drain_every_set, shut_down).
THEOREM ShutdownIsOrderlyHolds == ShutdownSpec => []ShutdownIsOrderly
<1>1. IInv => ShutdownIsOrderly
  BY DEF IInv, AllOver, Overran, StoresCloseLast, ShutdownIsOrderly
<1> QED BY <1>1, IInvHolds, PTL

-----------------------------------------------------------------------------
(* ConnectionTask: a connection ends cleanly                               *)

\* Before its start nothing has been done with the connection.
NothingBeforeStart ==
  starter = "no" => run = "no" /\ \A k \in Closers : closer[k] = "no"

\* A session is in use only once it has been handed over.
UsedIsHandedOver ==
  /\ starter = "got" => ready = "session"
  /\ \A r \in Sent : sent[r] = "inFlight" => ready = "session"

\* The end of the task is what lets go of the transport.
EndedHoldsNothing == run = "ended" => ~holds

\* Whoever was told that it is closed was told the truth, for good.
DoneMeansEnded == \A k \in Closers : closer[k] = "done" => run = "ended"

TaskInv ==
  /\ TaskTypeOK /\ NothingBeforeStart /\ UsedIsHandedOver
  /\ EndedHoldsNothing /\ DoneMeansEnded /\ InFlightIsAnswered

-----------------------------------------------------------------------------
LEMMA TaskInitially == TaskInit => TaskInv
BY DEF TaskInit, TaskInv, TaskTypeOK, NothingBeforeStart, UsedIsHandedOver,
       EndedHoldsNothing, DoneMeansEnded, InFlightIsAnswered, Told, Failures

\* The caller of start moves: the task, and what is held, stay as they are.
LEMMA StarterKeepsInv ==
  ASSUME TaskInv, StartTask \/ StartReturns \/ StartCancelled \/ Abandon \/ AbandonOver
  PROVE  TaskInv'
<1> USE DEF TaskInv, TaskTypeOK, NothingBeforeStart, UsedIsHandedOver,
            EndedHoldsNothing, DoneMeansEnded, InFlightIsAnswered, Told, Failures, Inside
<1>1. CASE StartTask
  BY <1>1 DEF StartTask
<1>2. CASE StartReturns
  BY <1>2 DEF StartReturns
<1>3. CASE StartCancelled
  BY <1>3 DEF StartCancelled
<1>4. CASE Abandon
  <2>1. CASE run = "ended"
    BY <1>4, <2>1 DEF Abandon
  <2>2. CASE run # "ended"
    <3>1. /\ starter = "givingUp" /\ starter' = "abandoning" /\ marked' = marked \cup Told
          /\ UNCHANGED <<run, holds, transport, shake, exited, broken, ready, runEnded, sent, closer>>
      BY <1>4, <2>2 DEF Abandon
    <3>2. marked' \subseteq Told
      BY <3>1
    <3> QED BY <3>1, <3>2
  <2> QED BY <2>1, <2>2
<1>5. CASE AbandonOver
  BY <1>5 DEF AbandonOver
<1> QED BY <1>1, <1>2, <1>3, <1>4, <1>5

\* What is lost was in flight, and nothing is in flight any more.
LEMMA LostIs ==
  ASSUME TaskTypeOK
  PROVE  /\ Lost \in [Sent -> {"no", "inFlight", "answered", "lost", "refused"}]
         /\ \A r \in Sent : Lost[r] # "inFlight"
BY DEF Lost, TaskTypeOK

\* The task moves, and with it only its own part of the state.
LEMMA TaskTypes ==
  ASSUME TaskTypeOK, UNCHANGED <<transport, broken, ready, starter, marked, runEnded, sent, closer>>,
         run' \in {run, "ended"}, holds' \in BOOLEAN,
         shake' \in {shake, "ok", "failed", "late"}, exited' \in {exited, TRUE}
  PROVE  TaskTypeOK'
<1>1. holds' \in BOOLEAN /\ exited' \in BOOLEAN /\ broken' \in BOOLEAN /\ runEnded' \in BOOLEAN
  BY Zenon DEF TaskTypeOK
<1>2. /\ run' \in {"no", "acquiring", "handshake", "serving", "closing", "ended"}
      /\ shake' \in {"open", "ok", "failed", "late"}
  BY DEF TaskTypeOK
<1> QED BY <1>1, <1>2 DEF TaskTypeOK

\* The task moves: what it loses it answers, and what it holds it releases.
LEMMA TaskKeepsInv ==
  ASSUME TaskInv, \/ Acquire \/ Handshake \/ RaceOver
                  \/ TransportFails \/ ShutdownSeen \/ RunEnds \/ OnRunEnded
  PROVE  TaskInv'
<1> USE DEF TaskInv, TaskTypeOK, NothingBeforeStart, UsedIsHandedOver,
            EndedHoldsNothing, DoneMeansEnded, InFlightIsAnswered, Told, Failures, Outside
<1>1. CASE Acquire
  <2>1. CASE run' = "handshake"
    BY <1>1, <2>1 DEF Acquire
  <2>2. CASE run' = "closing" /\ UNCHANGED holds
    <3>1. ready' = IF ready = "pending" THEN "noTransport" ELSE ready
      BY <1>1, <2>2 DEF Acquire, FailStart
    <3> QED BY <1>1, <2>2, <3>1 DEF Acquire
  <2> QED BY <1>1, <2>1, <2>2 DEF Acquire
<1>2. CASE Handshake
  <2>1. /\ UNCHANGED <<run, holds, broken, ready, sent, transport, starter, marked, runEnded, closer>>
        /\ shake' \in {shake, "ok", "failed", "late"} /\ exited' \in {exited, TRUE}
    BY <1>2 DEF Handshake
  <2>2. TaskTypeOK'
    BY <2>1, TaskTypes
  <2>3. (/\ NothingBeforeStart /\ UsedIsHandedOver /\ EndedHoldsNothing
         /\ DoneMeansEnded /\ InFlightIsAnswered)'
    BY <2>1
  <2> QED BY <2>2, <2>3
<1>3. CASE RaceOver
  BY <1>3 DEF RaceOver, HandOver, FailStart, Verdict
<1>4. CASE TransportFails
  <2>1. /\ run = "serving" /\ run' \in {"serving", "closing"} /\ ready' = ready
        /\ UNCHANGED <<holds, shake, exited, transport, starter, marked, runEnded, closer>>
    BY <1>4 DEF TransportFails
  <2>2. CASE UNCHANGED <<broken, sent>>
    BY <2>1, <2>2
  <2>3. CASE broken' = TRUE /\ sent' = Lost
    BY <2>1, <2>3, LostIs
  <2> QED BY <1>4, <2>2, <2>3 DEF TransportFails
<1>5. CASE ShutdownSeen
  BY <1>5 DEF ShutdownSeen
<1>6. CASE RunEnds
  <2>1. /\ run = "closing" /\ run' = "ended" /\ holds' = FALSE
        /\ UNCHANGED <<shake, exited, broken, ready, sent, transport, starter, marked, runEnded, closer>>
    BY <1>6 DEF RunEnds
  <2>2. TaskTypeOK'
    BY <2>1, TaskTypes
  <2>3. (/\ NothingBeforeStart /\ UsedIsHandedOver /\ EndedHoldsNothing
         /\ DoneMeansEnded /\ InFlightIsAnswered)'
    BY <2>1
  <2> QED BY <2>2, <2>3
<1>7. CASE OnRunEnded
  <2>1. /\ runEnded' = TRUE
        /\ UNCHANGED <<broken, ready, starter, marked, closer, transport, holds, shake, exited, run>>
    BY <1>7 DEF OnRunEnded, Inside
  <2>2. CASE ready = "session" /\ sent' = Lost
    BY <2>1, <2>2, LostIs
  <2>3. CASE ready # "session" /\ UNCHANGED sent
    BY <2>1, <2>3
  <2> QED BY <1>7, <2>2, <2>3 DEF OnRunEnded, AnswerLost
<1> QED BY <1>1, <1>2, <1>3, <1>4, <1>5, <1>6, <1>7

\* A request moves: it is in flight only on a transport that is alive.
LEMMA RequestKeepsInv ==
  ASSUME TaskInv, NEW r \in Sent, Send(r) \/ Answer(r)
  PROVE  TaskInv'
<1> USE DEF TaskInv, TaskTypeOK, NothingBeforeStart, UsedIsHandedOver,
            EndedHoldsNothing, DoneMeansEnded, InFlightIsAnswered, Told, Failures, Inside
<1>1. CASE Send(r)
  BY <1>1 DEF Send, IsTransportAlive
<1>2. CASE Answer(r)
  BY <1>2 DEF Answer
<1> QED BY <1>1, <1>2

\* A close moves: it says it is done of an ended task only.
LEMMA CloseKeepsInv ==
  ASSUME TaskInv, NEW k \in Closers,
         Close(k) \/ CloseDone(k) \/ CloseOverdue(k) \/ CloserCancelled(k)
  PROVE  TaskInv'
<1> USE DEF TaskInv, TaskTypeOK, NothingBeforeStart, UsedIsHandedOver,
            EndedHoldsNothing, DoneMeansEnded, InFlightIsAnswered, Told, Failures, Inside
<1>1. CASE Close(k)
  <2>1. /\ starter = "got" /\ closer[k] = "no"
        /\ UNCHANGED <<broken, ready, starter, runEnded, sent, transport, holds, shake, exited, run>>
    BY <1>1 DEF Close
  <2>2. CASE closer' = [closer EXCEPT ![k] = "skipped"] /\ UNCHANGED marked
    BY <2>1, <2>2
  <2>3. CASE /\ closer' = [closer EXCEPT ![k] = "waiting"]
             /\ marked' = marked \cup {"closed", "shutdown"}
    BY <2>1, <2>3
  <2> QED BY <1>1, <2>2, <2>3 DEF Close
<1>2. CASE CloseDone(k)
  BY <1>2 DEF CloseDone
<1>3. CASE CloseOverdue(k)
  BY <1>3 DEF CloseOverdue, AfterCancel
<1>4. CASE CloserCancelled(k)
  BY <1>4 DEF CloserCancelled
<1> QED BY <1>1, <1>2, <1>3, <1>4

LEMMA TaskInvKept == TaskInv /\ [TaskNext]_taskVars => TaskInv'
<1> SUFFICES ASSUME TaskInv, [TaskNext]_taskVars PROVE TaskInv'
  OBVIOUS
<1>1. CASE UNCHANGED taskVars
  BY <1>1 DEF taskVars, TaskInv, TaskTypeOK, NothingBeforeStart, UsedIsHandedOver,
              EndedHoldsNothing, DoneMeansEnded, InFlightIsAnswered
<1>2. CASE TaskNext
  BY <1>2, StarterKeepsInv, TaskKeepsInv, RequestKeepsInv, CloseKeepsInv DEF TaskNext
<1> QED BY <1>1, <1>2

LEMMA TaskInvHolds == TaskSpec => []TaskInv
BY TaskInitially, TaskInvKept, PTL DEF TaskSpec

-----------------------------------------------------------------------------
\* Every part of a connection stays what the code can make it
\* (ConnectionTaskBase and the _run of its two kinds).
THEOREM TaskTypeCorrect == TaskSpec => []TaskTypeOK
<1>1. TaskInv => TaskTypeOK
  BY DEF TaskInv
<1> QED BY <1>1, TaskInvHolds, PTL

\* For any requests and any closes, cancelled or overdue as they may be: a
\* close that is done has released the transport, and no request waits on a
\* connection that has ended or broken (close, _on_run_ended,
\* fail_in_flight_requests).
THEOREM ConnectionsEndCleanly == TaskSpec => []EndsCleanly
<1>1. TaskInv => EndsCleanly
  BY DEF TaskInv, EndedHoldsNothing, DoneMeansEnded, EndsCleanly, ClosedIsReleased
<1> QED BY <1>1, TaskInvHolds, PTL
=============================================================================
