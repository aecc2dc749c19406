------------------------- MODULE UpstreamLifecycle -------------------------
(***************************************************************************)
(* One upstream's life: what an organization's store says of it, what the  *)
(* running backend holds, and whoever changes either.                      *)
(*                                                                         *)
(* Translated from domain/services/upstream_admin_service.py (add, remove, *)
(* Start, Stop), org_runtime.py (build and connect a runtime at boot),     *)
(* upstream_config_service.py, the state machine of                        *)
(* adapters/upstream_clients/client_manager.py, and the Start and Stop     *)
(* helpers of upstream_connection_service.py.                              *)
(*                                                                         *)
(* A step is what one task does until it awaits.  A call of the store      *)
(* takes effect when it is issued; its caller goes on in a later step.     *)
(* The connect of one slot is one flight at a time (SessionSingleFlight);  *)
(* an OAuth upstream's slot is that of the admin who holds its sign-in.    *)
(***************************************************************************)
EXTENDS Naturals, FiniteSets

CONSTANTS Jobs,        \* admins' actions that can run at one time
          NoJob,       \* none of them
          Kinds,       \* of {"hosted", "remote", "oauth"}
          MaxActions,  \* bounds: actions in all ...
          MaxSessions, \* ... sessions ...
          MaxTrouble,  \* ... failed store calls and crashes ...
          ReAdd        \* an id can be added while it is removed

ASSUME LifecycleAssumption ==
  /\ NoJob \notin Jobs
  /\ Kinds # {} /\ Kinds \subseteq {"hosted", "remote", "oauth"}
  /\ {MaxActions, MaxSessions, MaxTrouble} \subseteq Nat
  /\ ReAdd \in BOOLEAN

Starts == 1..MaxActions

VARIABLES
  kind,     \* hosted (stdio) or remote (HTTP) service account, or OAuth
  saved,    \* the store: the upstream is there, stopped, has an error
            \* recorded, and a sandbox reference with cached metadata
  mem,      \* the manager's record of it
  open,     \* sessions whose connection has not been closed
  ended,    \* sessions a Stop, a removal or a restart took
  born,     \* sessions opened so far
  flight,   \* the slot's connect
  lock,     \* who holds stop_start_lock
  job,      \* the admins' actions
  start,    \* the background connects of Starts
  call,     \* a tool call
  boot,     \* the boot walk
  answered, \* the last word an admin was given: stopped, or removed
  actions, trouble

world == <<saved, mem, open, ended, born, flight>>
vars == <<kind, saved, mem, open, ended, born, flight, lock, job, start, call, boot,
          answered, actions, trouble>>

Idle == [op |-> "none", at |-> "idle", session |-> 0, restart |-> TRUE,
         alone |-> FALSE]
NoStart == [at |-> "unborn", cut |-> FALSE, session |-> 0]
Down == [registered |-> FALSE, removed |-> FALSE, state |-> "none",
         session |-> 0, dead |-> FALSE, cache |-> FALSE, start |-> 0]
NoBoot == [at |-> "down", stopped |-> FALSE, cache |-> FALSE, session |-> 0]

Trouble == trouble < MaxTrouble /\ trouble' = trouble + 1
Fine == UNCHANGED trouble

\* is_stopped.
Stopped == mem.removed \/ mem.state = "disabled"

\* _live_shared_session: a session whose transport died is none.
Live == mem.session # 0 /\ ~mem.dead

\* is_starting.
Starting == mem.start # 0

\* is_in_use; it knows nothing of an OAuth upstream's sessions.
InUse == kind # "oauth" /\ (flight # "none" \/ mem.session # 0 \/ Starting)

\* is_connected.
Connected == mem.state \in {"live", "deferred"}

Outcomes == {"ok", "failed", "aborted"}

\* A task that was just created, or waited for a connect that ended or for a
\* lock that is free, runs before anything that waits for the store or the
\* network.
Settled ==
  /\ flight # "begin"
  /\ call # "failed" /\ boot.at \notin Outcomes
  /\ \A j \in Jobs : job[j].at \notin Outcomes
  /\ \A b \in Starts : start[b].at \notin Outcomes \cup {"new"}
  /\ lock # NoJob \/ \A j \in Jobs : job[j].at # "lock"

TypeOK ==
  /\ kind \in Kinds
  /\ saved \in [there : BOOLEAN, stopped : BOOLEAN, error : BOOLEAN, cache : BOOLEAN]
  /\ mem.state \in {"none", "disabled", "deferred", "connecting", "live", "failed"}
  /\ mem.session \in 0..born /\ mem.start \in 0..MaxActions
  /\ open \subseteq 1..born /\ ended \subseteq 1..born /\ born \in 0..MaxSessions
  /\ flight \in {"none", "begin", "open", "landed", "aborting"}
  /\ lock \in Jobs \cup {NoJob}
  /\ mem.session # 0 => mem.session \in open
  /\ \A b \in Starts : start[b].at \in {"unborn", "new", "waits", "refresh", "recording",
                                         "succeeded", "over"} \cup Outcomes

Init ==
  /\ kind \in Kinds
  /\ saved \in [there : {TRUE}, stopped : BOOLEAN, error : {FALSE},
                cache : IF kind = "hosted" THEN BOOLEAN ELSE {FALSE}]
  /\ mem = Down /\ open = {} /\ ended = {} /\ born = 0 /\ flight = "none"
  /\ lock = NoJob /\ job = [j \in Jobs |-> Idle]
  /\ start = [b \in Starts |-> NoStart]
  /\ call = "idle" /\ boot = NoBoot /\ answered = "nothing" /\ actions = 0 /\ trouble = 0

-----------------------------------------------------------------------------
(* The state machine of client_manager.py.  Each operator gives mem and    *)
(* the rest as the transition leaves them.                                 *)

\* A background connect under way sees that a Stop landed (abort_count), and
\* the one the manager knows is cancelled.
CutStarts ==
  [b \in Starts |-> [start[b] EXCEPT !.cut = TRUE,
                                    !.at = IF b = mem.start /\ @ # "succeeded" THEN "over" ELSE @]]

\* transition_to_disabled until its first await: marked, the connect
\* aborted, the admin's Start cancelled.
Disabled(removed, registered) ==
  /\ mem' = [Down EXCEPT !.removed = removed, !.registered = registered,
                         !.state = "disabled"]
  /\ ended' = ended \cup ({mem.session} \ {0})
  /\ flight' = IF flight = "none" THEN "none" ELSE "aborting"
  /\ start' = CutStarts

\* Mutant: a step that began earlier goes on over a Stop.
NeverStopped == FALSE

\* _keeps_stop: a step that began earlier does not undo a Stop ...
KeepsStop == Stopped

\* Mutant: boot does not look again.
NeverInUse == FALSE

\* ... and _keeps_in_use: nor boot what is in use.
KeepsInUse == InUse

\* transition_to_failed; what it cached stays.
FailedState(cancel) ==
  [mem EXCEPT !.state = "failed", !.session = 0, !.dead = FALSE,
              !.start = IF cancel THEN 0 ELSE @]

\* _state_after_shared_drop.
AfterDrop ==
  IF Starting THEN "connecting"
  ELSE IF mem.cache THEN "deferred"
  ELSE IF mem.state = "disabled" THEN "disabled" ELSE "failed"

\* The task of a Start is cancelled by a failure recorded over it.
Cancelled(b) ==
  IF b # 0 /\ start[b].at \notin {"succeeded", "over"}
  THEN [start EXCEPT ![b] = [@ EXCEPT !.at = "over"]] ELSE start

-----------------------------------------------------------------------------
(* The flight: _open_shared, or a user's session                           *)

\* Everyone who waits hears how it ended; a call that got its session goes on.
Tell(outcome) ==
  /\ call' = IF call = "waits" THEN IF outcome = "failed" THEN "failed" ELSE "idle" ELSE call
  /\ boot' = IF boot.at = "waits" THEN [boot EXCEPT !.at = outcome] ELSE boot
  /\ job' = [j \in Jobs |-> IF job[j].at = "waits" THEN [job[j] EXCEPT !.at = outcome] ELSE job[j]]

TellStarts(s, outcome) ==
  [b \in Starts |-> IF s[b].at = "waits"
                    THEN [s[b] EXCEPT !.at = outcome, !.session = mem.session] ELSE s[b]]

\* _refuse_if_stopped.
Refused == Stopped

\* The first step: the old session, whose transport died, is closed.
FlightOpens ==
  /\ flight = "begin"
  /\ IF Refused
     THEN /\ flight' = "none" /\ Tell("aborted") /\ start' = TellStarts(start, "aborted")
          /\ UNCHANGED <<mem, open>>
     ELSE /\ flight' = "open"
          /\ mem' = IF mem.session = 0 THEN mem
                    ELSE [mem EXCEPT !.session = 0, !.dead = FALSE,
                                     !.state = IF kind = "oauth" THEN @ ELSE AfterDrop]
          /\ open' = open \ {mem.session}
          /\ UNCHANGED <<start, call, boot, job>>
  /\ UNCHANGED <<kind, saved, ended, born, lock, answered, actions, trouble>>

\* transition_to_live_shared.
FlightLands ==
  /\ flight = "open" /\ born < MaxSessions /\ Settled
  /\ flight' = "landed" /\ born' = born + 1 /\ open' = open \cup {born + 1}
  /\ mem' = IF kind = "oauth" THEN [mem EXCEPT !.session = born + 1, !.dead = FALSE]
            ELSE [mem EXCEPT !.session = born + 1, !.dead = FALSE, !.state = "live",
                             !.cache = TRUE, !.start = 0]
  /\ UNCHANGED <<kind, saved, ended, lock, job, start, call, boot, answered, actions, trouble>>

\* _persist_cached_metadata; the call that waits is given its session.
FlightEnds ==
  /\ flight = "landed" /\ Settled
  /\ flight' = "none" /\ Tell("ok") /\ start' = TellStarts(start, "ok")
  /\ saved' = [saved EXCEPT !.cache = kind = "hosted"]
  /\ UNCHANGED <<kind, mem, open, ended, born, lock, answered, actions, trouble>>

FlightFails ==
  /\ flight = "open" /\ Settled
  /\ flight' = "none" /\ Tell("failed") /\ start' = TellStarts(start, "failed")
  /\ UNCHANGED <<kind, saved, mem, open, ended, born, lock, answered, actions, trouble>>

\* An aborted connect lets go of what it opened.
FlightUnwinds ==
  /\ flight = "aborting" /\ Settled
  /\ flight' = "none" /\ Tell("aborted") /\ start' = TellStarts(start, "aborted")
  /\ UNCHANGED <<kind, saved, mem, open, ended, born, lock, answered, actions, trouble>>

TransportDies ==
  /\ Live /\ mem' = [mem EXCEPT !.dead = TRUE]
  /\ UNCHANGED <<kind, saved, open, ended, born, flight, lock, job, start, call, boot,
                 answered, actions, trouble>>

\* connect_shared, ensure_shared_connected, ensure_user_session: a live
\* session, the flight there is, or a new one.
Ensured(at) ==
  IF flight # "aborting" /\ Live /\ flight = "none" THEN "ok"
  ELSE IF flight = "aborting" THEN at ELSE "waits"
Joined == IF flight = "none" /\ ~Live THEN "begin" ELSE flight

-----------------------------------------------------------------------------
(* A tool call                                                             *)

\* The router knows the upstream ...
CallBegins ==
  /\ boot.at # "down" /\ call = "idle" /\ mem.registered /\ call' = "asks"
  /\ UNCHANGED <<kind, world, lock, job, start, boot, answered, actions, trouble>>

\* ... and asks for its session.
CallEnsures ==
  /\ call = "asks"
  /\ call' = IF Ensured("asks") = "ok" THEN "idle" ELSE Ensured("asks")
  /\ flight' = Joined
  /\ UNCHANGED <<kind, saved, mem, open, ended, born, lock, job, start, boot, answered, actions, trouble>>

\* _record_reopen_failure; the admin's Start goes on.
CallRecordsFailure ==
  /\ call = "failed" /\ call' = "idle"
  /\ IF kind = "oauth" \/ Stopped \/ mem.state = "none" \/ Live
     THEN UNCHANGED <<mem, open, start>>
     ELSE /\ mem' = FailedState(FALSE) /\ open' = open \ {mem.session}
          /\ start' = IF mem'.start = 0 THEN Cancelled(mem.start) ELSE start
  /\ UNCHANGED <<kind, saved, ended, born, flight, lock, job, boot, answered, actions, trouble>>

-----------------------------------------------------------------------------
(* Admins                                                                  *)

\* Steps of the job j; most leave these alone.
Else == UNCHANGED <<kind, call, actions>>
Goes(j, at) == job' = [job EXCEPT ![j].at = at]
Ends(j) == job' = [job EXCEPT ![j] = Idle]
At(j, ops, at) == job[j].op \in ops /\ job[j].at = at
Free(j) == lock' = IF lock = j THEN NoJob ELSE lock

\* An answer stands when nobody else was changing the upstream.
Answers(j, what) ==
  answered' = IF job[j].alone /\ \A k \in Jobs \ {j} : job[k].op = "none"
              THEN what ELSE "nothing"

Begins(j, op, restart) ==
  /\ boot.at # "down" /\ job[j].op = "none" /\ actions < MaxActions
  /\ op # "add" => saved.there
  /\ ReAdd \/ \A k \in Jobs : {op, job[k].op} # {"add", "remove"}
  /\ job' = [k \in Jobs |->
               IF k = j THEN [Idle EXCEPT !.op = op, !.restart = restart,
                                          !.at = IF op = "add" THEN "asks" ELSE "lock",
                                          !.alone = \A i \in Jobs : job[i].op \in {"none", "stop"}]
               ELSE [job[k] EXCEPT !.alone = @ /\ op = "stop"]]
  /\ actions' = actions + 1
  /\ answered' = IF op = "stop" THEN answered ELSE "nothing"
  /\ UNCHANGED <<kind, world, lock, start, call, boot, trouble>>

\* The lock; its holder goes on in the same step.
Takes(j, op) == At(j, {op}, "lock") /\ lock = NoJob

\* Mutant: the failure leaves the lock taken.
FailsHolding(j) == Ends(j) /\ UNCHANGED <<world, lock, start, boot, answered>>

\* A store call fails: the handler raises, and lets go of the lock.
Fails(j) == Ends(j) /\ Free(j) /\ UNCHANGED <<world, start, boot, answered>>

\* stop_keeping_sign_ins saves the Stop first ...
StopSaves(j) ==
  /\ Takes(j, "stop") /\ Else
  /\ \/ /\ saved' = [saved EXCEPT !.stopped = TRUE] /\ Goes(j, "saving") /\ lock' = j /\ Fine
        /\ UNCHANGED <<mem, open, ended, born, flight, start, boot, answered>>
     \/ Trouble /\ Fails(j)

\* ... then marks this backend, with no await between.  A Start of a service
\* account (a restart, too) and a removal begin with the same transition.
Marks(j) ==
  /\ \/ At(j, {"stop", "add", "remove", "undo"}, "saving")
     \/ At(j, {"start"}, "reading") /\ kind # "oauth"
  /\ Settled /\ Else /\ Fine
  /\ IF job[j].op \in {"remove", "undo"} THEN Disabled(TRUE, FALSE)
     ELSE Disabled(mem.removed, mem.registered)
  /\ job' = [job EXCEPT ![j].at = "draining", ![j].session = mem.session]
  /\ UNCHANGED <<saved, open, born, lock, boot, answered>>

\* The sessions are closed and the aborted connect has let go; then the
\* persisted sandbox is killed, and its reference goes unless the kill fails.
Drains(j) ==
  /\ job[j].at = "draining" /\ flight # "aborting" /\ Settled /\ Else
  /\ open' = open \ {job[j].session} /\ Goes(j, "killing")
  /\ \/ saved' = [saved EXCEPT !.cache = FALSE] /\ Fine
     \/ saved.cache /\ Trouble /\ UNCHANGED saved
  /\ UNCHANGED <<mem, ended, born, flight, start, lock, boot, answered>>

StopEnds(j) ==
  /\ At(j, {"stop"}, "killing") /\ Settled /\ Else
  /\ \/ /\ saved' = [saved EXCEPT !.error = FALSE] /\ Fine
     \/ Trouble /\ UNCHANGED saved
  /\ Ends(j) /\ Free(j) /\ Answers(j, IF saved.there THEN "stopped" ELSE "nothing")
  /\ UNCHANGED <<mem, open, ended, born, flight, start, boot>>

\* _start_shared asks the store for the upstream under the lock ...
StartReads(j) ==
  /\ Takes(j, "start") /\ kind # "oauth" /\ Else /\ Fine
  /\ IF mem.removed \/ ~saved.there \/ (~job[j].restart /\ (Starting \/ Connected))
     THEN Ends(j) /\ UNCHANGED lock ELSE Goes(j, "reading") /\ lock' = j
  /\ UNCHANGED <<world, start, boot, answered>>

\* ... and, once what ran is closed, clears the recorded error, ...
StartClears(j) ==
  /\ At(j, {"start"}, "killing") /\ Settled /\ Else
  /\ \/ /\ saved' = [saved EXCEPT !.error = FALSE] /\ Goes(j, "clearing") /\ Fine
        /\ UNCHANGED <<mem, open, ended, born, flight, lock, start, boot, answered>>
     \/ Trouble /\ Fails(j)

\* ... saves it as started ...
StartSaves(j) ==
  /\ At(j, {"start"}, "clearing") /\ Settled /\ Else
  /\ \/ /\ saved' = [saved EXCEPT !.stopped = FALSE] /\ Goes(j, "saved") /\ Fine
        /\ UNCHANGED <<mem, open, ended, born, flight, lock, start, boot, answered>>
     \/ Trouble /\ Fails(j)

\* ... and launches the connect (register_background_connect_task).
StartLaunches(j) ==
  /\ At(j, {"start"}, "saved") /\ Settled /\ Else /\ Fine
  /\ Ends(j) /\ Free(j)
  /\ IF mem.removed THEN UNCHANGED <<mem, start>>
     ELSE LET b == CHOOSE i \in Starts : start[i].at = "unborn"
          IN /\ start' = [start EXCEPT ![b].at = "new"]
             /\ mem' = [mem EXCEPT !.state = "connecting", !.start = b]
  /\ UNCHANGED <<saved, open, ended, born, flight, boot, answered>>

\* reopen_stopped_upstream, for an OAuth upstream: saved as started, ...
ReopenSaves(j) ==
  /\ Takes(j, "start") /\ kind = "oauth" /\ Else
  /\ \/ mem.removed /\ Fine /\ Fails(j)
     \/ /\ ~mem.removed /\ Fine
        /\ saved' = [saved EXCEPT !.stopped = FALSE] /\ Goes(j, "lifting") /\ lock' = j
        /\ UNCHANGED <<mem, open, ended, born, flight, start, boot, answered>>
     \/ ~mem.removed /\ Trouble /\ Fails(j)

\* ... then taken out of the stopped state ...
ReopenLifts(j) ==
  /\ At(j, {"start"}, "lifting") /\ Settled /\ Else /\ Fine
  /\ mem' = IF mem.state = "disabled"
            THEN [Down EXCEPT !.removed = mem.removed, !.registered = mem.registered,
                              !.state = "failed"] ELSE mem
  /\ Goes(j, "asking") /\ Free(j)
  /\ UNCHANGED <<saved, open, ended, born, flight, start, boot, answered>>

\* ... and connected with the saved or the new sign-in.
ReopenConnects(j) ==
  /\ At(j, {"start"}, "asking") /\ Settled /\ Else /\ Fine
  /\ Ensured("asking") # "asking" /\ Goes(j, Ensured("asking")) /\ flight' = Joined
  /\ UNCHANGED <<saved, mem, open, ended, born, lock, start, boot, answered>>

\* _record_sign_in.
ReopenRecords(j) ==
  /\ job[j].at \in Outcomes /\ Else /\ Ends(j)
  /\ \/ /\ Fine
        /\ saved' = IF mem.removed \/ job[j].at = "aborted" THEN saved
                    ELSE [saved EXCEPT !.error = job[j].at = "failed"]
     \/ ~mem.removed /\ Trouble /\ UNCHANGED saved
  /\ UNCHANGED <<mem, open, ended, born, flight, lock, start, boot, answered>>

\* remove_upstream, and its undo of a half-finished add, which takes no lock.
RemoveSaves(j) ==
  /\ Takes(j, "remove") \/ (At(j, {"undo"}, "asks") /\ Settled)
  /\ Else
  /\ \/ /\ saved.there /\ Fine
        /\ saved' = [saved EXCEPT !.there = FALSE] /\ Goes(j, "saving")
        /\ lock' = IF job[j].op = "remove" THEN j ELSE lock
        /\ UNCHANGED <<mem, open, ended, born, flight, start, boot, answered>>
     \/ ~saved.there /\ Fine /\ Fails(j)
     \/ saved.there /\ Trouble /\ Fails(j)

\* What the store kept for it goes with it.
RemovePurges(j) ==
  /\ At(j, {"remove", "undo"}, "killing") /\ Settled /\ Else
  /\ mem' = [mem EXCEPT !.state = "none", !.session = 0, !.cache = FALSE, !.start = 0]
  /\ \/ /\ saved' = [saved EXCEPT !.stopped = FALSE, !.error = FALSE] /\ Fine
        /\ IF job[j].op = "undo" THEN Ends(j) ELSE Goes(j, "purged")
     \/ Trouble /\ Ends(j) /\ UNCHANGED saved
  /\ Free(j)
  /\ UNCHANGED <<open, ended, born, flight, start, boot, answered>>

\* After the lock: the sandboxes and volumes, ...
RemoveCleans(j) ==
  /\ At(j, {"remove"}, "purged") /\ Settled /\ Else /\ Goes(j, "cleaned")
  /\ \/ saved' = [saved EXCEPT !.cache = FALSE] /\ Fine
     \/ saved.cache /\ Trouble /\ UNCHANGED saved
  /\ UNCHANGED <<mem, open, ended, born, flight, lock, start, boot, answered>>

\* Mutant: the removal is done once the sandboxes are gone.
RemoveForgets(j) ==
  /\ At(j, {"remove"}, "cleaned") /\ Settled /\ Else /\ Ends(j) /\ Fine
  /\ Answers(j, "removed")
  /\ UNCHANGED <<world, lock, start, boot>>

\* ... the recorded error, ...
RemoveClears(j) ==
  /\ At(j, {"remove"}, "cleaned") /\ Settled /\ Else
  /\ \/ /\ saved' = [saved EXCEPT !.error = FALSE] /\ Goes(j, "cleared") /\ Fine
        /\ UNCHANGED <<mem, open, ended, born, flight, lock, start, boot, answered>>
     \/ Trouble /\ Fails(j)

\* ... and the mark of a Stop that waited for the lock.
RemoveEnds(j) ==
  /\ At(j, {"remove"}, "cleared") /\ Settled /\ Else
  /\ \/ /\ saved' = [saved EXCEPT !.stopped = FALSE] /\ Ends(j) /\ Fine
        /\ Answers(j, "removed")
        /\ UNCHANGED <<mem, open, ended, born, flight, lock, start, boot>>
     \/ Trouble /\ Fails(j)

\* _persist_new_upstream; a known id is refused.
AddSaves(j) ==
  /\ At(j, {"add"}, "asks") /\ Settled /\ Else
  /\ \/ /\ ~saved.there /\ Fine /\ saved' = [saved EXCEPT !.there = TRUE] /\ Goes(j, "adding")
        /\ UNCHANGED <<mem, open, ended, born, flight, lock, start, boot, answered>>
     \/ saved.there /\ Fine /\ Fails(j)
     \/ ~saved.there /\ Trouble /\ Fails(j)

Undo(j) == job' = [job EXCEPT ![j] = [Idle EXCEPT !.op = "undo", !.at = "asks"]]

\* register_upstream, then the stop of a new upstream is saved.
AddRegisters(j) ==
  /\ At(j, {"add"}, "adding") /\ Settled /\ Else
  /\ mem' = [mem EXCEPT !.removed = FALSE, !.registered = TRUE,
                        !.state = IF @ = "none" THEN "failed" ELSE @]
  /\ \/ saved' = [saved EXCEPT !.stopped = TRUE] /\ Goes(j, "saving") /\ Fine
     \/ Trouble /\ Undo(j) /\ UNCHANGED saved
  /\ UNCHANGED <<open, ended, born, flight, lock, start, boot, answered>>

\* Variables and role access; the add is all or nothing.
AddEnds(j) ==
  /\ At(j, {"add"}, "killing") /\ Settled /\ Else
  /\ \/ Fine /\ Ends(j) /\ Answers(j, "stopped")
     \/ Trouble /\ Undo(j) /\ UNCHANGED answered
  /\ UNCHANGED <<world, lock, start, boot>>

-----------------------------------------------------------------------------
(* The connect of a Start, in the background (_connect_shared)             *)

StartElse == UNCHANGED <<kind, lock, job, call, boot, answered, actions>>

\* A task that ends is no longer the manager's, whose state stays.
TaskEnds(b, at) ==
  /\ start' = [start EXCEPT ![b].at = at]
  /\ mem' = IF mem.start = b THEN [mem EXCEPT !.start = 0] ELSE mem

\* Mutant: it asks whether the upstream is stopped now.
AsksNow(b) == Stopped

\* _stopped_meanwhile.
Cut(b) == start[b].cut

StartConnects(b) ==
  /\ start[b].at = "new" /\ StartElse /\ Fine
  /\ Ensured("new") # "new"
  /\ start' = [start EXCEPT ![b] = [at |-> Ensured("new"), cut |-> FALSE, session |-> mem.session]]
  /\ flight' = Joined
  /\ UNCHANGED <<saved, mem, open, ended, born>>

\* The outcome is recorded, unless a Stop landed; then the tools are read.
StartHears(b) ==
  /\ start[b].at \in Outcomes /\ StartElse
  /\ \/ /\ start[b].at = "aborted" \/ (start[b].at = "ok" /\ Cut(b))
        /\ TaskEnds(b, "over") /\ UNCHANGED saved /\ Fine
     \/ /\ start[b].at = "ok" /\ ~Cut(b) /\ Fine
        /\ saved' = [saved EXCEPT !.error = FALSE]
        /\ start' = [start EXCEPT ![b].at = "refresh"] /\ UNCHANGED mem
     \/ /\ start[b].at = "failed" /\ Fine
        /\ saved' = [saved EXCEPT !.error = TRUE]
        /\ start' = [start EXCEPT ![b].at = "recording"] /\ UNCHANGED mem
     \/ /\ start[b].at = "failed" \/ (start[b].at = "ok" /\ ~Cut(b))
        /\ Trouble /\ TaskEnds(b, "over") /\ UNCHANGED saved
  /\ UNCHANGED <<open, ended, born, flight>>

StartEnds(b) ==
  /\ start[b].at \in {"refresh", "recording"} /\ Settled /\ StartElse /\ Fine
  /\ TaskEnds(b, IF start[b].at = "recording" \/ Cut(b) THEN "over" ELSE "succeeded")
  /\ UNCHANGED <<saved, open, ended, born, flight>>

-----------------------------------------------------------------------------
(* A restart of the backend                                                *)

BootElse == UNCHANGED <<kind, lock, call, job, answered, actions>>

\* Any request builds the org's runtime: each upstream, with the saved Stops.
BootBuilds ==
  /\ boot.at = "down" /\ BootElse /\ Fine
  /\ boot' = [boot EXCEPT !.at = IF saved.there THEN "built" ELSE "done"]
  /\ mem' = [Down EXCEPT !.registered = saved.there,
                         !.state = IF ~saved.there THEN "none"
                                   ELSE IF saved.stopped THEN "disabled" ELSE "failed"]
  /\ UNCHANGED <<saved, open, ended, born, flight, start>>

\* connect_runtime asks for the stopped ones ...
BootReads ==
  /\ boot.at = "built" /\ boot' = [boot EXCEPT !.at = "read", !.stopped = saved.stopped]
  /\ Settled /\ BootElse /\ Fine /\ UNCHANGED <<world, start>>

\* ... and goes by that answer: a stopped upstream is marked, a hosted one
\* is opened at its first call, any other is connected now.
BootWalks ==
  /\ boot.at = "read" /\ Settled /\ BootElse /\ Fine
  /\ \/ /\ InUse /\ boot' = [boot EXCEPT !.at = "done"] /\ UNCHANGED <<world, start>>
     \/ /\ ~InUse /\ boot.stopped
        /\ Disabled(mem.removed, mem.registered)
        /\ boot' = [boot EXCEPT !.at = "draining", !.session = mem.session]
        /\ UNCHANGED <<saved, open, born>>
     \/ /\ ~InUse /\ ~boot.stopped /\ kind = "hosted"
        /\ boot' = [boot EXCEPT !.at = "defer", !.cache = saved.cache]
        /\ UNCHANGED <<world, start>>
     \/ /\ ~InUse /\ ~boot.stopped /\ kind # "hosted"
        /\ boot' = [boot EXCEPT !.at = IF Ensured("done") = "ok" THEN "done" ELSE Ensured("done")]
        /\ flight' = Joined
        /\ UNCHANGED <<saved, mem, open, ended, born, start>>

BootDrains ==
  /\ boot.at = "draining" /\ flight # "aborting" /\ Settled /\ BootElse
  /\ open' = open \ {boot.session} /\ boot' = [boot EXCEPT !.at = "done"]
  /\ \/ saved' = [saved EXCEPT !.cache = FALSE] /\ Fine
     \/ saved.cache /\ Trouble /\ UNCHANGED saved
  /\ UNCHANGED <<mem, ended, born, flight, start>>

\* try_defer_boot_attach: only what started before is worth a sandbox.  A
\* Stop stands, and what a request opened meanwhile is left alone.
BootDefers ==
  /\ boot.at = "defer" /\ Settled /\ BootElse /\ Fine
  /\ boot' = [boot EXCEPT !.at = "done"]
  /\ IF KeepsStop \/ KeepsInUse THEN UNCHANGED <<mem, open, ended, start>>
     ELSE /\ mem' = IF boot.cache
                    THEN [mem EXCEPT !.state = "deferred", !.cache = TRUE, !.session = 0,
                                     !.dead = FALSE, !.start = 0]
                    ELSE FailedState(TRUE)
          /\ open' = open \ {mem.session} /\ start' = Cancelled(mem.start)
          /\ ended' = ended
  /\ UNCHANGED <<saved, born, flight>>

\* A remote upstream that did not connect is failed, and may be retried.
BootHears ==
  /\ boot.at \in Outcomes /\ BootElse /\ Fine
  /\ boot' = [boot EXCEPT !.at = "done"]
  /\ IF boot.at = "failed" /\ kind = "remote" /\ ~KeepsStop
     THEN mem' = FailedState(TRUE) /\ open' = open \ {mem.session} /\ start' = Cancelled(mem.start)
     ELSE UNCHANGED <<mem, open, start>>
  /\ UNCHANGED <<saved, ended, born, flight>>

\* The process goes down; what it opened is gone.
Crash ==
  /\ boot.at # "down" /\ Trouble
  /\ mem' = Down /\ open' = {} /\ ended' = ended \cup open /\ flight' = "none" /\ lock' = NoJob
  /\ job' = [j \in Jobs |-> Idle] /\ call' = "idle" /\ boot' = NoBoot
  /\ start' = [b \in Starts |-> IF start[b].at \in {"unborn", "succeeded"} THEN start[b]
                                ELSE [start[b] EXCEPT !.at = "over"]]
  /\ answered' = IF \A j \in Jobs : job[j].op = "none" THEN answered ELSE "nothing"
  /\ UNCHANGED <<kind, saved, born, actions>>

-----------------------------------------------------------------------------
FlightNext == FlightOpens \/ FlightLands \/ FlightEnds \/ FlightFails \/ FlightUnwinds
CallNext == CallEnsures \/ CallRecordsFailure
JobNext(j) ==
  \/ StopSaves(j) \/ Marks(j) \/ Drains(j) \/ StopEnds(j)
  \/ StartReads(j) \/ StartClears(j) \/ StartSaves(j) \/ StartLaunches(j)
  \/ ReopenSaves(j) \/ ReopenLifts(j) \/ ReopenConnects(j) \/ ReopenRecords(j)
  \/ RemoveSaves(j) \/ RemovePurges(j) \/ RemoveCleans(j) \/ RemoveClears(j) \/ RemoveEnds(j)
  \/ AddSaves(j) \/ AddRegisters(j) \/ AddEnds(j)
StartNext(b) == StartConnects(b) \/ StartHears(b) \/ StartEnds(b)
BootNext == BootReads \/ BootWalks \/ BootDrains \/ BootDefers \/ BootHears
Outside ==
  \/ \E j \in Jobs, op \in {"stop", "start", "remove", "add"}, r \in BOOLEAN :
       /\ ~r => op = "start" /\ kind # "oauth"
       /\ Begins(j, op, r)
  \/ TransportDies \/ CallBegins \/ Crash \/ BootBuilds

Inside == \/ FlightNext \/ CallNext \/ BootNext
          \/ \E j \in Jobs : JobNext(j)
          \/ \E b \in Starts : StartNext(b)

Next == Inside \/ Outside

Spec == Init /\ [][Next]_vars

-----------------------------------------------------------------------------
(* Properties                                                              *)

\* No session, but for one that boot is closing, and no connect.
NothingRuns ==
  /\ open \subseteq IF boot.at = "draining" THEN {boot.session} ELSE {}
  /\ flight \notin {"open", "landed"}

\* Once an admin was told that the upstream is stopped (or added, stopped),
\* and until an action changes it, it is saved as stopped, the backend
\* refuses it and nothing is connected to it or connecting, whatever calls,
\* Starts and boots were under way, also after a restart
\* (stop_keeping_sign_ins, _persist_new_upstream, _refuse_if_stopped).
StopHolds ==
  answered = "stopped" /\ boot.at # "down" =>
    saved.stopped /\ Stopped /\ NothingRuns

\* Once an admin was told that the upstream is removed, nothing is left of
\* it: no session or connect, and in the store no mark of a Stop, error or
\* sandbox, though a Start, a Stop, a call or boot was under way
\* (remove_upstream, unregister_upstream).
RemovedLeavesNothing ==
  answered = "removed" =>
    /\ ~saved.there /\ ~saved.stopped /\ ~saved.error
    /\ ~mem.registered /\ NothingRuns

\* Boot closes no session of a service account and cancels no Start: a
\* request may have come before it (connect_runtime, _keeps_in_use).
BootLeavesInUse ==
  [][boot' # boot /\ boot.at # "down" /\ boot'.at # "down" /\ kind # "oauth"
     => open \subseteq open' /\ \A b \in Starts : start'[b].at = "over" => start[b].at = "over"]_vars

\* A Start that says it succeeded opened a session that no Stop, removal or
\* restart took before it said so (_connect_shared, _stopped_meanwhile).
NoFalseSuccess ==
  [][\A b \in Starts : start'[b].at = "succeeded" /\ start[b].at # "succeeded"
       => start[b].session \notin ended]_vars

\* What an admin is told of an upstream stays true of it, and a boot takes
\* nothing of it from those who use it.
AnswersStayTrue == [](StopHolds /\ RemovedLeavesNothing) /\ NoFalseSuccess /\ BootLeavesInUse

\* Nobody is left waiting for one another: while an action of an admin, a
\* Start or a call is under way, someone can go on, with nothing new from
\* outside (stop_start_lock, _drain_state_resources, the slot's waiters).
SomeoneGoesOn ==
  \/ \E j \in Jobs : job[j].op # "none"
  \/ \E b \in Starts : start[b].at \notin {"unborn", "succeeded", "over"}
  \/ call # "idle"
  => ENABLED <<Inside>>_vars

=============================================================================
