----------------------------- MODULE Sandboxes -----------------------------
(***************************************************************************)
(* The sandboxes and the volumes one upstream has at the provider, and the *)
(* reference in the store that names them.                                 *)
(*                                                                         *)
(* Translated from adapters/sandbox_e2b/service.py and reconciler.py, with *)
(* the callers in client_manager.py, stdio_adapter.py, entrypoints/app.py  *)
(* and entrypoints/lifecycle.py.                                           *)
(*                                                                         *)
(* An action is what one task does between two calls of the provider or of *)
(* the store.  One backend runs at a time; a start told to stop finishes   *)
(* acquiring its sandbox and closes it.                                    *)
(***************************************************************************)
EXTENDS Naturals, FiniteSets

CONSTANTS MaxSandboxes, \* bounds: sandboxes ever created ...
          MaxVolumes,   \* ... volumes ...
          MaxSessions,  \* ... sessions opened ...
          MaxTrouble,   \* ... failed calls, crashes, starts and closes that
                        \*     nobody waits for any more ...
          MaxJobs,      \* ... Stops and removals ...
          MaxBoots      \* ... and boots

ASSUME BoundsAssumption ==
  {MaxSandboxes, MaxVolumes, MaxSessions, MaxTrouble, MaxJobs,
 MaxBoots} \subseteq Nat \ {0}

VARIABLES
  alive, older, made, \* sandboxes: running or paused, with another tag, created
  volumes, volumesMade,
  ref,          \* the reference
  sess,         \* the sessions
  opened,       \* sessions opened so far
  connecting,   \* connect_shared runs and waits for the old session to close
  stopped,      \* the upstream is DISABLED
  job,          \* the Stop or the removal under way
  meta,         \* the connect that now writes what the MCP says of itself
  proc, reuse,  \* where the process is; reuse on restart
  seen,         \* what the boot listed ...
  spared,       \* ... and left, paused and younger than the grace
  excused,      \* sandboxes whose kill failed, or that outlived a process
  lost,         \* volumes whose id did not reach the store
  clean,        \* the last boot's calls all worked, and nothing began since
  trouble, blind, overdue, \* failed calls and crashes, failed reads of the
                           \* reference by a start, overdue starts and closes
  jobs, boots

cloud == <<alive, older, made, volumes, volumesMade>>
excuses == <<excused, lost>>
bounds == <<trouble, blind, overdue, jobs, boots>>
killLeaves == <<older, made, volumes, volumesMade, lost>>
adminVars == <<opened, connecting, stopped, job>>
procVars == <<proc, reuse, seen, spared, clean, meta>>
quiet == <<blind, overdue, jobs, boots>>
vars == <<cloud, ref, sess, adminVars, procVars, excuses, bounds>>

Sandboxes == 1..MaxSandboxes
Volumes == 1..MaxVolumes
Sessions == 1..MaxSessions

\* SandboxPersistedRef; one that keeps nothing is deleted.
Ref(x, kill, v, destroy) ==
  [sandbox |-> x, toKill |-> kill, volume |-> v, toDestroy |-> destroy]
NoRef == Ref(0, {}, 0, {})

NewSession == [at |-> "unborn", sandbox |-> 0, volume |-> 0, copy |-> NoRef,
               record |-> TRUE, owner |-> FALSE, preserve |-> FALSE,
               left |-> FALSE, detached |-> FALSE, heir |-> "none"]
\* No connect's metadata is still to be written.
NoMeta == [at |-> "idle", copy |-> NoRef]
NoJob == [at |-> "idle", remove |-> FALSE, copy |-> NoRef, kept |-> NoRef]

Some(x) == {x} \ {0}
Named(x) == x = ref.sandbox \/ x \in ref.toKill
Acquiring == {"read", "killOlder", "connect", "setup", "killStale", "volume",
              "provision", "writeVolume", "create", "start", "strand"}
Registered == {"record", "recordWrite", "handshake", "open"}
Closing == {"kill", "forget", "forgetWrite"}
Running == Acquiring \cup Registered \cup Closing
Shutting == proc \in {"keeping", "stopping"}
Held(x) == \E s \in Sessions : sess[s].sandbox = x /\ sess[s].at \in Running

MayFail == trouble + blind + overdue < MaxTrouble

\* A call that fails, or a crash.
Trouble == MayFail /\ trouble' = trouble + 1
Fine == UNCHANGED trouble

TypeOK ==
  /\ meta.at \in {"idle", "read", "write"}
  /\ alive \subseteq 1..made /\ older \subseteq {1} /\ made \in 0..MaxSandboxes
  /\ volumes \subseteq 1..volumesMade /\ volumesMade \in 0..MaxVolumes
  /\ ref.sandbox \in 0..made /\ ref.toKill \subseteq 1..made
  /\ ref.volume \in 0..volumesMade /\ ref.toDestroy \subseteq 1..volumesMade
  /\ \A s \in Sessions : /\ sess[s].at \in {"unborn", "ended"} \cup Running
                         /\ sess[s].at = "unborn" <=> s > opened
                         /\ sess[s].at \in Registered \cup Closing => sess[s].sandbox # 0
  /\ job.at \in {"idle", "drain", "kill", "write", "reread", "clean", "rewrite"}
  /\ proc \in {"down", "wipe", "wiped", "list", "orphans", "leftovers", "drop", "up",
               "keeping", "stopping"}
  /\ \A s \in Sessions : sess[s].at \in Running => proc \in {"up", "keeping", "stopping"}
  /\ excused \subseteq 1..made /\ lost \subseteq 1..volumesMade

\* What earlier versions and earlier processes may have left: nothing, a
\* sandbox to reuse or one to kill, with this database's tag or another.
Init ==
  /\ made \in {0, 1} /\ alive = 1..made /\ older \in SUBSET (1..made)
  /\ volumesMade \in {0, 1} /\ volumes = 1..volumesMade
  /\ ref \in {Ref(made, {}, volumesMade, {}), Ref(0, 1..made, 0, 1..volumesMade)}
  /\ sess = [s \in Sessions |-> NewSession] /\ opened = 0
  /\ connecting = FALSE /\ stopped = FALSE /\ job = NoJob
  /\ proc = "down" /\ reuse = TRUE
  /\ seen = [sandboxes |-> {}, ref |-> NoRef] /\ spared = {}
  /\ excused = {} /\ lost = {} /\ clean = FALSE
  /\ meta = NoMeta
  /\ trouble = 0 /\ blind = 0 /\ overdue = 0 /\ jobs = 0 /\ boots = 0

-----------------------------------------------------------------------------
(* References and kills *)

\* Mutant: the whole reference goes with its sandbox.
NothingKept(r, alsoToKill) == NoRef

\* storage_only.
StorageOnly(r, alsoToKill) == Ref(0, r.toKill \cup alsoToKill, r.volume, r.toDestroy)

\* with_leftovers_gone.
LeftoversGone(r, killed, destroyed) ==
  [r EXCEPT !.toKill = @ \ killed, !.toDestroy = @ \ destroyed]

\* An upsert, or one that raises: it may have landed all the same.
Upsert(r) == ref' = r /\ Fine
UpsertFails(r) == ref' \in {ref, r} /\ Trouble

\* A kill that works, a sandbox already gone included; one that fails, the
\* sandbox killed all the same or not.
Kill(x) == alive' = alive \ {x} /\ Fine /\ UNCHANGED excused
KillFails(x) ==
  /\ x \in alive /\ Trouble
  /\ \/ alive' = alive /\ excused' = excused \cup {x}
     \/ alive' = alive \ {x} /\ UNCHANGED excused

\* Where the copy of the reference that was read is still used.
UsesCopy == {"killOlder", "connect", "setup", "killStale"}
Gone == [NewSession EXCEPT !.at = "ended"]

\* Session s goes on at `at`.
Goes(s, at) ==
  sess' = [sess EXCEPT ![s] =
             IF at = "ended" THEN Gone
             ELSE [@ EXCEPT !.at = at, !.volume = 0,
                            !.copy = IF at \in UsesCopy THEN @ ELSE NoRef]]
GoesWith(s, r) == sess' = [sess EXCEPT ![s] = r]

-----------------------------------------------------------------------------
(* A connect: _connect_shared closes the session there is, then opens.     *)

\* Mutant: a stopped upstream is opened again by a call.
MayConnectStopped == proc \in {"up", "keeping"}

\* _refuse_if_stopped.
MayConnect == proc \in {"up", "keeping"} /\ ~stopped

\* preserve_sessions_for_upstream: the registered sessions with an owner.
Marked(r) == [r EXCEPT !.preserve = @ \/ (r.at \in Registered /\ r.owner)]

Connect ==
  /\ MayConnect /\ ~connecting /\ meta = NoMeta /\ opened < MaxSessions
  /\ \A s \in Sessions : sess[s].at \in Running /\ ~sess[s].detached => sess[s].at = "open"
  /\ connecting' = TRUE
  /\ sess' = [s \in Sessions |->
       IF sess[s].at # "open" THEN Marked(sess[s])
       ELSE [Marked(sess[s]) EXCEPT !.left = TRUE,
                                    !.heir = IF sess[s].owner THEN "session" ELSE "none"]]
  /\ clean' = FALSE
  /\ UNCHANGED <<cloud, ref, opened, stopped, job, proc, reuse, seen, spared, meta, excuses, bounds>>

\* Nobody waits for session s, or it has ended.
OutOfTheWay(s) == sess[s].at \in Running => sess[s].detached

Open ==
  /\ connecting /\ proc \in {"up", "keeping"} /\ opened < MaxSessions
  /\ \A s \in Sessions : OutOfTheWay(s)
  /\ opened' = opened + 1 /\ connecting' = FALSE
  /\ GoesWith(opened + 1,
       [NewSession EXCEPT !.at = IF reuse THEN "read" ELSE "volume"])
  /\ UNCHANGED <<cloud, ref, stopped, job, procVars, excuses, bounds>>

\* A start is told to stop (Stop, last caller gone), or its session closed
\* after a failure.
Leave(s) ==
  /\ sess[s].at \in Running \ Closing /\ ~sess[s].left
  /\ sess' = [sess EXCEPT ![s].left = TRUE]
  /\ UNCHANGED <<cloud, ref, adminVars, procVars, excuses, bounds>>

\* ABANDON_TIMEOUT: who waited for the start to let go no longer does.
Overdue(s) ==
  /\ sess[s].left /\ sess[s].at \in Running /\ ~sess[s].detached
  /\ MayFail /\ overdue' = overdue + 1
  /\ sess' = [sess EXCEPT ![s].detached = TRUE]
  /\ UNCHANGED <<cloud, ref, adminVars, procVars, excuses, trouble, blind, jobs, boots>>

-----------------------------------------------------------------------------
(* _try_reconnect *)

ReadRef(s) ==
  /\ sess[s].at = "read"
  /\ LET x == ref.sandbox
     IN  GoesWith(s, [sess[s] EXCEPT
           !.copy = IF x = 0 THEN NoRef ELSE ref,
           !.at = CASE x = 0 -> "volume"
                    [] x \in older -> "killOlder"
                    [] OTHER -> "connect"])
  /\ UNCHANGED <<cloud, ref, adminVars, procVars, excuses, bounds>>

\* The read fails: the start goes on as if there were no reference.
BlindRead(s) ==
  /\ sess[s].at = "read" /\ MayFail /\ blind' = blind + 1
  /\ Goes(s, "volume")
  /\ UNCHANGED <<cloud, ref, adminVars, procVars, excuses, trouble, overdue, jobs, boots>>

\* Mutant: the fresh sandbox is recorded all the same.
RecordAnyway(s) == [sess[s] EXCEPT !.at = "volume", !.copy = NoRef]

\* Mutant: the start goes on to the handshake.
WithoutSandbox(s) == [sess[s] EXCEPT !.at = "handshake", !.copy = NoRef]

\* What a start records once the kill of an older sandbox failed: KEEP_REF.
KeepRef(s) == [sess[s] EXCEPT !.at = "volume", !.copy = NoRef, !.record = FALSE]

KillOlder(s) ==
  /\ sess[s].at = "killOlder"
  /\ \/ Kill(sess[s].copy.sandbox) /\ Goes(s, "volume")
     \/ KillFails(sess[s].copy.sandbox) /\ GoesWith(s, KeepRef(s))
  /\ UNCHANGED <<killLeaves, ref, adminVars, procVars, quiet>>

\* connect_sandbox; the size may have changed, and the call may fail.
ConnectSandbox(s) ==
  /\ sess[s].at = "connect"
  /\ \/ /\ sess[s].copy.sandbox \in alive
        /\ GoesWith(s, [sess[s] EXCEPT !.at = "setup", !.sandbox = sess[s].copy.sandbox])
     \/ Goes(s, "killStale")
  /\ UNCHANGED <<cloud, ref, adminVars, procVars, excuses, bounds>>

\* The old process is killed, the files are written, the command runs.
SetUp(s) ==
  /\ sess[s].at = "setup"
  /\ \/ sess[s].sandbox \in alive /\ Goes(s, "record")
     \/ GoesWith(s, [sess[s] EXCEPT !.at = "killStale", !.sandbox = 0])
  /\ UNCHANGED <<cloud, ref, adminVars, procVars, excuses, bounds>>

\* _kill_stale_sandbox; its result does not matter here.
KillStale(s) ==
  /\ sess[s].at = "killStale" /\ Goes(s, "volume")
  /\ Kill(sess[s].copy.sandbox) \/ KillFails(sess[s].copy.sandbox)
  /\ UNCHANGED <<killLeaves, ref, adminVars, procVars, quiet>>

-----------------------------------------------------------------------------
(* A fresh sandbox *)

\* _resolve_or_create_volume reads the reference, with persistent disk on.
ReadVolume(s) ==
  /\ sess[s].at = "volume"
  /\ \/ Goes(s, "create")  \* the disk is off, or the volume is there
     \/ /\ ref.volume = 0 /\ volumesMade < MaxVolumes
        /\ GoesWith(s, [sess[s] EXCEPT !.at = "provision", !.copy = ref])
     \/ Goes(s, "ended")   \* the read fails
  /\ UNCHANGED <<cloud, ref, adminVars, procVars, excuses, bounds>>

Provision(s) ==
  /\ sess[s].at = "provision"
  /\ \/ /\ volumesMade < MaxVolumes
        /\ volumesMade' = volumesMade + 1
        /\ volumes' = volumes \cup {volumesMade + 1}
        /\ GoesWith(s, [sess[s] EXCEPT !.at = "writeVolume", !.volume = volumesMade + 1])
     \/ Goes(s, "ended") /\ UNCHANGED <<volumes, volumesMade>>
  /\ UNCHANGED <<alive, older, made, ref, adminVars, procVars, excuses, bounds>>

\* Mutant: a new reference is written.
OnlyVolume(s) == [NoRef EXCEPT !.volume = sess[s].volume]

\* The reference as it was read, with the volume.
WithVolume(s) == [sess[s].copy EXCEPT !.volume = sess[s].volume]

WriteVolume(s) ==
  /\ sess[s].at = "writeVolume"
  /\ \/ Upsert(WithVolume(s)) /\ Goes(s, "create") /\ UNCHANGED lost
     \/ UpsertFails(WithVolume(s)) /\ Goes(s, "ended") /\ lost' = lost \cup {sess[s].volume}
  /\ UNCHANGED <<cloud, adminVars, procVars, excused, quiet>>

\* create_sandbox, with this database's tag; a call that fails may have
\* created one all the same.
Create(s) ==
  /\ sess[s].at = "create"
  /\ \/ /\ made < MaxSandboxes
        /\ made' = made + 1 /\ alive' = alive \cup {made + 1}
        /\ \/ GoesWith(s, [sess[s] EXCEPT !.at = "start", !.sandbox = made + 1])
                /\ Fine /\ UNCHANGED excused
           \/ Goes(s, "ended") /\ Trouble /\ excused' = excused \cup {made + 1}
     \/ Goes(s, "ended") /\ Fine /\ UNCHANGED <<made, alive, excused>>
  /\ UNCHANGED <<lost, older, volumes, volumesMade, ref, adminVars, procVars, quiet>>

\* Mutant: the sandbox of a failed start is left.
StartFailsOnly(s) == Goes(s, "ended")

\* The files, the docker daemon and the command.
StartFails(s) == Goes(s, "strand")

Start(s) ==
  /\ sess[s].at = "start"
  /\ \/ Goes(s, IF reuse /\ sess[s].record THEN "record" ELSE "handshake")
     \/ StartFails(s)
  /\ UNCHANGED <<cloud, ref, adminVars, procVars, excuses, bounds>>

KillStranded(s) ==
  /\ sess[s].at = "strand" /\ Goes(s, "ended")
  /\ Kill(sess[s].sandbox) \/ KillFails(sess[s].sandbox)
  /\ UNCHANGED <<killLeaves, ref, adminVars, procVars, quiet>>

\* _persist_live_ref reads what is there ...
ReadForRecord(s) ==
  /\ sess[s].at = "record"
  /\ \/ Fine /\ GoesWith(s, [sess[s] EXCEPT !.at = "recordWrite", !.copy = ref])
     \/ Trouble /\ Goes(s, "handshake")
  /\ UNCHANGED <<cloud, ref, adminVars, procVars, excuses, quiet>>

\* ... and writes it back with the sandbox.
WithSandbox(s) == [sess[s].copy EXCEPT !.sandbox = sess[s].sandbox]

Record(s) ==
  /\ sess[s].at = "recordWrite"
  /\ \/ Upsert(WithSandbox(s)) /\ GoesWith(s, [sess[s] EXCEPT !.at = "handshake", !.owner = TRUE, !.copy = NoRef])
     \/ UpsertFails(WithSandbox(s)) /\ Goes(s, "handshake")
  /\ UNCHANGED <<cloud, adminVars, procVars, excuses, quiet>>

HandOver(s) ==
  /\ sess[s].at = "handshake" /\ ~sess[s].left /\ Goes(s, "open")
  /\ meta' = [NoMeta EXCEPT !.at = "read"]
  /\ UNCHANGED <<cloud, ref, adminVars, proc, reuse, seen, spared, clean, excuses, bounds>>

\* _persist_cached_metadata merges into the reference, if there is one.
ReadForMetadata ==
  /\ meta.at = "read"
  /\ \/ Fine /\ meta' = IF ref = NoRef THEN NoMeta ELSE [at |-> "write", copy |-> ref]
     \/ Trouble /\ meta' = NoMeta
  /\ UNCHANGED <<cloud, ref, sess, adminVars, proc, reuse, seen, spared, clean, excuses, quiet>>

WriteMetadata ==
  /\ meta.at = "write" /\ meta' = NoMeta
  /\ Upsert(meta.copy) \/ UpsertFails(meta.copy)
  /\ UNCHANGED <<cloud, sess, adminVars, proc, reuse, seen, spared, clean, excuses, quiet>>

-----------------------------------------------------------------------------
(* A session closes *)

\* Mutant: only what was marked is kept.
PreservedIfMarked(s) == sess[s].preserve

\* Kept for the next process or for the session that follows.
Preserved(s) == sess[s].preserve \/ (Shutting /\ reuse)

Close(s) ==
  /\ \/ sess[s].at = "handshake"  \* told to stop, or the handshake failed
     \/ sess[s].at = "open" /\ sess[s].left
  /\ GoesWith(s, [sess[s] EXCEPT !.at = IF Preserved(s) THEN "ended" ELSE "kill",
                                 !.heir = IF Shutting /\ reuse THEN "process" ELSE @])
  /\ UNCHANGED <<cloud, ref, adminVars, procVars, excuses, bounds>>

\* _kill_closed_session_sandbox; the limit of 30 s is a kill that fails.
KillClosed(s) ==
  /\ sess[s].at = "kill"
  /\ \/ Kill(sess[s].sandbox) /\ Goes(s, IF sess[s].owner THEN "forget" ELSE "ended")
     \/ KillFails(sess[s].sandbox) /\ Goes(s, "ended")
  /\ UNCHANGED <<killLeaves, ref, adminVars, procVars, quiet>>

\* _forget_ref: only while the reference still names this sandbox.
StillNames(s) == ref.sandbox = sess[s].sandbox

ReadToForget(s) ==
  /\ sess[s].at = "forget"
  /\ \/ StillNames(s) /\ GoesWith(s, [sess[s] EXCEPT !.at = "forgetWrite", !.copy = ref]) /\ Fine
     \/ ~StillNames(s) /\ Goes(s, "ended") /\ Fine
     \/ Goes(s, "ended") /\ Trouble
  /\ UNCHANGED <<cloud, ref, adminVars, procVars, excuses, quiet>>

ForgetRef(s) ==
  /\ sess[s].at = "forgetWrite" /\ Goes(s, "ended")
  /\ Upsert(StorageOnly(sess[s].copy, {})) \/ UpsertFails(StorageOnly(sess[s].copy, {}))
  /\ UNCHANGED <<cloud, adminVars, procVars, excuses, quiet>>

-----------------------------------------------------------------------------
(* Stop, removal and Start, one at a time (stop_start_lock)                *)

JobGoes(at) ==
  job' = IF at = "idle" THEN [NoJob EXCEPT !.remove = job.remove] ELSE [job EXCEPT !.at = at]

\* transition_to_disabled: sessions are told to close, and a connect that
\* waited for one to close no longer does.
Stop(remove) ==
  /\ proc = "up" /\ job.at = "idle" /\ ~stopped /\ jobs < MaxJobs
  /\ stopped' = TRUE /\ jobs' = jobs + 1 /\ connecting' = FALSE
  /\ job' = [NoJob EXCEPT !.at = "drain", !.remove = remove]
  /\ sess' = [s \in Sessions |->
       IF sess[s].at \notin Running THEN sess[s]
       ELSE [sess[s] EXCEPT !.left = TRUE, !.detached = @ \/ connecting]]
  /\ meta' = NoMeta /\ clean' = FALSE
  /\ UNCHANGED <<cloud, ref, opened, proc, reuse, seen, spared, excuses,
                 trouble, blind, overdue, boots>>

\* Where kill_persisted_session goes when it is done.
AfterStop == IF job.remove THEN "reread" ELSE "idle"

\* kill_persisted_session, once the sessions have closed.
JobReads ==
  /\ job.at = "drain" /\ \A s \in Sessions : OutOfTheWay(s)
  /\ \/ job' = [job EXCEPT !.at = "kill", !.copy = ref] /\ Fine
     \/ JobGoes(AfterStop) /\ Trouble
  /\ UNCHANGED <<cloud, ref, sess, opened, connecting, stopped, procVars, excuses, quiet>>

\* The reference is kept when the kill fails.
AfterFailedKill == AfterStop

JobKills ==
  /\ job.at = "kill"
  /\ \/ Kill(job.copy.sandbox) /\ JobGoes("write")
     \/ KillFails(job.copy.sandbox) /\ JobGoes(AfterFailedKill)
  /\ UNCHANGED <<killLeaves, ref, sess, opened, connecting, stopped, procVars, quiet>>

JobWrites ==
  /\ job.at = "write" /\ JobGoes(AfterStop)
  /\ Upsert(StorageOnly(job.copy, {})) \/ UpsertFails(StorageOnly(job.copy, {}))
  /\ UNCHANGED <<cloud, sess, opened, connecting, stopped, procVars, excuses, quiet>>

\* on_upstream_removed.
RemovalReads ==
  /\ job.at = "reread"
  /\ \/ job' = [job EXCEPT !.at = "clean", !.copy = ref] /\ Fine
     \/ JobGoes("idle") /\ Trouble
  /\ UNCHANGED <<cloud, ref, sess, opened, connecting, stopped, procVars, excuses, quiet>>

RemovalCleans ==
  /\ job.at = "clean"
  /\ LET xs == Some(job.copy.sandbox) \cup job.copy.toKill
         vs == Some(job.copy.volume) \cup job.copy.toDestroy
     IN  \E ks \in SUBSET (xs \cap alive), kv \in SUBSET (vs \cap volumes) :
           /\ IF ks \cup kv = {} THEN Fine ELSE Trouble
           /\ alive' = alive \ (xs \ ks)
           /\ volumes' = volumes \ (vs \ kv)
           /\ job' = [job EXCEPT !.at = "rewrite", !.kept = Ref(0, ks, 0, kv)]
           /\ excused' = excused \cup ks
  /\ UNCHANGED <<lost, older, made, volumesMade, ref, sess, opened, connecting, stopped, procVars, quiet>>

\* The tombstone.
RemovalWrites ==
  /\ job.at = "rewrite" /\ JobGoes("idle")
  /\ Upsert(job.kept) \/ UpsertFails(job.kept)
  /\ UNCHANGED <<cloud, sess, opened, connecting, stopped, procVars, excuses, quiet>>

\* Start, or the upstream added again under the same id.
StartAgain ==
  /\ proc = "up" /\ job.at = "idle" /\ stopped
  /\ stopped' = FALSE /\ job' = NoJob
  /\ UNCHANGED <<cloud, ref, sess, opened, connecting, procVars, excuses, bounds>>

-----------------------------------------------------------------------------
(* The process *)

\* The lifespan: the override wipes first when it is set.
Boot ==
  /\ proc = "down" /\ boots < MaxBoots /\ boots' = boots + 1
  /\ reuse' \in BOOLEAN
  /\ proc' \in {"wipe", "list"}
  /\ clean' = TRUE /\ spared' = {}
  /\ sess' = [s \in Sessions |-> IF s <= opened THEN Gone ELSE NewSession]
  /\ UNCHANGED <<cloud, ref, adminVars, meta, seen, excuses, trouble, blind, overdue, jobs>>

\* wipe_for_fresh_restart: the sandbox is killed ...
Wipe ==
  /\ proc = "wipe" /\ proc' = "wiped"
  /\ \/ Kill(ref.sandbox) /\ seen' = [seen EXCEPT !.sandboxes = {}]
     \/ KillFails(ref.sandbox) /\ seen' = [seen EXCEPT !.sandboxes = Some(ref.sandbox)]
  /\ UNCHANGED <<killLeaves, ref, sess, adminVars, meta, reuse, spared, clean, quiet>>

\* ... and the reference cleared, with a sandbox not killed still to kill.
Wiped == StorageOnly(ref, seen.sandboxes)

WipeWrites ==
  /\ proc = "wiped" /\ proc' = "list"
  /\ \/ Upsert(Wiped) /\ UNCHANGED clean
     \/ UpsertFails(Wiped) /\ clean' = FALSE
  /\ UNCHANGED <<cloud, sess, adminVars, meta, reuse, seen, spared, excuses, quiet>>

\* reconcile lists the sandboxes with the tag and the references; when one
\* fails, or the time is up, it does nothing more.
List ==
  /\ proc = "list"
  /\ \/ /\ proc' = "orphans" /\ Fine /\ UNCHANGED clean
        /\ seen' = [sandboxes |-> alive \ older, ref |-> ref]
     \/ proc' = "up" /\ Trouble /\ clean' = FALSE /\ UNCHANGED seen
  /\ UNCHANGED <<cloud, ref, sess, adminVars, meta, reuse, spared, excuses, quiet>>

\* Mutant: only the running ones are killed.
NoOrphans == {}

\* Those the reference does not point at.
Orphans == seen.sandboxes \ {seen.ref.sandbox}

\* `young` are paused and younger than the grace, and left.
KillOrphans ==
  /\ proc = "orphans"
  /\ proc' = IF seen.ref.toKill = {} /\ seen.ref.toDestroy = {} THEN "up" ELSE "leftovers"
  /\ \E young \in SUBSET Orphans, kept \in SUBSET Orphans :
       /\ young \cap kept = {}
       /\ IF kept = {} THEN Fine /\ UNCHANGED clean ELSE Trouble /\ clean' = FALSE
       /\ alive' = alive \ (Orphans \ (young \cup kept))
       /\ spared' = young
       /\ excused' = excused \cup kept
  /\ UNCHANGED <<killLeaves, ref, sess, adminVars, meta, reuse, seen, quiet>>

\* _clean_up_leftovers retries ...
CleanUpLeftovers ==
  /\ proc = "leftovers" /\ proc' = "drop"
  /\ \E ks \in SUBSET (seen.ref.toKill \cap alive),
        kv \in SUBSET (seen.ref.toDestroy \cap volumes) :
       /\ IF ks \cup kv = {} THEN Fine /\ UNCHANGED clean ELSE Trouble /\ clean' = FALSE
       /\ alive' = alive \ (seen.ref.toKill \ ks)
       /\ volumes' = volumes \ (seen.ref.toDestroy \ kv)
       /\ seen' = [seen EXCEPT !.ref.toKill = @ \ ks, !.ref.toDestroy = @ \ kv]
       /\ excused' = excused \cup ks
  /\ UNCHANGED <<lost, older, made, volumesMade, ref, sess, adminVars, meta, reuse, spared, quiet>>

\* ... and _forget_leftovers drops what went.
Dropped == LeftoversGone(ref, seen.ref.toKill, seen.ref.toDestroy)

ForgetLeftovers ==
  /\ proc = "drop" /\ proc' = "up"
  /\ \/ Upsert(Dropped) /\ UNCHANGED clean
     \/ UpsertFails(Dropped) /\ clean' = FALSE
  /\ UNCHANGED <<cloud, sess, adminVars, meta, reuse, seen, spared, excuses, quiet>>

\* shut_down marks every sandbox to be kept, with those still to come ...
KeepSandboxes ==
  /\ proc = "up" /\ proc' = "keeping"
  /\ UNCHANGED <<cloud, ref, sess, adminVars, meta, reuse, seen, spared, clean, excuses, bounds>>

\* ... and then stops the runtimes, which closes every session.
StopRuntimes ==
  /\ proc = "keeping" /\ proc' = "stopping" /\ connecting' = FALSE /\ meta' = NoMeta
  /\ sess' = [s \in Sessions |->
       IF sess[s].at \in Running THEN [sess[s] EXCEPT !.left = TRUE] ELSE sess[s]]
  /\ UNCHANGED <<cloud, ref, opened, stopped, job, reuse, seen, spared, clean, excuses, bounds>>

\* What outlives the process without a reference.
Ends ==
  /\ proc' = "down" /\ connecting' = FALSE /\ meta' = NoMeta /\ job' = NoJob /\ clean' = FALSE
  /\ seen' = [sandboxes |-> {}, ref |-> NoRef] /\ spared' = {}
  /\ excused' = excused \cup {x \in alive : ~Named(x)}

Exit ==
  /\ proc = "stopping" /\ job.at = "idle"
  /\ \A s \in Sessions : sess[s].at \notin Running
  /\ Ends
  /\ UNCHANGED <<lost, cloud, ref, sess, opened, stopped, reuse, bounds>>

Crash ==
  /\ proc # "down" /\ Trouble /\ Ends
  /\ lost' = lost \cup {sess[s].volume : s \in {t \in Sessions : sess[t].at = "writeVolume"}}
  /\ sess' = [s \in Sessions |->
       IF s <= opened THEN Gone ELSE NewSession]
  /\ UNCHANGED <<cloud, ref, opened, stopped, reuse, quiet>>

-----------------------------------------------------------------------------
Next ==
  \/ Connect \/ Open
  \/ \E s \in Sessions :
       \/ Leave(s) \/ Overdue(s)
       \/ ReadRef(s) \/ BlindRead(s) \/ KillOlder(s) \/ ConnectSandbox(s)
       \/ SetUp(s) \/ KillStale(s)
       \/ ReadVolume(s) \/ Provision(s) \/ WriteVolume(s)
       \/ Create(s) \/ Start(s) \/ KillStranded(s)
       \/ ReadForRecord(s) \/ Record(s) \/ HandOver(s)
       \/ Close(s) \/ KillClosed(s) \/ ReadToForget(s) \/ ForgetRef(s)
  \/ ReadForMetadata \/ WriteMetadata
  \/ \E remove \in BOOLEAN : Stop(remove)
  \/ JobReads \/ JobKills \/ JobWrites
  \/ RemovalReads \/ RemovalCleans \/ RemovalWrites \/ StartAgain
  \/ Boot \/ Wipe \/ WipeWrites \/ List \/ KillOrphans \/ CleanUpLeftovers
  \/ ForgetLeftovers \/ KeepSandboxes \/ StopRuntimes \/ Exit \/ Crash

Spec == Init /\ [][Next]_vars

-----------------------------------------------------------------------------
(* Properties *)

\* A sandbox with another tag, which no listing returns, is named by the
\* reference for as long as it lives, unless a start could not read the
\* reference: the boot and the next Stop, start or removal find it there.
OlderSandboxIsKept == blind = 0 => \A x \in alive \cap older : Named(x)

\* Every sandbox is held by a session or named by the reference, unless its
\* own kill failed or it outlived a process that did not record it.
SandboxIsAccountedFor ==
  overdue = 0 /\ blind = 0 /\ ~Shutting =>
    \A x \in alive : Held(x) \/ Named(x) \/ x \in excused

\* No clean-up kills the sandbox of a session that is registered and was
\* not told to close: not the close of an earlier session, a Stop, a
\* removal, nor a start that gives up on a sandbox.
LiveIsNotKilled ==
  [][overdue = 0 =>
       \A s \in Sessions :
         sess[s].at \in Registered /\ ~sess[s].left /\ sess[s].sandbox \in alive
           => sess[s].sandbox \in alive']_vars

\* Every volume is the upstream's, one still to destroy, or on its way into
\* the reference: nothing else can find it.  Not one whose write failed.
VolumeIsNamed ==
  overdue = 0 =>
    \A v \in volumes \ lost :
      \/ v = ref.volume \/ v \in ref.toDestroy
      \/ \E s \in Sessions : sess[s].at = "writeVolume" /\ sess[s].volume = v
      \/ job.at = "rewrite" /\ v \in job.kept.toDestroy

\* After a Stop or a removal whose calls all worked the provider holds no
\* sandbox of the upstream, but one a session still closes, and after a
\* removal no volume either.
StopLeavesNothing ==
  stopped /\ job.at = "idle" /\ trouble = 0 /\ overdue = 0 /\ blind = 0 =>
    /\ \A x \in alive : x \in spared \/ Held(x)
    /\ job.remove => volumes = {}

\* After a boot whose calls all worked, before anything starts, every
\* sandbox is one to reuse, or paused and young, and nothing is left over.
BootLeavesNoOrphan ==
  proc = "up" /\ clean /\ blind = 0 =>
    /\ alive \subseteq {ref.sandbox} \cup spared
    /\ ref.toKill = {} /\ ref.toDestroy = {}

\* The last session's sandbox is kept when the next session takes it over (a
\* reopen of a recorded session), and when the next process does (any close
\* in a shutdown, also of a session opened in it).
KeptForTheNext ==
  jobs = 0 /\ overdue = 0 =>
    \A s \in Sessions : s = opened /\ sess[s].heir # "none" => sess[s].sandbox \in alive

\* Nothing the upstream has at the provider is lost sight of, nor a sandbox
\* that the next session or process takes over (the references' docstring).
KeptInSight ==
  OlderSandboxIsKept /\ SandboxIsAccountedFor /\ VolumeIsNamed /\ KeptForTheNext

\* What ends leaves nothing behind: a Stop or removal, and an earlier process
\* once the next has booted.
EndsLeaveNothing == StopLeavesNothing /\ BootLeavesNoOrphan
=============================================================================
