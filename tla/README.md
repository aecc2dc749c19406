# Verification of mcphero's backend

mcphero is a gateway between MCP clients and the MCP servers ("upstreams") an
organization configures. Its backend (`src/backend/src/mcpolis`) is one asyncio
process per deployment unit; in cloud mode several run against one MongoDB. Much
of it routes requests and stores settings. What is hard is the part that keeps
*one* of something although many tasks, users and backends want it at once (one
live session per upstream and user, one refresh of a sign-in's tokens, one sandbox
that is still named somewhere), and the part that must come out right although it
is interrupted between any two awaits. That is modelled here in TLA+,
model-checked with TLC and, where it matters most, proved with TLAPS for every
number of callers.

Paths below are relative to `src/backend/src/mcpolis` unless they start with `src/`.

## 1. The system and what is modelled of it

`PROJECT.json` lists every component with its files, and every hazard with its line.
In short:

| Component | State it keeps | Who touches it | What is hard | Module |
|---|---|---|---|---|
| session single-flight (`adapters/upstream_clients/session_single_flight.py`) | the flight of each slot, its waiters, the queue of replacements, the count of aborts | every task that needs an upstream session | joins, cancels, replacements and teardowns in any order around a connect that takes seconds | `SessionSingleFlight`, `SessionSlots` |
| upstream client manager (`client_manager.py`, `upstream_state.py`) | shared and per-user sessions, the state of each upstream | tool calls, heals, Start/Stop/Disconnect, idle sweep, boot, shutdown | a connect that ends after the Stop that aborted it; store and memory change at different times | `SessionSingleFlight`, `UpstreamLifecycle` |
| connection tasks (`connection_task_base.py` and its two kinds) | one task per MCP session, its requests in flight | client manager | a start given up in the step that succeeds, bounded closes, requests of a dead transport | `ConnectionTask` |
| sign-in refresh lock (`domain/services/sign_in_refresh_lock.py`, `adapters/distributed_lock_mongo.py`) | counted local locks; one leased document | periodic refresh and reconnects on every backend | crashes, failed or hung store operations, leases that run out, operations that land late | `RefreshLock` |
| sign-in tokens (`adapters/auth/mcp_token_storage.py`, `domain/services/oauth_refresh.py`, `upstream_connection_service.py`) | stored tokens, app registration, failure count | periodic refresh, reconnects, live sessions, consent, Disconnect | refresh tokens work once; refusals are acted on later than they are received | `SignInTokens` |
| stored sign-ins (`repositories/*connection*`) | rows by key, in MongoDB or a file | all of the above, removals, purge | two stores that must answer alike; keys built from parts | `ConnectionRows` |
| pending sign-ins (`adapters/auth/pending_auth.py`, callback route) | flows waiting for a browser | Connect, callback, removal, restart | an older flow's callback meets a newer flow | `PendingSignIns` |
| gateway sign-in provider (`adapters/auth/mcp_gateway_oauth_provider.py`) | clients, codes, tokens, in memory and in the store | MCP clients, revocation | memory first, store later; failed writes; restarts | `GatewayTokens` |
| gateway sessions, rate limits (`gateway_session_registry.py`, `session_owner_guard.py`, `rate_limiter_*.py`) | owners, registrations, logs of hits | every request, idle sweep, revocations | a sweep that waits while a request arrives; an end that lists what it cuts | `ClientSessions`, `RateLimits` |
| tool calls (`entrypoints/controllers/gateway_controller.py`, `domain/services/tool_router.py`) | requests, their session, the audit row | clients, Stop, edits, heals | what is repeated after a stall, and what the audit then says | `ToolCalls` |
| catalogs and names (`tool_registry.py`, `policy_notifier.py`, `policy_engine.py`, `uri_wrapping.py`) | lists per upstream, notices | refreshes, removals, clients | a notice that comes before the change it is about; a name that changes its meaning | `ToolCatalog`, `GatewayNames` |
| upstream administration (`upstream_admin_service.py`, `upstream_config_service.py`, `org_runtime.py`) | store and running copies of one upstream | admins, boot | add, remove, edit, Start and Stop beside each other, store calls that fail | `UpstreamLifecycle`, `UpstreamConfig` |
| members and roles (`user_admin_service.py`, `role_admin_service.py`) | settings, membership rows, tokens, running policy | admins, invited people | several stores per action, two locks | `Membership` |
| sandboxes (`adapters/sandbox_e2b/`) | the provider's sandboxes and volumes, the persisted reference | sessions, Stop, boot | a crash or failed call between create and record | `Sandboxes` |
| idle pause timer (`adapters/sandbox_e2b/idle_pause_timer.py`) | the provider's deadline, calls awaited | the session's pumps, the loop | a refresh that stalls while the deadline runs | `IdlePause` |
| cancel shielding and shutdown (`cancel_shield.py`, `background_tasks.py`, `entrypoints/lifecycle.py`) | sets of held tasks, the drain | every admin action, SIGTERM | two kinds of cancel, work that spawns work while it is drained | `Shutdown` |
| dashboard sign-in, service tokens, event streams, health probes, audit and configuration stores, migrations, text helpers, observability, controllers, frontend, templates, deployment, dev servers, local subprocess sandbox | – | – | input and output, pure look-ups, user interface | not modelled |

How they meet: a tool call (`ToolCalls`) asks the client manager for a session; the
manager runs every connect through the single-flight, whose flight starts a
connection task, over a sandbox where the upstream is hosted; a connect to an OAuth
upstream goes through the sign-in library, which reads and refreshes the stored
tokens; the refreshes the gateway starts itself take the refresh lock first; a
refusal leads to the clean-up that may delete the sign-in; a consent stores a new
one at any moment. Admin actions change the store, then the running copies, under
shields the shutdown waits for.

## 2. The modules

Everywhere an action is what one task does between two awaits: the program is a
single asyncio thread per backend. The state variables carry the names of the code's
attributes where they have one, and each module's header names its files. A comment
"Mutant:" marks a plausible bug, an operator of its own that no action uses:
`PROJECT.json` puts it in the place of one definition of the code, and TLC then finds
the property violated.

### SessionSingleFlight (abstract: SessionSlots)

The slots of one upstream: its shared session and one per user. `flights` is
`_flights`, `replacements` `_replacements`, `aborts` `_aborts`, `waiters`/`abandoned`
the fields of `_Flight`, `session` the recorded sessions, `began`/`seen` the abort
counts a flight's body and a replacement read. `Invoke` is a call of `ensure`,
`renew` or `replace`; `Again`, `GoOn` and `Return` are its wake-ups; `Cancel` is a
cancelled waiter; `Begin`, `CloseAndOpen`, `Land`, `Persisted`, `Fail` and `Unwind`
are the body of a flight (`_open_shared`, `_open_user_session`); `Forget` is the done-callback;
`Disconnect`, `LeaveOrg`, `Stop`, `Start`, `StopAll`, `Evict` and `Dies` are what
happens to sessions around it.

`SessionSlots` says what this promises, without flights, queues or callers: one
connect at a time per slot, a connect lands only in a slot it emptied, a teardown
dooms the connect under way, and a doomed connect never lands. `Promise` is the
refinement mapping and `SlotsKeepTheirPromise` the check of it.

Abstractions: a flight and the session it builds are named by the call that started
it. A renew's stale session is one that some call returned; `stale=None` has no
caller in production. The refusals of a flight that waits for, or aborts, itself are
left out, since no flight body asks for its own slot. An idle eviction may happen at
any time. The docstring of `replace_user_session` says that callers who arrive while
it runs join it; they wait for it and then decide again.

### UpstreamLifecycle

What the store says of one upstream (`saved`), what the manager holds (`mem`), the
connect of its slot, and whoever changes them: Stop, Start with its two ways to
reopen, add, remove, the boot's walk with its deferral, a tool call, a dying
transport, a crash. Each store call and each await is a step of its own; `lock` is
`stop_start_lock`. `ReAdd = FALSE`: with an id added again while its removal runs,
`StopHolds` does not hold, since the removal's clean-up then falls on the new one.

Seen while modelling and outside the properties: after a Start whose connect failed
`CONNECTING` may be left without the `background_task` its docstring promises; the boot
may act on a `disabled_ids` it read before a Start and mark an OAuth upstream DISABLED
whose Start has lifted the Stop; a Start whose store call fails after it cleared the
mark leaves the upstream stopped in memory and started in the store.

### ConnectionTask

One connection: the background task that owns its transport (`run`), the caller of
`start` who may give up in the very step in which the session becomes ready, the
requests on the session and those who close it. `RaceOver` is `init_with_exit_race`
under `_unless_abandoned`; `OnRunEnded` and `TransportFails` answer what is in
flight; `CloseOverdue` cancels the task and goes on waiting. Left out: the log buffer,
the environment and the denylist, what the server says of itself, and the explicit
pause (`SandboxConnectionTask.pause`), which nobody calls.

### RefreshLock

One sign-in, so one key, on several backends. `entry`/`users`/`owner`/`queue` are
`_local` and its counted `_LocalLock`s; `holder`/`expires` the document in MongoDB;
an `op` is an operation on its way to the store. An `acquire` is its two or three
operations (`find`, `update`, `force`), each of which takes effect between sending
and answer. `Troubles` names what may go wrong: a try or a renewal that fails or
hangs, a release that fails, a cancelled refresh, a crash. A failed operation may or
may not have reached the store; one that hangs becomes a ghost and may reach it at
any later time. Time is counted in ticks of a third of the lock's lifetime. No clock
skew between backends; a release takes less than a tick; timers do not fire late.

Four limits of the code show in the guards of the properties. `acquire` finds an
expired document of its own backend and then reports success without looking whether
the update matched it: if another backend took the lock in between, both hold it
(hence the troubles that may come together are a crash and failed renewals only).
`_force_expired` names the holder it read but not the expiry: a document that
this holder has renewed since the find, or taken again, is forced with its lease
running (`saw` is the expiry the find read, `overtaken` whoever lost its
document so; `ExclusiveWhileLeased` excludes them). A renewal that timed out may reach
the store after the release and take the lock for nobody. And a reconnect takes the
lock only if the tokens are due when it looks; the probe and the connect that
follow may refresh without it.

`LatencyAssumption` is about a store that answers at all: it does so before a try's
timer, and `2 * Every + 3 * Latency < TTL` leaves room for one missed renewal within a
lifetime. With the code's ten seconds and a renewal every third of them, it holds
up to 1.1 s per operation, of which a store takes milliseconds. What takes longer is
`tryHangs` and `renewalHangs`.

### SignInTokens

The stored row, registration and failure count of one user's sign-in to one
upstream, and two jobs at a time on it, each of them again and again. A job is one
task with its own token storage and sign-in library, and its record holds what they
hold. `Load`, `Present`, `Save` and `Bearer` are one request of the library;
`Still`, `Record`, `Purge`, `PurgeClient` and `ResetFailures` the clean-up after a
refusal, one action per write; `StartPeriodic` … `LetGo` the periodic refresh,
`StartReconnect` … `Retried` the reconnect, `Consent` … `SettleFailures` the user's
new sign-in. A token is named by its sign-in and its place among the tokens issued
for it. The upstream accepts each refresh token once, without a grace period, and
only from the registration it was issued to.

The clean-up's delete of the tokens is conditional, its delete of the registration
is not: a sign-in saved in between loses its own. `WorkingSignInKept` leaves out what
follows from that and from a refresh without the lock (`astray`). Left out: the
e-mails, the dashboard's error rows, pre-configured client ids, redirect-URI drift,
discovered server metadata; whether the failures on record span half an hour is left
open.

### ConnectionRows

Each operation of both stores on the rows of sign-ins, one step each, on keys that
are sequences of what stands between their colons. An upstream id may hold a dot and a
user id differ in case only, which is where the two stores could come apart. The health page
over them is `AuthHealth`. Left out: encryption, damaged rows, an admin's token. A
legacy row with neither time moves once in order at its first refresh. Mongo's
find-then-replace of `put_if_same` is one step (its filter decides).

### PendingSignIns

One upstream's sign-ins of several admins: a Connect (`asked` … `waits`), the
browser and the callback route (`back`), the exchange, the save, and calling off by
a removal, a Disconnect or a restart. Known and left open: a Connect that ends without
a link removes a newer flow from the coordinator; a callback between
`get_upstream` and `put_pending_code` leaves a code behind; a Connect whose
`create_pending` comes after `abort_for_user` may save for someone who is no longer a
member (`late`); two admins may pass the slot check together; and a sign-in that was
checked may land over an older one, which holds the slot again since a newer was removed.

### GatewayTokens

`mem` and `stored` of every client, code, and token; `write`, `queue`, `unsaved`,
`scheduled` the one write at a time with its retry; `reg`, `stage` the way of a
registration and a sign-in. Memory is the truth and the store follows. A crash leaves
the store. Left out: the test token, scopes, the choice of what a full table drops,
the conversion of the old single document. A consent that was answered and waits for
the write lock outlives a revoke that does not see it yet; `RevokedHoldsNothing`
says for which sign-ins a revoke holds.

### Sandboxes and IdlePause

`Sandboxes`: what one upstream has at the provider (`alive`, `volumes`), the
reference that names it (`ref`), the sessions, a Stop or removal (`job`), boots that
list, compare and kill. Left out: explicit pause and resume, the deletion of an
organization, several upstreams, other runners. A start that could not read
the reference records over an older-tagged sandbox's only name (`blind`).

`IdlePause`: one session's pump, watcher, close, and the timer's loop against the
provider's deadline. Only a refresh and the program's answers take time. A write, even
a ping, that crosses the pause wakes the sandbox for one window; refreshes that land
after their timeout are left out.

### Shutdown

Work under `finish_despite_cancels`, the sets that hold it, and `shut_down` step by
step. No clock: a wait may run out only while something slow, chosen at the start, is
still on. `KindsAssumption` only says that a piece of work is of one kind. Left
out: client disconnects of MCP calls (without a cancel), the GET requests' own tasks,
SIGHUP.

### ToolCalls, ToolCatalog, GatewayNames

`ToolCalls`: a request from its checks to its audit row, over a transport that goes
silent, dies or loses its sign-in, with the heal and the one repetition. A stream that
breaks after delivery but looks like a refused write may run a read twice
(`broke`); a revocation between the two attempts is not settled; default arguments an admin edits
meanwhile are not checked again.

`ToolCatalog`: refreshes of one upstream's lists by its own announcements, by an
admin, by a sweep; the debounce; the notice; the client that lists again. An older
refresh that lands last leaves older lists.

`GatewayNames`: pure look-ups over whatever a gateway has: what is listed under
which name and what a name reaches, on an organization's mount and on the one for
all. On the latter bare names are looked up in loaded runtimes only; an
upstream id with "__" cannot be routed; a templated URI is never matched bare.

### UpstreamConfig, Membership

`UpstreamConfig`: the definition of one upstream id, its three running copies, the
rules of roles and the variables written for it, under add, import, remove and
edits. Requests may be of several backends: a removal waits for another of its own backend
(`stop_start_lock`) and need not wait for those of another; a write of the roles' config
comes at any later time, since its lock is a process's own and only the compare-and-set
on `rev` holds between processes. The running copies are one process's; no property
rests on them. A removal deletes the definition in one store and purges the rules in
another: an add whose grant comes in between loses its access entries to the purge, and
is then denied to every role until an admin sets them. The comment in `remove_upstream`
knows the hazard and keeps the two calls next to each other, which narrows the window
but does not close it; `AddedIsOffered` excepts those adds (`outrun`, a history variable)
and no others, so that it says what the order of the steps achieves.
`Alone = TRUE` keeps edits apart: two `set_default_arguments` in one turn
lose one; an update's `find_one` and upserting `replace_one` resurrect an upstream
removed in between; a removal's last step deletes the variables of one added again.

`Membership`: config, rows, the policy's copy, service tokens, two locks, and each
action's steps. `InviteMeanwhile = FALSE` keeps an address from being invited while
an action on it runs: an acceptance could then leave the older role. Two parallel
invitations may exceed the seats.

### ClientSessions, RateLimits

`ClientSessions`: who opened a session, what works in it, its registration, the idle
sweep and the end of a caller's access. `_end_membership` terminates sessions before
it revokes tokens, so that a member who is being removed may be served in between
(`Hows`). A request whose token was accepted may still wait in the middleware (the lookup
of the user's organizations in `app.py`) when the sign-in is revoked. It then passes the
guard as its session's owner, registers the session and is served, and a stream so
opened lasts as long as its client keeps it. The revocation cannot know of it:
`cut` records the requests it found so (`late`) and the sessions they use (`near`), and
`RevokedIsCutOff` says that nothing else of the caller is served or registered.
Left out: the plan cache, `SlugCache`, delayed Redis stamps.
`RateLimits`: the log of admitted calls per caller, the organization's being their union, and the wait a
full one answers with.

## 3. What the runs show

Eight of the ten passing runs check several components that do not
share state at that level: the MC module EXTENDS them and a variable `moving`,
chosen in the initial states, says which one moves in a behaviour. The states are
thus the sum, not the product, of the components', and every property is evaluated
on the states of its component. TLC reports the moves of one component as one
action; that each action of it fires was checked with the component's own `Next`.

A property whose name stands for several (`KeptInSight`, `TokensAreSound`, …) is the
conjunction of named parts, stated with their comments right above it; each part was
shown to be violated by a mutant of its own.

| Run | Instance | Question |
|---|---|---|
| `slots` | one slot of either kind, 3 calls, 1 teardown (a second one too in the larger instance); 3 admin requests on one id, 2 adds, 2 changes of roles, 1 failure | cancelled only when unwanted; a heal never gets back what it reported; replacements in order; no session outlives a teardown; refinement of `SessionSlots`; what was added inherits nothing and is offered, though an earlier removal still closes sessions |
| `upstream_slots` | both slots, 2 calls, 1 teardown each, with fairness; one piece of every kind of work, 2 of them at once, 1 slow | a stopped upstream has no session in any slot; every call returns; the shutdown ends, the stores close last, nothing shielded is cut short, no failure is lost |
| `lock` | 2 backends, 3 refreshes, 2 troubles of which two may be a crash and failed renewals | nobody else holds while a lease runs; one holder per backend; a crashed holder is waited out; every wait is bounded; a released lock is free |
| `tokens` | a reconnect beside a periodic refresh or a live session, 2 sign-ins of 2 tokens, 1 trouble; 2 frames, 1 missed refresh | no rotation is lost; nothing deleted comes back; nothing newer is written over; a working sign-in is not deleted; a sandbox is paused only when idle |
| `gateway` | 1 client, 1 sign-in, 2 pairs of tokens, 1 revoke, 2 troubles, 1 expiry | what a client holds is stored; each code and token is exchanged once; a revoke ends what is under way; what is unsaved is stored in the end |
| `sandboxes` | 3 sandboxes, 2 volumes, 2 sessions, 2 boots, 1 job, 1 trouble | nothing is lost sight of; a Stop and a boot leave nothing; nobody kills what is in use |
| `administration` | 2 actions, 2 sessions, 1 failure; 3 requests of 2 callers at the limits, 2 sessions, 1 revocation (`OneIsCut`) | a Stop holds; a removal leaves nothing; whatever is under way can go on; no window over its limit; the sweep spares the busy; a revocation cuts off all but what was accepted before it |
| `people` | 2 flows of 2 users, 1 removal, 1 restart; any 3 calls on the rows; 3 operations on 2 people, 1 failure | a code reaches the flow that asked; no role name is stranded; a newer sign-in is kept; both stores answer alike |
| `tool_calls` | 2 requests, 3 sessions, 1 trouble, 1 admin action | unsafe calls run once; the audit tells the truth; a heal keeps the replacement |
| `tool_catalog` | 2 refreshes, 1 change, 1 break; all gateways of 2 orgs; 2 requests, 2 closers | clients are told of what changed; a listed name means one thing; a connection ends cleanly and, unwanted, ends |
| `auth_health_reads_nothing`, `parallel_removals_leave_no_admin` | smallest that show it | the two places where the code does something else than its docs or comments say (below) |

Deadlock is checked in `lock` only, where a timer that could not fire would block the
clock; everywhere else everybody may be at rest.

### Disagreements found

* `auth_health_reads_nothing`: the superadmin's health page takes the pairs both stores
  return the wrong way round, looks every sign-in up under swapped names, and counts
  none as expired.
* `parallel_removals_leave_no_admin`: the stores recheck the last-admin rule with the
  accepted members each request counted before its write; an invited admin who was
  removed after they joined is not missed by a second removal, and both pass.

### Bounds

Three calls are the fewest with somebody running, somebody queued and somebody who
arrives between the two. In the lock, two backends with three refreshes put two on
one backend against one on the other; the clock ends after two lifetimes, long
enough for a crash, the longest wait and another's turn. Two sign-ins distinguish
an older from a newer one. One failed call (two in the lock and the gateway) meets
any step. Two admin actions and two sessions are the fewest that can cross.

Larger instances were run once and hold: two teardowns of a slot (2.9 million
states); the lock up to time 7 (4.4 million) and, apart from it, with four failed
renewals (5.6 million); two troubles with two jobs on the tokens (17.6 million) and three tokens each (9.4 million); `MaxAwaited` 8 and time
16 of the idle pause (25.8 million); three pieces of work in the shutdown (3.8
million, safety only); two clients, and two sign-ins, of the gateway; three admin
actions (6.7 million); three Connects of pending sign-ins without a removal (1.7
million), and two with two removals and two restarts (5.6 million); four actions of
membership with one failure (5.9 million); three people
(2.6 million); time 2 of the client sessions (6.4 million); two changes (1.9
million) and three refreshes (23.6 million, safety only) of the catalog; three
requests of a connection.

### Fairness

* Slots: weak fairness of every call's own step and of every flight's. The event loop
  runs a task that is ready, and each await of a connect has its own timeout.
  Nothing is assumed of callers, cancels, teardowns or deaths.
* Shutdown, connection, gateway, catalog: weak fairness of the steps the process takes by itself
  (event loop, timers, bounded waits), never of a client, an admin or a failure.
* Lock: none; its waits are bounded by the clock (`WaitIsBounded`).
* `UpstreamLifecycle`: liveness proper is too slow there; `SomeoneGoesOn` says with
  ENABLED that whatever is under way has a step to take.

## 4. What is proved

Every theorem holds for all values of the constants, from the assumptions the module
declares (names distinct, bounds natural numbers, finitely many calls). TLC evaluates
each assumption in a run.

### SessionSingleFlightProofs

* `TypeCorrect`: `TypeOK`.
* `ConnectsNeverOverlap`: two connects never run at once for a slot. Inductive
  invariant `Shape`: types, every call waits only for what is of its slot, every
  registered flight belongs to its slot, and every flight that runs is the
  registered one. The last part is the property; it is not inductive alone because
  a new flight is only started where `_current` shows none, so a running flight that was
  not registered would not be seen.
* `NoSessionOutlivesATeardown` and `StoppedStaysStopped`: a recorded session was
  asked for after the last teardown of its slot, and a stopped or shut-down upstream
  has none. Inductive invariant `TornDown`, on top of `Shape`: a flight that is past
  its first check read the abort count of its start, which is behind the slot's
  once the upstream is stopped, so that `_aborts` refuses its session.
* `WaitersAreCounted`: the counter of a flight is the cardinality of the set of
  calls joined to it, which is also why it is never negative.
* `FlightsAreSharedHolds`: `FlightsAreShared`, that is: one flight per slot, its waiters
  counted, called off only when nobody wants it, and a fresh sign-in on a flight of
  its own.
* `HealsGetAnotherSession`: a heal is never answered with the session it reported.
* `ReplacedInOrderHolds`: the action property `ReplacedInOrder`.
* `KeepsThePromise`: the refinement `SlotsKeepTheirPromise`. Each action maps to a step of
  `SessionSlots` or to none; `Connecting`, `Doomed` and `Spent` are the abstract
  variables.

The invariant `Kept` adds to `Shape` and `TornDown`: `Wanted`, only what was started is
joined or called off; `Renewed`, a session lies in its own slot and whatever a call
returned was built by a flight that is over, so that no later join can lead back
to it; `Cleared`, a connect works on an emptied slot and closes only what its caller asked
to replace, which is what a landing step of `SessionSlots` needs; `Queued`, the queue is
exactly the replacements under way, in order; `Own`, a replacement waits for no
flight but its own.

### SignInTokensProofs

* `TokensTypeCorrect`: `TypeOK`.
* `RotationsAreNotLost`: `StoredTokensWork`.
* `DeletedStaysDeleted` and `NewerTokensAreKept`: the action properties
  `NothingComesBack` and `NewerTokensKept`.
* `WorkingSignInsAreKept`: the action property `WorkingSignInKept`, with its own
  invariant, `RefusalInvHolds`.

The first four follow from `TokensInv`. Its parts besides the types: `HandsRight`, a job that
is about to save has the newest tokens the upstream issued for the sign-in it
loaded, and no other job has unsaved tokens; `Alone`, what is stored and what
every other job has loaded of that sign-in is older, and nobody else is about to save
for it; `Known`, only issued tokens of sign-ins that were made are about; and
`StoredTokensWork` itself. `Alone` is what makes the conditional save safe: the filter
of `put_user_token_if_same_sign_in` compares only the sign-in, not the revision, so
that it could write older tokens over newer ones if two jobs could have newest ones
at once. They cannot, because the upstream takes each refresh token once: a second
job that had loaded the same row is refused. This does not use the lock, and so holds for
a live session's refreshes, which take none.

The proof sorts the 28 actions of a job into five effects (`Rests`, `Writes`,
`Asks`, `Gets`, `Misses`); the invariant is then shown to survive each effect.

`WorkingSignInKept` needs `RefusalInv` besides, which follows a refusal from the
upstream's answer to the delete. `LocksRight`: the refresh lock is with a job exactly
while it is at a place that needs it, so that nobody else is. `Recalls`: what a job
remembers was issued and is in nobody's hands to save, so that it never becomes the
stored row again once it is not (`Steady`); what is guilty then stays guilty and a
row that was due is due as long as it is stored. `Blameless`, while not `astray`: who presents
or saves has the lock, what is presented is the newest of its sign-in, a stored sign-in
has its registration, and what a job believes of a refusal is true (`Knows`). Under the
lock nobody else is about to save, so that by `StoredTokensWork` the stored token is the
newest and the upstream refuses it only if it was revoked, its successor was lost or the
registration is another. The other two ways to the delete are closed in turn: a
periodic refresh starts from a row that is due and presents it before it sends
anything else, and a reconnect whose bearer was refused blames nothing until it has tried
the refresh token. Each action of a job is shown to be `Fine`, that is to leave its own part true;
what it does to the other jobs' is `OthersStay` and `OthersKnow`.

### GatewayTokensProofs

* `TokensAreSoundHolds`: `TokensAreSound`: the store follows memory but for what is
  unsaved or being written, what a client was given survives a restart, a code
  or a refresh token buys one pair, and a sign-in nobody ended goes on working.
* `RevokedHoldsNothingHolds`: `RevokedHoldsNothing`.
* `IInvHolds`: the invariant both follow from.

Beside the shapes of the variables: `QueueHasRoom`, whoever waits to mint a pair will have
one, so that the bound on pairs cuts no request short; `LockShape`, what the holder of the
write lock is at, which is needed because a request checks before it waits and
acts when it holds; `Landed`, what of a write has landed is in the store, so that a crash
in its middle leaves a known state; `Origins`, which pair comes of which sign-in through
any number of renewals, without which a revoke could not be said to end them all; and
`GrantsSafe`, the strengthening of "what is given is stored": besides, no write under way
deletes it. `StoreFollowsMemory` alone is not inductive for the first of these
reasons, `Survives` for the moment between the landing of the new pair and the retirement of
the old one. Assumed: every sign-in has a client, "no sign-in" is not one, the bounds
are natural numbers.

### ToolCallsProofs

* `UnsafeRunsOnceHolds`: a request that must not be repeated runs at most once.
* `EndsAreAccountedForHolds`: what the audit row says of an ended request is true, its
  session was dropped if it stalled, and a revoked sign-in is noticed.
* `HealKeepsReplacementHolds`: the action property: only who failed on a session takes
  it away.
* `IInvHolds`: the invariant they follow from.

The properties speak of ended requests; the invariant says at every place of a
request what it owes by then. `Tries`: who is about to be dispatched has a try
left, and a second one only after a stall; `Once`: an unsafe request that is still
to be sent has run nowhere, and no old attempt of it is still in flight; `Dropped`:
nobody past its failure is left on the session it saw stall; `Revocation` and
`Noticed`: at most one session met the revocation, and who met it is on its way to say so.

### ShutdownProofs

* `ShutdownIsOrderlyHolds`: `ShutdownIsOrderly`: the stores close last unless the job
  drain ran out, nothing shielded is cut short, every failure reaches a caller or a
  report.
* `IInvHolds`: the invariant.

`StoresCloseLast` is not inductive: the drain looks at the sets of held tasks, and
some work is in none of them. `Within` says that a step or kill is awaited
within an action that is held, `LoopsAreLeft` and `Managers` that a loop or a session manager
that outlasted its own step is left to the drain, `Awaited` that whoever started
work waits for it. So when the drain finds nothing, nothing is there (`AllOver`), and
nothing can be started any more, since everything refuses by then.

About `ConnectionTask`, in the same module:

* `TaskTypeCorrect` and `ConnectionsEndCleanly` (`EndsCleanly`). Inductive invariant
  `TaskInv`: a task that has ended holds no transport; nothing happens to a connection
  before its start, so that an ended task never runs again and a close that was done
  stays done; and a request is in flight only if the session was handed over, which is
  why the callback of the task's end may leave requests alone otherwise.

### RefreshLockProofs

* `LockKeepsItsWordHolds`: `LockKeepsItsWord`: one holder per backend, bounded waits, a lease
  that survives one failed renewal, and no lock left after a release. The first two hold
  whatever happens; the last two under the troubles their guards name.
* `ExclusiveWhileLeasedHolds`: while a lease runs, nobody else holds the lock, if
  only failed renewals and crashes happened, any number of them.
* `IInvHolds`: the invariant, in three layers.

*Locks*: `Local`, the counter of an entry is the number of those who use it, which is why
it is not dropped under anyone. *Time*: `Ops`, an operation under way is younger than
the latency and no timer was missed; `InTime`, a try begins within the wait. *The
document*, while calm: `CalmOps`, only the dead leave operations behind and whoever
means to force found an expired document; `Owned`, a live backend's document
belongs to a refresh that has taken it; `Leased`, a holder's lease is no longer than the
document's expiry; `Lasts`, the next renewal lands before that (`Slack` counts the latencies
and the missed renewal, and `LatencyAssumption` bounds it); `NobodyDead`.

`ExclusiveWhileLeased` needs them all. A `find` that meets a document of its own backend
would take a lock that somebody holds: by `Owned` that is a refresh of the same
backend, and by `Local` there is no other. A `force` meets a document that was expired when
it was read; if it runs again, its holder is counted in `overtaken`, otherwise `Leased` says
that no lease runs.

### ClientSessionsProofs

About `ClientSessions` and the `RateLimits` it uses.

* `SessionsAreTheirOwners`: `SessionsFollowTheirOwners`, with any number of requests
  between authentication and the guard when a sign-in is revoked.
* `RegisteredForTheirOwners`: the half of it that is about the registry, a session is
  registered for its owner alone.
* `SweepClosesNothingBusy`: the action property `SweepSparesTheBusy`.
* `CallsStayWithinLimits`: `WithinLimit`.
* `SessionsAreInOrder`: the invariant `SessionsInv`.

`Counted` says that the guard's counter of an owned session is the number of its open
requests plus that of its running calls; together with `IdleOfOwned`, a session has an
idle time exactly while it is owned, this gives the sweep its right to close: what it
still finds idle after waiting for the close before is empty. `Counted` is inductive only with `Fresh`, a
session that its opener has not recorded is untouched by everyone else, so that recording
it may start the counter anew; with `GoneFirst`, what the sweep closes has already left the
manager, so that nobody enters between the close and the forgetting; and with
`Served`, who is open in a live session is its owner and has it registered. `CutOff`
follows a revocation: the caller has no token, their requests before the guard are
those the revocation found there, and what is registered for them or serves them is
listed to be terminated or came of such a request. That nothing listed comes back to
life needs `Fresh`: what the manager makes is a session no request is in.

For the limits, `LimitInv` says of every time, not only of the present, that the window which ends then
holds no more calls than the limit. A call is admitted when no bucket asks for a
wait; that none does means that the oldest call kept is out of the window or the log
is not full (`RoomWhenNoWait`, by `Earliest`), so the present window has
room, and every earlier one is left as it was. The organization's log is the union of
the callers'. Assumed: limits and window positive, "nobody" is no caller.

### PeopleProofs

About `PendingSignIns` and `Membership`. Of the first:

* `FlowsStayApartHolds`: `FlowsStayApart`.
* `SignInsAreKeptHolds`: the action properties `NewerSignInKept` and `TakenSlotIsKept`.
* `SignInsInOrder`: the invariant `SignInInv`.

A removal calls the person's flows off and then deletes what is saved; what a flow was
just saving may land behind it. `LeaversAreOff` says that by then none of their flows is
left that was not called off, except those that began too late (`late`), and that what
is saved again comes of such a flow; `EndsTakeTheirTokens`, that it does not end with its tokens
in the store. `SomeoneForgets` does the same for the registration, which carries no
name: while there is one, a called-off flow is still on its way to drop it. That
is inductive only because a flow which leaves it to a newer sign-in (`Looks`) finds
tokens that belong, by `LeaversAreOff`, to another called-off flow that has yet to forget them.

`SlotIsKept` carries the check of `set_tokens` over to the save it precedes: whoever had signed in
before the check and is the last to have done so was seen by it. The attempt to prove it
showed that the property holds only for the last to sign in, as it is stated now: when a
newer sign-in is removed, the slot goes back to an older one (`slot_owner_of`), over which a
flow that was checked before may land. That takes three Connects; two flows cannot show it.

Of `Membership`, for any people, role names, tokens, actions at once and failures:

* `MembersAgreeHolds`: `MembersAgree`.
* `MembersInOrder`: the invariant `MembersInv`.

Both assume `~InviteMeanwhile`, as the runs do, and for a reason: with it an acceptance may
leave a row with the role of the invitation before. `MembersAgree` speaks of moments when
nothing is under way; the invariant says who is still to bring each part in order until
then. A row without an invitation has a removal, a refusal or an acceptance that ends it,
and one the policy does not know has the acceptance that will add or undo it
(`RowsAreBacked`); a row with another role than the user's has the role change, or is
one that a rename will still move (`RowRoles`); a token of an unknown role is one that
the rename has not reached (`TokensKnown`). The rest keeps these so: only one action is past the roles
lock (`Locked`) and what it checked there still holds (`StillSo`); nobody is invited
again before their removal has ended the row (`GoneStayGone`, `AddsAlone`); and an
acceptance or a role change that finds its person still a user finds them with the role it
wrote (`RolesHold`), although removals hold no lock.

### Only model-checked

* Liveness (`EveryChangeIsStored`, the ends of calls, shutdown and connections) and anything
  with ENABLED (`SomeoneGoesOn`): out of TLAPS' reach.
* `OrphanIsWaitedOut`: checked with one crash. Between two crashes it may fail by a latency:
  a late operation of the first backend can still insert a document, whose expiry is
  then already old.
* What computes over data: `GatewayNames`, `ConnectionRows`.
* `KeptInSight`, `EndsLeaveNothing` and `LiveIsNotKilled` of `Sandboxes`, `PauseIsFair` of
  `IdlePause`, `AddedStandsAlone` and `AnswersStayTrue` of the administration of
  upstreams: no proof yet, see the plan.

## 5. What is not modelled

* The dashboard's sign-in and the service tokens: signed cookies and single-step
  registry operations.
* Argument patterns, template variables, secret scanning, plan rules: pure functions.
* Configuration and audit stores, migrations, e-mail, observability, event streams: one
  write or one read per operation; what matters is in the modules that call them.
* Controllers and HTTP routes: parsing and answers. The frontend, the sandbox templates,
  deployment and development servers: no state shared with the backend's core.
* The local subprocess sandbox: a development path, mostly pipes.
* The deletion of an organization, and the building and eviction of its runtime.

## 6. The plan

Still to be proved, most important first: `KeptInSight` of `Sandboxes`, whose invariant
relates the provider's sandboxes, the boots that have listed them and the reference;
`AddedStandsAlone` of `UpstreamConfig`.
