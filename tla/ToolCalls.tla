----------------------------- MODULE ToolCalls ------------------------------
(***************************************************************************)
(* A request of an MCP client on its way through the gateway: the policy,  *)
(* the rate limit, the upstream's session, the dispatch, what a stalled    *)
(* transport leads to, and the audit row.                                  *)
(*                                                                         *)
(* Translated from entrypoints/controllers/gateway_controller.py,          *)
(* domain/services/tool_router.py, the session calls of                    *)
(* domain/services/upstream_connection_service.py and                      *)
(* adapters/upstream_clients/client_manager.py.                            *)
(*                                                                         *)
(* One upstream of one organization.  How its session is opened once for   *)
(* all who wait is SessionSingleFlight, here a step that finds or makes    *)
(* one; how a limiter counts is left out: it lets a request pass or not.   *)
(***************************************************************************)
EXTENDS Naturals, FiniteSets

CONSTANTS Calls,       \* the requests
          MaxSessions, \* bounds: sessions opened ...
          MaxTrouble,  \* ... sessions that break ...
          MaxAdmin     \* ... and what the admins do

ASSUME CallsAssumption == {MaxSessions, MaxTrouble, MaxAdmin} \subseteq Nat

Sessions == 1..MaxSessions

\* A tool that says nothing about itself, one that says readOnly or
\* idempotent, and a resource or prompt.
Kinds == {"tool", "safe_tool", "read"}

VARIABLES
  mode,      \* auth.mode: service_account shares a session, OAuth has one of a user
  grant,     \* the store: the user's sign-in, which the provider may have revoked
  stopped,   \* is_stopped
  allowed,   \* whether the caller's role has this upstream
  default,   \* the default argument an admin stored: one the role's patterns let pass or not
  live,      \* the cached session, or 0
  health,    \* the sessions' transports
  call,      \* the requests
  flying,    \* what a transport delivered and the upstream did not run yet
  ran,       \* how often the upstream ran a request
  row,       \* the audit rows
  opened, trouble, acts

vars == <<mode, grant, stopped, allowed, default, live, health, call, flying, ran, row,
          opened, trouble, acts>>

Unborn == [kind |-> "tool", at |-> "unborn", sess |-> 0, tries |-> 0, stall |-> "none",
          replied |-> FALSE, checked |-> "none", sent |-> "none", status |-> "none",
          broke |-> FALSE, cancelled |-> FALSE, unlucky |-> FALSE, revoked |-> FALSE]

TypeOK ==
  /\ mode \in {"service_account", "oauth"} /\ grant \in {"good", "revoked", "none"}
  /\ stopped \in BOOLEAN /\ allowed \in BOOLEAN /\ default \in {"fine", "banned"}
  /\ live \in 0..opened /\ health \in [Sessions -> {"good", "silent", "dead", "revoked"}]
  /\ flying \in [Calls -> SUBSET (1..opened)] /\ ran \in [Calls -> 0..2]
  /\ row \in [Calls -> {"none", "denied", "success", "error", "cancelled"}]
  /\ \A c \in Calls :
       /\ call[c].kind \in Kinds
       /\ call[c].at \in {"unborn", "admitting", "charging", "resolving", "sent",
                          "failed", "reopening", "settling", "recording", "ended"}
       /\ call[c].tries \in 0..2 /\ call[c].sess \in 0..opened
       /\ call[c].stall \in {"none", "before", "after"}

Init ==
  /\ mode \in {"service_account", "oauth"} /\ grant = "good"
  /\ stopped = FALSE /\ allowed \in BOOLEAN /\ default = "fine"
  /\ live = 0 /\ health = [s \in Sessions |-> "good"]
  /\ call = [c \in Calls |-> Unborn] /\ flying = [c \in Calls |-> {}]
  /\ ran = [c \in Calls |-> 0] /\ row = [c \in Calls |-> "none"]
  /\ opened = 0 /\ trouble = 0 /\ acts = 0

Admin == <<mode, stopped, allowed, default>>
Upstream == <<flying, ran>>
Bounds == <<trouble, acts>>

-----------------------------------------------------------------------------
(* What the steps share                                                    *)

Moves(c, at) == call' = [call EXCEPT ![c].at = at]

\* The request goes to its audit row, with the status that row will have.
Concluded(c, status) ==
  [call[c] EXCEPT !.at = "recording", !.status = status, !.replied = FALSE,
                  !.checked = "none", !.sent = "none"]
Concludes(c, status) == call' = [call EXCEPT ![c] = Concluded(c, status)]

\* Transports that refuse a write; one that is closed refuses from then on.
Down == {"dead", "revoked"}
Closed(h) == IF h = "revoked" THEN h ELSE "dead"

\* The first try stalled as the sign-in was revoked.
FirstRevoked(c) == call[c].tries = 1 /\ health[call[c].sess] = "revoked"

\* max_attempts: a repeat only of what declares itself safe to repeat.
MaxAttempts(c) == IF call[c].kind = "tool" THEN 1 ELSE 2

\* Mutant: a read is repeated whatever the upstream may have done with it.
RepeatsAnyStall(c) == call[c].tries < MaxAttempts(c)

\* is_last and may_retry: a read is not, once the upstream may have it.
MayRetry(c) ==
  /\ call[c].tries < MaxAttempts(c)
  /\ call[c].kind = "read" => call[c].stall # "after"

\* Mutant: whatever is cached is dropped.
DropsWhatIsThere(c) == live # 0

\* evict_user_session_if_current, and the stale of reconnect_shared_fresh.
DropsStalled(c) == live = call[c].sess

\* Mutant: a request that is not repeated leaves the sign-in as it is.
NeverSettles(c) == IF MayRetry(c) THEN "resolving" ELSE "recording"

\* A heal that worked: the request is repeated; a first try that is not
\* repeated looks whether the sign-in still is good (settle); else it failed.
AfterHeal(c) ==
  IF MayRetry(c) THEN "resolving"
  ELSE IF call[c].tries = 1 /\ mode = "oauth" THEN "settling" ELSE "recording"

\* The session a connect opens, on a number nobody had.
Opens ==
  /\ opened < MaxSessions /\ opened' = opened + 1 /\ live' = opened + 1

-----------------------------------------------------------------------------
(* The gateway's checks                                                    *)

\* _check_upstream_and_tool_policy, on the arguments with the stored
\* default on top.
CallsTool(c) ==
  /\ call[c].at = "unborn"
  /\ \E kind \in {"tool", "safe_tool"} :
       call' = [call EXCEPT ![c].kind = kind, ![c].checked = default,
                            ![c].at = IF allowed /\ default = "fine" THEN "admitting" ELSE "charging"]
  /\ UNCHANGED <<Admin, grant, live, health, Upstream, row, opened, Bounds>>

\* A resource or a prompt has no stored default, and asks no rate limiter.
Reads(c) ==
  /\ call[c].at = "unborn"
  /\ call' = [call EXCEPT ![c].kind = "read", ![c].at = IF allowed THEN "resolving" ELSE "charging"]
  /\ UNCHANGED <<Admin, grant, live, health, Upstream, row, opened, Bounds>>

\* A name that belongs to no organization or upstream of the caller, or to
\* two: charged as a refusal, and no row.
NamesNothing(c) ==
  /\ call[c].at = "unborn" /\ Moves(c, "ended")
  /\ UNCHANGED <<Admin, grant, live, health, Upstream, row, opened, Bounds>>

\* _admit_call comes back, and route_call goes on at once: it puts the
\* default of now into the arguments.
Admitted(c) ==
  /\ call[c].at = "admitting"
  /\ \/ call' = [call EXCEPT ![c].at = "resolving", ![c].sent = default]
     \/ Moves(c, "ended")
  /\ UNCHANGED <<Admin, grant, live, health, Upstream, row, opened, Bounds>>

\* _charge_and_audit_denial: a refused request past its limit gets no row.
Charges(c) ==
  /\ call[c].at = "charging"
  /\ Concludes(c, "denied") \/ Moves(c, "ended")
  /\ UNCHANGED <<Admin, grant, live, health, Upstream, row, opened, Bounds>>

-----------------------------------------------------------------------------
(* The session and the dispatch                                            *)

\* _resolve_session has no session to give.
Unavailable(c) ==
  /\ call[c].at = "resolving"
  /\ \/ stopped /\ grant' = grant /\ Concludes(c, "error")
     \/ ~stopped /\ live = 0 /\ mode = "oauth" /\ grant # "good"
        /\ grant' = "none" /\ Concludes(c, "error")
     \/ ~stopped /\ live = 0 /\ grant' = grant                \* the connect fails
        /\ call' = [call EXCEPT ![c] = [Concluded(c, "error") EXCEPT !.unlucky = TRUE]]
  /\ UNCHANGED <<Admin, live, health, Upstream, row, opened, Bounds>>

\* The first request of many to find no session opens one.
Connects(c) ==
  /\ call[c].at = "resolving" /\ ~stopped /\ live = 0
  /\ mode = "oauth" => grant = "good"
  /\ Opens
  /\ UNCHANGED <<Admin, grant, health, call, Upstream, row, Bounds>>

\* The request is written to the cached session, which nobody asks whether
\* it is alive: a dead one refuses the write.
Sends(c) ==
  /\ call[c].at = "resolving" /\ ~stopped /\ live # 0
  /\ LET down == health[live] \in Down
     IN /\ call' = [call EXCEPT ![c].at = IF down THEN "failed" ELSE "sent",
                                ![c].stall = IF down THEN "before" ELSE "none",
                                ![c].sess = live, ![c].tries = @ + 1, ![c].replied = FALSE,
                                ![c].revoked = @ \/ (call[c].tries = 0 /\ health[live] = "revoked")]
        /\ \/ flying' = [flying EXCEPT ![c] = IF down THEN @ ELSE @ \cup {live}]
           \/ health[live] = "silent" /\ flying' = flying     \* or it never got there
  /\ UNCHANGED <<Admin, grant, live, health, ran, row, opened, Bounds>>

\* The upstream runs what it got, whoever still waits for it.
Runs(c, s) ==
  /\ s \in flying[c]
  /\ flying' = [flying EXCEPT ![c] = @ \ {s}] /\ ran' = [ran EXCEPT ![c] = @ + 1]
  /\ call' = [call EXCEPT ![c].replied = @ \/ (call[c].at = "sent" /\ call[c].sess = s)]
  /\ UNCHANGED <<Admin, grant, live, health, row, opened, Bounds>>

\* An answer: a result, or an error on a session that is fine.
Returns(c) ==
  /\ call[c].at = "sent" /\ call[c].replied /\ health[call[c].sess] = "good"
  /\ \E status \in {"success", "error"} : Concludes(c, status)
  /\ UNCHANGED <<Admin, grant, live, health, Upstream, row, opened, Bounds>>

\* The ping is not answered, or the connection ends under the request: both
\* count as after the delivery.  A stream that breaks may also look like a
\* write that was refused.
Stalls(c) ==
  /\ call[c].at = "sent" /\ health[call[c].sess] # "good"
  /\ \/ call' = [call EXCEPT ![c].at = "failed", ![c].stall = "after",
                                ![c].revoked = @ \/ FirstRevoked(c)]
     \/ /\ health[call[c].sess] \in Down
        /\ call' = [call EXCEPT ![c].at = "failed", ![c].stall = "before", ![c].broke = TRUE,
                                ![c].revoked = @ \/ FirstRevoked(c)]
  /\ UNCHANGED <<Admin, grant, live, health, Upstream, row, opened, Bounds>>

-----------------------------------------------------------------------------
(* What a stall leads to                                                   *)

\* Mutant: only what is repeated heals.
HealsForARetry(c) == MayRetry(c)

\* is_transport_stall: the session is dropped also when this request is not
\* repeated.
Heals(c) == call[c].stall # "none"

\* The except branch: no heal after a Stop, which closed the session.
\* heal_stalled_session drops the stalled session only; the shared one it
\* also opens anew.
Handles(c) ==
  /\ call[c].at = "failed"
  /\ IF stopped \/ ~Heals(c)
     THEN Concludes(c, "error") /\ UNCHANGED <<live, health>>
     ELSE /\ IF DropsStalled(c)
             THEN live' = 0 /\ health' = [health EXCEPT ![live] = Closed(@)]
             ELSE UNCHANGED <<live, health>>
          /\ IF mode = "service_account" /\ live' = 0 THEN Moves(c, "reopening")
             ELSE call' = [call EXCEPT ![c].at = AfterHeal(c), ![c].status = "error"]
  /\ UNCHANGED <<Admin, grant, Upstream, row, opened, Bounds>>

\* reconnect_shared_fresh: its connect, or one that was faster.
Reopens(c) ==
  /\ call[c].at = "reopening"
  /\ \/ /\ ~stopped /\ call' = [call EXCEPT ![c].at = AfterHeal(c), ![c].status = "error"]
        /\ IF live # 0 THEN UNCHANGED <<live, opened>> ELSE Opens
     \/ Concludes(c, "error") /\ UNCHANGED <<live, opened>>
  /\ UNCHANGED <<Admin, grant, health, Upstream, row, Bounds>>

\* settle_oauth_state_after_stall: a reconnect that finds the sign-in dead
\* deletes it.
Settles(c) ==
  /\ call[c].at = "settling"
  /\ \/ /\ ~stopped /\ (live # 0 \/ grant = "good") /\ Concludes(c, "error") /\ grant' = grant
        /\ IF live # 0 THEN UNCHANGED <<live, opened>> ELSE Opens
     \/ /\ ~stopped /\ live = 0 /\ grant # "good" /\ Concludes(c, "error") /\ grant' = "none"
        /\ UNCHANGED <<live, opened>>
     \/ /\ call' = [call EXCEPT ![c] = [Concluded(c, "error") EXCEPT !.unlucky = TRUE]]
        /\ UNCHANGED <<grant, live, opened>>                 \* it fails, or is stopped
  /\ UNCHANGED <<Admin, health, Upstream, row, Bounds>>

-----------------------------------------------------------------------------
(* The row, and whoever gives up                                           *)

\* _write_audit_row; a store that fails or is too slow is logged only.
Records(c) ==
  /\ call[c].at = "recording"
  /\ \/ row' = [row EXCEPT ![c] = call[c].status] /\ Moves(c, "ended")
     \/ row' = row /\ call' = [call EXCEPT ![c].at = "ended", ![c].unlucky = TRUE]
  /\ UNCHANGED <<Admin, grant, live, health, Upstream, opened, Bounds>>

\* Mutant: the row's write is cancelled with the request.
CancelsTheRow(c) == call[c].at = "recording" /\ call' = [call EXCEPT ![c].at = "ended", ![c].cancelled = TRUE]

\* finish_despite_cancels: the write goes on.
CancelledInWrite(c) == call[c].at = "recording" /\ call' = [call EXCEPT ![c].cancelled = TRUE]

\* The client cancels, or its gateway session ends.  Before the dispatch
\* there is nothing to record; then the row says cancelled; and the row's
\* own write goes on (finish_despite_cancels).
Cancels(c) ==
  /\ ~call[c].cancelled
  /\ \/ /\ call[c].at \in {"admitting", "charging"}
        /\ call' = [call EXCEPT ![c].at = "ended", ![c].cancelled = TRUE]
     \/ /\ call[c].at \in {"resolving", "sent", "reopening", "settling"}
        /\ call' = [call EXCEPT ![c] = [Concluded(c, "cancelled") EXCEPT !.cancelled = TRUE]]
     \/ CancelledInWrite(c)
  /\ UNCHANGED <<Admin, grant, live, health, Upstream, row, opened, Bounds>>

-----------------------------------------------------------------------------
(* The upstream, the provider and the admins                               *)

\* A transport goes silent, or ends, or ends as the sign-in is revoked.
Breaks(how) ==
  /\ trouble < MaxTrouble /\ trouble' = trouble + 1
  /\ live # 0 /\ health[live] = "good" /\ health' = [health EXCEPT ![live] = how]
  /\ how = "revoked" => mode = "oauth"
  /\ grant' = IF how = "revoked" THEN "revoked" ELSE grant
  /\ UNCHANGED <<Admin, live, call, Upstream, row, opened, acts>>

Acts == acts < MaxAdmin /\ acts' = acts + 1

\* A Stop closes the session; a Start only lets requests connect again.
Stops ==
  /\ Acts /\ ~stopped /\ stopped' = TRUE /\ live' = 0
  /\ health' = IF live = 0 THEN health ELSE [health EXCEPT ![live] = Closed(@)]
  /\ UNCHANGED <<mode, allowed, default, grant, call, Upstream, row, opened, trouble>>
Starts ==
  /\ stopped /\ stopped' = FALSE
  /\ UNCHANGED <<mode, allowed, default, grant, live, health, call, Upstream, row, opened, Bounds>>

\* An admin edits the upstream's default arguments.
Edits ==
  /\ Acts /\ default' \in {"fine", "banned"} \ {default} /\ allowed' = allowed
  /\ UNCHANGED <<mode, stopped, grant, live, health, call, Upstream, row, opened, trouble>>

CallNext(c) ==
  \/ CallsTool(c) \/ Reads(c) \/ NamesNothing(c) \/ Admitted(c) \/ Charges(c)
  \/ Unavailable(c) \/ Connects(c) \/ Sends(c) \/ Returns(c) \/ Stalls(c)
  \/ Handles(c) \/ Reopens(c) \/ Settles(c) \/ Records(c) \/ Cancels(c)
  \/ \E s \in Sessions : Runs(c, s)

Next ==
  \/ \E c \in Calls : CallNext(c)
  \/ \E how \in {"silent", "dead", "revoked"} : Breaks(how)
  \/ Stops \/ Starts \/ Edits

Spec == Init /\ [][Next]_vars

-----------------------------------------------------------------------------
(* Properties                                                              *)

Ended(c) == call[c].at = "ended"

\* A tool that did not declare itself safe to repeat runs at most once, and
\* so does a read, whatever stalls or is healed on the way: may_retry never
\* repeats what the upstream may have got.  The one exception the code
\* names is a stream whose break looks like a refused write.
UnsafeRunsOnce ==
  \A c \in Calls : call[c].kind = "tool" \/ (call[c].kind = "read" /\ ~call[c].broke)
                   => ran[c] + Cardinality(flying[c]) <= 1

\* Whatever the upstream may have run has an audit row in the end, also when
\* the client gave up at any point; a row says success only of what ran, and
\* no row or a denial means that nothing was sent (_dispatch_with_recovery,
\* _write_audit_row).  A store that fails is the exception.
RowTellsTruth ==
  \A c \in Calls :
    Ended(c) /\ ~call[c].unlucky =>
      /\ row[c] = "success" => ran[c] > 0
      /\ row[c] \in {"none", "denied"} => ran[c] = 0 /\ flying[c] = {}

\* A heal drops the session its own request saw stall and never the one
\* that replaced it, so nobody's session is closed under it but by a Stop
\* (heal_stalled_session, evict_user_session_if_current).
HealKeepsReplacement ==
  [][live # 0 /\ live' # live /\ ~stopped' =>
       \E c \in Calls : call[c].at = "failed" /\ call'[c].at # "failed" /\ call[c].sess = live]_vars

\* A request that stalled leaves no later one the session it stalled on, be
\* it repeated or not: the cache, which asks no session whether it is
\* alive, has given it up when the request ends.
StalledIsDropped ==
  \A c \in Calls : call[c].at \in {"settling", "recording", "ended"} /\ call[c].stall # "none"
                   /\ ~call[c].cancelled
                   => live # call[c].sess

\* A first stall that a revoked sign-in caused ends with that sign-in deleted, so
\* that the dashboard shows it: by the retry's connect, or by the settling
\* of a request that is not repeated.
RevokedIsNoticed ==
  \A c \in Calls :
    Ended(c) /\ call[c].revoked /\ ~call[c].cancelled /\ ~call[c].unlucky /\ acts = 0
    => grant # "revoked"

\* When a request is over, the audit, the cache and the stored sign-in say
\* what has become of it.
EndsAreAccountedFor == RowTellsTruth /\ StalledIsDropped /\ RevokedIsNoticed
=============================================================================
