--------------------------- MODULE ClientSessions ---------------------------
(***************************************************************************)
(* The gateway's MCP sessions: who opened one, what still works in it, the *)
(* registry that notices and revocations find it by, and how it ends:      *)
(* closed by its client, by the idle sweep, or with the caller's access.   *)
(* Calls in a session are charged as RateLimits says.                      *)
(*                                                                         *)
(* Translated from entrypoints/middleware/session_owner_guard.py,          *)
(* mcp_request_identity.py and service_token_pin.py, entrypoints/app.py    *)
(* (the middleware around the MCP app), adapters/gateway_session_registry. *)
(* py, domain/services/policy_notifier.py and user_admin_service.py        *)
(* (revoke_gateway_sign_in, _end_membership).                              *)
(*                                                                         *)
(* A caller is one person or token on one mount.  The MCP SDK's manager,   *)
(* which holds the transports, is external.                                *)
(***************************************************************************)
EXTENDS RateLimits

CONSTANTS
  Sessions,    \* session ids, each given out once
  NoSession,
  IdleLimit, SweepEvery,
  Hows         \* the ways a caller's access ends

ASSUME ClientSessionsAssumption ==
  /\ NoSession \notin Sessions /\ {IdleLimit, SweepEvery} \subseteq Nat \ {0}
  /\ Hows \subseteq {"revoked", "removed"}

VARIABLES
  transport,   \* of each session: unborn, live, terminated, or gone from the manager
  owner,       \* who opened it, as the guard has it
  inProgress,  \* how much works in it
  idleSince,
  registered,  \* who it is registered for
  nextSweep,
  access,      \* callers whose tokens are accepted
  request,     \* what each call is about and where it is
  cut          \* the end of each caller's access, with the requests it found
               \* accepted and not yet at the guard, and the sessions they use

guardVars == <<owner, inProgress, idleSince, registered>>
sessionVars == <<limitVars, transport, guardVars, nextSweep, access, request, cut>>

Nobody == "nobody"

ASSUME CallersAssumption == Nobody \notin Callers

NoRequest == [at |-> "unborn", kind |-> "open", caller |-> Nobody, sid |-> NoSession,
              idle |-> {}, closing |-> NoSession, since |-> Never,
              http |-> FALSE, handler |-> "none"]
Over == [NoRequest EXCEPT !.at = "over"]
NoCut == [how |-> "none", at |-> "none", todo |-> {}, late |-> {}, near |-> {}]

SessionsTypeOK ==
  /\ LimitsTypeOK
  /\ transport \in [Sessions -> {"unborn", "live", "terminated", "gone"}]
  /\ owner \in [Sessions -> Callers \cup {Nobody}]
  /\ registered \in [Sessions -> Callers \cup {Nobody}]
  /\ inProgress \in [Sessions -> 0..2 * Cardinality(Calls)]
  /\ idleSince \in [Sessions -> Times \cup {Never}] /\ nextSweep \in Nat
  /\ access \in SUBSET Callers
  /\ request \in [Calls ->
       [at : {"unborn", "arrived", "sweeping", "opening", "inside", "over"},
        kind : {"open", "use", "delete"}, caller : Callers \cup {Nobody},
        sid : Sessions \cup {NoSession}, idle : SUBSET Sessions,
        closing : Sessions \cup {NoSession}, since : Times \cup {Never},
        http : BOOLEAN, handler : {"none", "queued", "running"}]]
  /\ cut \in [Callers -> [how : {"none", "revoked", "removed"},
       at : {"none", "closing", "over"}, todo : SUBSET Sessions,
       late : SUBSET Calls, near : SUBSET Sessions]]

SessionsInit ==
  /\ LimitsInit
  /\ owner \in [Sessions -> Callers \cup {Nobody}]   \* whose sessions are open
  /\ transport = [s \in Sessions |-> IF owner[s] = Nobody THEN "unborn" ELSE "live"]
  /\ idleSince = [s \in Sessions |-> IF owner[s] = Nobody THEN Never ELSE 0]
  /\ registered = owner
  /\ inProgress = [s \in Sessions |-> 0] /\ nextSweep = SweepEvery
  /\ access = Callers /\ request = [r \in Calls |-> NoRequest]
  /\ cut = [c \in Callers |-> NoCut]

-----------------------------------------------------------------------------
(* What the guard keeps                                                    *)

\* _is_live.
Alive(s) == transport[s] = "live"

\* busy, for the sessions of S: something more works in each that is owned.
Busier(S) == [s \in Sessions |-> IF s \in S /\ owner[s] # Nobody
                                 THEN inProgress[s] + 1 ELSE inProgress[s]]

\* _work_done: the last to end starts the idle time anew.
WorkDone(s) ==
  /\ inProgress' = [inProgress EXCEPT ![s] = IF owner[s] = Nobody THEN @ ELSE @ - 1]
  /\ idleSince' = [idleSince EXCEPT ![s] =
       IF owner[s] # Nobody /\ inProgress[s] = 1 THEN now ELSE @]

\* Mutant: the end of a session is not reported.
ForgottenOnly(S) == registered

\* on_session_end, which is the registry's unregister.
Reported(S) == [s \in Sessions |-> IF s \in S /\ owner[s] # Nobody THEN Nobody ELSE registered[s]]

\* _forget, for the sessions of S.
Forget(S) ==
  /\ owner' = [s \in Sessions |-> IF s \in S THEN Nobody ELSE owner[s]]
  /\ inProgress' = [s \in Sessions |-> IF s \in S THEN 0 ELSE inProgress[s]]
  /\ idleSince' = [s \in Sessions |-> IF s \in S THEN Never ELSE idleSince[s]]
  /\ registered' = Reported(S)

-----------------------------------------------------------------------------
(* A request                                                               *)

\* A request whose token is accepted, on a session that was given out or on
\* none.  One that uses a session is a stream, until a call starts of it.
Arrives(r, c, kind, s) ==
  /\ request[r].at = "unborn" /\ c \in access
  /\ (kind = "open") = (s = NoSession) /\ (s # NoSession => transport[s] # "unborn")
  /\ request' = [request EXCEPT ![r] = [NoRequest EXCEPT
       !.at = "arrived", !.kind = kind, !.caller = c, !.sid = s]]
  /\ UNCHANGED <<limitVars, transport, guardVars, nextSweep, access, cut>>

\* Idle for long enough, as a request sees it that read the clock at t.
IdleLong(s, t) == idleSince[s] # Never /\ t - idleSince[s] >= IdleLimit

\* Mutant: what has begun to work meanwhile is closed.
IdleOnce(s, t) == IdleLong(s, t)

StillIdle(s, t) == inProgress[s] = 0 /\ IdleLong(s, t)

\* _end_idle_sessions: every so often a request first ends the sessions
\* that are idle, save its own.
Sweeps(r) ==
  /\ request[r].at = "arrived" /\ now >= nextSweep /\ nextSweep' = now + SweepEvery
  /\ request' = [request EXCEPT ![r].at = "sweeping", ![r].since = now,
       ![r].idle = {s \in Sessions \ {request[r].sid} : IdleLong(s, now)}]
  /\ UNCHANGED <<limitVars, transport, guardVars, access, cut>>

\* One of them is looked at again, taken from the manager and closed.
EndsIdle(r, s) ==
  /\ request[r].at = "sweeping" /\ request[r].closing = NoSession /\ s \in request[r].idle
  /\ IF StillIdle(s, request[r].since)
     THEN /\ transport' = [transport EXCEPT ![s] = "gone"]
          /\ request' = [request EXCEPT ![r].idle = @ \ {s}, ![r].closing = s]
     ELSE /\ request' = [request EXCEPT ![r].idle = @ \ {s}] /\ UNCHANGED transport
  /\ UNCHANGED <<limitVars, guardVars, nextSweep, access, cut>>

\* The close has been answered, or failed.
Forgets(r) ==
  /\ request[r].closing # NoSession /\ Forget({request[r].closing})
  /\ request' = [request EXCEPT ![r].closing = NoSession]
  /\ UNCHANGED <<limitVars, transport, nextSweep, access, cut>>

Guarded(r) ==
  \/ request[r].at = "arrived" /\ now < nextSweep
  \/ request[r].at = "sweeping" /\ request[r].idle = {} /\ request[r].closing = NoSession

\* _is_owner.
IsOwner(s, c) == Alive(s) /\ owner[s] = c

\* A request on a session is let in to its owner, and registers it.
Passes(r) ==
  LET s == request[r].sid IN
  /\ Guarded(r) /\ request[r].kind # "open"
  /\ IF IsOwner(s, request[r].caller)
     THEN /\ request' = [request EXCEPT ![r] = [NoRequest EXCEPT
               !.at = "inside", !.kind = request[r].kind, !.caller = request[r].caller, !.sid = s,
               !.http = TRUE, !.handler = IF request[r].kind = "use" THEN "queued" ELSE "none"]]
          /\ registered' = [registered EXCEPT ![s] = request[r].caller]
          /\ inProgress' = [inProgress EXCEPT ![s] = @ + 1]
     ELSE /\ request' = [request EXCEPT ![r] = Over]
          /\ UNCHANGED <<registered, inProgress>>
  /\ UNCHANGED <<limitVars, transport, owner, idleSince, nextSweep, access, cut>>

\* _open: the SDK makes the next session.
Opens(r) ==
  /\ Guarded(r) /\ request[r].kind = "open"
  /\ \E s \in Sessions : /\ transport[s] = "unborn"
                         /\ transport' = [transport EXCEPT ![s] = "live"]
                         /\ request' = [request EXCEPT ![r].at = "opening", ![r].sid = s, ![r].since = Never]
  /\ UNCHANGED <<limitVars, guardVars, nextSweep, access, cut>>

\* send_and_record: the answer names the session and its opener becomes its
\* owner; ended sessions are forgotten.  One that was refused is closed.
Records(r) ==
  LET s == request[r].sid
      ended == {e \in Sessions : owner[e] # Nobody /\ ~Alive(e)} IN
  /\ request[r].at = "opening" /\ request' = [request EXCEPT ![r] = Over]
  /\ \/ /\ owner' = [e \in Sessions |-> CASE e = s -> request[r].caller
                                        [] e \in ended -> Nobody [] OTHER -> owner[e]]
        /\ idleSince' = [e \in Sessions |-> CASE e = s -> now
                                            [] e \in ended -> Never [] OTHER -> idleSince[e]]
        /\ inProgress' = [e \in Sessions |-> IF e \in ended THEN 0 ELSE inProgress[e]]
        /\ registered' = Reported(ended) /\ UNCHANGED transport
     \/ transport' = [transport EXCEPT ![s] = "gone"] /\ UNCHANGED guardVars
  /\ UNCHANGED <<limitVars, nextSweep, access, cut>>

\* A call has ended, before its HTTP request or after.
CallOver(r) == request' = [request EXCEPT ![r] =
                 IF @.http THEN [@ EXCEPT !.handler = "none"] ELSE Over]

\* The session's task takes the call up, in a session that has not ended.
\* One that is refused by the limiter ends as it starts.
RequestBegins(r) ==
  LET s == request[r].sid  c == request[r].caller IN
  /\ request[r].handler = "queued" /\ Alive(s)
  /\ \/ /\ Admit(c, r) \/ FailOpen(c, r)
        /\ request' = [request EXCEPT ![r].handler = "running"]
        /\ inProgress' = Busier({s})
     \/ Refuse(c) /\ CallOver(r) /\ UNCHANGED inProgress
  /\ UNCHANGED <<transport, owner, idleSince, registered, nextSweep, access, cut>>

Replies(r) ==
  /\ request[r].handler = "running" /\ WorkDone(request[r].sid) /\ CallOver(r)
  /\ UNCHANGED <<limitVars, transport, owner, registered, nextSweep, access, cut>>

\* The HTTP request ends: it was answered, its session ended, or its client
\* hung up, which leaves a call it brought to go on.  A DELETE has closed
\* the session, and releases it.
Closes(r) ==
  LET s == request[r].sid IN
  /\ request[r].http
  /\ request' = [request EXCEPT ![r] =
       IF @.handler # "none" /\ (@.handler # "queued" \/ Alive(s)) THEN [@ EXCEPT !.http = FALSE] ELSE Over]
  /\ \/ request[r].kind # "delete" /\ WorkDone(s) /\ UNCHANGED <<transport, owner, registered>>
     \/ request[r].kind = "delete" /\ transport' = [transport EXCEPT ![s] = "gone"] /\ Forget({s})
  /\ UNCHANGED <<limitVars, nextSweep, access, cut>>

-----------------------------------------------------------------------------
(* Notices, and the end of a caller's access                               *)

\* _send_to_sessions: a registered session that is gone is unregistered.
Notifies ==
  /\ registered' = [s \in Sessions |-> IF transport[s] = "gone" THEN Nobody ELSE registered[s]]
  /\ registered' # registered
  /\ UNCHANGED <<limitVars, transport, owner, inProgress, idleSince, nextSweep, access, request, cut>>

\* get_session_ids_for_user.
SessionsOf(c) == {s \in Sessions : registered[s] = c}

\* Mutant: the tokens are left for later.
StillAccepted(c, how) == access

\* revoke_gateway_sign_in ends the tokens first; _end_membership last.
AccessAfter(c, how) == IF how = "revoked" THEN access \ {c} ELSE access

\* The requests of c that were accepted and that the guard has yet to see:
\* the middleware between the two waits for the store.
OnTheWay(c) ==
  {r \in Calls : request[r].caller = c /\ request[r].at \in {"arrived", "sweeping", "opening"}}

Cuts(c, how) ==
  /\ cut[c].how = "none"
  /\ access' = AccessAfter(c, how)
  /\ cut' = [cut EXCEPT ![c] = [how |-> how, at |-> "closing", todo |-> SessionsOf(c),
       late |-> OnTheWay(c), near |-> {request[r].sid : r \in {q \in OnTheWay(c) : request[q].kind # "open"}}]]
  /\ UNCHANGED <<limitVars, transport, guardVars, nextSweep, request>>

\* terminate_user_sessions: one after the other leaves the manager and the
\* registry, and is closed.
Terminates(c, s) ==
  /\ cut[c].at = "closing" /\ s \in cut[c].todo
  /\ cut' = [cut EXCEPT ![c].todo = @ \ {s}]
  /\ transport' = [transport EXCEPT ![s] = "gone"]
  /\ registered' = [registered EXCEPT ![s] = Nobody]
  /\ UNCHANGED <<limitVars, owner, inProgress, idleSince, nextSweep, access, request>>

\* A removed member's tokens go last, save when another org has use for them.
Revokes(c) ==
  /\ cut[c].at = "closing" /\ cut[c].todo = {}
  /\ cut' = [cut EXCEPT ![c].at = "over"]
  /\ access' \in IF cut[c].how = "removed" THEN {access, access \ {c}} ELSE {access}
  /\ UNCHANGED <<limitVars, transport, guardVars, nextSweep, request>>

RequestNext(r) ==
  \/ \E c \in Callers : \/ Arrives(r, c, "open", NoSession)
                        \/ \E kind \in {"use", "delete"}, s \in Sessions :
                             Arrives(r, c, kind, s)
  \/ Sweeps(r) \/ (\E s \in Sessions : EndsIdle(r, s)) \/ Forgets(r)
  \/ Passes(r) \/ Opens(r) \/ Records(r)
  \/ RequestBegins(r) \/ Replies(r) \/ Closes(r)

CutNext(c) ==
  \/ \E how \in Hows : Cuts(c, how)
  \/ (\E s \in Sessions : Terminates(c, s)) \/ Revokes(c)

ClockNext == Tick /\ UNCHANGED <<transport, guardVars, nextSweep, access, request, cut>>

SessionsNext ==
  \/ \E r \in Calls : RequestNext(r)
  \/ \E c \in Callers : CutNext(c)
  \/ Notifies
  \/ ClockNext

SessionsSpec == SessionsInit /\ [][SessionsNext]_sessionVars

-----------------------------------------------------------------------------
(* Properties                                                              *)

Works(r, s) == request[r].sid = s /\ (request[r].http \/ request[r].handler = "running")

\* The idle sweep closes no session in which a request is open or a call
\* runs on after its client hung up, though it waits for each close and
\* requests come in meanwhile.
SweepSparesTheBusy ==
  [][\A s \in Sessions, r \in Calls :
       (\E q \in Calls : request'[q].closing = s /\ request[q].closing # s) => ~Works(r, s)]_sessionVars

\* A session that is registered, for notices and for a later revocation, has
\* an owner, and is registered for that owner.
RegisteredIsOwned == \A s \in Sessions : registered[s] \in {Nobody, owner[s]}

\* Once a sign-in has been revoked, no request of its caller is served save
\* one that the revocation found between its authentication and the guard,
\* and no session of theirs is open to notices save one that such a request
\* was about, which the revocation could not know of.
RevokedIsCutOff ==
  \A c \in Callers : cut[c].how = "revoked" /\ cut[c].at = "over" =>
    /\ SessionsOf(c) \cap {s \in Sessions : Alive(s)} \subseteq cut[c].near
    /\ \A r \in Calls : request[r].caller = c /\ request[r].http /\ Alive(request[r].sid) =>
         r \in cut[c].late

\* A session serves and is known by its owner alone, and ends with their
\* sign-in (SessionOwnerGuard, GatewaySessionRegistry).
SessionsFollowTheirOwners == RegisteredIsOwned /\ RevokedIsCutOff
=============================================================================
