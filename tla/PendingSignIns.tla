--------------------------- MODULE PendingSignIns ---------------------------
(***************************************************************************)
(* The sign-ins of an organization's admins to one admin_oauth upstream:   *)
(* the flow a Connect starts, the browser's callback, and whoever calls a  *)
(* sign-in off.                                                            *)
(*                                                                         *)
(* Translated from adapters/auth/pending_auth.py, entrypoints/routes/      *)
(* upstream_oauth_callback.py, the sign-in flow of domain/services/        *)
(* upstream_connection_service.py and upstream_admin_service.py,           *)
(* adapters/auth/mcp_token_storage.py, and the end of a membership in      *)
(* domain/services/user_admin_service.py.                                  *)
(*                                                                         *)
(* A step is what one task does until it awaits; a call of the store takes *)
(* effect when it is issued.  What a refresh does to a saved sign-in is    *)
(* SignInTokens; here it only ends a flow with no link.                    *)
(***************************************************************************)
EXTENDS Naturals, FiniteSets

CONSTANTS Users,        \* the admins
          Nobody,       \* none of them
          MaxFlows,     \* bounds: Connects ...
          MaxRemovals,  \* ... removals from the organization ...
          MaxRestarts   \* ... and restarts of the backend

ASSUME SignInAssumption == Nobody \notin Users /\ {MaxFlows, MaxRemovals, MaxRestarts} \subseteq Nat

Flows == 1..MaxFlows

VARIABLES
  members,   \* the admins the organization has
  token,     \* the store: the flow that saved each admin's sign-in, or 0 ...
  since,     \* ... and when, counted in saves
  stored,    \* the store: the flow whose code was kept for a later Connect
  reg,       \* the store: an app registration and server metadata
  pending,   \* the coordinator: the flow a callback of each admin may reach
  flow,      \* the flows
  back,      \* the callbacks, by the flow whose link they come from
  leaving,   \* the removals under way
  born, saves, removals, restarts

vars == <<members, token, since, stored, reg, pending, flow, back, leaving,
          born, saves, removals, restarts>>

Unborn == [user |-> Nobody, at |-> "unborn", front |-> "none", nth |-> 0, code |-> 0, resumed |-> FALSE,
           aborted |-> FALSE, refused |-> FALSE, saved |-> FALSE, late |-> FALSE,
           linked |-> FALSE, asked |-> 0]

TypeOK ==
  /\ members \subseteq Users
  /\ token \in [Users -> 0..born] /\ stored \in [Users -> 0..born]
  /\ pending \in [Users -> 0..born] /\ reg \in [Users -> BOOLEAN]
  /\ \A f \in Flows :
       /\ flow[f].at \in {"unborn", "asked", "peeked", "made", "registered", "waits", "exchanging", "checked", "ended", "persisted", "called_off",
                          "forgetting", "looking", "over"}
       /\ flow[f].front \in {"none", "waits", "silent", "failed", "answered"}
       /\ back[f] \in {"none", "fine", "refused", "reads", "done"}
       /\ flow[f].at = "unborn" <=> f > born

Init ==
  /\ members = Users /\ token = [u \in Users |-> 0] /\ since = [u \in Users |-> 0]
  /\ stored = [u \in Users |-> 0] /\ reg = [u \in Users |-> FALSE]
  /\ pending = [u \in Users |-> 0] /\ flow = [f \in Flows |-> Unborn]
  /\ back = [f \in Flows |-> "none"] /\ leaving = [u \in Users |-> "no"]
  /\ born = 0 /\ saves = 0 /\ removals = 0 /\ restarts = 0

-----------------------------------------------------------------------------
(* The store and the coordinator                                           *)

\* slot_owner_of: the admin who signed in last.
Owner(u) ==
  /\ u \in members /\ token[u] # 0
  /\ \A v \in members : token[v] = 0 \/ since[v] <= since[u]

\* admin_oauth_owner: another admin holds the one slot.
SlotRefusal(u) == \E v \in Users \ {u} : Owner(v)

\* Mutant: only the callback asks about the slot.
OnlyCalledOff(f) == flow[f].aborted \/ flow[f].refused

\* check_sign_in.
CheckSignIn(f) == flow[f].aborted \/ flow[f].refused \/ SlotRefusal(flow[f].user)

\* _check_sign_in of the token storage, right before it saves a new sign-in.
FreshSignInRefusal(f) == CheckSignIn(f)

\* Mutant: whoever waits for that admin's sign-in gets the code.
WaitingForUser(f) == pending[flow[f].user]

\* waiting_flow: the flow in memory whose link this callback came from.
WaitingFlow(f) == IF pending[flow[f].user] = f THEN f ELSE 0

Goes(f, at) == flow' = [flow EXCEPT ![f].at = at]
Cleanup(u) == pending' = [pending EXCEPT ![u] = 0]

\* abort_for_user: every flow of the person that has not ended, also one
\* whose code arrived.
Aborted(u) ==
  [f \in Flows |-> IF flow[f].user = u /\ flow[f].at \notin {"unborn", "asked", "peeked", "over"}
                   THEN [flow[f] EXCEPT !.aborted = TRUE] ELSE flow[f]]

-----------------------------------------------------------------------------
(* A Connect, and the flow it starts                                       *)

Store == <<token, since, stored, reg>>
Counts == <<born, saves, removals, restarts>>

\* _connect_oauth: a member's, while nobody else holds the slot.
Connects(u) ==
  /\ u \in members /\ born < MaxFlows /\ born' = born + 1
  /\ flow' = [flow EXCEPT ![born + 1] =
                [Unborn EXCEPT !.user = u, !.at = IF SlotRefusal(u) THEN "over" ELSE "asked"]]
  /\ UNCHANGED <<members, Store, pending, back, leaving, saves, removals, restarts>>

\* try_connect_with_stored_tokens: a sign-in that is there may do.
Peeks(f) ==
  /\ flow[f].at = "asked"
  /\ \/ token[flow[f].user] # 0 /\ Goes(f, "over")
     \/ Goes(f, "peeked")
  /\ UNCHANGED <<members, Store, pending, back, leaving, Counts>>

\* create_pending takes the place of an older flow.  A code kept over a
\* restart is taken (_resume_pending_from_stored_code); else the app is
\* registered anew unless there are tokens it could strand
\* (_refresh_stale_client_info_for_consent).
Creates(f) ==
  LET u == flow[f].user
  IN /\ flow[f].at = "peeked"
     /\ pending' = [pending EXCEPT ![u] = f]
     /\ stored' = [stored EXCEPT ![u] = 0]
     /\ reg' = [reg EXCEPT ![u] = @ /\ (stored[u] # 0 \/ token[u] # 0)]
     /\ flow' = [flow EXCEPT ![f].at = "made", ![f].front = "waits", ![f].code = stored[u],
                             ![f].nth = 1 + Cardinality({g \in Flows : flow[g].nth > 0}),
                             ![f].resumed = stored[u] # 0, ![f].late = u \notin members]
     /\ UNCHANGED <<members, token, since, back, leaving, Counts>>

\* The SDK registers the app ...
Registers(f) ==
  /\ flow[f].at = "made" /\ Goes(f, "registered")
  /\ reg' = [reg EXCEPT ![flow[f].user] = TRUE]
  /\ UNCHANGED <<members, token, since, stored, pending, back, leaving, Counts>>

\* ... and the person gets a link, if the request still waits
\* (redirect_handler) ...
Links(f) ==
  /\ flow[f].at = "registered"
  /\ flow' = [flow EXCEPT ![f].at = "waits", ![f].linked = (flow[f].front = "waits"),
                          ![f].front = "answered"]
  /\ UNCHANGED <<members, Store, pending, back, leaving, Counts>>

\* ... or needs none, the sign-in that is there was refreshed
\* (mark_tokens_refreshed) ...
Refreshes(f) ==
  /\ flow[f].at = "made" /\ token[flow[f].user] # 0 /\ ~flow[f].aborted
  /\ flow' = [flow EXCEPT ![f].at = "ended",
                          ![f].front = IF @ = "waits" THEN "silent" ELSE @]
  /\ UNCHANGED <<members, Store, pending, back, leaving, Counts>>

\* ... or the server cannot be reached: the flow is over, called off or not.
Unreachable(f) ==
  /\ flow[f].at \in {"made", "exchanging"}
  /\ flow' = [flow EXCEPT ![f].at = "over",
                          ![f].front = IF @ = "waits" THEN "failed" ELSE @]
  /\ UNCHANGED <<members, Store, pending, back, leaving, Counts>>

\* The request is answered without a link, or after half a minute
\* (_finalize_silent_refresh, UpstreamUnreachableError, TimeoutError): what
\* is pending for that person is taken out, by its key.
Answers(f) ==
  /\ flow[f].front \in {"silent", "failed", "waits"} /\ Cleanup(flow[f].user)
  /\ flow' = [flow EXCEPT ![f].front = "answered"]
  /\ UNCHANGED <<members, Store, back, leaving, Counts>>

\* callback_handler: called off, refused, or given a code.
Receives(f) ==
  /\ flow[f].at = "waits" /\ (flow[f].aborted \/ flow[f].refused \/ flow[f].code # 0)
  /\ Goes(f, IF flow[f].aborted THEN "called_off"
             ELSE IF flow[f].refused THEN "over" ELSE "exchanging")
  /\ UNCHANGED <<members, Store, pending, back, leaving, Counts>>

\* Nobody came in ten minutes: the link is void, and a registration with no
\* sign-in is dropped (_drop_client_info_on_dead_client_failure).
GivesUp(f) ==
  LET u == flow[f].user
  IN /\ flow[f].at = "waits" /\ ~flow[f].aborted /\ ~flow[f].refused /\ flow[f].code = 0
     /\ flow' = [flow EXCEPT ![f].at = "ended", ![f].linked = FALSE]
     /\ pending' = [pending EXCEPT ![u] = IF @ = f THEN 0 ELSE @]
     /\ reg' = [reg EXCEPT ![u] = @ /\ token[u] # 0]
     /\ UNCHANGED <<members, token, since, stored, back, leaving, Counts>>

\* The code is exchanged; before the new sign-in is saved it is checked once
\* more (set_tokens).
Exchanges(f) ==
  /\ flow[f].at = "exchanging"
  /\ \/ IF FreshSignInRefusal(f)
        THEN flow' = [flow EXCEPT ![f].at = "ended", ![f].refused = TRUE]
        ELSE flow' = [flow EXCEPT ![f].at = "checked", ![f].asked = saves]
     \/ Goes(f, "ended")
  /\ UNCHANGED <<members, Store, pending, back, leaving, Counts>>

Saves(f) ==
  LET u == flow[f].user
  IN /\ flow[f].at = "checked" /\ saves' = saves + 1
     /\ token' = [token EXCEPT ![u] = f] /\ since' = [since EXCEPT ![u] = saves + 1]
     /\ flow' = [flow EXCEPT ![f].at = "ended", ![f].saved = TRUE]
     /\ UNCHANGED <<members, stored, reg, pending, back, leaving, born, removals, restarts>>

\* _acquire_tokens once the SDK is done: what it discovered is saved with
\* the sign-in.
Persists(f) ==
  /\ flow[f].at = "ended"
  /\ \/ /\ flow[f].aborted /\ UNCHANGED reg
        /\ flow' = [flow EXCEPT ![f].at = "called_off"]
     \/ /\ ~flow[f].aborted
        /\ IF token[flow[f].user] # 0 /\ ~flow[f].refused
           THEN reg' = [reg EXCEPT ![flow[f].user] = TRUE] /\ Goes(f, "persisted")
           ELSE UNCHANGED reg /\ Goes(f, "over")
  /\ UNCHANGED <<members, token, since, stored, pending, back, leaving, Counts>>

\* Mutant: a flow called off while it saved these is not looked at again.
SettlesAnyhow(f) ==
  /\ flow[f].at = "persisted" /\ Goes(f, "over")
  /\ UNCHANGED <<members, Store, pending, back, leaving, Counts>>

Settles(f) ==
  /\ flow[f].at = "persisted" /\ Goes(f, IF flow[f].aborted THEN "called_off" ELSE "over")
  /\ UNCHANGED <<members, Store, pending, back, leaving, Counts>>

\* Mutant: whatever sign-in there is goes.
OwnOrNewer(f) == flow[f].saved

\* delete_user_token_if_current.
OwnIsCurrent(f) == flow[f].saved /\ token[flow[f].user] = f

\* _forget_called_off_sign_in: its own sign-in, then, unless there is a
\* newer one, the registration and the metadata.
Forgets(f) ==
  /\ flow[f].at = "called_off" /\ Goes(f, "forgetting")
  /\ token' = IF OwnIsCurrent(f) THEN [token EXCEPT ![flow[f].user] = 0] ELSE token
  /\ UNCHANGED <<members, since, stored, reg, pending, back, leaving, Counts>>

Looks(f) ==
  /\ flow[f].at = "forgetting"
  /\ Goes(f, IF token[flow[f].user] # 0 THEN "over" ELSE "looking")
  /\ UNCHANGED <<members, Store, pending, back, leaving, Counts>>

Drops(f) ==
  /\ flow[f].at = "looking" /\ Goes(f, "over")
  /\ reg' = [reg EXCEPT ![flow[f].user] = FALSE]
  /\ UNCHANGED <<members, token, since, stored, pending, back, leaving, Counts>>

-----------------------------------------------------------------------------
(* The browser's callback, with the code of flow f's link                  *)

\* complete_by_key, after any check; then a newer flow of the person is not
\* spoiled, and with no flow in memory the code is to be kept.
Completes(f) ==
  LET g == WaitingFlow(f)
      u == flow[f].user
  IN IF g # 0
     THEN /\ back' = [back EXCEPT ![f] = "done"] /\ Cleanup(u)
          /\ flow' = [flow EXCEPT ![g].code = f]
     ELSE /\ back' = [back EXCEPT ![f] = IF pending[u] # 0 THEN "done" ELSE "reads"]
          /\ UNCHANGED <<pending, flow>>

\* Who is no member has every sign-in called off; a flow that waits is asked
\* whether it may still land.
ComesBack(f) ==
  LET u == flow[f].user
  IN /\ flow[f].linked /\ back[f] = "none"
     /\ \/ /\ u \notin members
           /\ back' = [back EXCEPT ![f] = "done"] /\ Cleanup(u) /\ flow' = Aborted(u)
        \/ /\ u \in members /\ WaitingFlow(f) # 0
           /\ back' = [back EXCEPT ![f] = IF CheckSignIn(WaitingFlow(f)) THEN "refused" ELSE "fine"]
           /\ UNCHANGED <<pending, flow>>
        \/ u \in members /\ WaitingFlow(f) = 0 /\ Completes(f)
     /\ UNCHANGED <<members, Store, leaving, Counts>>

Checked(f) ==
  /\ \/ back[f] = "fine" /\ Completes(f)
     \/ /\ back[f] = "refused" /\ back' = [back EXCEPT ![f] = "done"]
        /\ flow' = [flow EXCEPT ![f].refused = TRUE]
        /\ pending' = [pending EXCEPT ![flow[f].user] = IF @ = f THEN 0 ELSE @]
  /\ UNCHANGED <<members, Store, leaving, Counts>>

\* put_pending_code.
Keeps(f) ==
  /\ back[f] = "reads" /\ back' = [back EXCEPT ![f] = "done"]
  /\ stored' = [stored EXCEPT ![flow[f].user] = f]
  /\ UNCHANGED <<members, token, since, reg, pending, flow, leaving, Counts>>

-----------------------------------------------------------------------------
(* Members, and restarts                                                   *)

\* remove_user: no longer a member; ...
Leaves(u) ==
  /\ u \in members /\ removals < MaxRemovals /\ leaving[u] = "no"
  /\ members' = members \ {u} /\ leaving' = [leaving EXCEPT ![u] = "left"]
  /\ removals' = removals + 1
  /\ UNCHANGED <<Store, pending, flow, back, born, saves, restarts>>

\* ... _end_membership calls the sign-ins off ...
CallsOff(u) ==
  /\ leaving[u] = "left" /\ leaving' = [leaving EXCEPT ![u] = "aborted"]
  /\ flow' = Aborted(u) /\ Cleanup(u)
  /\ UNCHANGED <<members, Store, back, Counts>>

\* ... and deletes all that is saved (delete_all_for_user).
Deletes(u) ==
  /\ leaving[u] = "aborted" /\ leaving' = [leaving EXCEPT ![u] = "no"]
  /\ token' = [token EXCEPT ![u] = 0] /\ stored' = [stored EXCEPT ![u] = 0]
  /\ reg' = [reg EXCEPT ![u] = FALSE]
  /\ UNCHANGED <<members, since, pending, flow, back, Counts>>

Rejoins(u) ==
  /\ u \notin members /\ leaving[u] = "no" /\ members' = members \cup {u}
  /\ UNCHANGED <<Store, pending, flow, back, leaving, Counts>>

\* remove_sign_in, of the admin who holds the slot.
SignsOut(u) ==
  /\ Owner(u) /\ token' = [token EXCEPT ![u] = 0]
  /\ UNCHANGED <<members, since, stored, reg, pending, flow, back, leaving, Counts>>

\* What is in memory is gone; links given out are still good.
Restart ==
  /\ restarts < MaxRestarts /\ restarts' = restarts + 1
  /\ \A u \in Users : leaving[u] = "no"
  /\ pending' = [u \in Users |-> 0]
  /\ flow' = [f \in Flows |-> IF flow[f].at = "unborn" THEN flow[f]
                              ELSE [flow[f] EXCEPT !.at = "over", !.front = "answered"]]
  /\ back' = [f \in Flows |-> IF back[f] = "none" THEN "none" ELSE "done"]
  /\ UNCHANGED <<members, Store, leaving, born, saves, removals>>

-----------------------------------------------------------------------------
FlowNext(f) ==
  \/ Peeks(f) \/ Creates(f) \/ Registers(f) \/ Links(f) \/ Refreshes(f) \/ Unreachable(f)
  \/ Answers(f) \/ Receives(f) \/ GivesUp(f) \/ Exchanges(f) \/ Saves(f) \/ Persists(f)
  \/ Settles(f) \/ Forgets(f) \/ Looks(f) \/ Drops(f)

Next ==
  \/ \E f \in Flows : FlowNext(f) \/ ComesBack(f) \/ Checked(f) \/ Keeps(f)
  \/ \E u \in Users : Connects(u) \/ Leaves(u) \/ CallsOff(u) \/ Deletes(u) \/ Rejoins(u)
                      \/ SignsOut(u)
  \/ Restart

Spec == Init /\ [][Next]_vars

-----------------------------------------------------------------------------
(* Properties                                                              *)

Of(u) == {f \in Flows : flow[f].user = u}

\* A sign-in that was called off leaves nothing once its flow has ended: not
\* its tokens, and, unless the person came back, no registration or metadata,
\* whatever it was saving when the person was removed
\* (abort_for_user, _forget_called_off_sign_in).
CalledOffLeavesNothing ==
  \A u \in Users :
    /\ \A f \in Of(u) : flow[f].aborted /\ flow[f].at = "over" => (token[u] # f \/ restarts > 0)
    /\ (/\ u \notin members /\ leaving[u] = "no" /\ restarts = 0
        /\ \A f \in Of(u) : flow[f].at = "over" /\ ~flow[f].late)
       => token[u] = 0 /\ ~reg[u]

\* Nobody else's doing takes a sign-in away: it goes with its member, with a
\* Remove sign-in, with a newer sign-in of the same admin, or with the flow
\* that saved it and was called off (delete_user_token_if_current).
NewerSignInKept ==
  [][\A u \in Users :
       token[u] # 0 /\ token'[u] = 0
       => leaving[u] = "aborted" \/ flow[token[u]].aborted \/ (Owner(u) /\ flow' = flow)]_vars

\* A sign-in does not land over another admin's who was the last of all to
\* sign in, and who had done so before its code was exchanged, though the
\* slot was free when the Connect was accepted and when the browser came back
\* (_slot_taken_meanwhile, set_tokens).  An older one, which holds the slot
\* again since a newer one was removed, it may land over.
TakenSlotIsKept ==
  [][\A f \in Flows :
       flow'[f].saved /\ ~flow[f].saved
       => \A v \in members \ {flow[f].user} :
            /\ token[v] # 0 /\ since[v] <= flow[f].asked
            /\ \A u \in Users : since[u] <= since[v]
            => flow[token[v]].aborted \/ flow[token[v]].late]_vars

\* A flow only gets the code of its own link, or one kept over a restart,
\* though the person clicked Connect again and old links still work
\* (waiting_flow, complete_by_key).
CodeReachesItsFlow ==
  \A f \in Flows : flow[f].code \in {0, f} \/ flow[f].resumed

\* A flow ends up with its own code or none, and leaves nothing when it was
\* called off.
FlowsStayApart == CodeReachesItsFlow /\ CalledOffLeavesNothing

\* No sign-in is lost to another's, whether the newer one of the same person
\* or the one that had the slot.
SignInsAreKept == NewerSignInKept /\ TakenSlotIsKept
=============================================================================
