---------------------------- MODULE ToolCatalog -----------------------------
(***************************************************************************)
(* What the gateway lists of one upstream: its tools, and its resources    *)
(* and prompts, refreshed from the upstream's session by whoever asks,     *)
(* kept by the registry, and the notices that make a client list them      *)
(* again.                                                                  *)
(*                                                                         *)
(* Translated from domain/services/tool_registry.py, policy_notifier.py,   *)
(* the refreshes of upstream_connection_service.py and                     *)
(* upstream_admin_service.py, and the removal in                           *)
(* upstream_config_service.py.                                             *)
(*                                                                         *)
(* What the upstream offers is a version, counted in its changes; version  *)
(* 0 of a list is the empty one.  A notice goes to every gateway session   *)
(* and the sessions act alone: one client stands for any of them.          *)
(***************************************************************************)
EXTENDS Naturals, FiniteSets

CONSTANTS MaxChanges,   \* bounds: changes of the upstream's offer ...
          MaxRefreshes, \* ... refreshes ...
          MaxBreaks     \* ... and times its session fails

ASSUME CatalogAssumption ==
  MaxChanges \in Nat \ {0} /\ MaxRefreshes \in Nat /\ MaxBreaks \in Nat

Refreshes == 1..MaxRefreshes
Versions == 0..(MaxChanges + 1)

\* Tools on one side, resources, their templates and prompts on the other:
\* a refresh takes all of them, or only the others.
Parts == {"tools", "others"}
Lists == [Parts -> Versions]
Empty == [part \in Parts |-> 0]

\* Who refreshes: a list_changed of the upstream, for the tools or for the
\* others; an admin's Connect, Start or Refresh tools; or the boot and the
\* Admin MCP's sweep, which tell nobody.
Kinds == {"tools", "others", "asked", "sweep"}

VARIABLES
  offer,      \* what the upstream lists now
  session,    \* a session to discover on: its number, or 0
  removal,    \* how far a removal got
  catalog,    \* the registry's slice of this upstream
  refresh,    \* the refreshes
  asks,       \* how many began
  timers,     \* the debounce: a list_changed of one part, or a broadcast
  seen,       \* what the client listed last
  told,       \* the parts it has a notice of that it has not followed
  breaks      \* how many sessions failed

vars == <<offer, session, removal, catalog, refresh, asks, timers, seen, told, breaks>>

NoRefresh == [kind |-> "none", at |-> "unborn", on |-> 0, left |-> {}, got |-> Empty, tries |-> 0]

TypeOK ==
  /\ {offer, catalog, seen} \subseteq Lists
  /\ session \in 0..(MaxBreaks + 2) /\ removal \in {"no", "closed", "done"}
  /\ timers \subseteq Parts \cup {"broadcast"}
  /\ told \subseteq Parts
  /\ asks \in 0..MaxRefreshes /\ breaks \in 0..(MaxBreaks + 1)
  /\ \A r \in Refreshes :
       /\ refresh[r].kind \in Kinds \cup {"none"}
       /\ refresh[r].at \in {"unborn", "asking", "healing", "telling", "over"}
       /\ refresh[r].left \subseteq Parts /\ refresh[r].got \in Lists

\* hydrate: the slice that was if one was.
Init ==
  /\ offer = [part \in Parts |-> 1] /\ session = 0 /\ removal = "no"
  /\ catalog \in {Empty, offer}
  /\ refresh = [r \in Refreshes |-> NoRefresh] /\ asks = 0 /\ timers = {}
  /\ seen = catalog /\ told = {} /\ breaks = 0

-----------------------------------------------------------------------------
(* The upstream and its session                                            *)

\* The upstream's list changes.  On a session it says so, and the timer
\* that waits for the end of a burst starts over (_schedule).
Changes(part) ==
  /\ offer["tools"] + offer["others"] < MaxChanges + 2
  /\ offer' = [offer EXCEPT ![part] = @ + 1]
  /\ timers' = timers \cup (IF session = 0 THEN {} ELSE {part})
  /\ UNCHANGED <<session, removal, catalog, refresh, asks, seen, told, breaks>>

\* Someone connects: a request, a refresh, the boot, an admin.
Connects ==
  /\ session = 0 /\ removal = "no" /\ session' = breaks + 1
  /\ UNCHANGED <<offer, removal, catalog, refresh, asks, timers, seen, told, breaks>>

\* The session ends: a Stop, a heal, a crash.
Breaks ==
  /\ session # 0 /\ breaks < MaxBreaks /\ breaks' = breaks + 1 /\ session' = 0
  /\ UNCHANGED <<offer, removal, catalog, refresh, asks, timers, seen, told>>

-----------------------------------------------------------------------------
(* A refresh                                                               *)

\* Mutant: an admin's work tells nobody either.
TellsTheUpstreams(kind) == IF kind \in Parts THEN "telling" ELSE "over"

\* Where a refresh ends: an upstream's change and an admin's work are told,
\* be it done or not; a sweep is not.
After(kind) == IF kind = "sweep" THEN "over" ELSE "telling"
Ended(r) == [NoRefresh EXCEPT !.kind = refresh[r].kind, !.at = After(refresh[r].kind)]

\* Every list is asked at once; with no session to ask on it has failed.
Asking(kind, try) ==
  [NoRefresh EXCEPT !.kind = kind, !.tries = try, !.on = session,
                    !.at = IF session = 0 THEN After(kind) ELSE "asking",
                    !.left = IF session = 0 THEN {} ELSE IF kind = "others" THEN {"others"} ELSE Parts]

Begins(kind) ==
  /\ asks < MaxRefreshes /\ asks' = asks + 1
  /\ refresh' = [refresh EXCEPT ![asks + 1] = Asking(kind, 1)]

\* Refresh tools, a Connect that found its session, the boot, a sweep.
Asks(kind) ==
  /\ session # 0 /\ Begins(kind)
  /\ UNCHANGED <<offer, session, removal, catalog, timers, seen, told, breaks>>

\* Mutant: a refresh that is under way will do.
FiresUnlessUnderWay(part) ==
  /\ part \in timers /\ timers' = timers \ {part}
  /\ IF \E r \in Refreshes : refresh[r].at = "asking" THEN UNCHANGED <<asks, refresh>> ELSE Begins(part)
  /\ UNCHANGED <<offer, session, removal, catalog, seen, told, breaks>>

\* _fire of a list_changed's timer.
Fires(part) ==
  /\ part \in timers /\ timers' = timers \ {part} /\ Begins(part)
  /\ UNCHANGED <<offer, session, removal, catalog, seen, told, breaks>>

\* The upstream answers one of the lists; or it refuses the others, which
\* reads as none.
Answers(r, part) ==
  /\ refresh[r].at = "asking" /\ part \in refresh[r].left /\ session = refresh[r].on
  /\ \E v \in {offer[part]} \cup (IF part = "others" THEN {0} ELSE {}) :
       refresh' = [refresh EXCEPT ![r].got[part] = v, ![r].left = @ \ {part}]
  /\ UNCHANGED <<offer, session, removal, catalog, asks, timers, seen, told, breaks>>

\* A list stalls, or its session is gone: all but a change of the others
\* heals and tries once more, and a heal drops the session it stalled on.
Stalls(r) ==
  /\ refresh[r].at = "asking" /\ refresh[r].left # {}
  /\ session # refresh[r].on \/ breaks < MaxBreaks
  /\ \/ /\ refresh[r].tries = 1 /\ refresh[r].kind # "others"
        /\ refresh' = [refresh EXCEPT ![r].at = "healing"]
        /\ IF session = refresh[r].on
           THEN session' = 0 /\ breaks' = breaks + 1
           ELSE UNCHANGED <<session, breaks>>
     \/ /\ refresh' = [refresh EXCEPT ![r] = Ended(r)]
        /\ breaks' = IF session = refresh[r].on THEN breaks + 1 ELSE breaks
        /\ UNCHANGED session
  /\ UNCHANGED <<offer, removal, catalog, asks, timers, seen, told>>

\* The second attempt, on whatever session is there by then.
Retries(r) ==
  /\ refresh[r].at = "healing"
  /\ refresh' = [refresh EXCEPT ![r] = Asking(refresh[r].kind, 2)]
  /\ UNCHANGED <<offer, session, removal, catalog, asks, timers, seen, told, breaks>>

\* Mutant: a list that stalls does not keep the rest from landing.
SomeAnswered(r) == refresh[r].left # Parts

\* gather: every list is there.
AllAnswered(r) == refresh[r].left = {}

Taken(r) == IF refresh[r].kind = "others" THEN {"others"} ELSE Parts

\* The lists that were refreshed (before a removal is through: it closes
\* the sessions first) replace the registry's, all in one step; the write
\* of the slice to the store follows, which only a restart reads.
Lands(r) ==
  /\ refresh[r].at = "asking" /\ AllAnswered(r) /\ removal # "done"
  /\ catalog' = [part \in Parts |-> IF part \in Taken(r) THEN refresh[r].got[part] ELSE catalog[part]]
  /\ refresh' = [refresh EXCEPT ![r] = Ended(r)]
  /\ UNCHANGED <<offer, session, removal, asks, timers, seen, told, breaks>>

Notice(parts) == told' = told \cup parts

\* An upstream's change is told at once, for its own part; an admin's work
\* as policy_changed, which waits for a timer of its own.
Tells(r) ==
  /\ refresh[r].at = "telling"
  /\ refresh' = [refresh EXCEPT ![r].at = "over"]
  /\ \/ refresh[r].kind \in Parts /\ Notice({refresh[r].kind}) /\ UNCHANGED timers
     \/ /\ refresh[r].kind = "asked"
        /\ timers' = timers \cup {"broadcast"} /\ UNCHANGED told
  /\ UNCHANGED <<offer, session, removal, catalog, asks, seen, breaks>>

\* _send_broadcast says that the tools changed.
Broadcasts ==
  /\ "broadcast" \in timers /\ timers' = timers \ {"broadcast"} /\ Notice({"tools"})
  /\ UNCHANGED <<offer, session, removal, catalog, refresh, asks, seen, breaks>>

\* The client that was told lists the part again.
Reads(part) ==
  /\ part \in told
  /\ seen' = [seen EXCEPT ![part] = catalog[part]] /\ told' = told \ {part}
  /\ UNCHANGED <<offer, session, removal, catalog, refresh, asks, timers, breaks>>

-----------------------------------------------------------------------------
(* A removal                                                               *)

\* remove_upstream: the client manager closes what is open and lets nobody
\* connect any more ...
Closes ==
  /\ removal = "no" /\ removal' = "closed" /\ session' = 0
  /\ breaks' = breaks + (IF session = 0 THEN 0 ELSE 1)
  /\ UNCHANGED <<offer, catalog, refresh, asks, timers, seen, told>>

\* ... and then the registry forgets the upstream and its slice; the removal ends with policy_changed.
Unregisters ==
  /\ removal = "closed" /\ removal' = "done"
  /\ catalog' = Empty
  /\ timers' = timers \cup {"broadcast"}
  /\ UNCHANGED <<offer, session, refresh, asks, seen, told, breaks>>

RefreshNext(r) ==
  Stalls(r) \/ Retries(r) \/ Lands(r) \/ Tells(r)

Next ==
  \/ \E part \in Parts : Changes(part) \/ Fires(part) \/ Reads(part)
  \/ Connects \/ Breaks \/ Broadcasts \/ Closes \/ Unregisters
  \/ \E kind \in {"asked", "sweep"} : Asks(kind)
  \/ \E r \in Refreshes : RefreshNext(r) \/ \E part \in Parts : Answers(r, part)

Spec == Init /\ [][Next]_vars

\* The timers fire, every list has a time limit, and a client that is told
\* lists again.
Fairness ==
  /\ WF_vars(Broadcasts)
  /\ \A part \in Parts : WF_vars(Fires(part)) /\ WF_vars(Reads(part))
  /\ \A r \in Refreshes : WF_vars(RefreshNext(r) \/ \E part \in Parts : Answers(r, part))

FairSpec == Spec /\ Fairness

-----------------------------------------------------------------------------
(* Properties                                                              *)

NothingUnderWay == \A r \in Refreshes : refresh[r].at \in {"unborn", "over"}
Quiet == timers = {} /\ NothingUnderWay

\* Who tells that a part changed: for the tools all but a sweep, for the
\* others the upstream alone.
Telling(part) == IF part = "tools" THEN Kinds \ {"sweep"} ELSE {"others"}

\* When nothing is under way any more, the client listed the catalog as it
\* is or holds a notice to list it again, however refreshes, their stalls
\* and retries, the debounce and a removal interleave (policy_notifier.py
\* tells on a failed refresh too).
QuietMeansTold ==
  Quiet => \A part \in Parts :
    /\ \A r \in 1..asks : refresh[r].kind \in Telling(part)
    /\ part = "others" => removal # "done"
    => part \in told \/ seen[part] = catalog[part]

\* A refresh that a stall cut short leaves the catalog as it was: the tools
\* never go but with the upstream (refresh_upstream raises what stalled
\* before it replaces anything).
ToolsAreNotEmptied ==
  [][catalog'["tools"] = 0 => catalog["tools"] = 0 \/ removal' = "done"]_vars

\* Tools the upstream announces when no refresh is under way are seen by
\* the client in the end, whoever refreshes meanwhile, unless the session
\* fails or the upstream goes (or the bound on the refreshes keeps the
\* announcement's own from starting).
AnnouncedIsSeen ==
  \A v \in 2..(MaxChanges + 1) :
    ("tools" \in timers /\ offer["tools"] = v /\ NothingUnderWay)
      ~> \/ seen["tools"] >= v
         \/ breaks > 0 \/ removal # "no"
         \/ asks = MaxRefreshes /\ "tools" \in timers /\ offer["tools"] = v

\* A change is told and seen, and no failed listing passes for one.
ChangesAreSeen == []QuietMeansTold /\ ToolsAreNotEmptied /\ AnnouncedIsSeen
=============================================================================
