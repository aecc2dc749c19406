--------------------------- MODULE UpstreamConfig ---------------------------
(***************************************************************************)
(* One upstream id of an organization as it is configured: the saved       *)
(* definition, the copies the running parts serve from, the rules roles    *)
(* hold about it and the variables saved for it, under admins who add,     *)
(* remove and edit it and change roles.                                    *)
(*                                                                         *)
(* Translated from domain/services/upstream_config_service.py,             *)
(* upstream_admin_service.py (add, import, remove), role_admin_service.py, *)
(* upstream_role_rules.py, policy_engine.py, the config and upstream       *)
(* repositories, and the dashboard's routes.                               *)
(*                                                                         *)
(* What a rule or a variable says is left out: it is known by the upstream *)
(* it was written for, the how-manieth to be added under the id.  A write  *)
(* of the roles' config is one step (Membership), and may have to wait for *)
(* others of this backend, or be tried again after those of another.       *)
(***************************************************************************)
EXTENDS Naturals, Sequences, FiniteSets

CONSTANTS
  Ops,         \* the admins' requests on the upstream
  Roles, First, \* role names; the one that is always there
  MaxAdds,     \* bounds: upstreams added, changes of roles, failed store calls
  MaxChanges, MaxFailures,
  Alone        \* an edit runs beside no other edit, add or removal, and a
               \* removal removes nothing that is still being added

ASSUME UpstreamConfigAssumption ==
  /\ First \in Roles /\ {MaxAdds, MaxChanges, MaxFailures} \subseteq Nat
  /\ Alone \in BOOLEAN

VARIABLES
  document,   \* the upstream repository's document
  live,    \* the copies of the client manager, the registry and the router
  rules,   \* of each role about the id: access entry, tool overrides, checks
  there,   \* the roles there are
  named,   \* the upstreams whose variables and files are saved
  op,      \* the requests
  adds, changes, failures,
  torn,    \* a failure left a removal or an edit half done
  outrun   \* upstreams whose rules were granted between the delete and the
           \* purge of a removal: what the purge does to them is known

configVars == <<document, live, rules, there, named, op, adds, changes, failures, torn, outrun>>
Store == <<document, rules, there, named>>
Counts == <<adds, changes, failures, torn, outrun>>

Parts == {"client", "registry", "router"}
Absent == [nth |-> 0, edits |-> {}]
NoRules == [access |-> 0, tools |-> 0, checks |-> 0]
NoOp == [kind |-> "none", at |-> "unborn", mine |-> Absent]

Saved == document # Absent
Requests == {"add", "remove", "edit", "config", "arguments"}
Edits == {"edit", "config", "arguments"}

ConfigTypeOK ==
  LET Definition == [nth : 0..MaxAdds, edits : SUBSET Ops] IN
  /\ document \in Definition /\ live \in [Parts -> Definition]
  /\ rules \in [Roles -> [DOMAIN NoRules -> 0..MaxAdds]] /\ First \in there /\ there \subseteq Roles
  /\ named \subseteq 1..MaxAdds
  /\ adds \in 0..MaxAdds /\ changes \in 0..MaxChanges /\ failures \in 0..MaxFailures
  /\ torn \in BOOLEAN /\ outrun \subseteq 1..MaxAdds
  /\ \A o \in Ops : /\ op[o].kind \in Requests \cup {"none"} /\ op[o].mine \in Definition
                    /\ op[o].at \in {"unborn", "inserting", "registering", "naming", "granting",
                         "waiting", "dropping", "purging", "closing", "unlisting", "unrouting",
                         "unnaming", "finding", "replacing", "refreshing", "over"}

ConfigInit ==
  /\ document = Absent /\ live = [p \in Parts |-> Absent]
  /\ rules = [r \in Roles |-> NoRules] /\ there \in {R \in SUBSET Roles : First \in R}
  /\ named = {} /\ op = [o \in Ops |-> NoOp]
  /\ adds = 0 /\ changes = 0 /\ failures = 0 /\ torn = FALSE /\ outrun = {}

-----------------------------------------------------------------------------
(* The store                                                               *)

Proceeds(o, at) == op' = [op EXCEPT ![o].at = at]

Returns(o) == op' = [op EXCEPT ![o] = [NoOp EXCEPT !.at = "over"]]

\* remove_upstream_role_rules.
WithoutRules == [r \in Roles |-> NoRules]

\* Mutant: the entries are added to what is there.
AddedRules(nth) ==
  [r \in Roles |-> IF r \in there THEN [rules[r] EXCEPT !.access = nth, !.tools = nth] ELSE NoRules]

\* create_mcp_access: what was left under the id goes, and every role gets
\* an access entry and the default tool overrides.
FreshRules(nth) ==
  [r \in Roles |-> IF r \in there THEN [access |-> nth, tools |-> nth, checks |-> 0] ELSE NoRules]

\* Mutant: the rules are purged once the sessions are closed.
PurgedLate == <<"dropping", "closing", "unlisting", "unrouting", "purging", "unnaming">>

\* remove_upstream: the order of a removal.
RemovalSteps == <<"dropping", "purging", "closing", "unlisting", "unrouting", "unnaming">>

\* What follows a step of it.
FollowedBy(at) == RemovalSteps[1 + CHOOSE i \in DOMAIN RemovalSteps : RemovalSteps[i] = at]

-----------------------------------------------------------------------------
(* Adding                                                                  *)

UnderWay(kinds) == \E o \in Ops : op[o].kind \in kinds

Adds(o) ==
  /\ op[o].at = "unborn" /\ ~(Alone /\ UnderWay(Edits))
  /\ op' = [op EXCEPT ![o] = [NoOp EXCEPT !.kind = "add", !.at = "inserting"]]
  /\ UNCHANGED <<Store, live, Counts>>

\* A row of an import, skipped when the org has the id already.
Imports(o) == ~Saved /\ Adds(o)

\* add: a second one of the same id is refused.
Inserts(o) ==
  /\ op[o].at = "inserting"
  /\ \/ /\ ~Saved /\ adds < MaxAdds
        /\ adds' = adds + 1 /\ document' = [Absent EXCEPT !.nth = adds + 1]
        /\ op' = [op EXCEPT ![o].at = "registering", ![o].mine = document']
     \/ Saved /\ Returns(o) /\ UNCHANGED <<document, adds>>
  /\ UNCHANGED <<rules, there, named, live, changes, failures, torn, outrun>>

\* Where a saved definition goes live.
After(kind) ==
  CASE kind = "add" -> "naming"
    [] kind = "arguments" -> "over"
    [] OTHER -> "refreshing"

\* _register_live.
Registers(o) ==
  /\ op[o].at = "registering" /\ live' = [p \in Parts |-> op[o].mine]
  /\ IF After(op[o].kind) = "over"
     THEN Returns(o)
     ELSE Proceeds(o, After(op[o].kind))
  /\ UNCHANGED <<Store, Counts>>

\* The variables of a new upstream.
Names(o) ==
  /\ op[o].at = "naming" /\ named' \in {named, named \cup {op[o].mine.nth}}
  /\ Proceeds(o, "granting")
  /\ UNCHANGED <<document, rules, there, live, Counts>>

\* grant_role_access.
Grants(o) ==
  /\ op[o].at = "granting"
  /\ rules' = FreshRules(op[o].mine.nth) /\ Returns(o)
  /\ outrun' = IF \E a \in Ops : op[a].at = "purging" THEN outrun \cup {op[o].mine.nth} ELSE outrun
  /\ UNCHANGED <<document, there, named, live, adds, changes, failures, torn>>

\* A call of the store fails: an add that was saved is taken back, an edit
\* or a removal is left where it is, save that a removal's purge of the
\* rules may fail.
Breaks(o) ==
  /\ failures < MaxFailures /\ failures' = failures + 1
  /\ \/ /\ op[o].at \in {"inserting", "dropping", "finding", "replacing", "refreshing"}
        /\ Returns(o)
        /\ torn' = (\/ torn \/ (op[o].kind = "add" /\ op[o].at = "dropping")
                    \/ (op[o].at # "refreshing" /\ o \in document.edits))
     \/ op[o].at \in {"naming", "granting"} /\ Proceeds(o, "dropping") /\ UNCHANGED torn
     \/ op[o].at = "purging" /\ Proceeds(o, FollowedBy("purging")) /\ UNCHANGED torn
     \/ op[o].at = "unnaming" /\ Returns(o) /\ torn' = TRUE
  /\ UNCHANGED <<Store, live, adds, changes, outrun>>

-----------------------------------------------------------------------------
(* Removing                                                                *)

\* A removal waits for another of its backend, and for none of another's.
Removes(o) ==
  /\ op[o].at = "unborn"
  /\ ~(Alone /\ UnderWay(Edits))
  /\ \E at \in {"waiting", "dropping"} :
       op' = [op EXCEPT ![o] = [NoOp EXCEPT !.kind = "remove", !.at = at]]
  /\ UNCHANGED <<Store, live, Counts>>

\* stop_start_lock, which an add's own clean-up does not take.
Locks(o) ==
  /\ op[o].at = "waiting"
  /\ \A a \in Ops \ {o} : op[a].kind = "remove" => op[a].at = "waiting"
  /\ Proceeds(o, "dropping")
  /\ UNCHANGED <<Store, live, Counts>>

\* remove: one that is not there any more is refused.
Drops(o) ==
  /\ op[o].at = "dropping" /\ document' = Absent
  /\ Alone => \A a \in Ops \ {o} : op[a].kind = "add" => op[a].mine = Absent
  /\ IF Saved THEN Proceeds(o, FollowedBy("dropping")) ELSE Returns(o)
  /\ UNCHANGED <<rules, there, named, live, Counts>>

\* _remove_role_rules, of whichever upstream the id has by then.
Purges(o) ==
  /\ op[o].at = "purging" /\ rules' = WithoutRules /\ Proceeds(o, FollowedBy("purging"))
  /\ UNCHANGED <<document, there, named, live, Counts>>

\* The client manager forgets the upstream, then closes what is open; the
\* registry and the router forget it after that.
Unregisters(o, at, part) ==
  /\ op[o].at = at /\ live' = [live EXCEPT ![part] = Absent] /\ Proceeds(o, FollowedBy(at))
  /\ UNCHANGED <<Store, Counts>>

\* The variables and files, last.
Unnames(o) ==
  /\ op[o].at = "unnaming" /\ named' = {} /\ Returns(o)
  /\ UNCHANGED <<document, rules, there, live, Counts>>

RemovalNext(o) ==
  \/ Removes(o) \/ Locks(o) \/ Drops(o) \/ Purges(o)
  \/ Unregisters(o, "closing", "client")
  \/ Unregisters(o, "unlisting", "registry")
  \/ Unregisters(o, "unrouting", "router")
  \/ Unnames(o)

-----------------------------------------------------------------------------
(* Editing                                                                 *)

\* An edit reads the definition and changes what it read.
Reads(o, kind) ==
  /\ op[o].at = "unborn" /\ Saved /\ ~(Alone /\ UnderWay(Requests))
  /\ op' = [op EXCEPT ![o] = [kind |-> kind, at |-> "finding",
                              mine |-> [document EXCEPT !.edits = @ \cup {o}]]]
  /\ UNCHANGED <<Store, live, Counts>>

\* update looks whether it is still there, and then replaces or inserts it.
Finds(o) ==
  /\ op[o].at = "finding"
  /\ IF Saved THEN Proceeds(o, "replacing") ELSE Returns(o)
  /\ UNCHANGED <<Store, live, Counts>>

\* An edit of the server's config is written first on its own, over the
\* options that are saved.
Replaces(o) ==
  /\ op[o].at = "replacing"
  /\ \/ /\ op[o].kind = "config"
        /\ document' = [nth |-> op[o].mine.nth, edits |-> document.edits \cup {o}]
        /\ op' = [op EXCEPT ![o].kind = "edit", ![o].at = "finding"]
     \/ /\ op[o].kind # "config" /\ document' = op[o].mine /\ Proceeds(o, "registering")
  /\ UNCHANGED <<rules, there, named, live, Counts>>

\* The dashboard's edit saves its variables once the lists were asked anew.
Refreshes(o) ==
  /\ op[o].at = "refreshing" /\ named' \in {named, named \cup {op[o].mine.nth}}
  /\ Returns(o)
  /\ UNCHANGED <<document, rules, there, live, Counts>>

-----------------------------------------------------------------------------
(* Roles                                                                   *)

Changes == changes < MaxChanges /\ changes' = changes + 1
RoleStep == Changes /\ UNCHANGED <<document, named, live, op, adds, failures, torn, outrun>>

\* _edit: an entry, an override or a check is set, whether or not there is
\* such an upstream.
SetsRule(r, part) ==
  /\ r \in there /\ adds > 0 /\ rules' = [rules EXCEPT ![r][part] = adds]
  /\ UNCHANGED there /\ RoleStep

\* An override or a check is taken out; an access entry never is alone.
UnsetsRule(r, part) ==
  /\ r \in there /\ part # "access" /\ rules' = [rules EXCEPT ![r][part] = 0]
  /\ UNCHANGED there /\ RoleStep

\* create_role, plain or with a copy of another's rules.
CreatesRole(r) ==
  /\ r \notin there /\ there' = there \cup {r}
  /\ \E copy \in {NoRules} \cup {rules[q] : q \in there} : rules' = [rules EXCEPT ![r] = copy]
  /\ RoleStep

DeletesRole(r) ==
  /\ r \in there \ {First} /\ there' = there \ {r}
  /\ rules' = [rules EXCEPT ![r] = NoRules] /\ RoleStep

OpNext(o) ==
  \/ Adds(o) \/ Imports(o) \/ Inserts(o) \/ Registers(o) \/ Names(o) \/ Grants(o)
  \/ RemovalNext(o)
  \/ \E kind \in Edits : Reads(o, kind)
  \/ Finds(o) \/ Replaces(o) \/ Refreshes(o)
  \/ Breaks(o)

RoleNext(r) ==
  \/ \E part \in DOMAIN NoRules : SetsRule(r, part) \/ UnsetsRule(r, part)
  \/ CreatesRole(r) \/ DeletesRole(r)

ConfigNext == (\E o \in Ops : OpNext(o)) \/ (\E r \in Roles : RoleNext(r))

ConfigSpec == ConfigInit /\ [][ConfigNext]_configVars

-----------------------------------------------------------------------------
(* Properties                                                              *)

Quiet == \A o \in Ops : op[o].at \in {"unborn", "over"}

\* Once nothing is under way, every rule and every variable of an upstream
\* that is there was written for it, and none for one removed earlier under
\* the same id: though rules are edited whether or not the upstream is
\* there, a purge may fail, and an add may run beside a removal.
NothingInherited ==
  Quiet /\ Saved /\ ~torn =>
    /\ \A r \in there, part \in DOMAIN NoRules : rules[r][part] \in {0, document.nth}
    /\ named \subseteq {document.nth}

\* A role that was there when an upstream was added has its access entry,
\* and a removal that still runs beside the add (it closes the sessions,
\* unregisters the parts, deletes the variables) does not take it.  One add
\* is excepted: that whose grant came between a removal's delete and its
\* purge, which are two calls of two stores and may be of two backends.
AddedIsOffered ==
  Quiet /\ Saved /\ ~torn /\ document.nth \notin outrun => rules[First].access = document.nth

\* An upstream has what was given to it, and nothing of an earlier one,
\* whether adds and removals of the id take turns or run side by side.
AddedStandsAlone == NothingInherited /\ AddedIsOffered
=============================================================================
