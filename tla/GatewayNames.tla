---------------------------- MODULE GatewayNames ----------------------------
(***************************************************************************)
(* The names the gateway gives an organization's tools, resources and      *)
(* prompts, who may see and use them, and what a client reaches by a name: *)
(* on an organization's own mount, and on the mount for all of a caller's  *)
(* organizations.  Everything here is computed in one go of what the       *)
(* gateway has, and what it has may change as a whole between two requests.*)
(*                                                                         *)
(* Translated from entrypoints/controllers/gateway_controller.py,          *)
(* domain/services/policy_engine.py, tool_registry.py (the look-ups) and   *)
(* uri_wrapping.py.                                                        *)
(*                                                                         *)
(* A name is the sequence of what stands between its separators "__": a    *)
(* tool's own name may hold some; an org's slug cannot, and an upstream id *)
(* that does is out of use (upstream_role_rules.py says so).  Argument     *)
(* checks, titles and descriptions are left out.                           *)
(***************************************************************************)
EXTENDS Naturals, Sequences, FiniteSets

CONSTANT Gateways   \* what the gateway may have: see Gateway

VARIABLE gateway    \* ... and what it has at the moment

\* What a gateway has of an organization: its upstreams, what the registry
\* lists of them, and the caller's role.
Org(upstreams, tools, resources, role) ==
  [upstreams |-> upstreams, tools |-> tools, resources |-> resources, role |-> role]

\* NO_ROLE: of who is not a member, or only invited, or whose role is gone.
NoRole == [mcps |-> {}, access |-> <<>>]

\* The caller's orgs, the runtimes that are loaded, and each org.
Gateway(memberOf, loaded, org) == [memberOf |-> memberOf, loaded |-> loaded, org |-> org]

-----------------------------------------------------------------------------
(* The policy                                                              *)

\* _resolve_tool_access: the categories a tool is in decide, all of them,
\* then its own entry, then the fallback.
ResolveToolAccess(config, name, flags) ==
  LET matched == flags \cap DOMAIN config.categories IN
  IF matched # {} THEN \A flag \in matched : config.categories[flag]
  ELSE IF name \in DOMAIN config.tools THEN config.tools[name]
  ELSE config.fallback

\* _is_tool_allowed: an upstream without rules is open.
IsToolAllowed(role, id, name, flags) ==
  id \in DOMAIN role.access => ResolveToolAccess(role.access[id], name, flags)

\* filter_tools.
FilterTools(role, tools) ==
  {t \in tools : t.on \in role.mcps /\ IsToolAllowed(role, t.on, t.name, t.flags)}

\* decide_tool_call.
DecideToolCall(role, id, name, flags) ==
  id \in role.mcps /\ IsToolAllowed(role, id, name, flags)

\* _allowed_upstream_ids.
AllowedIds(org) == org.upstreams \cap org.role.mcps

\* Mutant: a call does not look at what kind of tool it is for.
NoAnnotations(org, id, name) == {}

\* get_tool_annotations: none of a tool that is not listed.
Annotations(org, id, name) ==
  UNION {t.flags : t \in {u \in org.tools : u.on = id /\ u.name = name}}

-----------------------------------------------------------------------------
(* Tools                                                                   *)

\* _discovered_tools_for_user.
Discovered(org) == FilterTools(org.role, {t \in org.tools : t.on \in AllowedIds(org)})

\* to_mcp_tools.
Prefixed(t) == <<t.on>> \o t.name

\* tools/list: of an organization, and of all the caller's.
ListTools(org) == {Prefixed(t) : t \in Discovered(org)}
ListToolsMulti(g) ==
  UNION {{<<o>> \o name : name \in ListTools(g.org[o])} : o \in g.memberOf}

\* Mutant: the first to be found.
AnyOwner(owners) == owners

\* The one upstream that has it.
OneOwner(owners) == IF Cardinality(owners) = 1 THEN owners ELSE {}

\* A widget calls a tool by its own name: _resolve_bare_tool_name, and its
\* multi-org variant, which looks in the runtimes that are loaded.
BareTool(org, name) ==
  OneOwner({Prefixed(t) : t \in {u \in org.tools : u.on \in AllowedIds(org) /\ u.name = name}})
BareToolMulti(g, name) ==
  OneOwner(UNION {{<<o>> \o Prefixed(t) : t \in
      {u \in g.org[o].tools : u.on \in AllowedIds(g.org[o]) /\ u.name = name}}
    : o \in g.memberOf \cap g.loaded})

\* _check_upstream_and_tool_policy and resolve_tool, which split a name at
\* its first separator: what is reached, if anything.
Admitted(org, full) ==
  IF /\ Len(full) > 1 /\ Head(full) \in AllowedIds(org)
     /\ DecideToolCall(org.role, Head(full), Tail(full),
                       Annotations(org, Head(full), Tail(full)))
  THEN {[on |-> Head(full), name |-> Tail(full)]} ELSE {}

\* Mutant: an own name that holds a separator is looked for as one.
BareOfAnyLength(name, bare) == IF bare # {} THEN bare ELSE {name}

\* What a name stands for, where a bare one stands for these.
FullNames(name, bare) == IF Len(name) = 1 THEN bare ELSE {name}

\* tools/call on an organization's mount.
CallTool(org, name) ==
  UNION {Admitted(org, full) : full \in FullNames(name, BareTool(org, name))}

\* ... and on the mount of all, which wants the org's slug in front.
Reached(o, things) == {[org |-> o, it |-> t] : t \in things}
CallToolMulti(g, name) ==
  UNION {Reached(Head(full), Admitted(g.org[Head(full)], Tail(full))) :
         full \in {f \in FullNames(name, BareToolMulti(g, name)) :
                   Len(f) > 2 /\ Head(f) \in g.memberOf}}

-----------------------------------------------------------------------------
(* Prompts                                                                 *)

\* A role opens an upstream's prompts as a whole, and they have no bare
\* name.  What is not the upstream's prompt the upstream refuses.
GetPrompt(org, name) ==
  IF Len(name) > 1 /\ Head(name) \in AllowedIds(org)
  THEN {[on |-> Head(name), name |-> Tail(name)]} ELSE {}
GetPromptMulti(g, name) ==
  IF Len(name) > 2 /\ Head(name) \in g.memberOf
  THEN Reached(Head(name), GetPrompt(g.org[Head(name)], Tail(name))) ELSE {}

-----------------------------------------------------------------------------
(* Resources                                                               *)

\* A URI as an upstream has it, and as the gateway wraps it: resources,
\* templates and the widgets a tool names.
Native(uri) == [kind |-> "native", org |-> "none", on |-> "none", uri |-> uri]
WrapResource(o, id, uri) == [kind |-> "resources", org |-> o, on |-> id, uri |-> uri]
WrapTemplate(o, id, uri) == [kind |-> "templates", org |-> o, on |-> id, uri |-> uri]
WrapWidget(o, id, uri) == [kind |-> "widgets", org |-> o, on |-> id, uri |-> uri]

\* unwrap_resource_uri.
IsWrapped(u) == u.kind \in {"resources", "templates", "widgets"}

\* _build_resource, _build_resource_template.
ResourceUri(o, r) == IF r.template THEN WrapTemplate(o, r.on, r.uri) ELSE WrapResource(o, r.on, r.uri)

\* _apply_widget_meta_rewrites: the widgets of the tools that are listed.
ListWidgets(org, o) ==
  {WrapWidget(o, t.on, t.widget) : t \in {u \in Discovered(org) : u.widget # "none"}}

\* resources/list and resources/templates/list: an organization's own mount
\* lists what is loaded.
ListResources(g, o) ==
  IF o \notin g.loaded THEN {}
  ELSE {ResourceUri(o, r) : r \in {s \in g.org[o].resources : s.on \in AllowedIds(g.org[o])}}
ListResourcesMulti(g) ==
  UNION {ListResources([g EXCEPT !.loaded = g.memberOf], o) : o \in g.memberOf}

Owners(org, uri) ==
  {r.on : r \in {s \in org.resources : s.on \in AllowedIds(org) /\ ~s.template /\ s.uri = uri}}
BareResource(org, uri) == OneOwner({[on |-> id, uri |-> uri] : id \in Owners(org, uri)})
BareResourceMulti(g, uri) ==
  OneOwner(UNION {Reached(o, {[on |-> id, uri |-> uri] : id \in Owners(g.org[o], uri)})
                  : o \in g.memberOf \cap g.loaded})

\* resources/read: the upstream must be open to the caller.  On an
\* organization's own mount the slug in the URI is not looked at.
OfAllowed(org, things) == {t \in things : t.on \in AllowedIds(org)}
ReadResource(org, u) ==
  OfAllowed(org, IF IsWrapped(u) THEN {[on |-> u.on, uri |-> u.uri]} ELSE BareResource(org, u.uri))
ReadResourceMulti(g, u) ==
  IF ~IsWrapped(u) THEN BareResourceMulti(g, u.uri)
  ELSE IF u.org \in g.memberOf THEN Reached(u.org, ReadResource(g.org[u.org], u))
  ELSE {}

-----------------------------------------------------------------------------
(* Properties                                                              *)

\* Upstreams and people are added, removed and given other roles, lists
\* change, runtimes are loaded and put away.
NamesInit == gateway \in Gateways
NamesNext == gateway' \in Gateways

ItOf(t) == [on |-> t.on, name |-> t.name]

\* What is listed can be called by the name it is listed under and reaches
\* that tool, on both mounts, and a tool that is hidden is refused by every
\* name: listing (filter_tools) and calling (decide_tool_call, with what
\* the registry says of the tool) go by the policy on their own.
ListedIsCallable ==
  \A o \in gateway.memberOf : LET org == gateway.org[o] IN
    \A t \in org.tools :
      LET shown == IF t \in Discovered(org) THEN {ItOf(t)} ELSE {} IN
      /\ CallTool(org, Prefixed(t)) = shown
      /\ CallToolMulti(gateway, <<o>> \o Prefixed(t)) = Reached(o, shown)
      /\ ItOf(t) \notin shown => ItOf(t) \notin CallTool(org, t.name)

\* A name that was listed for a tool, or a URI for a resource, a template
\* or a widget, never comes to reach another: whatever is added, removed,
\* renamed or loaded meanwhile, its caller reaches that one or is refused.
NameStaysTrue ==
  [][\A o \in gateway.memberOf \cap gateway'.memberOf :
       /\ \A t \in Discovered(gateway.org[o]) :
            /\ CallTool(gateway'.org[o], Prefixed(t)) \subseteq {ItOf(t)}
            /\ CallToolMulti(gateway', <<o>> \o Prefixed(t)) \subseteq Reached(o, {ItOf(t)})
            /\ GetPromptMulti(gateway', <<o>> \o Prefixed(t)) \subseteq Reached(o, {ItOf(t)})
       /\ \A u \in ListResources(gateway, o) \cup ListWidgets(gateway.org[o], o) :
            /\ ReadResource(gateway'.org[o], u) \subseteq {[on |-> u.on, uri |-> u.uri]}
            /\ ReadResourceMulti(gateway', u) \subseteq Reached(o, {[on |-> u.on, uri |-> u.uri]})
    ]_gateway

\* A tool called or a resource read by the name its upstream gave it is
\* reached only when no other upstream open to the caller has one of that
\* name, in any of the caller's organizations that is loaded.
BareIsUnambiguous ==
  \A o \in gateway.memberOf \cap gateway.loaded : LET org == gateway.org[o] IN
    \A id \in AllowedIds(org) :
      /\ \A t \in org.tools : \A x \in CallToolMulti(gateway, t.name) :
           Len(t.name) = 1 /\ t.on = id => x = [org |-> o, it |-> ItOf(t)]
      /\ \A r \in org.resources : \A x \in ReadResourceMulti(gateway, Native(r.uri)) :
           r.on = id => x = [org |-> o, it |-> [on |-> r.on, uri |-> r.uri]]

\* A name means what its listing said: it can be called, it goes on meaning
\* that or nothing, and a bare one is never a guess.
NamesHold == [](ListedIsCallable /\ BareIsUnambiguous) /\ NameStaysTrue
=============================================================================
