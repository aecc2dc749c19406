--------------------------- MODULE MCToolCatalog ----------------------------
(***************************************************************************)
(* ToolCatalog; beside it GatewayNames over the gateways of two            *)
(* organizations whose upstreams may offer tools and resources of the same *)
(* name, and a tool whose own name holds the other upstream's; and the     *)
(* connection a catalog is read over, ConnectionTask.                      *)
(***************************************************************************)
EXTENDS ToolCatalog, GatewayNames, ConnectionTask

CONSTANTS u1, u2, o1, o2

Tool(id, name, flags) == [on |-> id, name |-> name, flags |-> flags, widget |-> "none"]

\* The roles worth telling apart: nobody, one upstream open as a whole, and
\* both, where a category, an own entry or the fallback decides.
MCRoles ==
  LET Access(categories, tools, fallback) ==
        [categories |-> categories, tools |-> tools, fallback |-> fallback]
      One(x, value) == [y \in {x} |-> value]
      Accesses == {Access(c, n, f) : c \in {<<>>, One("writes", FALSE), One("writes", TRUE)},
                                     n \in {<<>>, One(<<"t">>, FALSE)}, f \in BOOLEAN}
  IN {NoRole, [mcps |-> {u1}, access |-> <<>>]}
     \cup {[mcps |-> {u1, u2}, access |-> One(u1, a)] : a \in Accesses}

MCTools == {[Tool(u1, <<"t">>, {"writes"}) EXCEPT !.widget = "w"], Tool(u2, <<"t">>, {}), Tool(u1, <<u2, "t">>, {})}
MCResources == {[on |-> u1, uri |-> "r", template |-> FALSE], [on |-> u2, uri |-> "r", template |-> FALSE],
                [on |-> u2, uri |-> "w", template |-> TRUE]}

\* Any roles in an org with everything; and any catalogs under open roles.
MCOrgs ==
  LET Open == [mcps |-> {u1, u2}, access |-> <<>>] IN
  {Org({u1, u2}, MCTools, MCResources, role) : role \in MCRoles}
  \cup {Org(ups, tools, resources, Open) : ups \in {{u1}, {u1, u2}},
          tools \in SUBSET MCTools, resources \in SUBSET MCResources}

MCGateways ==
  {Gateway({o1}, {o1, o2}, [o \in {o1, o2} |-> org]) : org \in MCOrgs}
  \cup {Gateway({o1, o2}, loaded, [o \in {o1, o2} |-> IF o = o1 THEN org ELSE
          Org({u1}, {Tool(u1, <<"t">>, {})}, {}, [mcps |-> {u1}, access |-> <<>>])]) :
        org \in MCOrgs, loaded \in {{o1}, {o1, o2}}}

-----------------------------------------------------------------------------
(* Of a behaviour one of the three moves, and the others have not begun.   *)

VARIABLE moving    \* "names", "catalog" or "task"

allVars == <<vars, gateway, taskVars, moving>>

AllInit ==
  /\ moving \in {"names", "catalog", "task"} /\ Init /\ TaskInit
  /\ IF moving = "names" THEN NamesInit ELSE gateway = Gateway({}, {}, <<>>)
  /\ moving # "task" => transport = "http"

NamesMove == moving = "names" /\ NamesNext /\ UNCHANGED <<vars, taskVars, moving>>
CatalogMoves == moving = "catalog" /\ Next /\ UNCHANGED <<gateway, taskVars, moving>>
TaskMoves == moving = "task" /\ TaskNext /\ UNCHANGED <<vars, gateway, moving>>

AllNext == NamesMove \/ CatalogMoves \/ TaskMoves

AllSpec == AllInit /\ [][AllNext]_allVars /\ Fairness /\ TaskFairness
=============================================================================
