------------------------------ MODULE MCPeople ------------------------------
(***************************************************************************)
(* PendingSignIns and, beside it, ConnectionRows and Membership: what      *)
(* belongs to a person, and their place in the organization.  Of a         *)
(* behaviour one of the three moves.  The bounds their configurations      *)
(* give, and the calls and rows ConnectionRows is checked with.            *)
(***************************************************************************)
EXTENDS PendingSignIns, ConnectionRows, Membership, TLC

VARIABLE moving

allVars == <<vars, rowVars, memberVars, moving>>

AllInit ==
  /\ moving \in {"sign_ins", "rows", "members"} /\ Init /\ RowsInit /\ MembersInit
  /\ moving # "rows" => file = <<>>
  /\ moving # "members" => \A p \in Persons \ {Founder} : ~Invited(p)

SignInsMove == moving = "sign_ins" /\ Next /\ UNCHANGED <<rowVars, memberVars, moving>>
RowsMove == moving = "rows" /\ RowsNext /\ UNCHANGED <<vars, memberVars, moving>>
MembersMove == moving = "members" /\ MembersNext /\ UNCHANGED <<vars, rowVars, moving>>

AllSpec == AllInit /\ [][SignInsMove \/ RowsMove \/ MembersMove]_allVars

Symmetry == Permutations(Users) \cup Permutations(Ops) \cup Permutations(Persons \ {Founder})

TwoUpstreams == {<<"crm">>, <<"crm.eu">>}
ThreePeople == {<<"ann">>, <<"Ann">>, <<"bob">>}
Keyed == [user \in ThreePeople |-> IF user = <<"bob">> THEN "bob" ELSE "ann"]

Call(what, up, user, key, x, expected) ==
  [op |-> what, up |-> up, user |-> user, key |-> key, x |-> x, expected |-> expected]

Text(t) == [text |-> t]
Short == [access |-> "a", refresh |-> "r", expires_in |-> 1]
Lasting == [access |-> "a", refresh |-> None, expires_in |-> None]

\* One person's calls at one upstream, and some of others.
SomeCalls ==
  LET up == <<"crm">>
      ann == <<"ann">>
  IN {Call(what, up, ann, <<>>, None, None) :
        what \in {"user_tokens", "upstream_tokens", "all_for_upstream", "all_for_user", "notified",
                "disable", "all"}}
     \cup {Call("sign_in", p, u, <<>>, t, None) :
             p \in TwoUpstreams, u \in {ann, <<"bob">>}, t \in {Short, Lasting}}
     \cup {Call(what, up, ann, <<>>, Short, e) : what \in {"refresh", "drop_if_current"}, e \in {None, 1, 2}}
     \cup {Call("failure", up, u, <<>>, None, e) : u \in {ann, <<"Ann">>}, e \in {None, "sig"}}
     \cup {Call("error", up, ann, <<>>, Text("down"), "sig"), Call("code", up, ann, <<>>, Text("code"), None)}
     \cup {Call("field", up, ann, key, Text("x"), None) :
             key \in {KeyOf("client_info", up, ann), KeyOf("oauth_metadata", <<"crm.eu">>, ann),
                      Key("started_config_hash", up)}}
     \cup {Call("drop", up, ann, key, None, None) :
             key \in {KeyOf("user", up, ann), KeyOf("failures", up, ann), Key("enabled", up),
                      KeyOf("pending_code", up, ann)}}

\* No rows, one of a person from before ids and times, and an admin's.
OldRows ==
  LET t(updated) == [access |-> "old", refresh |-> "r", expires_at |-> 1, refreshed_at |-> 0,
                     updated_at |-> updated]
  IN {<<>>} \cup {(key :> t(updated)) : key \in {KeyOf("user", <<"crm">>, <<"ann">>)}, updated \in {None, 0}}
     \cup {(Key("admin", <<"crm">>) :> t(0))}
=============================================================================
