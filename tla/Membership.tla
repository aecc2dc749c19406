----------------------------- MODULE Membership -----------------------------
(***************************************************************************)
(* Who belongs to an organization, and with which role: the saved config   *)
(* (its roles, its users and their roles), the membership rows of those    *)
(* who accepted, the running policy's copy of these, and the service       *)
(* tokens that hold a role by name.                                        *)
(*                                                                         *)
(* Translated from domain/services/user_admin_service.py,                  *)
(* role_admin_service.py, settings_resolver.py, org_runtime.py, the config *)
(* repositories and the token service.                                     *)
(*                                                                         *)
(* A write of the config is one step, checked on the document it replaces  *)
(* and reloaded into the running policy as it returns: the policy's config *)
(* is the saved one.  An address has one spelling.                         *)
(***************************************************************************)
EXTENDS Naturals, FiniteSets

CONSTANTS
  Persons, Names, Labels, \* addresses, role names, token labels
  Founder,               \* who created the org
  AdminRole, MemberRole, \* the two roles it was created with
  Nothing,               \* no role, no row, nobody
  Ops,                   \* the actions of admins and of invited people
  MaxSeats,              \* the plan's seats
  MaxFailures,           \* bound: actions that a store cuts short
  InviteMeanwhile        \* an address may be invited while an action runs that is on it
                         \* or has read it as a user's

ASSUME MembershipAssumption ==
  /\ Founder \in Persons /\ {AdminRole, MemberRole} \subseteq Names /\ AdminRole # MemberRole
  /\ Nothing \notin Persons \cup Names \cup Ops /\ {MaxSeats, MaxFailures} \subseteq Nat
  /\ InviteMeanwhile \in BOOLEAN

VARIABLES
  roles,   \* the saved config: what each role name is, "no" role, "admin" or "plain"
  users,   \* the saved config: the role of each address, invited or joined
  rows,    \* membership rows: the role each member joined with
  policyMembers, \* those of the running policy
  tokens,  \* the role each service token holds
  lock,    \* who holds roles_lock, or Nothing
  op,      \* the actions
  half,    \* people whose removal stopped half way
  torn,    \* a rename stopped half way
  failures

memberVars == <<roles, users, rows, policyMembers, tokens, lock, op, half, torn, failures>>
Config == <<roles, users>>
Held == <<rows, policyMembers, tokens>>

Kinds == {"add", "accept", "decline", "remove", "setrole", "rename", "delete", "mint"}

\* Every action that writes a role's name holds the roles lock; an
\* invitation and a removal do not.
UnderLock == Kinds \ {"add", "remove"}

NoOp == [kind |-> "none", at |-> "unborn", who |-> Nothing, role |-> Nothing, to |-> Nothing,
         label |-> Nothing, eligible |-> {}]

MembersTypeOK ==
  /\ roles \in [Names -> {"no", "admin", "plain"}]
  /\ users \in [Persons -> Names \cup {Nothing}] /\ rows \in [Persons -> Names \cup {Nothing}]
  /\ policyMembers \subseteq Persons /\ tokens \in [Labels -> Names \cup {Nothing}]
  /\ lock \in Ops \cup {Nothing} /\ half \subseteq Persons /\ torn \in BOOLEAN
  /\ failures \in 0..MaxFailures
  /\ \A o \in Ops :
       /\ op[o].kind \in Kinds \cup {"none"}
       /\ op[o].at \in {"unborn", "asked", "counting", "storing", "joining", "joined", "undoing",
                        "checking", "closing", "tokens", "rows", "minting", "over"}
       /\ op[o].who \in Persons \cup {Nothing} /\ {op[o].role, op[o].to} \subseteq Names \cup {Nothing}
       /\ op[o].eligible \subseteq Persons

Invited(p) == users[p] # Nothing

\* active_member_emails: the users that have a row.
Active == {p \in Persons : Invited(p) /\ rows[p] # Nothing}

IsAdmin(p) == Invited(p) /\ roles[users[p]] = "admin"
Admins(eligible) == {p \in eligible : IsAdmin(p)}

\* would_remove_last_admin, of p that goes (None) or takes another role.
LastAdmin(p, to, eligible) ==
  /\ Admins(eligible) = {p}
  /\ to = Nothing \/ roles[to] # "admin"

\* assert_keeps_an_admin: of those who accepted, and of all who are listed.
KeepsAnAdmin(p, to, eligible) ==
  ~LastAdmin(p, to, eligible) /\ ~LastAdmin(p, to, Persons)

MembersInit ==
  /\ roles = [n \in Names |-> IF n = AdminRole THEN "admin" ELSE IF n = MemberRole THEN "plain" ELSE "no"]
  /\ users \in [Persons -> {AdminRole, MemberRole, Nothing}] /\ users[Founder] = AdminRole
  /\ \E joined \in SUBSET {p \in Persons : Invited(p)} :
       /\ Founder \in joined /\ policyMembers = joined
       /\ rows = [p \in Persons |-> IF p \in joined THEN users[p] ELSE Nothing]
  /\ tokens = [l \in Labels |-> Nothing] /\ lock = Nothing
  /\ op = [o \in Ops |-> NoOp] /\ half = {} /\ torn = FALSE /\ failures = 0

-----------------------------------------------------------------------------
(* An action begins                                                        *)

Moves(o, at) == op' = [op EXCEPT ![o].at = at]

\* It is over, done or refused, and lets go of the lock.
Finishes(o) ==
  /\ op' = [op EXCEPT ![o] = [NoOp EXCEPT !.at = "over"]]
  /\ lock' = IF lock = o THEN Nothing ELSE lock

UnderWayOn(p) == \E o \in Ops : op[o].who = p

Begin(o, begun) ==
  /\ op[o].at = "unborn" /\ op' = [op EXCEPT ![o] = begun]
  /\ UNCHANGED <<Config, Held, lock, half, torn, failures>>

\* add_user: not a user yet, a seat left, and a role there is.
Invites(o, p, role) ==
  /\ ~Invited(p) /\ roles[role] # "no"
  /\ Cardinality({q \in Persons : Invited(q)}) < MaxSeats
  /\ \/ InviteMeanwhile
     \/ p \notin half /\ \A a \in Ops : op[a].who # p /\ p \notin op[a].eligible
  /\ Begin(o, [NoOp EXCEPT !.kind = "add", !.at = "storing", !.who = p, !.role = role])

\* remove_user takes the users as they are now.
Removes(o, p) ==
  /\ InviteMeanwhile \/ \A a \in Ops : ~(op[a].kind = "add" /\ op[a].who = p)
  /\ Begin(o, [NoOp EXCEPT !.kind = "remove", !.at = "counting", !.who = p,
                           !.eligible = {q \in Persons : Invited(q)}])

\* The actions that wait for the lock.
Waits(o) ==
  \/ \E p \in Persons, kind \in {"accept", "decline"} :
       Begin(o, [NoOp EXCEPT !.kind = kind, !.at = "asked", !.who = p])
  \/ \E p \in Persons, role \in Names :
       Begin(o, [NoOp EXCEPT !.kind = "setrole", !.at = "asked", !.who = p, !.role = role])
  \/ \E role, to \in Names :
       (role # to) /\ Begin(o, [NoOp EXCEPT !.kind = "rename", !.at = "asked", !.role = role, !.to = to])
  \/ \E role \in Names :
       Begin(o, [NoOp EXCEPT !.kind = "delete", !.at = "asked", !.role = role])
  \/ \E label \in Labels, role \in Names :
       Begin(o, [NoOp EXCEPT !.kind = "mint", !.at = "asked", !.label = label, !.role = role])

-----------------------------------------------------------------------------
(* Under the lock                                                          *)

\* Mutant: a mint does not take the lock.
AnyTurn(o) == lock = Nothing \/ op[o].kind = "mint"

Turn(o) == lock = Nothing

\* What an action checks on the running policy once it has the lock.
Allowed(o) ==
  CASE op[o].kind \in {"accept", "decline", "setrole"} -> Invited(op[o].who)
    [] op[o].kind = "mint" -> roles[op[o].role] # "no"
    [] op[o].kind = "delete" -> \A l \in Labels : tokens[l] # op[o].role
    [] OTHER -> TRUE

First(kind) ==
  CASE kind = "mint" -> "minting"
    [] kind \in {"rename", "delete"} -> "storing"
    [] OTHER -> "counting"

\* The lock is taken, and the config read.
Locks(o) ==
  /\ op[o].at = "asked" /\ Turn(o)
  /\ \/ /\ Allowed(o) /\ lock' = o
        /\ op' = [op EXCEPT ![o].at = First(op[o].kind),
                            ![o].role = IF op[o].kind = "accept" THEN users[op[o].who] ELSE @,
                            ![o].eligible = {q \in Persons : Invited(q)}]
     \/ ~Allowed(o) /\ Finishes(o)
  /\ UNCHANGED <<Config, Held, half, torn, failures>>

\* The rows are read: who may be counted as an admin, and whether the
\* person has joined.
CountsAdmins(o) ==
  LET p == op[o].who
      eligible == {q \in op[o].eligible : rows[q] # Nothing}
  IN /\ op[o].at = "counting"
     /\ \/ /\ op[o].kind \in {"remove", "setrole"}
           /\ IF LastAdmin(p, op[o].role, eligible)
              THEN Finishes(o)
              ELSE op' = [op EXCEPT ![o].at = "storing", ![o].eligible = eligible] /\ UNCHANGED lock
        \/ /\ op[o].kind = "decline"
           /\ IF rows[p] # Nothing
              THEN Finishes(o)
              ELSE op' = [op EXCEPT ![o].at = "storing", ![o].eligible = eligible] /\ UNCHANGED lock
        \/ /\ op[o].kind = "accept"
           /\ IF rows[p] # Nothing THEN Finishes(o) ELSE Moves(o, "joining") /\ UNCHANGED lock
     /\ UNCHANGED <<Config, Held, half, torn, failures>>

-----------------------------------------------------------------------------
(* The store's writes, each checked on the config it replaces              *)

Refuses(o) == Finishes(o) /\ UNCHANGED Config

\* set_user.
StoresUser(o) ==
  LET p == op[o].who IN
  /\ op[o].kind = "add"
  /\ IF roles[op[o].role] # "no" /\ ~Invited(p)
     THEN users' = [users EXCEPT ![p] = op[o].role] /\ UNCHANGED roles
     ELSE UNCHANGED Config
  /\ Finishes(o)

\* remove_user; one that is gone already may have left a row.
DropsUser(o) ==
  LET p == op[o].who IN
  /\ op[o].kind \in {"remove", "decline"}
  /\ \/ /\ Invited(p) /\ KeepsAnAdmin(p, Nothing, op[o].eligible)
        /\ users' = [users EXCEPT ![p] = Nothing] /\ UNCHANGED roles
        /\ Moves(o, "checking") /\ UNCHANGED lock
     \/ Invited(p) /\ ~KeepsAnAdmin(p, Nothing, op[o].eligible) /\ Refuses(o)
     \/ ~Invited(p) /\ op[o].kind = "decline" /\ Refuses(o)
     \/ ~Invited(p) /\ op[o].kind = "remove" /\ Moves(o, "checking") /\ UNCHANGED <<Config, lock>>

\* set_user_role.
StoresRole(o) ==
  LET p == op[o].who IN
  /\ op[o].kind = "setrole"
  /\ IF Invited(p) /\ roles[op[o].role] # "no" /\ KeepsAnAdmin(p, op[o].role, op[o].eligible)
     THEN /\ users' = [users EXCEPT ![p] = op[o].role] /\ UNCHANGED roles
          /\ Moves(o, "checking") /\ UNCHANGED lock
     ELSE Refuses(o)

\* rename_role: the name and everyone who has it.
RenamesRole(o) ==
  LET from == op[o].role  to == op[o].to IN
  /\ op[o].kind = "rename"
  /\ IF roles[from] # "no" /\ roles[to] = "no"
     THEN /\ roles' = [roles EXCEPT ![to] = roles[from], ![from] = "no"]
          /\ users' = [p \in Persons |-> IF users[p] = from THEN to ELSE users[p]]
          /\ Moves(o, "tokens") /\ UNCHANGED lock
     ELSE Refuses(o)

\* delete_role: a role no user has, and not the last one.
DropsRole(o) ==
  LET role == op[o].role IN
  /\ op[o].kind = "delete"
  /\ IF /\ roles[role] # "no" /\ \A p \in Persons : users[p] # role
        /\ \E n \in Names \ {role} : roles[n] # "no"
     THEN roles' = [roles EXCEPT ![role] = "no"] /\ UNCHANGED users
     ELSE UNCHANGED Config
  /\ Finishes(o)

Stores(o) ==
  /\ op[o].at = "storing"
  /\ StoresUser(o) \/ DropsUser(o) \/ StoresRole(o) \/ RenamesRole(o) \/ DropsRole(o)
  /\ UNCHANGED <<Held, half, torn, failures>>

\* create_role, in one write; a copy of another role is a plain one.
CreatesRole(n) ==
  /\ roles[n] = "no" /\ roles' = [roles EXCEPT ![n] = "plain"]
  /\ UNCHANGED <<users, Held, lock, op, half, torn, failures>>

-----------------------------------------------------------------------------
(* What follows a write                                                    *)

\* accept_invitation saves the row ...
Joins(o) ==
  /\ op[o].at = "joining"
  /\ rows' = [rows EXCEPT ![op[o].who] = op[o].role] /\ Moves(o, "joined")
  /\ UNCHANGED <<Config, policyMembers, tokens, lock, half, torn, failures>>

\* Mutant: nobody removes an invitation that is being accepted.
NeverRemoved(o) == TRUE

StillInvited(o) == Invited(op[o].who)

\* ... and looks again: a removal that ran meanwhile saw no row to end.
Rechecks(o) ==
  /\ op[o].at = "joined"
  /\ \/ StillInvited(o) /\ policyMembers' = policyMembers \cup {op[o].who} /\ Finishes(o)
     \/ ~StillInvited(o) /\ Moves(o, "undoing") /\ UNCHANGED <<policyMembers, lock>>
  /\ UNCHANGED <<Config, rows, tokens, half, torn, failures>>

Undoes(o) ==
  /\ op[o].at = "undoing" /\ rows' = [rows EXCEPT ![op[o].who] = Nothing] /\ Finishes(o)
  /\ UNCHANGED <<Config, policyMembers, tokens, half, torn, failures>>

\* The row of the person is read after the config was written: a member's
\* takes the new role, or is ended.
Checks(o) ==
  LET p == op[o].who IN
  /\ op[o].at = "checking"
  /\ \/ rows[p] = Nothing /\ Finishes(o) /\ UNCHANGED rows
     \/ /\ rows[p] # Nothing /\ op[o].kind = "setrole" /\ Finishes(o)
        /\ rows' = [rows EXCEPT ![p] = op[o].role]
     \/ rows[p] # Nothing /\ op[o].kind # "setrole" /\ Moves(o, "closing") /\ UNCHANGED <<rows, lock>>
  /\ UNCHANGED <<Config, policyMembers, tokens, half, torn, failures>>

\* _end_membership: sessions and sign-ins first, the row last.
Removed(o) ==
  LET p == op[o].who IN
  /\ op[o].at = "closing" /\ Finishes(o)
  /\ rows' = [rows EXCEPT ![p] = Nothing] /\ policyMembers' = policyMembers \ {p} /\ half' = half \ {p}
  /\ UNCHANGED <<Config, tokens, torn, failures>>

Renamed(held, o) == [x \in DOMAIN held |-> IF held[x] = op[o].role THEN op[o].to ELSE held[x]]

\* A renamed role moves in the token registry, and then in the rows.
MovesTokens(o) ==
  /\ op[o].at = "tokens" /\ tokens' = Renamed(tokens, o) /\ Moves(o, "rows")
  /\ UNCHANGED <<Config, rows, policyMembers, lock, half, torn, failures>>

MovesRows(o) ==
  /\ op[o].at = "rows" /\ rows' = Renamed(rows, o) /\ Finishes(o)
  /\ UNCHANGED <<Config, policyMembers, tokens, half, torn, failures>>

\* A label names one token.
Mints(o) ==
  LET label == op[o].label IN
  /\ op[o].at = "minting" /\ Finishes(o)
  /\ tokens' = IF tokens[label] = Nothing THEN [tokens EXCEPT ![label] = op[o].role] ELSE tokens
  /\ UNCHANGED <<Config, rows, policyMembers, half, torn, failures>>

RevokesToken(label) ==
  /\ tokens[label] # Nothing /\ tokens' = [tokens EXCEPT ![label] = Nothing]
  /\ UNCHANGED <<Config, rows, policyMembers, lock, op, half, torn, failures>>

\* A store fails under an action, whose writes before it stay.
Fails(o) ==
  /\ op[o].at \notin {"unborn", "asked", "over"} /\ failures < MaxFailures
  /\ failures' = failures + 1 /\ Finishes(o)
  /\ half' = IF op[o].at \in {"joined", "undoing", "checking", "closing"}
             THEN half \cup {op[o].who} ELSE half
  /\ torn' = (torn \/ op[o].at \in {"tokens", "rows"})
  /\ UNCHANGED <<Config, Held>>

OpNext(o) ==
  \/ \E p \in Persons : Removes(o, p) \/ \E role \in Names : Invites(o, p, role)
  \/ Waits(o) \/ Locks(o) \/ CountsAdmins(o) \/ Stores(o)
  \/ Joins(o) \/ Rechecks(o) \/ Undoes(o) \/ Checks(o) \/ Removed(o)
  \/ MovesTokens(o) \/ MovesRows(o) \/ Mints(o) \/ Fails(o)

MembersNext ==
  \/ \E o \in Ops : OpNext(o)
  \/ \E n \in Names : CreatesRole(n)
  \/ \E label \in Labels : RevokesToken(label)

MembersSpec == MembersInit /\ [][MembersNext]_memberVars

-----------------------------------------------------------------------------
(* Properties                                                              *)

Known(role) == role = Nothing \/ roles[role] # "no"

\* A role a user has is a role of the org at every moment, and so is one a
\* token or a membership row names, once nobody holds the roles lock (and
\* no store failed under a rename): whatever is invited, minted, joined or
\* moved while a role is renamed or deleted.
NoRoleIsStranded ==
  /\ \A p \in Persons : Known(users[p])
  /\ lock = Nothing /\ ~torn =>
       /\ \A l \in Labels : Known(tokens[l])
       /\ \A p \in Persons : p \notin half /\ ~UnderWayOn(p) => Known(rows[p])

\* Once nothing is under way for a person, and no failure cut it short, a
\* row of theirs has an invitation behind it, with the same role, and the
\* running policy counts them as a member exactly when they have one:
\* though a removal takes no lock, and an invitation may be accepted,
\* declined and given another role at the same time.
RowsAgree ==
  \A p \in Persons :
    (/\ ~UnderWayOn(p) /\ p \notin half /\ ~torn
     /\ \A o \in Ops : op[o].at \notin {"tokens", "rows"})
    => /\ rows[p] # Nothing => users[p] = rows[p]
       /\ (p \in policyMembers) <=> (rows[p] # Nothing)

\* Roles, invitations, membership rows, tokens and the running policy belong
\* together whenever nothing is under way.
MembersAgree == NoRoleIsStranded /\ RowsAgree

\* An admin who joined is left at every moment: settings_resolver.py calls
\* an org without one its one unrecoverable state, and has the accepted
\* members counted so that two parallel removals of the real admins do not
\* leave only an invited one.
AnAdminStays == Admins(Active) # {}
=============================================================================
