--------------------------- MODULE GatewayTokens ---------------------------
(***************************************************************************)
(* The gateway's own sign-in provider, for one user: clients register, the *)
(* user signs in with Google and approves the client, and the client gets  *)
(* tokens it renews.                                                       *)
(*                                                                         *)
(* Translated from adapters/auth/mcp_gateway_oauth_provider.py and         *)
(* adapters/repositories/mongo_oauth_state_repository.py.                  *)
(*                                                                         *)
(* Memory is the truth and the store follows, item by item, under one      *)
(* write lock.  An action is what one request does between two awaits.  An *)
(* ephemeral item that expired is refused as one that is gone, so it is    *)
(* dropped when it expires.  A sign-in is one run of authorize.            *)
(***************************************************************************)
EXTENDS Naturals, Sequences, FiniteSets

CONSTANTS Clients,    \* registrations: an id is generated once
          SignIns, NoSignIn,
          ClientOf,   \* the client a sign-in is for
          MaxPairs,   \* bounds: token pairs minted ...
          MaxQueue,   \* ... requests that wait for the write lock ...
          MaxRevokes, \* ... revokes of the user's sign-ins ...
          MaxTrouble, \* ... failed writes, cancelled requests, crashes ...
          MaxLapses   \* ... and tokens that expire

ASSUME ClientOfAssumption == ClientOf \in [SignIns -> Clients]
ASSUME NoSignInAssumption == NoSignIn \notin SignIns
ASSUME BoundsAssumption ==
  {MaxPairs, MaxQueue, MaxRevokes, MaxTrouble, MaxLapses} \subseteq Nat

VARIABLES
  mem,       \* the state of each item in memory ...
  stored,    \* ... and in the store
  unsaved,   \* _unsaved: items whose stored copy may differ
  write,     \* the write under way
  holder,    \* who holds the write lock, and where it is
  queue,     \* who waits for it
  scheduled, \* _maintenance_scheduled
  timer,     \* _retry_timer is set
  reg,       \* where a registration is
  stage,     \* where a sign-in is
  minted,    \* pairs minted so far
  origin,    \* the sign-in a pair comes from
  parent,    \* the code or the refresh token it was exchanged for
  given,     \* pairs the client was given
  quit,      \* tokens that expired or that the client gave back
  lapsed,    \* tokens past their expiry
  ended,     \* sign-ins a revoke has ended
  revokes, trouble, cut, lapses

storeVars == <<mem, stored, unsaved, write, scheduled, timer>>
lockVars == <<holder, queue>>
flowVars == <<reg, stage>>
tokenVars == <<minted, origin, parent, given, quit, lapsed>>
boundVars == <<ended, revokes, trouble, cut, lapses>>
vars == <<storeVars, lockVars, flowVars, tokenVars, boundVars>>

Pairs == 1..MaxPairs
Item(kind, x) == <<kind, x>>
ClientItems == {Item("client", c) : c \in Clients}
Tokens == {Item(kind, p) : kind \in {"access", "refresh"}, p \in Pairs}
Items == ClientItems \cup {Item("approval", c) : c \in Clients} \cup Tokens

\* "there" is a client that has not received a token yet, or any other item.
Values == {"none", "there", "issued"}

\* What may hold the write lock, or wait for it.
Requests ==
  {Item("register", c) : c \in Clients}
    \cup {Item(kind, s) : kind \in {"approve", "exchange"}, s \in SignIns}
    \cup {Item("refresh", p) : p \in Pairs}
Maintain == Item("maintain", 0)
Flush == Item("flush", 0)
Nobody == Item("nobody", 0)
Holding(op, step, pair) == [op |-> op, step |-> step, pair |-> pair]
NoHolder == Holding(Nobody, "free", 0)

NoWrite == [keys |-> {}, left |-> {}, value |-> <<>>]

-----------------------------------------------------------------------------
(* The store.                                                              *)

\* apply: the puts come before the deletes, and clients, access tokens,
\* refresh tokens and approvals in this order.
Rank(k, v) ==
  (IF v = "none" THEN 4 ELSE 0)
    + CASE k[1] = "client" -> 0 [] k[1] = "access" -> 1
        [] k[1] = "refresh" -> 2 [] k[1] = "approval" -> 3

\* _write: the items' present state in memory, m, is on its way.
Begun(m, keys) == [keys |-> keys, left |-> keys, value |-> [k \in keys |-> m[k]]]

\* _drop: m without these items.
Without(m, keys) == [k \in Items |-> IF k \in keys THEN "none" ELSE m[k]]

\* Mutants: nothing is scheduled while somebody writes; a run that was
\* scheduled is forgotten.
ScheduleIfIdle(u) == scheduled' = (scheduled \/ (u # {} /\ write.keys = {}))
ScheduleAnew(u) == scheduled' = (u # {})

\* _schedule_maintenance, when u is unsaved.
Schedule(u) == scheduled' = (scheduled \/ u # {})

\* _client_items.
ClientAndApproval(cs) == {Item(kind, c) : kind \in {"client", "approval"}, c \in cs}
Present(m, keys) == {k \in keys : m[k] # "none"}

\* What _expire and the caps may drop of m besides `spare`: registrations
\* that have no token yet, with their approvals.
Unused(m, spare) == {c \in Clients \ spare : m[Item("client", c)] = "there"}

\* _expire, when the clean-up is due: abandoned registrations and tokens
\* that have expired.
Expiring(m) == {Present(m, ClientAndApproval(cs) \cup lapsed) : cs \in SUBSET Unused(m, {})}
MayExpire(m) == {{}} \cup Expiring(m)

\* The lock's holder writes `keys` of m, or goes on at once with none.
WriteOut(m, u, keys, op, step, pair) ==
  /\ mem' = m
  /\ unsaved' = u \ keys
  /\ write' = Begun(m, keys)
  /\ holder' = Holding(op, step, pair)

TypeOK ==
  /\ mem \in [Items -> Values]
  /\ stored \in [Items -> Values]
  /\ unsaved \subseteq Items
  /\ write.keys \subseteq Items /\ write.left \subseteq write.keys
  /\ write.value \in [write.keys -> Values]
  /\ holder.op \in Requests \cup {Maintain, Flush, Nobody}
  /\ holder.step \in {"free", "write", "retire"} /\ holder.pair \in Pairs \cup {0}
  /\ \A i \in DOMAIN queue : \/ queue[i] \in Requests
                             \/ queue[i] = Maintain /\ scheduled
  /\ scheduled \in BOOLEAN /\ timer \in BOOLEAN
  /\ reg \in [Clients -> {"new", "waiting", "saving", "known", "refused"}]
  /\ stage \in [SignIns -> {"idle", "pending", "google", "consent", "waiting",
                           "saving", "code", "done"}]
  /\ minted \in Pairs \cup {0}
  /\ given \subseteq 1..minted
  /\ quit \subseteq Tokens /\ lapsed \subseteq quit
  /\ ended \subseteq SignIns /\ cut \subseteq SignIns

Init ==
  /\ mem = [k \in Items |-> "none"]
  /\ stored = mem
  /\ unsaved = {}
  /\ write = NoWrite
  /\ holder = NoHolder
  /\ queue = <<>>
  /\ scheduled = FALSE
  /\ timer = FALSE
  /\ reg = [c \in Clients |-> "new"]
  /\ stage = [s \in SignIns |-> "idle"]
  /\ minted = 0
  /\ origin = [p \in Pairs |-> NoSignIn]
  /\ parent = [p \in Pairs |-> Nobody]
  /\ given = {} /\ quit = {} /\ lapsed = {}
  /\ ended = {} /\ cut = {}
  /\ revokes = 0 /\ trouble = 0 /\ lapses = 0

Free == holder = NoHolder
LetGo == holder' = NoHolder

-----------------------------------------------------------------------------
(* What a request does once it has the write lock, up to its first write.  *)

StartRegister(c) ==
  /\ WriteOut([mem EXCEPT ![Item("client", c)] = "there"], unsaved,
              {Item("client", c)}, Item("register", c), "write", 0)
  /\ reg' = [reg EXCEPT ![c] = "saving"]
  /\ UNCHANGED <<stored, scheduled, timer, stage, tokenVars, boundVars>>

StartApprove(s) ==
  LET k == Item("approval", ClientOf[s]) IN
  /\ WriteOut([mem EXCEPT ![k] = "there"], unsaved, {k}, Item("approve", s), "write", 0)
  /\ stage' = [stage EXCEPT ![s] = "saving"]
  /\ UNCHANGED <<stored, scheduled, timer, reg, tokenVars, boundVars>>

PairItems(p) == {Item("access", p), Item("refresh", p)}

\* Mutant: the refresh token is not written with the rest.
GrantedInPart(c, p) == {Item("access", p)} \cup (IF mem[c] = "issued" THEN {} ELSE {c})

\* What _issue_tokens writes: the pair, and the client if _mark_token_issued
\* changed it.
Granted(c, p) == PairItems(p) \cup (IF mem[c] = "issued" THEN {} ELSE {c})

\* _issue_tokens with _mint_tokens and _mark_token_issued.
Issue(s, from, op) ==
  LET p == minted + 1
      c == Item("client", ClientOf[s])
  IN
  /\ minted' = p
  /\ origin' = [origin EXCEPT ![p] = s]
  /\ parent' = [parent EXCEPT ![p] = from]
  /\ WriteOut([k \in Items |-> IF k \in PairItems(p) THEN "there"
                               ELSE IF k = c THEN "issued" ELSE mem[k]],
              unsaved, Granted(c, p), op, "write", p)
  /\ UNCHANGED <<stored, scheduled, timer, reg, given, quit, lapsed, boundVars>>

\* Mutant: a code works until it expires.
CodeKept(s) == stage[s] = "code" \/ \E p \in Pairs : parent[p] = Item("exchange", s)

\* _take_auth_code: a code works once.
CodeThere(s) == stage[s] = "code"

StartExchange(s) ==
  \/ /\ CodeThere(s)
     /\ Issue(s, Item("exchange", s), Item("exchange", s))
     /\ stage' = [stage EXCEPT ![s] = "done"]
  \/ /\ ~CodeThere(s)
     /\ LetGo
     /\ UNCHANGED <<storeVars, flowVars, tokenVars, boundVars>>

\* exchange_refresh_token: used, revoked or dropped since it was loaded.
RefreshThere(p) == mem[Item("refresh", p)] # "none"

StartRefresh(p) ==
  \/ /\ RefreshThere(p)
     /\ Issue(origin[p], Item("refresh", p), Item("refresh", p))
     /\ UNCHANGED stage
  \/ /\ ~RefreshThere(p)
     /\ LetGo
     /\ UNCHANGED <<storeVars, flowVars, tokenVars, boundVars>>

\* _maintain and flush: everything unsaved, and what has expired.
StartSaving(op) ==
  \E gone \in MayExpire(mem) :
    LET u == unsaved \cup gone IN
    /\ IF u = {} THEN LetGo /\ UNCHANGED <<mem, unsaved, write>>
       ELSE WriteOut(Without(mem, gone), u, u, op, "write", 0)
    /\ scheduled' = (scheduled /\ op # Maintain)
    /\ UNCHANGED <<stored, timer, flowVars, tokenVars, boundVars>>

Start(op) ==
  \/ op[1] = "register" /\ StartRegister(op[2])
  \/ op[1] = "approve" /\ StartApprove(op[2])
  \/ op[1] = "exchange" /\ StartExchange(op[2])
  \/ op[1] = "refresh" /\ StartRefresh(op[2])
  \/ op = Maintain /\ StartSaving(op)

\* Asking for the lock: `async with` gets a free one without a pause, and
\* else waits behind everybody who waits already.
AsksNow(op) == Free /\ queue = <<>> /\ Start(op) /\ UNCHANGED queue
Waits(op) ==
  /\ ~(Free /\ queue = <<>>)
  /\ Len(queue) < MaxQueue
  /\ queue' = Append(queue, op)
  /\ UNCHANGED <<storeVars, holder, tokenVars, boundVars>>
Serving == holder.op # Flush

Resume ==
  /\ Free /\ queue # <<>>
  /\ Start(Head(queue))
  /\ queue' = Tail(queue)

-----------------------------------------------------------------------------
(* Requests.                                                               *)

Register(c) ==
  /\ Serving /\ reg[c] = "new"
  /\ \/ AsksNow(Item("register", c))
     \/ Waits(Item("register", c)) /\ reg' = [reg EXCEPT ![c] = "waiting"] /\ UNCHANGED stage

\* A sign-in's next page, without a write: authorize, the redirect back from
\* Google, and the end of handle_google_callback.
Moves(s, from, to) ==
  /\ Serving /\ stage[s] = from
  /\ stage' = [stage EXCEPT ![s] = to]
  /\ UNCHANGED <<storeVars, lockVars, reg, tokenVars, boundVars>>

Authorize(s) ==
  /\ reg[ClientOf[s]] = "known" /\ mem[Item("client", ClientOf[s])] # "none"
  /\ Moves(s, "idle", "pending")

CallsBack(s) == Moves(s, "pending", "google")

\* is_client_approved.
Approved(m, s) == m[Item("approval", ClientOf[s])] # "none"

GoogleAnswers(s) == Moves(s, "google", IF Approved(mem, s) THEN "code" ELSE "consent")

\* Google or the policy refuses; a page or a code expires, is pushed out by
\* newer ones, or the user denies.
Drops(s) == \E from \in {"pending", "google", "consent", "code"} : Moves(s, from, "done")

Approve(s) ==
  /\ Serving /\ stage[s] = "consent"
  /\ \/ AsksNow(Item("approve", s))
     \/ Waits(Item("approve", s)) /\ stage' = [stage EXCEPT ![s] = "waiting"] /\ UNCHANGED reg

\* The bound on minted pairs counts the requests that wait to mint one.
RoomForAPair ==
  minted + Cardinality({i \in DOMAIN queue : queue[i][1] \in {"exchange", "refresh"}}) < MaxPairs

Exchange(s) ==
  /\ Serving /\ CodeThere(s) /\ RoomForAPair
  /\ mem[Item("client", ClientOf[s])] # "none"
  /\ \/ AsksNow(Item("exchange", s))
     \/ Waits(Item("exchange", s)) /\ UNCHANGED flowVars

Refresh(p) ==
  /\ Serving /\ p \in given /\ RefreshThere(p) /\ RoomForAPair
  /\ Item("refresh", p) \notin lapsed
  /\ mem[Item("client", ClientOf[origin[p]])] # "none"
  /\ \/ AsksNow(Item("refresh", p))
     \/ Waits(Item("refresh", p)) /\ UNCHANGED flowVars

\* Mutant: what is being written already is left to that write.
ForgetTheRest(keys) ==
  /\ mem' = Without(mem, keys)
  /\ unsaved' = unsaved \cup (keys \ write.keys)
  /\ Schedule(unsaved')
  /\ UNCHANGED <<stored, write, timer, lockVars>>

\* _forget.
Forget(keys) ==
  /\ mem' = Without(mem, keys)
  /\ unsaved' = unsaved \cup keys
  /\ Schedule(unsaved')
  /\ UNCHANGED <<stored, write, timer, lockVars>>

\* revoke_user_tokens.
Revoke ==
  /\ Serving /\ revokes < MaxRevokes
  /\ revokes' = revokes + 1
  /\ Forget(Present(mem, Items \ ClientItems))
  /\ stage' = [s \in SignIns |-> IF stage[s] \in {"consent", "code"} THEN "done" ELSE stage[s]]
  /\ ended' = ended \cup {s \in SignIns : \/ stage[s] \in {"consent", "saving", "code"}
                                          \/ \E p \in Pairs : origin[p] = s}
  /\ UNCHANGED <<reg, tokenVars, trouble, cut, lapses>>

\* revoke_token, by the client.
GiveBack(k) ==
  /\ Serving /\ k[2] \in given /\ mem[k] # "none"
  /\ Forget({k})
  /\ quit' = quit \cup {k}
  /\ UNCHANGED <<flowVars, minted, origin, parent, given, lapsed, boundVars>>

Lapse(k) ==
  /\ lapses < MaxLapses /\ mem[k] # "none" /\ k \notin lapsed
  /\ lapses' = lapses + 1
  /\ lapsed' = lapsed \cup {k}
  /\ quit' = quit \cup {k}
  /\ UNCHANGED <<storeVars, lockVars, flowVars, minted, origin, parent, given,
                 ended, revokes, trouble, cut>>

\* load_access_token and load_refresh_token find it expired.
LoadsExpired(k) ==
  /\ Serving /\ k \in lapsed /\ mem[k] # "none"
  /\ Forget({k})
  /\ UNCHANGED <<flowVars, tokenVars, boundVars>>

-----------------------------------------------------------------------------
(* The write under way.                                                    *)

\* The items apply may store or delete next.
Next1 == {k \in write.left :
            \A j \in write.left : Rank(k, write.value[k]) <= Rank(j, write.value[j])}

Put(k) == [stored EXCEPT ![k] = write.value[k]]

Lands(k) ==
  /\ k \in Next1
  /\ stored' = Put(k)
  /\ write' = [write EXCEPT !.left = @ \ {k}]
  /\ UNCHANGED <<mem, unsaved, scheduled, timer, lockVars, flowVars, tokenVars, boundVars>>

\* The process starts anew from st: _ensure_loaded.
Reload(st) ==
  /\ stored' = st
  /\ \E gone \in Expiring(st) :
       /\ mem' = Without(st, gone)
       /\ unsaved' = gone
       /\ scheduled' = (gone # {})
  /\ write' = NoWrite /\ timer' = FALSE
  /\ holder' = NoHolder /\ queue' = <<>>
  /\ reg' = [c \in Clients |-> IF reg[c] \in {"waiting", "saving"} THEN "refused" ELSE reg[c]]
  /\ stage' = [s \in SignIns |-> IF stage[s] = "idle" THEN "idle" ELSE "done"]

\* What follows the end of a request's last write.  u is what is then unsaved.
Ends(m, u) ==
  /\ mem' = m /\ unsaved' = u
  /\ write' = NoWrite
  /\ LetGo
  /\ UNCHANGED <<queue, minted, origin, parent, quit, lapsed>>

\* Mutant: the approval is not looked at again.
ConsentedAnyway(s) == stage' = [stage EXCEPT ![s] = "code"] /\ UNCHANGED reg

\* resolve_consent goes on: no code when a revoke removed the approval.
Consented(s) ==
  /\ stage' = [stage EXCEPT ![s] = IF Approved(mem, s) THEN "code" ELSE "done"]
  /\ UNCHANGED reg

\* The answer with the tokens.
Gives == given' = given \cup {holder.pair} /\ UNCHANGED flowVars

\* register_client: the newcomer may push out unused registrations.
Registered(c) ==
  \E cs \in SUBSET Unused(mem, {c}) :
    LET gone == Present(mem, ClientAndApproval(cs)) IN
    /\ Ends(Without(mem, gone), unsaved \cup gone)
    /\ Schedule(unsaved')
    /\ reg' = [reg EXCEPT ![c] = "known"]
    /\ UNCHANGED <<stage, given>>

\* The old refresh token is dropped once the new pair is stored.
Retires(p) ==
  LET old == Item("refresh", p) IN
  /\ WriteOut(Without(mem, {old}), unsaved \cup {old}, {old}, holder.op, "retire", holder.pair)
  /\ UNCHANGED <<queue, scheduled, flowVars, tokenVars>>

WriteDone ==
  LET op == holder.op IN
  /\ holder.step # "free" /\ write.left = {}
  /\ \/ op[1] = "register" /\ Registered(op[2])
     \/ op[1] = "approve" /\ Ends(mem, unsaved) /\ Schedule(unsaved) /\ Consented(op[2])
          /\ UNCHANGED given
     \/ op[1] = "refresh" /\ holder.step = "write" /\ Retires(op[2])
     \/ \/ op[1] = "exchange"
        \/ op[1] = "refresh" /\ holder.step = "retire"
       /\ Ends(mem, unsaved) /\ Schedule(unsaved) /\ Gives
     \/ op = Maintain /\ Ends(mem, unsaved) /\ UNCHANGED <<scheduled, flowVars, given>>
  /\ UNCHANGED <<stored, timer, boundVars>>

\* flush has written everything, and the process ends.
Restart ==
  /\ holder.op = Flush /\ write.left = {}
  /\ Reload(stored)
  /\ UNCHANGED <<tokenVars, boundVars>>

\* What becomes of a request whose write raised: its items are unsaved, and
\* taken back out of memory if nobody may have them yet.
TakenBack ==
  CASE holder.op[1] = "register" -> {Item("client", holder.op[2])}
    [] holder.op[1] \in {"exchange", "refresh"} /\ holder.step = "write" ->
         PairItems(holder.pair)
    [] OTHER -> {}

\* Mutant: a failed write of these is raised too.
NeverLogged(cancelled) == FALSE

\* A failed write of an approval, or of the old token's delete, is only
\* logged; a cancel goes on.
Logged(cancelled) == ~cancelled

\* A write fails, or its request is cancelled, with the item it was at in
\* the store or not.
Fails(cancelled) ==
  LET op == holder.op
      u == unsaved \cup write.keys
  IN
  /\ write.left # {} /\ trouble < MaxTrouble /\ op # Flush
  /\ op = Maintain => ~cancelled
  /\ trouble' = trouble + 1
  /\ \E k \in Next1 : stored' \in {stored, Put(k)}
  /\ timer' = TRUE
  /\ Ends(Without(mem, TakenBack), u)
  /\ \/ op[1] = "register" /\ reg' = [reg EXCEPT ![op[2]] = "refused"]
          /\ UNCHANGED <<scheduled, stage, given, cut>>
     \/ op[1] = "approve" /\ Logged(cancelled) /\ Schedule(u) /\ Consented(op[2])
          /\ UNCHANGED <<given, cut>>
     \/ op[1] = "approve" /\ ~Logged(cancelled) /\ stage' = [stage EXCEPT ![op[2]] = "done"]
          /\ UNCHANGED <<scheduled, reg, given, cut>>
     \/ holder.step = "retire" /\ Logged(cancelled) /\ Schedule(u) /\ Gives /\ UNCHANGED cut
     \/ /\ holder.step = "retire" /\ ~Logged(cancelled)
        /\ cut' = cut \cup (IF cancelled THEN {origin[holder.pair]} ELSE {})
        /\ UNCHANGED <<scheduled, flowVars, given>>
     \/ /\ op[1] \in {"maintain", "exchange", "refresh"} /\ holder.step = "write"
        /\ UNCHANGED <<scheduled, flowVars, given, cut>>
  /\ UNCHANGED <<ended, revokes, lapses>>

\* A request is cancelled where it waits for the lock.
CancelWaiting(i) ==
  LET op == queue[i] IN
  /\ op # Maintain /\ trouble < MaxTrouble
  /\ trouble' = trouble + 1
  /\ queue' = [j \in 1..(Len(queue) - 1) |-> queue[IF j < i THEN j ELSE j + 1]]
  /\ reg' = [c \in Clients |-> IF op = Item("register", c) THEN "refused" ELSE reg[c]]
  /\ stage' = [s \in SignIns |-> IF op = Item("approve", s) THEN "done" ELSE stage[s]]
  /\ UNCHANGED <<storeVars, holder, tokenVars, ended, revokes, cut, lapses>>

\* The process dies, or its last flush fails.  What a revoke took out of
\* memory and the store still has comes back.
Crash ==
  /\ trouble < MaxTrouble
  /\ trouble' = trouble + 1
  /\ \E st \in {stored} \cup {Put(k) : k \in Next1} : Reload(st)
  /\ ended' = {s \in ended : \A k \in Tokens : mem'[k] # "none" => origin[k[2]] # s}
  /\ cut' = cut \cup ended
              \cup {s \in SignIns : \/ holder.pair # 0 /\ origin[holder.pair] = s
                                   \/ \E k \in Tokens \cap (unsaved \cup write.keys) :
                                        origin[k[2]] = s}
  /\ UNCHANGED <<tokenVars, revokes, lapses>>

-----------------------------------------------------------------------------
(* The background.                                                         *)

MaintainAsks ==
  /\ scheduled /\ Serving
  /\ Maintain \notin {queue[i] : i \in DOMAIN queue}
  /\ \/ AsksNow(Maintain)
     \/ /\ ~(Free /\ queue = <<>>)
        /\ queue' = Append(queue, Maintain)
        /\ UNCHANGED <<storeVars, holder, flowVars, tokenVars, boundVars>>

RetryTimer ==
  /\ timer
  /\ timer' = FALSE
  /\ Schedule(unsaved)
  /\ UNCHANGED <<mem, stored, unsaved, write, lockVars, flowVars, tokenVars, boundVars>>

\* Every 15 minutes the clean-up is due, though nothing is unsaved.
CleanUpDue ==
  /\ ~scheduled /\ Serving
  /\ MayExpire(mem) # {{}}
  /\ scheduled' = TRUE
  /\ UNCHANGED <<mem, stored, unsaved, write, timer, lockVars, flowVars, tokenVars, boundVars>>

\* The process is told to stop, and its requests are over.
Shutdown ==
  /\ Free /\ queue = <<>>
  /\ \A s \in SignIns : stage[s] # "google"
  /\ \/ unsaved # {} /\ StartSaving(Flush) /\ UNCHANGED queue
     \/ unsaved = {} /\ Reload(stored) /\ UNCHANGED <<tokenVars, boundVars>>

Next ==
  \/ \E c \in Clients : Register(c)
  \/ \E s \in SignIns :
       \/ Authorize(s) \/ CallsBack(s) \/ GoogleAnswers(s) \/ Drops(s)
       \/ Approve(s) \/ Exchange(s)
  \/ \E p \in Pairs : Refresh(p)
  \/ Revoke
  \/ \E k \in Tokens : GiveBack(k) \/ Lapse(k) \/ LoadsExpired(k)
  \/ Resume
  \/ \E k \in Items : Lands(k)
  \/ WriteDone
  \/ Restart
  \/ \E cancelled \in BOOLEAN : Fails(cancelled)
  \/ \E i \in DOMAIN queue : CancelWaiting(i)
  \/ Crash
  \/ MaintainAsks \/ RetryTimer \/ CleanUpDue
  \/ Shutdown

Spec == Init /\ [][Next]_vars

\* The event loop runs what is ready, a write the driver has begun ends, and
\* a timer fires.
FairSpec ==
  /\ Spec
  /\ WF_vars(Resume)
  /\ WF_vars(\E k \in Items : Lands(k))
  /\ WF_vars(WriteDone)
  /\ WF_vars(Restart)
  /\ WF_vars(MaintainAsks)
  /\ WF_vars(RetryTimer)

-----------------------------------------------------------------------------
(* What the provider promises.                                             *)

\* The comment of `_unsaved`, and "memory is the truth and storage follows":
\* an item that is neither marked unsaved nor part of the write under way is
\* in the store as it is in memory, and the write under way carries an
\* item's present state unless it was marked again since.
StoreFollowsMemory ==
  \A k \in Items \ unsaved :
    IF k \in write.keys THEN write.value[k] = mem[k] ELSE stored[k] = mem[k]

\* _issue_tokens and register_client: nobody holds a token or a registration
\* that works now and that a restart would forget.
GrantsAreStored ==
  /\ \A p \in given : \A k \in PairItems(p) : mem[k] # "none" => stored[k] # "none"
  /\ \A c \in Clients :
       reg[c] = "known" /\ mem[Item("client", c)] = "there"
         => stored[Item("client", c)] # "none"

\* exchange_authorization_code and exchange_refresh_token: a code, and a
\* refresh token, is answered with one pair.  Only a crash before the old
\* token's delete is stored lets it be presented again.
ExchangedOnce ==
  \A p, q \in given : parent[p] = parent[q] /\ p # q => origin[p] \in cut

\* revoke_user_tokens: a sign-in it ended has no code and no working token,
\* whatever exchange, renewal, consent or write was under way, and also
\* after a restart whose flush went through.
RevokedHoldsNothing ==
  \A s \in ended :
    /\ stage[s] # "code"
    /\ \A k \in Tokens : origin[k[2]] = s => mem[k] = "none"

\* exchange_refresh_token stores the new pair before it retires the old
\* token: a client whose sign-in nobody ended has, or is about to get, a
\* refresh token that works, whatever writes fail.
SignInSurvives ==
  \A s \in SignIns \ (ended \cup cut) :
    (\E p \in given : origin[p] = s) /\ (\A k \in quit : origin[k[2]] # s)
      => \E p \in given \cup {holder.pair} :
           p # 0 /\ origin[p] = s /\ mem[Item("refresh", p)] # "none"

\* _retry_unsaved_later and _schedule_maintenance: what is unsaved reaches
\* the store in the end, though nothing else happens meanwhile.
EveryChangeIsStored == unsaved # {} ~> unsaved = {} /\ write.left = {}

\* What clients hold, memory and the store belong together, whatever write
\* fails, request is cancelled or process dies in between.
TokensAreSound == StoreFollowsMemory /\ GrantsAreStored /\ ExchangedOnce /\ SignInSurvives
=============================================================================
