------------------------- MODULE GatewayTokensProofs -------------------------
(***************************************************************************)
(* Proofs about GatewayTokens, for any number of clients, sign-ins and     *)
(* token pairs: the store follows memory, what a client holds survives a   *)
(* restart, a code or a refresh token buys one pair, a sign-in nobody      *)
(* ended goes on working, and one that was ended holds nothing.            *)
(*                                                                         *)
(* Every step is one of StepKind, which says what a request had checked    *)
(* when it got the write lock; the parts of the invariant are preserved    *)
(* one by one, by these kinds.                                             *)
(***************************************************************************)
EXTENDS GatewayTokens, FiniteSetTheorems, FunctionTheorems, SequenceTheorems, TLAPS

-----------------------------------------------------------------------------
(* The inductive invariant                                                 *)

Operations == Requests \cup {Maintain, Flush, Nobody}
Stages == {"idle", "pending", "google", "consent", "waiting", "saving", "code", "done"}
Regs == {"new", "waiting", "saving", "known", "refused"}

\* What values the variables have.
StoreShape ==
  /\ mem \in [Items -> Values] /\ stored \in [Items -> Values]
  /\ unsaved \subseteq Items
  /\ write = [keys |-> write.keys, left |-> write.left, value |-> write.value]
  /\ write.keys \subseteq Items /\ write.left \subseteq write.keys
  /\ write.value \in [write.keys -> Values]
  /\ holder \in [op : Operations, step : {"free", "write", "retire"}, pair : Pairs \cup {0}]

FlowShape ==
  /\ queue \in Seq(Requests \cup {Maintain})
  /\ reg \in [Clients -> Regs] /\ stage \in [SignIns -> Stages]
  /\ minted \in 0..MaxPairs
  /\ origin \in [Pairs -> SignIns \cup {NoSignIn}]
  /\ parent \in [Pairs -> Requests \cup {Nobody}]
  /\ given \subseteq 1..minted /\ quit \subseteq Tokens /\ lapsed \subseteq quit
  /\ ended \subseteq SignIns

\* Whoever waits to mint a pair will have room for it.
Minting(q) == {i \in DOMAIN q : q[i][1] \in {"exchange", "refresh"}}
QueueHasRoom == minted + Cardinality(Minting(queue)) <= MaxPairs

\* Whoever waits to renew was given the token, and an approval waits once.
QueueTidy ==
  \A i \in DOMAIN queue :
    /\ queue[i][1] = "refresh" => queue[i][2] \in given
    /\ \A s \in SignIns : queue[i] = Item("approve", s)
         => stage[s] = "waiting" /\ \A j \in DOMAIN queue : queue[j] = queue[i] => j = i

\* What the write lock's holder is at.
LockShape ==
  /\ holder.op = Nobody \/ holder.step = "free" => holder = NoHolder
  /\ holder = NoHolder => write = NoWrite
  /\ holder.pair # 0 <=> holder.op[1] \in {"exchange", "refresh"}
  /\ holder.pair # 0 => holder.pair = minted /\ holder.pair \notin given
                        /\ parent[holder.pair] = holder.op
  /\ holder.op[1] = "refresh" => holder.op[2] \in given
  /\ holder.step = "retire" => holder.op[1] = "refresh" /\ write.keys = {holder.op}
                               /\ mem[holder.op] = "none"
  /\ holder.step = "write" =>
       /\ holder.op[1] = "register" =>
            LET k == Item("client", holder.op[2]) IN k \in write.keys /\ write.value[k] = "there"
       /\ holder.pair # 0 =>
            \A k \in PairItems(holder.pair) : k \in write.keys /\ write.value[k] = "there"
  /\ holder.op = Flush => unsaved = {}
  /\ \A s \in SignIns : stage[s] = "saving" <=> holder.op = Item("approve", s)

\* A pair comes from a sign-in whose code is spent, directly or through the
\* pair it renews.
Origins ==
  \A p \in Pairs :
    /\ p <= minted => origin[p] \in SignIns /\ stage[origin[p]] = "done"
    /\ p > minted => origin[p] = NoSignIn /\ parent[p] = Nobody
    /\ \A s \in SignIns : parent[p] = Item("exchange", s) => origin[p] = s
    /\ \A r \in Pairs : parent[p] = Item("refresh", r) => r <= minted /\ origin[p] = origin[r]

\* What was landed of the write under way is in the store.
Landed == \A k \in write.keys \ write.left : stored[k] = write.value[k]

\* The store has k, and no write under way deletes it, while memory does.
Safe(k) == mem[k] # "none" => stored[k] # "none" /\ (k \in write.keys => write.value[k] # "none")

GrantsSafe ==
  /\ \A p \in given : \A k \in PairItems(p) : Safe(k)
  /\ holder.step = "retire" => \A k \in PairItems(holder.pair) : Safe(k)
  /\ \A c \in Clients : reg[c] = "known" /\ mem[Item("client", c)] = "there"
                        => Safe(Item("client", c))

Spent ==
  /\ ExchangedOnce
  /\ \A p \in given, r \in Pairs :
       parent[p] = Item("refresh", r) => origin[p] \in cut \/ mem[Item("refresh", r)] = "none"
  /\ holder.pair # 0 => \A p \in given : parent[p] = parent[holder.pair] => origin[p] \in cut

Revoked ==
  /\ RevokedHoldsNothing
  /\ \A s \in ended : /\ stage[s] \in {"saving", "done"}
                      /\ stage[s] = "saving" => mem[Item("approval", ClientOf[s])] = "none"

Living(s) == s \notin ended \cup cut /\ \A k \in quit : origin[k[2]] # s
Works(p) == mem[Item("refresh", p)] # "none"

Survives ==
  /\ holder.pair # 0 /\ Living(origin[holder.pair]) => Works(holder.pair)
  /\ \A s \in SignIns :
       Living(s) /\ (\E p \in given : origin[p] = s)
       => \/ \E p \in given : origin[p] = s /\ Works(p)
          \/ holder.step = "retire" /\ origin[holder.pair] = s

IInv ==
  /\ StoreShape /\ FlowShape /\ QueueHasRoom /\ QueueTidy /\ LockShape /\ Origins
  /\ StoreFollowsMemory /\ Landed /\ GrantsSafe /\ Spent /\ Revoked /\ Survives

-----------------------------------------------------------------------------
(* Items and their states                                                  *)

LEMMA ItemsAre ==
  /\ \A c \in Clients : Item("client", c) \in Items /\ Item("approval", c) \in Items
  /\ \A p \in Pairs : PairItems(p) \subseteq Items
  /\ Tokens \subseteq Items
  BY DEF Items, ClientItems, Tokens, PairItems, Item

LEMMA PairsAreNat == MaxPairs \in Nat /\ Pairs \subseteq Nat \ {0}
  BY BoundsAssumption DEF Pairs

LEMMA WithoutIs ==
  ASSUME NEW m \in [Items -> Values], NEW keys
  PROVE  /\ Without(m, keys) \in [Items -> Values]
         /\ \A k \in Items : Without(m, keys)[k] = IF k \in keys THEN "none" ELSE m[k]
         /\ \A k \in Items \ keys : Without(m, keys)[k] = m[k]
  BY DEF Without, Values

\* What a write that begins carries.
LEMMA BegunIs ==
  ASSUME NEW m \in [Items -> Values], NEW keys \in SUBSET Items
  PROVE  LET w == Begun(m, keys) IN
         /\ w = [keys |-> w.keys, left |-> w.left, value |-> w.value]
         /\ w.keys = keys /\ w.left = keys /\ w.value \in [keys -> Values]
         /\ \A k \in keys : w.value[k] = m[k]
  BY DEF Begun

LEMMA TagsDiffer ==
  ASSUME NEW x, NEW y
  PROVE  /\ Item("client", x) # Item("access", y) /\ Item("client", x) # Item("refresh", y)
         /\ Item("client", x) # Item("approval", y) /\ Item("approval", x) # Item("access", y)
         /\ Item("approval", x) # Item("refresh", y) /\ Item("access", x) # Item("refresh", y)
         /\ \A kind : Item(kind, x) = Item(kind, y) => x = y
  BY DEF Item

LEMMA OperationsDiffer ==
  /\ Nobody \notin Requests \cup {Maintain, Flush} /\ Flush \notin Requests \cup {Maintain}
  /\ Maintain \notin Requests
  /\ \A op \in Requests : op[1] \in {"register", "approve", "exchange", "refresh"}
  /\ Maintain[1] = "maintain" /\ Flush[1] = "flush" /\ Nobody[1] = "nobody"
  BY DEF Requests, Maintain, Flush, Nobody, Item

\* Who asks for the lock, by the name of what it asks for.
LEMMA WhoAsks ==
  ASSUME NEW op \in Requests
  PROVE  /\ op[1] = "register" => op[2] \in Clients /\ op = Item("register", op[2])
         /\ op[1] = "approve" => op[2] \in SignIns /\ op = Item("approve", op[2])
         /\ op[1] = "exchange" => op[2] \in SignIns /\ op = Item("exchange", op[2])
         /\ op[1] = "refresh" => op[2] \in Pairs /\ op = Item("refresh", op[2])
  BY DEF Requests, Item

LEMMA NoHolderIs ==
  NoHolder.op = Nobody /\ NoHolder.step = "free" /\ NoHolder.pair = 0
  BY DEF NoHolder, Holding

-----------------------------------------------------------------------------
(* The kinds of steps                                                      *)

\* Nothing happens to items, tokens and the lock: pages, waiting, timers.
Rests ==
  /\ UNCHANGED <<mem, stored, unsaved, write, holder, tokenVars, ended, cut>>
  /\ \A s \in SignIns : stage[s] \in {"saving", "done"} \/ stage'[s] = "saving"
                        => stage'[s] = stage[s]
  /\ \A c \in Clients : reg'[c] = "known" => reg[c] = "known"

Registers(c) == Free /\ StartRegister(c)
Approves(s) == Free /\ stage[s] \in {"consent", "waiting"} /\ StartApprove(s)
Saves(op) == Free /\ StartSaving(op)

\* A pair is minted, for a code or for a refresh token that works.
Mints(s, op) ==
  /\ Free /\ minted < MaxPairs /\ Issue(s, op, op)
  /\ \/ op = Item("exchange", s) /\ stage[s] = "code" /\ stage' = [stage EXCEPT ![s] = "done"]
     \/ \E p \in given : op = Item("refresh", p) /\ s = origin[p] /\ RefreshThere(p) /\ stage' = stage

\* The process ends with everything stored, and starts anew.
Restarts ==
  /\ Reload(stored) /\ UNCHANGED <<tokenVars, boundVars>>
  /\ (holder.op = Flush /\ write.left = {}) \/ (Free /\ unsaved = {})

StepKind ==
  \/ Rests
  \/ \E c \in Clients : Registers(c)
  \/ \E s \in SignIns : Approves(s)
  \/ \E s \in SignIns, op \in Requests : Mints(s, op)
  \/ \E op \in {Maintain, Flush} : Saves(op)
  \/ Revoke
  \/ \E k \in Tokens : GiveBack(k) \/ Lapse(k) \/ LoadsExpired(k)
  \/ \E k \in Items : Lands(k)
  \/ WriteDone
  \/ \E cancelled \in BOOLEAN : Fails(cancelled)
  \/ Restarts
  \/ Crash

\* What a request knows when it gets the lock.
Ready(op) ==
  /\ op[1] = "approve" => stage[op[2]] \in {"consent", "waiting"}
  /\ op[1] = "refresh" => op[2] \in given
  /\ op[1] \in {"exchange", "refresh"} => minted < MaxPairs

LEMMA Starting ==
  ASSUME FlowShape, Origins, NEW op \in Requests \cup {Maintain}, Free, Start(op), Ready(op)
  PROVE  StepKind
<1>1. CASE op[1] = "register"
  BY <1>1, WhoAsks, OperationsDiffer DEF Start, StepKind, Registers
<1>2. CASE op[1] = "approve"
  BY <1>2, WhoAsks, OperationsDiffer DEF Start, StepKind, Approves, Ready
<1>3. CASE op[1] = "exchange"
  <2>1. op[2] \in SignIns /\ op = Item("exchange", op[2]) /\ op \in Requests
    BY <1>3, WhoAsks, OperationsDiffer
  <2>2. StartExchange(op[2])
    BY <1>3, OperationsDiffer DEF Start
  <2>3. CASE CodeThere(op[2])
    <3>1. Mints(op[2], op)
      BY <1>3, <2>1, <2>2, <2>3 DEF StartExchange, CodeThere, Mints, Ready
    <3> QED BY <2>1, <3>1 DEF StepKind
  <2>4. CASE ~CodeThere(op[2])
    BY <2>2, <2>4 DEF StartExchange, StepKind, Rests, storeVars, flowVars, boundVars, Free, LetGo
  <2> QED BY <2>3, <2>4
<1>4. CASE op[1] = "refresh"
  <2>1. op[2] \in Pairs /\ op = Item("refresh", op[2]) /\ op \in Requests
    BY <1>4, WhoAsks, OperationsDiffer
  <2>2. StartRefresh(op[2]) /\ op[2] \in given
    BY <1>4, OperationsDiffer DEF Start, Ready
  <2>3. CASE RefreshThere(op[2])
    <3>1. Issue(origin[op[2]], op, op) /\ stage' = stage
      BY <2>1, <2>2, <2>3 DEF StartRefresh
    <3>2. Mints(origin[op[2]], op)
      BY <1>4, <2>1, <2>2, <2>3, <3>1 DEF Mints, Ready
    <3>3. origin[op[2]] \in SignIns
      BY <2>1, <2>2, PairsAreNat DEF Origins, FlowShape
    <3> QED BY <2>1, <3>2, <3>3 DEF StepKind
  <2>4. CASE ~RefreshThere(op[2])
    BY <2>2, <2>4 DEF StartRefresh, StepKind, Rests, storeVars, flowVars, boundVars, Free, LetGo
  <2> QED BY <2>3, <2>4
<1>5. CASE op = Maintain
  BY <1>5, OperationsDiffer DEF Start, StepKind, Saves
<1> QED BY <1>1, <1>2, <1>3, <1>4, <1>5, OperationsDiffer

LEMMA MintingFinite ==
  ASSUME NEW q \in Seq(Requests \cup {Maintain})
  PROVE  IsFiniteSet(Minting(q)) /\ Cardinality(Minting(q)) \in Nat
<1>1. IsFiniteSet(1..Len(q))
  BY FS_Interval
<1>2. Minting(q) \subseteq 1..Len(q)
  BY DEF Minting
<1> QED BY <1>1, <1>2, FS_Subset, FS_CardinalityType

LEMMA StepKindHolds == IInv /\ [Next]_vars => StepKind
<1> SUFFICES ASSUME IInv, [Next]_vars PROVE StepKind
  OBVIOUS
<1>1. FlowShape /\ Origins /\ QueueTidy /\ QueueHasRoom
  BY DEF IInv
<1>2. MaxPairs \in Nat /\ minted \in Nat /\ queue \in Seq(Requests \cup {Maintain})
  BY <1>1, PairsAreNat DEF FlowShape
<1>3. ASSUME NEW op \in Requests \cup {Maintain}, AsksNow(op), Ready(op) PROVE StepKind
  BY <1>1, <1>3, Starting DEF AsksNow
<1>4. ASSUME UNCHANGED <<storeVars, holder, tokenVars, boundVars>>,
             \A s \in SignIns : stage[s] \in {"saving", "done"} \/ stage'[s] = "saving"
                                => stage'[s] = stage[s],
             \A c \in Clients : reg'[c] = "known" => reg[c] = "known"
      PROVE  StepKind
  BY <1>4 DEF StepKind, Rests, storeVars, boundVars
<1>5. /\ \A c \in Clients : Item("register", c) \in Requests
      /\ \A s \in SignIns : Item("approve", s) \in Requests /\ Item("exchange", s) \in Requests
      /\ \A p \in Pairs : Item("refresh", p) \in Requests
  BY DEF Requests
<1>6. \A kind, x : Item(kind, x)[1] = kind /\ Item(kind, x)[2] = x
  BY DEF Item
<1>7. RoomForAPair => minted < MaxPairs
  <2>1. RoomForAPair <=> minted + Cardinality(Minting(queue)) < MaxPairs
    BY DEF RoomForAPair, Minting
  <2> QED BY <1>2, <2>1, MintingFinite
<1>8. ASSUME NEW c \in Clients, Register(c) PROVE StepKind
  <2>1. CASE AsksNow(Item("register", c))
    BY <1>3, <1>5, <1>6, <2>1 DEF Ready
  <2>2. CASE Waits(Item("register", c)) /\ reg' = [reg EXCEPT ![c] = "waiting"] /\ UNCHANGED stage
    <3>1. \A d \in Clients : reg'[d] = "known" => reg[d] = "known"
      BY <1>1, <2>2 DEF FlowShape
    <3> QED BY <1>4, <2>2, <3>1 DEF Waits
  <2> QED BY <1>8, <2>1, <2>2 DEF Register
<1>9. ASSUME NEW s \in SignIns, NEW from, NEW to, Moves(s, from, to),
             from \notin {"saving", "done"}, to # "saving"
      PROVE  StepKind
  <2>1. \A t \in SignIns : stage[t] \in {"saving", "done"} \/ stage'[t] = "saving"
                           => stage'[t] = stage[t]
    BY <1>1, <1>9 DEF Moves, FlowShape
  <2> QED BY <1>4, <1>9, <2>1 DEF Moves, lockVars
<1>10. ASSUME NEW s \in SignIns, Authorize(s) \/ CallsBack(s) \/ GoogleAnswers(s) \/ Drops(s)
       PROVE  StepKind
  BY <1>9, <1>10 DEF Authorize, CallsBack, GoogleAnswers, Drops
<1>11. ASSUME NEW s \in SignIns, Approve(s) PROVE StepKind
  <2>1. CASE AsksNow(Item("approve", s))
    BY <1>3, <1>5, <1>6, <1>11, <2>1 DEF Ready, Approve
  <2>2. CASE Waits(Item("approve", s)) /\ stage' = [stage EXCEPT ![s] = "waiting"] /\ UNCHANGED reg
    <3>1. \A t \in SignIns : stage[t] \in {"saving", "done"} \/ stage'[t] = "saving"
                             => stage'[t] = stage[t]
      BY <1>1, <1>11, <2>2 DEF FlowShape, Approve
    <3> QED BY <1>4, <2>2, <3>1 DEF Waits
  <2> QED BY <1>11, <2>1, <2>2 DEF Approve
<1>12. ASSUME NEW s \in SignIns, Exchange(s) PROVE StepKind
  BY <1>3, <1>4, <1>5, <1>6, <1>7, <1>12 DEF Exchange, Ready, Waits, flowVars
<1>13. ASSUME NEW p \in Pairs, Refresh(p) PROVE StepKind
  BY <1>3, <1>4, <1>5, <1>6, <1>7, <1>13 DEF Refresh, Ready, Waits, flowVars
<1>14. CASE Resume
  <2>1. /\ Head(queue) \in Requests \cup {Maintain} /\ Head(queue) = queue[1]
        /\ 1 \in DOMAIN queue
    BY <1>2, <1>14 DEF Resume
  <2>2. Ready(Head(queue))
    <3>1. CASE Head(queue)[1] = "approve"
      BY <1>1, <2>1, <3>1, WhoAsks, OperationsDiffer DEF QueueTidy, Ready
    <3>2. CASE Head(queue)[1] \in {"exchange", "refresh"}
      <4>1. 1 \in Minting(queue)
        BY <2>1, <3>2 DEF Minting
      <4>2. Cardinality(Minting(queue)) # 0
        BY <1>2, <4>1, MintingFinite, FS_EmptySet
      <4>3. minted < MaxPairs
        BY <1>1, <1>2, <4>2, MintingFinite DEF QueueHasRoom
      <4> QED BY <1>1, <2>1, <3>2, <4>3 DEF QueueTidy, Ready
    <3> QED BY <3>1, <3>2 DEF Ready
  <2> QED BY <1>1, <1>14, <2>1, <2>2, Starting DEF Resume
<1>15. ASSUME NEW i \in DOMAIN queue, CancelWaiting(i) PROVE StepKind
  <2>1. \A s \in SignIns : stage[s] \in {"saving", "done"} \/ stage'[s] = "saving"
                           => stage'[s] = stage[s]
    BY <1>1, <1>15 DEF CancelWaiting, QueueTidy
  <2>2. \A c \in Clients : reg'[c] = "known" => reg[c] = "known"
    BY <1>15 DEF CancelWaiting
  <2> QED BY <1>15, <2>1, <2>2 DEF CancelWaiting, StepKind, Rests, storeVars
<1>16. CASE MaintainAsks
  <2>1. Ready(Maintain)
    BY OperationsDiffer DEF Ready
  <2> QED BY <1>3, <1>4, <1>16, <2>1 DEF MaintainAsks, flowVars
<1>17. CASE RetryTimer \/ CleanUpDue
  BY <1>17 DEF RetryTimer, CleanUpDue, StepKind, Rests, lockVars, flowVars, boundVars
<1>18. CASE Shutdown
  BY <1>18 DEF Shutdown, StepKind, Saves, Restarts
<1>19. CASE Restart
  BY <1>19 DEF Restart, StepKind, Restarts
<1>20. CASE UNCHANGED vars
  BY <1>20 DEF vars, storeVars, flowVars, lockVars, boundVars, StepKind, Rests
<1> QED BY <1>8, <1>10, <1>11, <1>12, <1>13, <1>14, <1>15, <1>16, <1>17, <1>18, <1>19, <1>20
       DEF Next, StepKind

-----------------------------------------------------------------------------
(* What the steps do to the store and to the lock                          *)

\* Memory is m from now on, and the lock's holder writes `keys` of it.
Begins(m, u, keys, op, step, pair) ==
  /\ mem' = m /\ m \in [Items -> Values] /\ unsaved' = u \ keys
  /\ write' = [keys |-> write'.keys, left |-> write'.left, value |-> write'.value]
  /\ write'.keys = keys /\ write'.left = keys /\ write'.value \in [keys -> Values]
  /\ \A k \in keys : write'.value[k] = m[k]
  /\ holder'.op = op /\ holder'.step = step /\ holder'.pair = pair
  /\ holder' = [op |-> op, step |-> step, pair |-> pair]

LEMMA WriteOutBegins ==
  ASSUME NEW m \in [Items -> Values], NEW u, NEW keys \in SUBSET Items,
         NEW op, NEW step, NEW pair, WriteOut(m, u, keys, op, step, pair)
  PROVE  Begins(m, u, keys, op, step, pair)
<1>1. mem' = m /\ unsaved' = u \ keys /\ write' = Begun(m, keys)
      /\ holder' = [op |-> op, step |-> step, pair |-> pair]
  BY DEF WriteOut, Holding
<1> QED BY <1>1, BegunIs DEF Begins

\* Nothing is under way, and whatever is not marked is in the store.
Settled == \A k \in Items \ unsaved : stored[k] = mem[k]

LEMMA FreeIs ==
  ASSUME IInv, Free
  PROVE  /\ Settled /\ write = NoWrite /\ holder = NoHolder
         /\ holder.op = Nobody /\ holder.step = "free" /\ holder.pair = 0
         /\ \A s \in SignIns : stage[s] # "saving"
<1>1. write = NoWrite /\ holder = NoHolder /\ write.keys = {}
  BY DEF IInv, LockShape, Free, NoWrite
<1>2. Settled
  BY <1>1 DEF Settled, IInv, StoreFollowsMemory
<1>3. \A s \in SignIns : holder.op # Item("approve", s)
  BY <1>1, NoHolderIs DEF Nobody, Item
<1> QED BY <1>1, <1>2, <1>3, NoHolderIs DEF IInv, LockShape

LEMMA WrittenIs == IInv /\ write.left = {} => Settled
  BY DEF IInv, StoreFollowsMemory, Landed, Settled, StoreShape

LEMMA RegistersIs ==
  ASSUME IInv, NEW c \in Clients, Registers(c)
  PROVE  /\ Begins([mem EXCEPT ![Item("client", c)] = "there"], unsaved,
                   {Item("client", c)}, Item("register", c), "write", 0)
         /\ reg' = [reg EXCEPT ![c] = "saving"]
         /\ UNCHANGED <<stored, stage, tokenVars, ended, cut>>
<1>1. [mem EXCEPT ![Item("client", c)] = "there"] \in [Items -> Values]
  BY DEF IInv, StoreShape, Values
<1>2. {Item("client", c)} \in SUBSET Items
  BY ItemsAre
<1> QED BY <1>1, <1>2, WriteOutBegins DEF Registers, StartRegister, boundVars

LEMMA ApprovesIs ==
  ASSUME IInv, NEW s \in SignIns, Approves(s)
  PROVE  /\ Begins([mem EXCEPT ![Item("approval", ClientOf[s])] = "there"], unsaved,
                   {Item("approval", ClientOf[s])}, Item("approve", s), "write", 0)
         /\ stage' = [stage EXCEPT ![s] = "saving"] /\ stage[s] \in {"consent", "waiting"}
         /\ UNCHANGED <<stored, reg, tokenVars, ended, cut>>
<1>1. [mem EXCEPT ![Item("approval", ClientOf[s])] = "there"] \in [Items -> Values]
  BY DEF IInv, StoreShape, Values
<1>2. {Item("approval", ClientOf[s])} \in SUBSET Items
  BY ItemsAre, ClientOfAssumption
<1> QED BY <1>1, <1>2, WriteOutBegins DEF Approves, StartApprove, boundVars

\* Memory with a new pair.
WithPair(p, c) == [k \in Items |-> IF k \in PairItems(p) THEN "there"
                                   ELSE IF k = c THEN "issued" ELSE mem[k]]

LEMMA MintsIs ==
  ASSUME IInv, NEW s \in SignIns, NEW op \in Requests, Mints(s, op)
  PROVE  LET p == minted + 1
             c == Item("client", ClientOf[s])
         IN
         /\ p \in Pairs /\ minted' = p /\ minted \in Nat /\ c \in Items
         /\ origin' = [origin EXCEPT ![p] = s] /\ parent' = [parent EXCEPT ![p] = op]
         /\ Begins(WithPair(p, c), unsaved, Granted(c, p), op, "write", p)
         /\ Granted(c, p) \in SUBSET Items
         /\ UNCHANGED <<stored, reg, given, quit, lapsed, ended, cut>>
<1> DEFINE p == minted + 1
           c == Item("client", ClientOf[s])
<1>1. p \in Pairs /\ minted \in Nat
  BY PairsAreNat DEF Mints, IInv, FlowShape, Pairs
<1>2. c \in Items /\ PairItems(p) \subseteq Items
  BY <1>1, ItemsAre, ClientOfAssumption
<1>3. Granted(c, p) \in SUBSET Items
  BY <1>2 DEF Granted
<1>4. WithPair(p, c) \in [Items -> Values]
  BY DEF IInv, StoreShape, Values, WithPair
<1>5. WriteOut(WithPair(p, c), unsaved, Granted(c, p), op, "write", p)
  BY DEF Mints, Issue, WithPair
<1>6. Begins(WithPair(p, c), unsaved, Granted(c, p), op, "write", p)
  BY <1>3, <1>4, <1>5, WriteOutBegins
<1>7. /\ minted' = p /\ origin' = [origin EXCEPT ![p] = s] /\ parent' = [parent EXCEPT ![p] = op]
      /\ UNCHANGED <<stored, reg, given, quit, lapsed, ended, cut>>
  BY DEF Mints, Issue, boundVars
<1> QED BY <1>1, <1>2, <1>3, <1>6, <1>7

\* A clean-up drops no token that has not expired.
LEMMA ExpiringIs ==
  ASSUME IInv, NEW m, NEW gone \in MayExpire(m)
  PROVE  gone \subseteq Items /\ gone \cap Tokens \subseteq lapsed
<1>1. CASE gone = {}
  BY <1>1
<1>2. CASE gone # {}
  <2>1. PICK cs \in SUBSET Unused(m, {}) : gone = Present(m, ClientAndApproval(cs) \cup lapsed)
    BY <1>2 DEF MayExpire, Expiring
  <2>2. cs \subseteq Clients
    BY DEF Unused
  <2>3. ClientAndApproval(cs) \subseteq Items
    BY <2>2, ItemsAre DEF ClientAndApproval
  <2>4. lapsed \subseteq Tokens
    BY DEF IInv, FlowShape
  <2>5. ClientAndApproval(cs) \cap Tokens = {}
    BY DEF ClientAndApproval, Tokens, Item
  <2> QED BY <2>1, <2>3, <2>4, <2>5, ItemsAre DEF Present
<1> QED BY <1>1, <1>2

LEMMA SavesIs ==
  ASSUME IInv, NEW op \in {Maintain, Flush}, Saves(op)
  PROVE  /\ \/ UNCHANGED <<mem, unsaved, write, holder>>
            \/ \E gone \in MayExpire(mem) :
                 /\ unsaved \cup gone \in SUBSET Items
                 /\ Begins(Without(mem, gone), unsaved \cup gone, unsaved \cup gone, op, "write", 0)
         /\ UNCHANGED <<stored, reg, stage, tokenVars, ended, cut>>
<1>1. PICK gone \in MayExpire(mem) :
        /\ IF unsaved \cup gone = {} THEN LetGo /\ UNCHANGED <<mem, unsaved, write>>
           ELSE WriteOut(Without(mem, gone), unsaved \cup gone, unsaved \cup gone, op, "write", 0)
        /\ UNCHANGED <<stored, reg, stage, tokenVars, ended, cut>>
  BY DEF Saves, StartSaving, flowVars, boundVars
<1>2. unsaved \cup gone \in SUBSET Items /\ Without(mem, gone) \in [Items -> Values]
  BY ExpiringIs, WithoutIs DEF IInv, StoreShape
<1>3. CASE unsaved \cup gone = {}
  BY <1>1, <1>3, FreeIs DEF LetGo, Saves
<1>4. CASE unsaved \cup gone # {}
  BY <1>1, <1>2, <1>4, WriteOutBegins
<1> QED BY <1>1, <1>3, <1>4

\* The holder lets the lock go; memory loses `gone` and nothing else.
Releases(gone) ==
  /\ mem' = Without(mem, gone) /\ gone \subseteq Items
  /\ write' = NoWrite /\ holder' = NoHolder
  /\ UNCHANGED <<minted, origin, parent, quit, lapsed, ended>>

LEMMA WithoutNothing == IInv => mem = Without(mem, {})
<1> SUFFICES ASSUME IInv PROVE mem = Without(mem, {})
  OBVIOUS
<1>1. mem \in [Items -> Values]
  BY DEF IInv, StoreShape
<1>2. Without(mem, {}) \in [Items -> Values] /\ \A k \in Items : Without(mem, {})[k] = mem[k]
  BY <1>1, WithoutIs
<1> QED BY <1>1, <1>2

\* The client gets its tokens.
GivesPair ==
  /\ holder.pair # 0 /\ given' = given \cup {holder.pair}
  /\ \/ holder.op[1] = "exchange" /\ holder.step = "write"
     \/ holder.op[1] = "refresh" /\ holder.step = "retire"
  /\ UNCHANGED <<reg, stage>>

\* The ends of writes that went through: what follows, by what was asked for.
LEMMA WriteDoneIs ==
  ASSUME IInv, WriteDone
  PROVE  /\ Settled /\ write.left = {} /\ stored' = stored /\ holder.step # "free"
         /\ UNCHANGED <<ended, cut>>
         /\ \/ /\ holder.op[1] = "register" /\ holder.op[2] \in Clients
               /\ reg' = [reg EXCEPT ![holder.op[2]] = "known"]
               /\ \E gone : Releases(gone) /\ unsaved' = unsaved \cup gone
                            /\ gone \cap Tokens = {}
               /\ UNCHANGED <<stage, given>>
            \/ /\ holder.op[1] = "approve" /\ holder.op[2] \in SignIns
               /\ holder.op = Item("approve", holder.op[2])
               /\ Releases({}) /\ unsaved' = unsaved /\ Consented(holder.op[2])
               /\ UNCHANGED given
            \/ /\ holder.op[1] = "refresh" /\ holder.op[2] \in Pairs
               /\ holder.op = Item("refresh", holder.op[2]) /\ holder.step = "write"
               /\ Begins(Without(mem, {holder.op}), unsaved \cup {holder.op}, {holder.op},
                         holder.op, "retire", holder.pair)
               /\ UNCHANGED <<reg, stage, tokenVars>>
            \/ Releases({}) /\ unsaved' = unsaved /\ GivesPair
            \/ /\ holder.op = Maintain
               /\ Releases({}) /\ unsaved' = unsaved /\ UNCHANGED <<reg, stage, given>>
<1> DEFINE op == holder.op
<1>1. Settled /\ write.left = {} /\ stored' = stored /\ holder.step # "free"
      /\ UNCHANGED <<ended, cut>>
  BY WrittenIs DEF WriteDone, boundVars
<1>2. op \in Operations /\ op # Nobody
  BY <1>1, NoHolderIs DEF IInv, StoreShape, LockShape
<1>3. op[1] \in {"register", "approve", "exchange", "refresh"} => op \in Requests
  BY <1>2, OperationsDiffer DEF Operations
<1>4. mem = Without(mem, {}) /\ mem \in [Items -> Values]
  BY WithoutNothing DEF IInv, StoreShape
<1>5. ASSUME NEW u, Ends(mem, u) PROVE Releases({}) /\ unsaved' = u
  BY <1>1, <1>4, <1>5 DEF Ends, LetGo, Releases
<1>6. CASE op[1] = "register" /\ Registered(op[2])
  <2>1. op[2] \in Clients
    BY <1>3, <1>6, WhoAsks
  <2>2. PICK cs \in SUBSET Unused(mem, {op[2]}) :
          /\ Ends(Without(mem, Present(mem, ClientAndApproval(cs))),
                  unsaved \cup Present(mem, ClientAndApproval(cs)))
          /\ reg' = [reg EXCEPT ![op[2]] = "known"]
          /\ UNCHANGED <<stage, given>>
    BY <1>6 DEF Registered
  <2>3. Present(mem, ClientAndApproval(cs)) \subseteq Items
    BY ItemsAre DEF Present, ClientAndApproval, Unused
  <2>4. Present(mem, ClientAndApproval(cs)) \cap Tokens = {}
    BY DEF Present, ClientAndApproval, Tokens, Item
  <2>5. /\ Releases(Present(mem, ClientAndApproval(cs)))
        /\ unsaved' = unsaved \cup Present(mem, ClientAndApproval(cs))
    BY <1>1, <2>2, <2>3 DEF Ends, LetGo, Releases
  <2> QED BY <1>1, <1>6, <2>1, <2>2, <2>4, <2>5
<1>7. CASE op[1] = "approve" /\ Ends(mem, unsaved) /\ Consented(op[2]) /\ UNCHANGED given
  BY <1>1, <1>3, <1>5, <1>7, WhoAsks
<1>8. CASE op[1] = "refresh" /\ holder.step = "write" /\ Retires(op[2])
  <2>1. op[2] \in Pairs /\ op = Item("refresh", op[2])
    BY <1>3, <1>8, WhoAsks
  <2>2. {op} \in SUBSET Items
    BY <2>1, ItemsAre DEF PairItems
  <2>3. Without(mem, {op}) \in [Items -> Values]
    BY <1>4, WithoutIs
  <2>4. WriteOut(Without(mem, {op}), unsaved \cup {op}, {op}, op, "retire", holder.pair)
        /\ UNCHANGED <<reg, stage, tokenVars>>
    BY <1>8, <2>1 DEF Retires, flowVars
  <2> QED BY <1>1, <1>8, <2>1, <2>2, <2>3, <2>4, WriteOutBegins
<1>9. CASE /\ \/ op[1] = "exchange"
              \/ op[1] = "refresh" /\ holder.step = "retire"
           /\ Ends(mem, unsaved) /\ Gives
  <2>1. holder.pair # 0
    BY <1>9 DEF IInv, LockShape
  <2>2. op[1] = "exchange" => holder.step = "write"
    BY <1>1 DEF IInv, LockShape, StoreShape
  <2>3. \/ op[1] = "exchange" /\ holder.step = "write"
        \/ op[1] = "refresh" /\ holder.step = "retire"
    BY <1>9, <2>2
  <2>4. given' = given \cup {holder.pair} /\ UNCHANGED <<reg, stage>>
    BY <1>9 DEF Gives, flowVars
  <2>5. GivesPair
    BY <2>1, <2>3, <2>4 DEF GivesPair
  <2> QED BY <1>1, <1>5, <1>9, <2>5
<1>10. CASE op = Maintain /\ Ends(mem, unsaved) /\ UNCHANGED <<flowVars, given>>
  BY <1>1, <1>5, <1>10 DEF flowVars
<1> QED BY <1>6, <1>7, <1>8, <1>9, <1>10 DEF WriteDone

LEMMA TakenBackIs ==
  ASSUME IInv
  PROVE  /\ TakenBack \subseteq Items /\ TakenBack \subseteq write.keys
         /\ TakenBack \cap Tokens # {}
              => holder.pair \in Pairs /\ holder.step = "write"
                 /\ TakenBack = PairItems(holder.pair)
         /\ holder.step = "retire" => TakenBack = {}
<1>1. holder.op \in Operations /\ LockShape /\ write.keys \subseteq Items
      /\ holder.pair \in Pairs \cup {0} /\ holder.step \in {"free", "write", "retire"}
  BY DEF IInv, StoreShape
<1>2. CASE holder.op[1] = "register"
  <2>1. TakenBack = {Item("client", holder.op[2])}
    BY <1>2 DEF TakenBack
  <2>2. holder.step # "retire" /\ holder.step # "free"
    BY <1>1, <1>2, NoHolderIs, OperationsDiffer DEF LockShape
  <2>3. Item("client", holder.op[2]) \in write.keys
    BY <1>1, <1>2, <2>2 DEF LockShape
  <2>4. Item("client", holder.op[2]) \notin Tokens
    BY DEF Tokens, Item
  <2> QED BY <1>1, <2>1, <2>2, <2>3, <2>4
<1>3. CASE holder.op[1] \in {"exchange", "refresh"} /\ holder.step = "write"
  <2>1. TakenBack = PairItems(holder.pair)
    BY <1>3 DEF TakenBack
  <2>2. holder.pair \in Pairs
    BY <1>1, <1>3 DEF LockShape
  <2>3. PairItems(holder.pair) \subseteq write.keys
    BY <1>1, <1>3, <2>2, PairsAreNat DEF LockShape
  <2> QED BY <1>1, <1>3, <2>1, <2>2, <2>3
<1>4. CASE ~(holder.op[1] = "register") /\ ~(holder.op[1] \in {"exchange", "refresh"} /\ holder.step = "write")
  <2>1. TakenBack = {}
    BY <1>4 DEF TakenBack
  <2> QED BY <2>1
<1> QED BY <1>2, <1>3, <1>4

\* A write that failed or was cut off.
LEMMA FailsIs ==
  ASSUME IInv, NEW cancelled \in BOOLEAN, Fails(cancelled)
  PROVE  /\ Releases(TakenBack) /\ unsaved' = unsaved \cup write.keys
         /\ holder.op # Flush /\ holder.step # "free"
         /\ \E k \in write.left : stored' \in {stored, Put(k)}
         /\ \/ /\ holder.op[1] = "register" /\ reg' = [reg EXCEPT ![holder.op[2]] = "refused"]
               /\ UNCHANGED <<stage, given, cut>>
            \/ /\ holder.op[1] = "approve" /\ holder.op = Item("approve", holder.op[2])
               /\ holder.op[2] \in SignIns
               /\ \/ Consented(holder.op[2])
                  \/ stage' = [stage EXCEPT ![holder.op[2]] = "done"] /\ UNCHANGED reg
               /\ UNCHANGED <<given, cut>>
            \/ holder.step = "retire" /\ GivesPair /\ UNCHANGED cut
            \/ /\ holder.step = "retire" /\ cut' = cut \cup {origin[holder.pair]}
               /\ UNCHANGED <<reg, stage, given>>
            \/ /\ holder.op[1] \notin {"register", "approve"} /\ holder.step = "write"
               /\ UNCHANGED <<reg, stage, given, cut>>
<1> DEFINE op == holder.op
<1>1. /\ Ends(Without(mem, TakenBack), unsaved \cup write.keys) /\ op # Flush
      /\ UNCHANGED ended /\ write.left # {}
      /\ \E k \in Next1 : stored' \in {stored, Put(k)}
  BY DEF Fails
<1>2. Releases(TakenBack) /\ unsaved' = unsaved \cup write.keys
  BY <1>1, TakenBackIs DEF Ends, LetGo, Releases
<1>3. \E k \in write.left : stored' \in {stored, Put(k)}
  BY <1>1 DEF Next1
<1>4. holder # NoHolder
  <2>1. write # NoWrite
    BY <1>1 DEF NoWrite
  <2> QED BY <2>1 DEF IInv, LockShape
<1>5. holder.step # "free" /\ op # Nobody /\ op \in Operations
  BY <1>4 DEF IInv, LockShape, StoreShape
<1>6. op[1] = "approve" => op = Item("approve", op[2]) /\ op[2] \in SignIns
  BY <1>5, OperationsDiffer, WhoAsks DEF Operations
<1>7. holder.step = "retire" => op[1] = "refresh" /\ holder.pair # 0
  BY DEF IInv, LockShape
<1>8. \/ op[1] = "register" /\ reg' = [reg EXCEPT ![op[2]] = "refused"] /\ UNCHANGED <<stage, given, cut>>
      \/ op[1] = "approve" /\ Consented(op[2]) /\ UNCHANGED <<given, cut>>
      \/ op[1] = "approve" /\ stage' = [stage EXCEPT ![op[2]] = "done"] /\ UNCHANGED <<reg, given, cut>>
      \/ holder.step = "retire" /\ Gives /\ UNCHANGED cut
      \/ holder.step = "retire" /\ cut' = cut \cup {origin[holder.pair]}
         /\ UNCHANGED <<flowVars, given>>
      \/ op[1] \in {"maintain", "exchange", "refresh"} /\ holder.step = "write"
         /\ UNCHANGED <<flowVars, given, cut>>
  BY DEF Fails, Logged
<1> QED BY <1>1, <1>2, <1>3, <1>5, <1>6, <1>7, <1>8 DEF Gives, GivesPair, flowVars

\* Items are dropped from memory, and the store is told later.
Forgets(keys) ==
  /\ mem' = Without(mem, keys) /\ keys \subseteq Items /\ unsaved' = unsaved \cup keys
  /\ holder.op # Flush
  /\ UNCHANGED <<stored, write, holder, reg, minted, origin, parent, given, lapsed, cut>>

LEMMA ForgetsAre ==
  ASSUME IInv
  PROVE  /\ Revoke => /\ Forgets(Present(mem, Items \ ClientItems)) /\ UNCHANGED quit
         /\ \A k \in Tokens : GiveBack(k)
              => Forgets({k}) /\ quit' = quit \cup {k} /\ UNCHANGED <<stage, ended>>
         /\ \A k \in Tokens : LoadsExpired(k)
              => Forgets({k}) /\ k \in lapsed /\ UNCHANGED <<stage, ended, quit>>
         /\ \A k \in Tokens : Lapse(k)
              => /\ UNCHANGED <<storeVars, holder, stage, reg, minted, origin, parent, given, ended, cut>>
                 /\ quit' = quit \cup {k} /\ lapsed' = lapsed \cup {k}
<1>1. Present(mem, Items \ ClientItems) \subseteq Items
  BY DEF Present
<1>2. Revoke => Forgets(Present(mem, Items \ ClientItems)) /\ UNCHANGED quit
  BY <1>1 DEF Revoke, Forget, Serving, Forgets, lockVars, tokenVars
<1>3. \A k \in Tokens : GiveBack(k)
        => Forgets({k}) /\ quit' = quit \cup {k} /\ UNCHANGED <<stage, ended>>
  BY ItemsAre DEF GiveBack, Forget, Serving, Forgets, lockVars, flowVars, boundVars
<1>4. \A k \in Tokens : LoadsExpired(k)
        => Forgets({k}) /\ k \in lapsed /\ UNCHANGED <<stage, ended, quit>>
  BY ItemsAre DEF LoadsExpired, Forget, Serving, Forgets, lockVars, flowVars, tokenVars, boundVars
<1>5. \A k \in Tokens : Lapse(k)
        => /\ UNCHANGED <<storeVars, holder, stage, reg, minted, origin, parent, given, ended, cut>>
           /\ quit' = quit \cup {k} /\ lapsed' = lapsed \cup {k}
  BY DEF Lapse, lockVars, flowVars
<1> QED BY <1>2, <1>3, <1>4, <1>5

\* The process starts anew from st, without what has expired.
Reloads(st, gone) ==
  /\ stored' = st /\ mem' = Without(st, gone) /\ unsaved' = gone
  /\ st \in [Items -> Values] /\ gone \subseteq Items /\ gone \cap Tokens \subseteq lapsed
  /\ write' = NoWrite /\ holder' = NoHolder
  /\ \A s \in SignIns : stage'[s] = IF stage[s] = "idle" THEN "idle" ELSE "done"
  /\ stage' \in [SignIns -> Stages] /\ reg' \in [Clients -> Regs]
  /\ \A c \in Clients : reg'[c] = "known" => reg[c] = "known"
  /\ UNCHANGED tokenVars

LEMMA ReloadIs ==
  ASSUME IInv, NEW st \in [Items -> Values], Reload(st), UNCHANGED tokenVars
  PROVE  \E gone : Reloads(st, gone)
<1>1. PICK gone \in Expiring(st) : mem' = Without(st, gone) /\ unsaved' = gone
  BY DEF Reload
<1>2. gone \subseteq Items /\ gone \cap Tokens \subseteq lapsed
  BY ExpiringIs DEF MayExpire
<1>3. reg' \in [Clients -> Regs] /\ stage' \in [SignIns -> Stages]
      /\ \A c \in Clients : reg'[c] = "known" => reg[c] = "known"
  BY DEF Reload, IInv, FlowShape, Regs, Stages
<1>4. \A s \in SignIns : stage'[s] = IF stage[s] = "idle" THEN "idle" ELSE "done"
  BY DEF Reload
<1>5. Reloads(st, gone)
  BY <1>1, <1>2, <1>3, <1>4 DEF Reload, Reloads
<1> QED BY <1>5

LEMMA RestartsIs ==
  ASSUME IInv, Restarts
  PROVE  /\ \E gone : Reloads(stored, gone)
         /\ stored = mem /\ holder.step # "retire" /\ UNCHANGED <<ended, cut>>
         /\ holder.pair = 0
<1>1. \E gone : Reloads(stored, gone)
  BY ReloadIs DEF Restarts, IInv, StoreShape
<1>2. unsaved = {} /\ Settled
  BY WrittenIs, FreeIs DEF Restarts, IInv, LockShape
<1>3. stored = mem
  BY <1>2 DEF Settled, IInv, StoreShape
<1>4. holder.step # "retire" /\ holder.pair = 0
  BY FreeIs, OperationsDiffer DEF Restarts, IInv, LockShape
<1> QED BY <1>1, <1>3, <1>4 DEF Restarts, boundVars

LEMMA CrashIs ==
  ASSUME IInv, Crash
  PROVE  /\ \E st, gone : /\ Reloads(st, gone)
                          /\ \A k \in Items \ write.left : st[k] = stored[k]
         /\ ended' = {s \in ended : \A k \in Tokens : mem'[k] # "none" => origin[k[2]] # s}
         /\ cut' = cut \cup ended
              \cup {s \in SignIns : \/ holder.pair # 0 /\ origin[holder.pair] = s
                                   \/ \E k \in Tokens \cap (unsaved \cup write.keys) :
                                        origin[k[2]] = s}
<1>1. PICK st \in {stored} \cup {Put(k) : k \in Next1} : Reload(st)
  BY DEF Crash
<1>2. stored \in [Items -> Values] /\ write.left \subseteq Items
      /\ write.left \subseteq write.keys /\ write.value \in [write.keys -> Values]
  BY DEF IInv, StoreShape
<1>3. st \in [Items -> Values] /\ \A k \in Items \ write.left : st[k] = stored[k]
  BY <1>1, <1>2 DEF Put, Next1
<1>4. \E gone : Reloads(st, gone)
  BY <1>1, <1>3, ReloadIs DEF Crash
<1> QED BY <1>3, <1>4 DEF Crash

-----------------------------------------------------------------------------
(* The variables keep their shape                                          *)

LEMMA StoreShapeNext == IInv /\ StepKind => StoreShape'
<1> SUFFICES ASSUME IInv, StepKind PROVE StoreShape'
  OBVIOUS
<1>1. StoreShape
  BY DEF IInv
<1> DEFINE Good(m, st, u) == m \in [Items -> Values] /\ st \in [Items -> Values] /\ u \subseteq Items
<1>2. ASSUME NEW m, NEW u, NEW keys \in SUBSET Items, NEW op \in Operations,
             NEW step \in {"free", "write", "retire"}, NEW pair \in Pairs \cup {0},
             Begins(m, u, keys, op, step, pair), u \subseteq Items, stored' = stored
      PROVE  StoreShape'
  BY <1>1, <1>2 DEF Begins, StoreShape
<1>3. /\ NoWrite.keys = {} /\ NoWrite.left = {} /\ NoWrite.value \in [{} -> Values]
      /\ NoWrite = [keys |-> NoWrite.keys, left |-> NoWrite.left, value |-> NoWrite.value]
      /\ NoHolder \in [op : Operations, step : {"free", "write", "retire"}, pair : Pairs \cup {0}]
  BY DEF NoWrite, NoHolder, Holding, Operations
<1>4. ASSUME write' = NoWrite, holder' = NoHolder, Good(mem', stored', unsaved')
      PROVE  StoreShape'
  BY <1>3, <1>4 DEF StoreShape
<1>5. \A gone : Without(mem, gone) \in [Items -> Values]
  BY <1>1, WithoutIs DEF StoreShape
<1>6. CASE Rests
  BY <1>1, <1>6 DEF Rests, StoreShape
<1>7. ASSUME NEW c \in Clients, Registers(c) PROVE StoreShape'
  <2>1. Item("register", c) \in Operations /\ {Item("client", c)} \in SUBSET Items
    BY ItemsAre DEF Operations, Requests
  <2>2. /\ Begins([mem EXCEPT ![Item("client", c)] = "there"], unsaved,
                  {Item("client", c)}, Item("register", c), "write", 0)
        /\ stored' = stored
    BY <1>7, RegistersIs
  <2> QED BY <1>1, <1>2, <2>1, <2>2 DEF StoreShape
<1>8. ASSUME NEW s \in SignIns, Approves(s) PROVE StoreShape'
  <2>1. Item("approve", s) \in Operations /\ {Item("approval", ClientOf[s])} \in SUBSET Items
    BY ItemsAre, ClientOfAssumption DEF Operations, Requests
  <2>2. /\ Begins([mem EXCEPT ![Item("approval", ClientOf[s])] = "there"], unsaved,
                  {Item("approval", ClientOf[s])}, Item("approve", s), "write", 0)
        /\ stored' = stored
    BY <1>8, ApprovesIs
  <2> QED BY <1>1, <1>2, <2>1, <2>2 DEF StoreShape
<1>9. ASSUME NEW s \in SignIns, NEW op \in Requests, Mints(s, op) PROVE StoreShape'
  BY <1>1, <1>2, <1>9, MintsIs DEF StoreShape, Operations
<1>10. ASSUME NEW op \in {Maintain, Flush}, Saves(op) PROVE StoreShape'
  BY <1>1, <1>2, <1>10, SavesIs DEF StoreShape, Operations
<1>11. ASSUME NEW keys, Forgets(keys) PROVE StoreShape'
  BY <1>1, <1>5, <1>11 DEF Forgets, StoreShape
<1>12. CASE Revoke
  BY <1>11, <1>12, ForgetsAre
<1>13. ASSUME NEW k \in Tokens, GiveBack(k) \/ Lapse(k) \/ LoadsExpired(k) PROVE StoreShape'
  BY <1>1, <1>11, <1>13, ForgetsAre DEF storeVars, StoreShape
<1>14. ASSUME NEW k \in Items, Lands(k) PROVE StoreShape'
  <2>1. k \in write.keys /\ stored' \in [Items -> Values]
    BY <1>1, <1>14 DEF Lands, Next1, Put, StoreShape
  <2> QED BY <1>1, <1>14, <2>1 DEF Lands, StoreShape, lockVars
<1>15. CASE WriteDone
  <2>1. ASSUME NEW gone, Releases(gone), unsaved' = unsaved \cup gone PROVE StoreShape'
    BY <1>1, <1>4, <1>5, <1>15, <2>1, WriteDoneIs DEF Releases, StoreShape
  <2>2. ASSUME holder.op[2] \in Pairs, holder.op = Item("refresh", holder.op[2]),
               Begins(Without(mem, {holder.op}), unsaved \cup {holder.op}, {holder.op},
                      holder.op, "retire", holder.pair)
        PROVE  StoreShape'
    <3>1. {holder.op} \in SUBSET Items /\ unsaved \cup {holder.op} \subseteq Items
      BY <1>1, <2>2, ItemsAre DEF PairItems, StoreShape
    <3>2. holder.op \in Operations /\ holder.pair \in Pairs \cup {0} /\ stored' = stored
      BY <1>1, <1>15, WriteDoneIs DEF StoreShape
    <3> QED BY <1>2, <2>2, <3>1, <3>2
  <2> QED BY <1>15, <2>1, <2>2, WriteDoneIs
<1>16. ASSUME NEW cancelled \in BOOLEAN, Fails(cancelled) PROVE StoreShape'
  <2>1. stored' \in [Items -> Values]
    BY <1>1, <1>16, FailsIs DEF Put, StoreShape
  <2> QED BY <1>1, <1>4, <1>5, <1>16, <2>1, FailsIs DEF Releases, StoreShape
<1>17. ASSUME NEW st, NEW gone, Reloads(st, gone) PROVE StoreShape'
  BY <1>4, <1>17, WithoutIs DEF Reloads
<1> QED BY <1>6, <1>7, <1>8, <1>9, <1>10, <1>12, <1>13, <1>14, <1>15, <1>16, <1>17,
           RestartsIs, CrashIs DEF StepKind

LEMMA StoreFollowsNext == IInv /\ StepKind => StoreFollowsMemory' /\ Landed'
<1> SUFFICES ASSUME IInv, StepKind PROVE StoreFollowsMemory' /\ Landed'
  OBVIOUS
<1>1. StoreShape /\ StoreFollowsMemory /\ Landed
  BY DEF IInv
<1>2. \A gone : \A k \in Items : Without(mem, gone)[k] = IF k \in gone THEN "none" ELSE mem[k]
  BY <1>1, WithoutIs DEF StoreShape
\* A write begins when whatever is not marked is in the store.
<1>3. ASSUME NEW m, NEW u, NEW keys, NEW op, NEW step, NEW pair,
             Begins(m, u, keys, op, step, pair), stored' = stored, Settled,
             unsaved \subseteq u, \A k \in Items : k \notin u \cup keys => m[k] = mem[k]
      PROVE  StoreFollowsMemory' /\ Landed'
  BY <1>3 DEF Begins, StoreFollowsMemory, Landed, Settled
<1>4. ASSUME UNCHANGED <<mem, stored, unsaved, write>> PROVE StoreFollowsMemory' /\ Landed'
  BY <1>1, <1>4 DEF StoreFollowsMemory, Landed
<1>5. CASE Rests
  BY <1>4, <1>5 DEF Rests
<1>6. ASSUME NEW c \in Clients, Registers(c) PROVE StoreFollowsMemory' /\ Landed'
  <2>1. Settled
    BY <1>6, FreeIs DEF Registers
  <2> DEFINE k == Item("client", c)
             m == [mem EXCEPT ![k] = "there"]
  <2>2. Begins(m, unsaved, {k}, Item("register", c), "write", 0) /\ stored' = stored
    BY <1>6, RegistersIs
  <2>3. \A j \in Items : j \notin unsaved \cup {k} => m[j] = mem[j]
    BY <1>1 DEF StoreShape
  <2> HIDE DEF k, m
  <2> QED BY <1>3, <2>1, <2>2, <2>3
<1>7. ASSUME NEW s \in SignIns, Approves(s) PROVE StoreFollowsMemory' /\ Landed'
  <2>1. Settled
    BY <1>7, FreeIs DEF Approves
  <2> DEFINE k == Item("approval", ClientOf[s])
             m == [mem EXCEPT ![k] = "there"]
  <2>2. Begins(m, unsaved, {k}, Item("approve", s), "write", 0) /\ stored' = stored
    BY <1>7, ApprovesIs
  <2>3. \A j \in Items : j \notin unsaved \cup {k} => m[j] = mem[j]
    BY <1>1 DEF StoreShape
  <2> HIDE DEF k, m
  <2> QED BY <1>3, <2>1, <2>2, <2>3
<1>8. ASSUME NEW s \in SignIns, NEW op \in Requests, Mints(s, op)
      PROVE  StoreFollowsMemory' /\ Landed'
  <2> DEFINE p == minted + 1
             c == Item("client", ClientOf[s])
  <2>1. Settled
    BY <1>8, FreeIs DEF Mints
  <2>2. \A k \in Items : k \notin unsaved \cup Granted(c, p) => WithPair(p, c)[k] = mem[k]
    BY DEF WithPair, Granted
  <2>3. Begins(WithPair(p, c), unsaved, Granted(c, p), op, "write", p) /\ stored' = stored
    BY <1>8, MintsIs
  <2> HIDE DEF p, c
  <2> QED BY <1>3, <2>1, <2>2, <2>3
<1>9. ASSUME NEW op \in {Maintain, Flush}, Saves(op) PROVE StoreFollowsMemory' /\ Landed'
  <2>1. Settled
    BY <1>9, FreeIs DEF Saves
  <2>2. ASSUME NEW gone, Begins(Without(mem, gone), unsaved \cup gone, unsaved \cup gone, op, "write", 0)
        PROVE  StoreFollowsMemory' /\ Landed'
    BY <1>2, <1>3, <1>9, <2>1, <2>2, SavesIs
  <2> QED BY <1>4, <1>9, <2>2, SavesIs
<1>10. ASSUME NEW keys, Forgets(keys) PROVE StoreFollowsMemory' /\ Landed'
  BY <1>1, <1>2, <1>10 DEF Forgets, StoreFollowsMemory, Landed
<1>11. CASE Revoke
  BY <1>10, <1>11, ForgetsAre
<1>12. ASSUME NEW k \in Tokens, GiveBack(k) \/ Lapse(k) \/ LoadsExpired(k)
       PROVE  StoreFollowsMemory' /\ Landed'
  BY <1>4, <1>10, <1>12, ForgetsAre DEF storeVars
<1>13. ASSUME NEW k \in Items, Lands(k) PROVE StoreFollowsMemory' /\ Landed'
  <2>1. k \in write.left /\ k \in write.keys /\ stored' = [stored EXCEPT ![k] = write.value[k]]
    BY <1>1, <1>13 DEF Lands, Next1, Put, StoreShape
  <2>2. /\ write'.keys = write.keys /\ write'.value = write.value
        /\ write'.left = write.left \ {k} /\ UNCHANGED <<mem, unsaved>>
    BY <1>1, <1>13 DEF Lands, StoreShape
  <2>3. \A j \in Items : stored'[j] = IF j = k THEN write.value[k] ELSE stored[j]
    BY <1>1, <2>1 DEF StoreShape
  <2> QED BY <1>1, <2>1, <2>2, <2>3 DEF StoreFollowsMemory, Landed, StoreShape
<1>14. ASSUME write' = NoWrite,
              \A k \in Items : k \notin unsaved' => stored'[k] = mem'[k]
       PROVE  StoreFollowsMemory' /\ Landed'
  BY <1>14 DEF StoreFollowsMemory, Landed, NoWrite
<1>15. CASE WriteDone
  <2>1. Settled /\ stored' = stored
    BY <1>15, WriteDoneIs
  <2>2. ASSUME NEW gone, Releases(gone), unsaved' = unsaved \cup gone
        PROVE  StoreFollowsMemory' /\ Landed'
    BY <1>2, <1>14, <2>1, <2>2 DEF Releases, Settled
  <2>3. ASSUME Begins(Without(mem, {holder.op}), unsaved \cup {holder.op}, {holder.op},
                      holder.op, "retire", holder.pair)
        PROVE  StoreFollowsMemory' /\ Landed'
    BY <1>2, <1>3, <2>1, <2>3
  <2> QED BY <1>15, <2>2, <2>3, WriteDoneIs
<1>16. ASSUME NEW cancelled \in BOOLEAN, Fails(cancelled) PROVE StoreFollowsMemory' /\ Landed'
  <2>1. PICK k \in write.left : stored' \in {stored, Put(k)}
    BY <1>16, FailsIs
  <2>2. \A j \in Items \ write.keys : stored'[j] = stored[j]
    BY <1>1, <2>1 DEF Put, StoreShape
  <2>3. \A j \in Items \ write.keys : mem'[j] = mem[j]
    BY <1>2, <1>16, FailsIs, TakenBackIs DEF Releases
  <2> QED BY <1>1, <1>14, <1>16, <2>2, <2>3, FailsIs DEF Releases, StoreFollowsMemory
<1>17. ASSUME NEW st, NEW gone, Reloads(st, gone) PROVE StoreFollowsMemory' /\ Landed'
  BY <1>14, <1>17, WithoutIs DEF Reloads
<1> QED BY <1>5, <1>6, <1>7, <1>8, <1>9, <1>11, <1>12, <1>13, <1>15, <1>16, <1>17,
           RestartsIs, CrashIs DEF StepKind

-----------------------------------------------------------------------------
(* The lock's holder                                                       *)

\* The lock is let go, and no consent is left half-way.
LEMMA LetGoLock ==
  ASSUME StoreShape, holder' = NoHolder, write' = NoWrite, \A s \in SignIns : stage'[s] # "saving"
  PROVE  LockShape'
<1>1. /\ holder'.op = Nobody /\ holder'.step = "free" /\ holder'.pair = 0
      /\ Nobody[1] = "nobody" /\ Nobody # Flush /\ \A s \in SignIns : Nobody # Item("approve", s)
  BY NoHolderIs DEF Nobody, Flush, Item
<1> QED BY <1>1 DEF LockShape

\* The holder stays what it is.
LEMMA KeptLock ==
  ASSUME IInv, holder' = holder, holder = NoHolder => write' = write,
         write'.keys = write.keys, write'.value = write.value,
         UNCHANGED <<minted, parent, given>>,
         \A k \in Items : mem[k] = "none" => mem'[k] = "none",
         holder.op = Flush => unsaved' = unsaved,
         \A s \in SignIns : stage'[s] = "saving" <=> stage[s] = "saving"
  PROVE  LockShape'
<1>1. LockShape
  BY DEF IInv
<1>2. holder.step = "retire" => holder.op \in Items
  <2> SUFFICES ASSUME holder.step = "retire" PROVE holder.op \in Items
    OBVIOUS
  <2>1. holder.op \in Requests /\ holder.op[1] = "refresh"
    BY <1>1, OperationsDiffer DEF LockShape, IInv, StoreShape, Operations
  <2> QED BY <2>1, WhoAsks, ItemsAre DEF PairItems
<1>3. holder.step = "retire" => mem'[holder.op] = "none"
  BY <1>1, <1>2 DEF LockShape
<1> QED BY <1>1, <1>3 DEF LockShape

\* A request, or the clean-up, gets the free lock.
LEMMA TakenLock ==
  ASSUME IInv, NEW m, NEW u, NEW keys, NEW op \in Requests \cup {Maintain, Flush}, NEW pair,
         Begins(m, u, keys, op, "write", pair),
         op[1] \in {"exchange", "refresh"}
           => /\ pair # 0 /\ pair = minted' /\ pair \notin given' /\ parent'[pair] = op
              /\ \A k \in PairItems(pair) : k \in keys /\ m[k] = "there",
         op[1] \notin {"exchange", "refresh"} => pair = 0,
         op[1] = "refresh" => op[2] \in given',
         op[1] = "register" => Item("client", op[2]) \in keys /\ m[Item("client", op[2])] = "there",
         op = Flush => u \subseteq keys,
         \A s \in SignIns : stage'[s] = "saving" <=> op = Item("approve", s)
  PROVE  LockShape'
<1>1. /\ holder'.op = op /\ holder'.step = "write" /\ holder'.pair = pair
      /\ write'.keys = keys /\ unsaved' = u \ keys /\ \A k \in keys : write'.value[k] = m[k]
  BY DEF Begins
<1>2. op # Nobody /\ holder' # NoHolder
  BY <1>1, OperationsDiffer, NoHolderIs
<1> QED BY <1>1, <1>2 DEF LockShape

LEMMA LockShapeNext == IInv /\ StepKind => LockShape'
<1> SUFFICES ASSUME IInv, StepKind PROVE LockShape'
  OBVIOUS
<1>1. LockShape /\ StoreShape /\ FlowShape
  BY DEF IInv
<1>2. \A gone : \A k \in Items : Without(mem, gone)[k] = IF k \in gone THEN "none" ELSE mem[k]
  BY <1>1, WithoutIs DEF StoreShape
<1>3. /\ \A c \in Clients : Item("register", c) \in Requests
      /\ \A s \in SignIns : Item("approve", s) \in Requests
      /\ \A kind, x : Item(kind, x)[1] = kind /\ Item(kind, x)[2] = x
      /\ \A x, y : Item("approve", x) = Item("approve", y) => x = y
  BY DEF Requests, Item
<1>4. CASE Rests
  <2>1. \A s \in SignIns : stage'[s] = "saving" <=> stage[s] = "saving"
    BY <1>4 DEF Rests
  <2> QED BY <1>4, <2>1, KeptLock DEF Rests, tokenVars
<1>5. ASSUME NEW c \in Clients, Registers(c) PROVE LockShape'
  <2> DEFINE k == Item("client", c)
             m == [mem EXCEPT ![k] = "there"]
             op == Item("register", c)
  <2>1. Begins(m, unsaved, {k}, op, "write", 0) /\ stage' = stage
    BY <1>5, RegistersIs
  <2>2. m[k] = "there"
    BY <1>1, ItemsAre DEF StoreShape
  <2>3. \A s \in SignIns : stage[s] # "saving" /\ op # Item("approve", s)
    BY <1>5, FreeIs DEF Registers, Item
  <2>4. op \in Requests /\ op[1] = "register" /\ op[2] = c /\ op # Flush
    BY <1>3, OperationsDiffer
  <2> HIDE DEF m, op
  <2> QED BY <2>1, <2>2, <2>3, <2>4, TakenLock
<1>6. ASSUME NEW s \in SignIns, Approves(s) PROVE LockShape'
  <2> DEFINE k == Item("approval", ClientOf[s])
             m == [mem EXCEPT ![k] = "there"]
             op == Item("approve", s)
  <2>1. Begins(m, unsaved, {k}, op, "write", 0) /\ stage' = [stage EXCEPT ![s] = "saving"]
    BY <1>6, ApprovesIs
  <2>2. \A t \in SignIns : stage'[t] = "saving" <=> op = Item("approve", t)
    BY <1>1, <1>3, <1>6, <2>1, FreeIs DEF Approves, FlowShape
  <2>3. op \in Requests /\ op[1] = "approve" /\ op # Flush
    BY <1>3, OperationsDiffer
  <2> HIDE DEF m, op, k
  <2> QED BY <2>1, <2>2, <2>3, TakenLock
<1>7. ASSUME NEW s \in SignIns, NEW op \in Requests, Mints(s, op) PROVE LockShape'
  <2> DEFINE p == minted + 1
             c == Item("client", ClientOf[s])
             m == WithPair(p, c)
  <2>1. /\ p \in Pairs /\ minted' = p /\ minted \in Nat
        /\ parent' = [parent EXCEPT ![p] = op] /\ given' = given
        /\ Begins(m, unsaved, Granted(c, p), op, "write", p)
    BY <1>7, MintsIs
  <2>2. parent'[p] = op /\ p # 0 /\ p \notin given
    BY <1>1, <2>1, PairsAreNat DEF FlowShape
  <2>3. \A k \in PairItems(p) : k \in Granted(c, p) /\ m[k] = "there"
    BY <2>1, ItemsAre DEF Granted, WithPair
  <2>4. op[1] \in {"exchange", "refresh"} /\ (op[1] = "refresh" => op[2] \in given)
        /\ op # Flush /\ \A t \in SignIns : op # Item("approve", t)
    BY <1>3, <1>7, OperationsDiffer DEF Mints, Item
  <2>5. \A t \in SignIns : stage'[t] # "saving"
    BY <1>1, <1>7, FreeIs DEF Mints, FlowShape
  <2>6. op[1] # "register"
    BY <2>4
  <2> HIDE DEF p, c, m
  <2> QED BY <2>1, <2>2, <2>3, <2>4, <2>5, <2>6, TakenLock
<1>8. ASSUME NEW op \in {Maintain, Flush}, Saves(op) PROVE LockShape'
  <2>1. UNCHANGED <<stage, minted, parent, given>> /\ op[1] \in {"maintain", "flush"}
        /\ \A s \in SignIns : stage[s] # "saving" /\ op # Item("approve", s)
    BY <1>8, SavesIs, FreeIs, OperationsDiffer DEF Saves, tokenVars, Maintain, Flush, Item
  <2>2. CASE UNCHANGED <<mem, unsaved, write, holder>>
    BY <2>1, <2>2, KeptLock
  <2>3. ASSUME NEW gone, Begins(Without(mem, gone), unsaved \cup gone, unsaved \cup gone, op, "write", 0)
        PROVE  LockShape'
    <3> DEFINE m == Without(mem, gone)
               u == unsaved \cup gone
    <3>1. Begins(m, u, u, op, "write", 0)
      BY <2>3
    <3> HIDE DEF m, u
    <3> QED BY <2>1, <3>1, TakenLock
  <2> QED BY <1>8, <2>2, <2>3, SavesIs
<1>9. ASSUME NEW keys, Forgets(keys), \A s \in SignIns : stage'[s] = "saving" <=> stage[s] = "saving"
      PROVE  LockShape'
  BY <1>2, <1>9, KeptLock DEF Forgets
<1>10. CASE Revoke
  <2>1. \A s \in SignIns : stage'[s] = "saving" <=> stage[s] = "saving"
    BY <1>10 DEF Revoke
  <2> QED BY <1>9, <1>10, <2>1, ForgetsAre
<1>11. ASSUME NEW k \in Tokens, GiveBack(k) \/ Lapse(k) \/ LoadsExpired(k) PROVE LockShape'
  <2>1. stage' = stage
    BY <1>11, ForgetsAre
  <2>2. CASE Lapse(k)
    BY <2>1, <2>2, KeptLock, ForgetsAre DEF storeVars
  <2> QED BY <1>9, <1>11, <2>1, <2>2, ForgetsAre
<1>12. ASSUME NEW k \in Items, Lands(k) PROVE LockShape'
  <2>1. write # NoWrite
    BY <1>12 DEF Lands, Next1, NoWrite
  <2>2. /\ write'.keys = write.keys /\ write'.value = write.value
        /\ UNCHANGED <<mem, unsaved, holder, stage, minted, parent, given>>
    BY <1>1, <1>12 DEF Lands, StoreShape, lockVars, flowVars, tokenVars
  <2> QED BY <1>1, <2>1, <2>2, KeptLock DEF LockShape
\* The approval's writer is the only consent half-way.
<1>13. \A s \in SignIns : stage[s] = "saving" => holder.op = Item("approve", s)
  BY <1>1 DEF LockShape
<1>14. ASSUME NEW gone, Releases(gone), stage' = stage, holder.op[1] # "approve" PROVE LockShape'
  <2>1. \A s \in SignIns : stage'[s] # "saving"
    BY <1>3, <1>13, <1>14
  <2> QED BY <1>1, <1>14, <2>1, LetGoLock DEF Releases
<1>15. ASSUME NEW gone, Releases(gone), NEW s \in SignIns, holder.op = Item("approve", s),
              NEW to \in {"code", "done"}, stage' = [stage EXCEPT ![s] = to]
       PROVE  LockShape'
  <2>1. \A t \in SignIns : stage'[t] # "saving"
    BY <1>1, <1>3, <1>13, <1>15 DEF FlowShape
  <2> QED BY <1>1, <1>15, <2>1, LetGoLock DEF Releases
<1>16. \A s : Consented(s) => \E to \in {"code", "done"} : stage' = [stage EXCEPT ![s] = to]
  BY DEF Consented
<1>17. CASE WriteDone
  <2>1. ASSUME holder.op[2] \in Pairs, holder.op = Item("refresh", holder.op[2]), holder.step = "write",
               Begins(Without(mem, {holder.op}), unsaved \cup {holder.op}, {holder.op},
                      holder.op, "retire", holder.pair),
               UNCHANGED <<reg, stage, tokenVars>>
        PROVE  LockShape'
    <3>1. /\ holder'.op = holder.op /\ holder'.step = "retire" /\ holder'.pair = holder.pair
          /\ write'.keys = {holder.op} /\ mem' = Without(mem, {holder.op})
      BY <2>1 DEF Begins
    <3>2. holder.op \in Items /\ holder.op[1] = "refresh"
      BY <1>3, <2>1, ItemsAre DEF PairItems
    <3>3. mem'[holder.op] = "none"
      BY <1>2, <3>1, <3>2
    <3>4. holder.op # Nobody /\ holder.op # Flush /\ holder' # NoHolder
      BY <3>1, <3>2, OperationsDiffer, NoHolderIs
    <3> QED BY <1>1, <2>1, <3>1, <3>2, <3>3, <3>4 DEF LockShape, tokenVars
  <2>2. CASE holder.op[1] = "approve" /\ holder.op[2] \in SignIns
             /\ holder.op = Item("approve", holder.op[2])
             /\ Releases({}) /\ Consented(holder.op[2])
    BY <1>15, <1>16, <2>2
  <2> QED BY <1>14, <1>17, <2>1, <2>2, WriteDoneIs, OperationsDiffer DEF GivesPair
<1>18. ASSUME NEW cancelled \in BOOLEAN, Fails(cancelled) PROVE LockShape'
  <2>1. holder.step = "retire" => holder.op[1] = "refresh"
    BY <1>1 DEF LockShape
  <2>2. CASE /\ holder.op = Item("approve", holder.op[2]) /\ holder.op[2] \in SignIns
             /\ \/ Consented(holder.op[2])
                \/ stage' = [stage EXCEPT ![holder.op[2]] = "done"]
    BY <1>15, <1>16, <1>18, <2>2, FailsIs
  <2> QED BY <1>14, <1>18, <2>1, <2>2, FailsIs DEF GivesPair
<1>19. ASSUME NEW st, NEW gone, Reloads(st, gone) PROVE LockShape'
  BY <1>1, <1>19, LetGoLock DEF Reloads
<1> QED BY <1>4, <1>5, <1>6, <1>7, <1>8, <1>10, <1>11, <1>12, <1>17, <1>18, <1>19,
           RestartsIs, CrashIs DEF StepKind

-----------------------------------------------------------------------------
(* Where tokens come from                                                  *)

\* What a step leaves of the tokens' history.
LEMMA HistoryNext ==
  ASSUME IInv, StepKind
  PROVE  /\ \A s \in SignIns : stage[s] = "done" => stage'[s] = "done"
         /\ UNCHANGED <<minted, origin, parent>>
              \/ \E s \in SignIns, op \in Requests : Mints(s, op)
         /\ given' = given \/ GivesPair
         /\ cut \subseteq cut'
<1> DEFINE Done == \A s \in SignIns : stage[s] = "done" => stage'[s] = "done"
<1>1. FlowShape /\ LockShape
  BY DEF IInv
<1>2. CASE Rests
  BY <1>2 DEF Rests, tokenVars
<1>3. ASSUME NEW c \in Clients, Registers(c) PROVE Done /\ UNCHANGED <<tokenVars, cut>>
  BY <1>3, RegistersIs
<1>4. ASSUME NEW s \in SignIns, Approves(s) PROVE Done /\ UNCHANGED <<tokenVars, cut>>
  BY <1>1, <1>4, ApprovesIs DEF FlowShape
<1>5. ASSUME NEW s \in SignIns, NEW op \in Requests, Mints(s, op)
      PROVE  Done /\ UNCHANGED <<given, cut>>
  BY <1>1, <1>5, MintsIs DEF FlowShape, Mints
<1>6. ASSUME NEW op \in {Maintain, Flush}, Saves(op) PROVE Done /\ UNCHANGED <<tokenVars, cut>>
  BY <1>6, SavesIs
<1>7. CASE Revoke
  <2>1. Done
    BY <1>1, <1>7 DEF Revoke, FlowShape
  <2> QED BY <1>7, <2>1, ForgetsAre DEF Forgets
<1>8. ASSUME NEW k \in Tokens, GiveBack(k) \/ Lapse(k) \/ LoadsExpired(k)
      PROVE  Done /\ UNCHANGED <<minted, origin, parent, given, cut>>
  BY <1>8, ForgetsAre DEF Forgets
<1>9. ASSUME NEW k \in Items, Lands(k) PROVE Done /\ UNCHANGED <<tokenVars, cut>>
  BY <1>9 DEF Lands, flowVars, boundVars
<1>10. ASSUME NEW s \in SignIns, NEW to, holder.op = Item("approve", s),
              stage' = [stage EXCEPT ![s] = to]
       PROVE  Done
  BY <1>1, <1>10 DEF FlowShape, LockShape
<1>11. \A s : Consented(s) => \E to : stage' = [stage EXCEPT ![s] = to]
  BY DEF Consented
<1>12. CASE WriteDone
  <2>1. Done
    BY <1>10, <1>11, <1>12, WriteDoneIs DEF GivesPair
  <2>2. UNCHANGED <<minted, origin, parent, cut>> /\ (given' = given \/ GivesPair)
    BY <1>12, WriteDoneIs DEF Releases, tokenVars
  <2> QED BY <2>1, <2>2
<1>13. ASSUME NEW cancelled \in BOOLEAN, Fails(cancelled)
       PROVE  Done /\ UNCHANGED <<minted, origin, parent>> /\ cut \subseteq cut'
              /\ (given' = given \/ GivesPair)
  <2>1. Done
    BY <1>10, <1>11, <1>13, FailsIs DEF GivesPair
  <2>2. UNCHANGED <<minted, origin, parent>> /\ (given' = given \/ GivesPair) /\ cut \subseteq cut'
    BY <1>13, FailsIs DEF Releases
  <2> QED BY <2>1, <2>2
<1>14. ASSUME NEW st, NEW gone, Reloads(st, gone) PROVE Done /\ UNCHANGED tokenVars
  BY <1>14 DEF Reloads
<1>15. CASE Restarts
  BY <1>14, <1>15, RestartsIs DEF tokenVars
<1>16. CASE Crash
  BY <1>14, <1>16, CrashIs DEF tokenVars
<1> QED BY <1>2, <1>3, <1>4, <1>5, <1>6, <1>7, <1>8, <1>9, <1>12, <1>13, <1>15, <1>16
        DEF StepKind, tokenVars

LEMMA OriginsNext == IInv /\ StepKind => Origins'
<1> SUFFICES ASSUME IInv, StepKind PROVE Origins'
  OBVIOUS
<1>1. Origins /\ FlowShape
  BY DEF IInv
<1>2. \A s \in SignIns : stage[s] = "done" => stage'[s] = "done"
  BY HistoryNext
<1>3. CASE UNCHANGED <<minted, origin, parent>>
  BY <1>1, <1>2, <1>3 DEF Origins
<1>4. ASSUME NEW s \in SignIns, NEW op \in Requests, Mints(s, op) PROVE Origins'
  <2> DEFINE p == minted + 1
  <2>1. /\ p \in Pairs /\ minted' = p /\ minted \in Nat /\ Pairs \subseteq Nat
        /\ origin' = [origin EXCEPT ![p] = s] /\ parent' = [parent EXCEPT ![p] = op]
    BY <1>4, MintsIs, PairsAreNat
  <2>2. /\ origin'[p] = s /\ parent'[p] = op
        /\ \A q \in Pairs : q # p => origin'[q] = origin[q] /\ parent'[q] = parent[q]
    BY <1>1, <2>1 DEF FlowShape
  <2>3. stage'[s] = "done"
    <3>1. CASE stage' = [stage EXCEPT ![s] = "done"]
      BY <1>1, <3>1 DEF FlowShape
    <3>2. CASE \E r \in given : s = origin[r]
      <4>1. PICK r \in given : s = origin[r]
        BY <3>2
      <4>2. r \in Pairs /\ r <= minted
        BY <1>1, <2>1, <4>1, PairsAreNat DEF FlowShape, Pairs
      <4>3. stage[s] = "done"
        BY <1>1, <4>1, <4>2 DEF Origins
      <4> QED BY <1>2, <4>3
    <3> QED BY <1>4, <3>1, <3>2 DEF Mints
  <2>4. \A t \in SignIns : op = Item("exchange", t) => s = t
    BY <1>4 DEF Mints, Item
  <2>5. \A r \in Pairs : op = Item("refresh", r) => r <= minted /\ s = origin[r]
    BY <1>1, <1>4, <2>1 DEF Mints, Item, FlowShape
  <2>6. ASSUME NEW q \in Pairs, q # p
        PROVE  /\ q <= minted' => origin'[q] \in SignIns /\ stage'[origin'[q]] = "done"
               /\ q > minted' => origin'[q] = NoSignIn /\ parent'[q] = Nobody
               /\ \A t \in SignIns : parent'[q] = Item("exchange", t) => origin'[q] = t
               /\ \A r \in Pairs : parent'[q] = Item("refresh", r)
                    => r <= minted' /\ origin'[q] = origin'[r]
    <3>1. q \in Nat /\ (q <= minted' => q <= minted) /\ (q > minted' => q > minted)
      BY <2>1, <2>6
    <3>2. \A r \in Pairs : r <= minted => r # p /\ r <= minted'
      BY <2>1
    <3> QED BY <1>1, <1>2, <2>2, <2>6, <3>1, <3>2 DEF Origins
  <2>7. /\ p <= minted' /\ ~(p > minted')
        /\ \A r \in Pairs : r <= minted => r # p /\ r <= minted'
    BY <2>1
  <2>8. \A r \in Pairs : parent'[p] = Item("refresh", r) => r <= minted' /\ origin'[p] = origin'[r]
    BY <2>2, <2>5, <2>7
  <2> HIDE DEF p
  <2> QED BY <2>2, <2>3, <2>4, <2>6, <2>7, <2>8 DEF Origins
<1> QED BY <1>3, <1>4, HistoryNext

\* Nothing comes back in memory but by a grant, a new item or a restart.
Fades == \A k \in Items : mem'[k] = "none" \/ mem'[k] = mem[k]

\* Nothing of a token comes into memory.
TokensFade == \A k \in Tokens : mem'[k] = "none" \/ mem'[k] = mem[k]

LEMMA FadesIn ==
  ASSUME IInv
  PROVE  /\ Rests => Fades
         /\ \A c \in Clients : Registers(c) => TokensFade
         /\ \A s \in SignIns : Approves(s) => TokensFade
         /\ \A op \in {Maintain, Flush} : Saves(op) => Fades
         /\ \A keys : Forgets(keys) => Fades
         /\ \A gone : Releases(gone) => Fades
         /\ \A k \in Items : Lands(k) => Fades
         /\ \A k \in Tokens : Lapse(k) => Fades
         /\ WriteDone => Fades
         /\ Fades => TokensFade
<1>1. mem \in [Items -> Values]
  BY DEF IInv, StoreShape
<1>2. \A gone : \A k \in Items : Without(mem, gone)[k] = IF k \in gone THEN "none" ELSE mem[k]
  BY <1>1, WithoutIs
<1>3. \A kind, x, k : kind \in {"client", "approval"} /\ k \in Tokens
        => [mem EXCEPT ![Item(kind, x)] = "there"][k] = mem[k]
  <2>1. \A kind, x, k : kind \in {"client", "approval"} /\ k \in Tokens => Item(kind, x) # k
    BY DEF Tokens, Item
  <2> QED BY <1>1, <2>1, ItemsAre
<1>4. \A c \in Clients : Registers(c) => TokensFade
  <2> SUFFICES ASSUME NEW c \in Clients, Registers(c) PROVE TokensFade
    OBVIOUS
  <2>1. mem' = [mem EXCEPT ![Item("client", c)] = "there"]
    BY RegistersIs DEF Begins
  <2> QED BY <1>3, <2>1 DEF TokensFade
<1>5. \A s \in SignIns : Approves(s) => TokensFade
  <2> SUFFICES ASSUME NEW s \in SignIns, Approves(s) PROVE TokensFade
    OBVIOUS
  <2>1. mem' = [mem EXCEPT ![Item("approval", ClientOf[s])] = "there"]
    BY ApprovesIs DEF Begins
  <2> QED BY <1>3, <2>1 DEF TokensFade
<1>6. \A op \in {Maintain, Flush} : Saves(op) => Fades
  <2> SUFFICES ASSUME NEW op \in {Maintain, Flush}, Saves(op) PROVE Fades
    OBVIOUS
  <2>1. mem' = mem \/ \E gone : mem' = Without(mem, gone)
    BY SavesIs DEF Begins
  <2> QED BY <1>2, <2>1 DEF Fades
<1>7. \A keys : Forgets(keys) => Fades
  BY <1>2 DEF Forgets, Fades
<1>8. \A gone : Releases(gone) => Fades
  BY <1>2 DEF Releases, Fades
<1>9. WriteDone => Fades
  <2> SUFFICES ASSUME WriteDone PROVE Fades
    OBVIOUS
  <2>1. ASSUME Begins(Without(mem, {holder.op}), unsaved \cup {holder.op}, {holder.op},
                      holder.op, "retire", holder.pair)
        PROVE  Fades
    BY <1>2, <2>1 DEF Begins, Fades
  <2> QED BY <1>8, <2>1, WriteDoneIs
<1>10. Fades => TokensFade
  BY ItemsAre DEF Fades, TokensFade
<1>11. \A k \in Tokens : Lapse(k) => Fades
  BY ForgetsAre DEF storeVars, Fades
<1> QED BY <1>4, <1>5, <1>6, <1>7, <1>8, <1>9, <1>10, <1>11 DEF Rests, Lands, Fades

-----------------------------------------------------------------------------
(* What clients hold is in the store                                       *)

LEMMA PairItemsAre ==
  ASSUME NEW p \in Pairs
  PROVE  /\ PairItems(p) \subseteq Tokens /\ PairItems(p) \subseteq Items
         /\ \A k \in PairItems(p) : k[2] = p
         /\ \A q : \A k \in PairItems(q) : q # p => k \notin PairItems(p)
         /\ \A c : Item("client", c) \notin PairItems(p)
  BY ItemsAre DEF PairItems, Tokens, Item

\* The tokens a client is about to be given are stored.
LEMMA WrittenPairIsSafe ==
  ASSUME IInv, write.left = {}, holder.step # "free", holder.pair # 0,
         stored' = stored, write' = NoWrite
  PROVE  holder.step = "write" => \A k \in PairItems(holder.pair) : Safe(k)'
<1> SUFFICES ASSUME holder.step = "write", NEW k \in PairItems(holder.pair) PROVE Safe(k)'
  OBVIOUS
<1>1. k \in write.keys /\ write.value[k] = "there"
  BY DEF IInv, LockShape
<1>2. stored[k] = "there"
  BY <1>1 DEF IInv, Landed
<1> QED BY <1>2 DEF Safe, NoWrite

LEMMA GrantsSafeNext == IInv /\ StepKind => GrantsSafe'
<1> SUFFICES ASSUME IInv, StepKind PROVE GrantsSafe'
  OBVIOUS
<1>1. GrantsSafe /\ StoreShape /\ FlowShape /\ LockShape
  BY DEF IInv
<1>2. given \subseteq Pairs
  BY <1>1, PairsAreNat DEF FlowShape, Pairs
<1>3. \A p \in given : PairItems(p) \subseteq Tokens /\ PairItems(p) \subseteq Items
  BY <1>2, PairItemsAre
<1>4. \A c \in Clients : Item("client", c) \in Items
  BY ItemsAre
<1>5. ASSUME NEW k \in Items, Safe(k), mem'[k] = "none" \/ mem'[k] = mem[k],
             \/ stored' = stored /\ write'.keys = write.keys /\ write'.value = write.value
             \/ stored' = stored /\ k \notin write'.keys
             \/ stored' = stored /\ k \in write'.keys /\ write'.value[k] = mem'[k]
      PROVE  Safe(k)'
  BY <1>5 DEF Safe
\* Every item a client may hold stays safe, and no new one is given.
<1>6. ASSUME \A k \in Items : Safe(k) => Safe(k)', Fades, UNCHANGED given,
             \A c \in Clients : reg'[c] = "known" =>
               reg[c] = "known" \/ (mem'[Item("client", c)] # "there") \/ Safe(Item("client", c))',
             holder' = holder \/ holder'.step # "retire"
      PROVE  GrantsSafe'
  <2>1. \A p \in given : \A k \in PairItems(p) : Safe(k)'
    BY <1>1, <1>3, <1>6 DEF GrantsSafe
  <2>2. holder.step = "retire" => \A k \in PairItems(holder.pair) : Safe(k)'
    <3> SUFFICES ASSUME holder.step = "retire" PROVE \A k \in PairItems(holder.pair) : Safe(k)'
      OBVIOUS
    <3>1. holder.pair \in Pairs
      BY <1>1 DEF LockShape, StoreShape
    <3> QED BY <1>1, <1>6, <3>1, PairItemsAre DEF GrantsSafe
  <2>3. ASSUME NEW c \in Clients, reg'[c] = "known", mem'[Item("client", c)] = "there"
        PROVE  Safe(Item("client", c))'
    <3>1. mem[Item("client", c)] = "there"
      BY <1>4, <1>6, <2>3 DEF Fades
    <3> QED BY <1>1, <1>4, <1>6, <2>3, <3>1 DEF GrantsSafe
  <2> QED BY <1>6, <2>1, <2>2, <2>3 DEF GrantsSafe
<1>7. CASE Rests
  <2>1. \A k \in Items : Safe(k) => Safe(k)'
    BY <1>5, <1>7 DEF Rests
  <2> QED BY <1>6, <1>7, <2>1, FadesIn DEF Rests, tokenVars
\* A write of items that are not a client's begins.
<1>8. ASSUME NEW keys, \A p \in given : PairItems(p) \cap keys = {},
             write'.keys = keys, stored' = stored, holder'.step = "write", given' = given,
             \A k \in Items \ keys : mem'[k] = mem[k],
             \A c \in Clients : reg'[c] = "known" /\ mem'[Item("client", c)] = "there"
                                => reg[c] = "known" /\ Item("client", c) \notin keys
      PROVE  GrantsSafe'
  <2>1. \A k \in Items \ keys : Safe(k) => Safe(k)'
    BY <1>5, <1>8
  <2>2. \A p \in given : \A k \in PairItems(p) : Safe(k)'
    BY <1>1, <1>3, <1>8, <2>1 DEF GrantsSafe
  <2>3. ASSUME NEW c \in Clients, reg'[c] = "known", mem'[Item("client", c)] = "there"
        PROVE  Safe(Item("client", c))'
    BY <1>1, <1>4, <1>8, <2>1, <2>3 DEF GrantsSafe
  <2> QED BY <1>8, <2>2, <2>3 DEF GrantsSafe
<1>9. ASSUME NEW c \in Clients, Registers(c) PROVE GrantsSafe'
  <2> DEFINE k == Item("client", c)
  <2>1. /\ mem' = [mem EXCEPT ![k] = "there"] /\ write'.keys = {k} /\ holder'.step = "write"
        /\ reg' = [reg EXCEPT ![c] = "saving"] /\ stored' = stored /\ given' = given
    BY <1>9, RegistersIs DEF Begins, tokenVars
  <2>2. \A p \in given : PairItems(p) \cap {k} = {}
    BY <1>2, PairItemsAre
  <2>3. \A j \in Items \ {k} : mem'[j] = mem[j]
    BY <1>1, <2>1 DEF StoreShape
  <2>4. \A d \in Clients : reg'[d] = "known" => reg[d] = "known" /\ Item("client", d) # k
    BY <1>1, <2>1, TagsDiffer DEF FlowShape
  <2> HIDE DEF k
  <2> QED BY <1>8, <2>1, <2>2, <2>3, <2>4
<1>10. ASSUME NEW s \in SignIns, Approves(s) PROVE GrantsSafe'
  <2> DEFINE k == Item("approval", ClientOf[s])
  <2>1. /\ mem' = [mem EXCEPT ![k] = "there"] /\ write'.keys = {k} /\ holder'.step = "write"
        /\ reg' = reg /\ stored' = stored /\ given' = given
    BY <1>10, ApprovesIs DEF Begins, tokenVars
  <2>2. \A p \in given : PairItems(p) \cap {k} = {}
    BY DEF PairItems, Item
  <2>3. \A j \in Items \ {k} : mem'[j] = mem[j]
    BY <1>1, <2>1 DEF StoreShape
  <2>4. \A d \in Clients : Item("client", d) # k
    BY DEF Item
  <2> HIDE DEF k
  <2> QED BY <1>8, <2>1, <2>2, <2>3, <2>4
<1>11. ASSUME NEW s \in SignIns, NEW op \in Requests, Mints(s, op) PROVE GrantsSafe'
  <2> DEFINE p == minted + 1
             c == Item("client", ClientOf[s])
             keys == PairItems(p) \cup {c}
  <2>1. /\ p \in Pairs /\ minted \in Nat /\ c \in Items
        /\ mem' = WithPair(p, c) /\ write'.keys = Granted(c, p) /\ holder'.step = "write"
        /\ \A k \in Granted(c, p) : write'.value[k] = mem'[k]
        /\ reg' = reg /\ stored' = stored /\ given' = given
    BY <1>11, MintsIs DEF Begins
  <2>2. \A q \in given : q # p
    BY <1>1, <2>1 DEF FlowShape
  <2>3. \A q \in given : PairItems(q) \cap Granted(c, p) = {} /\ PairItems(q) \cap keys = {}
    BY <1>2, <2>1, <2>2, PairItemsAre DEF Granted
  <2>4. \A j \in Items \ keys : mem'[j] = mem[j]
    BY <2>1 DEF WithPair
  <2>5. mem'[c] = "issued"
    BY <2>1, PairItemsAre DEF WithPair
  <2>6. \A j \in Items \ keys : j \notin write'.keys
    BY <2>1 DEF Granted
  <2>7. \A j \in Items \ keys : Safe(j) => Safe(j)'
    BY <1>5, <2>1, <2>4, <2>6
  <2>8. \A q \in given : \A k \in PairItems(q) : Safe(k)'
    BY <1>1, <1>3, <2>3, <2>7 DEF GrantsSafe
  <2>9. ASSUME NEW d \in Clients, reg'[d] = "known", mem'[Item("client", d)] = "there"
        PROVE  Safe(Item("client", d))'
    <3>1. Item("client", d) \in Items \ keys
      BY <1>4, <2>1, <2>5, <2>9, PairItemsAre
    <3>2. reg[d] = "known" /\ mem[Item("client", d)] = "there"
      BY <2>1, <2>4, <2>9, <3>1
    <3> QED BY <1>1, <2>7, <3>1, <3>2 DEF GrantsSafe
  <2> QED BY <2>1, <2>8, <2>9 DEF GrantsSafe
<1>12. ASSUME NEW op \in {Maintain, Flush}, Saves(op) PROVE GrantsSafe'
  <2>1. Fades /\ UNCHANGED <<given, reg, stored>>
    BY <1>12, SavesIs, FadesIn DEF tokenVars
  <2>2. UNCHANGED <<mem, unsaved, write, holder>>
        \/ (holder'.step = "write" /\ \A k \in write'.keys : write'.value[k] = mem'[k])
    BY <1>12, SavesIs DEF Begins
  <2>3. \A k \in Items : Safe(k) => Safe(k)'
    BY <1>5, <2>1, <2>2 DEF Fades
  <2> QED BY <1>6, <2>1, <2>2, <2>3
<1>13. ASSUME NEW keys, Forgets(keys) PROVE GrantsSafe'
  <2>1. Fades
    BY <1>13, FadesIn
  <2>2. \A k \in Items : Safe(k) => Safe(k)'
    BY <1>5, <1>13, <2>1 DEF Forgets, Fades
  <2> QED BY <1>6, <1>13, <2>1, <2>2 DEF Forgets
<1>14. CASE Revoke
  BY <1>13, <1>14, ForgetsAre
<1>15. ASSUME NEW k \in Tokens, GiveBack(k) \/ Lapse(k) \/ LoadsExpired(k) PROVE GrantsSafe'
  <2>1. CASE Lapse(k)
    <3>1. Fades /\ UNCHANGED <<mem, stored, write, holder, reg, given>>
      BY <2>1, FadesIn, ForgetsAre DEF storeVars
    <3>2. \A j \in Items : Safe(j) => Safe(j)'
      BY <1>5, <3>1
    <3> QED BY <1>6, <3>1, <3>2
  <2> QED BY <1>13, <1>15, <2>1, ForgetsAre
<1>16. ASSUME NEW k \in Items, Lands(k) PROVE GrantsSafe'
  <2>1. /\ k \in write.keys /\ stored' = [stored EXCEPT ![k] = write.value[k]]
        /\ write'.keys = write.keys /\ write'.value = write.value
        /\ UNCHANGED <<mem, holder, reg, given>>
    BY <1>1, <1>16 DEF Lands, Next1, Put, StoreShape, lockVars, flowVars, tokenVars
  <2>2. \A j \in Items : stored'[j] = IF j = k THEN write.value[k] ELSE stored[j]
    BY <1>1, <2>1 DEF StoreShape
  <2>3. \A j \in Items : Safe(j) => Safe(j)'
    BY <2>1, <2>2 DEF Safe
  <2> QED BY <1>6, <1>16, <2>1, <2>3, FadesIn
\* The lock is let go: only the holder may have got something new.
<1>17. ASSUME NEW gone, Releases(gone), given' = given \/ GivesPair,
              GivesPair => \A k \in PairItems(holder.pair) : Safe(k)',
              \A k \in Items : Safe(k) => Safe(k)',
              \A c \in Clients : reg'[c] = "known" => reg[c] = "known" \/ Safe(Item("client", c))'
       PROVE  GrantsSafe'
  <2>1. \A p \in given' : \A k \in PairItems(p) : Safe(k)'
    BY <1>1, <1>3, <1>17 DEF GrantsSafe, GivesPair
  <2>2. ASSUME NEW c \in Clients, reg'[c] = "known", mem'[Item("client", c)] = "there"
        PROVE  Safe(Item("client", c))'
    <3>1. mem[Item("client", c)] = "there"
      BY <1>4, <1>17, <2>2, FadesIn DEF Fades
    <3> QED BY <1>1, <1>4, <1>17, <2>2, <3>1 DEF GrantsSafe
  <2>3. holder'.step # "retire"
    BY <1>17, NoHolderIs DEF Releases
  <2> QED BY <2>1, <2>2, <2>3 DEF GrantsSafe
<1>18. ASSUME NEW gone, Releases(gone), stored' = stored
       PROVE  \A k \in Items : Safe(k) => Safe(k)'
  BY <1>5, <1>18, FadesIn DEF Releases, NoWrite, Fades
<1>19. CASE WriteDone
  <2>1. write.left = {} /\ stored' = stored /\ holder.step # "free"
    BY <1>19, WriteDoneIs
  <2>2. CASE /\ holder.op[1] = "register" /\ holder.op[2] \in Clients
             /\ reg' = [reg EXCEPT ![holder.op[2]] = "known"]
             /\ \E gone : Releases(gone)
             /\ UNCHANGED <<stage, given>>
    <3>1. holder.step = "write"
      BY <1>1, <2>1, <2>2 DEF LockShape, StoreShape
    <3>2. ASSUME NEW c \in Clients, c = holder.op[2] PROVE Safe(Item("client", c))'
      <4>1. stored[Item("client", c)] = "there"
        BY <1>1, <2>1, <2>2, <3>1, <3>2 DEF LockShape, IInv, Landed
      <4>2. write'.keys = {}
        BY <2>2 DEF Releases, NoWrite
      <4> QED BY <2>1, <4>1, <4>2 DEF Safe
    <3>4. \A c \in Clients : reg'[c] = "known" => reg[c] = "known" \/ Safe(Item("client", c))'
      <4> SUFFICES ASSUME NEW c \in Clients, c # holder.op[2], reg'[c] = "known"
                   PROVE  reg[c] = "known"
        BY <3>2
      <4> QED BY <1>1, <2>2 DEF FlowShape
    <3>5. ~GivesPair
      BY <2>2 DEF GivesPair
    <3> QED BY <1>17, <1>18, <2>1, <2>2, <3>4, <3>5
  <2>3. CASE /\ holder.op[1] = "refresh" /\ holder.op[2] \in Pairs
             /\ holder.op = Item("refresh", holder.op[2]) /\ holder.step = "write"
             /\ Begins(Without(mem, {holder.op}), unsaved \cup {holder.op}, {holder.op},
                       holder.op, "retire", holder.pair)
             /\ UNCHANGED <<reg, stage, tokenVars>>
    <3> DEFINE old == holder.op
    <3>1. /\ mem' = Without(mem, {old}) /\ write'.keys = {old} /\ holder'.pair = holder.pair
          /\ UNCHANGED <<reg, given>>
      BY <2>3 DEF Begins, tokenVars
    <3>2. \A k \in Items : mem'[k] = IF k = old THEN "none" ELSE mem[k]
      BY <1>1, <3>1, WithoutIs DEF StoreShape
    <3>3. \A k \in Items : Safe(k) => Safe(k)'
      BY <2>1, <3>1, <3>2 DEF Safe
    <3>4. \A p \in given : \A k \in PairItems(p) : Safe(k)'
      BY <1>1, <1>3, <3>3 DEF GrantsSafe
    <3>5. \A k \in PairItems(holder.pair) : Safe(k)'
      <4> SUFFICES ASSUME NEW k \in PairItems(holder.pair) PROVE Safe(k)'
        OBVIOUS
      <4>1. holder.pair \in Pairs /\ holder.pair # old[2]
        BY <1>1, <2>3 DEF LockShape, StoreShape
      <4>2. k \in Items /\ k # old
        BY <4>1, PairItemsAre
      <4>3. k \in write.keys /\ write.value[k] = "there"
        BY <1>1, <2>3, <4>1, PairsAreNat DEF LockShape
      <4>4. stored[k] = "there"
        BY <2>1, <4>3 DEF IInv, Landed
      <4> QED BY <2>1, <3>1, <4>2, <4>4 DEF Safe
    <3>6. ASSUME NEW c \in Clients, reg'[c] = "known", mem'[Item("client", c)] = "there"
          PROVE  Safe(Item("client", c))'
      BY <1>1, <1>4, <3>1, <3>2, <3>3, <3>6 DEF GrantsSafe
    <3> HIDE DEF old
    <3> QED BY <3>1, <3>4, <3>5, <3>6 DEF GrantsSafe
  <2>4. ASSUME Releases({}), given' = given \/ GivesPair, reg' = reg PROVE GrantsSafe'
    <3>1. GivesPair => \A k \in PairItems(holder.pair) : Safe(k)'
      <4> SUFFICES ASSUME GivesPair PROVE \A k \in PairItems(holder.pair) : Safe(k)'
        OBVIOUS
      <4>1. CASE holder.step = "write"
        BY <2>1, <2>4, <4>1, WrittenPairIsSafe DEF Releases, GivesPair
      <4>2. CASE holder.step = "retire"
        <5>1. holder.pair \in Pairs
          BY <1>1 DEF GivesPair, StoreShape
        <5> QED BY <1>1, <1>18, <2>1, <2>4, <4>2, <5>1, PairItemsAre DEF GrantsSafe
      <4> QED BY <4>1, <4>2 DEF GivesPair
    <3>2. \A c \in Clients : reg'[c] = "known" => reg[c] = "known"
      BY <2>4
    <3> QED BY <1>17, <1>18, <2>1, <2>4, <3>1, <3>2
  <2> QED BY <1>19, <2>2, <2>3, <2>4, WriteDoneIs DEF GivesPair, Consented
<1>20. ASSUME NEW cancelled \in BOOLEAN, Fails(cancelled) PROVE GrantsSafe'
  <2>1. PICK j \in write.left : stored' \in {stored, Put(j)}
    BY <1>20, FailsIs
  <2>2. Releases(TakenBack)
    BY <1>20, FailsIs
  <2>3. \A k \in Items : stored'[k] = stored[k] \/ (k \in write.keys /\ stored'[k] = write.value[k])
    <3>1. j \in write.keys /\ j \in Items /\ stored \in [Items -> Values]
      BY <1>1, <2>1 DEF StoreShape
    <3>2. stored' = stored \/ stored' = [stored EXCEPT ![j] = write.value[j]]
      BY <2>1 DEF Put
    <3> QED BY <3>1, <3>2
  <2>4. \A k \in Items : Safe(k) => Safe(k)'
    BY <2>2, <2>3, FadesIn DEF Safe, Releases, NoWrite, Fades
  <2>5. \A c \in Clients : reg'[c] = "known" => reg[c] = "known"
    BY <1>1, <1>20, FailsIs DEF FlowShape, Consented, GivesPair
  <2>6. given' = given \/ (holder.step = "retire" /\ GivesPair)
    BY <1>20, FailsIs
  <2>7. holder.step = "retire" => \A k \in PairItems(holder.pair) : Safe(k)'
    <3> SUFFICES ASSUME holder.step = "retire" PROVE \A k \in PairItems(holder.pair) : Safe(k)'
      OBVIOUS
    <3>1. holder.pair \in Pairs
      BY <1>1 DEF LockShape, StoreShape
    <3> QED BY <1>1, <2>4, <3>1, PairItemsAre DEF GrantsSafe
  <2>8. \A p \in given' : \A k \in PairItems(p) : Safe(k)'
    BY <1>1, <1>3, <2>4, <2>6, <2>7 DEF GrantsSafe, GivesPair
  <2>9. ASSUME NEW c \in Clients, reg'[c] = "known", mem'[Item("client", c)] = "there"
        PROVE  Safe(Item("client", c))'
    <3>1. mem[Item("client", c)] = "there"
      BY <1>4, <2>2, <2>9, FadesIn DEF Fades
    <3> QED BY <1>1, <1>4, <2>4, <2>5, <2>9, <3>1 DEF GrantsSafe
  <2>10. holder'.step # "retire"
    BY <2>2, NoHolderIs DEF Releases
  <2> QED BY <2>8, <2>9, <2>10 DEF GrantsSafe
<1>21. ASSUME NEW st, NEW gone, Reloads(st, gone) PROVE GrantsSafe'
  <2>1. \A k \in Items : Safe(k)'
    BY <1>21, WithoutIs DEF Reloads, Safe, NoWrite
  <2>2. holder'.step # "retire" /\ given' = given
    BY <1>21, NoHolderIs DEF Reloads, tokenVars
  <2> QED BY <1>3, <1>4, <2>1, <2>2 DEF GrantsSafe
<1> QED BY <1>7, <1>9, <1>10, <1>11, <1>12, <1>14, <1>15, <1>16, <1>19, <1>20, <1>21,
           RestartsIs, CrashIs DEF StepKind

-----------------------------------------------------------------------------
(* A code, and a refresh token, buys one pair                              *)

LEMMA GivenAre ==
  ASSUME IInv
  PROVE  /\ given \subseteq Pairs /\ minted \in Nat
         /\ \A p \in given : p <= minted /\ p # minted + 1 /\ origin[p] \in SignIns
                             /\ stage[origin[p]] = "done"
<1>1. given \subseteq Pairs /\ minted \in Nat /\ \A p \in given : p <= minted /\ p # minted + 1
  BY PairsAreNat DEF IInv, FlowShape, Pairs
<1> QED BY <1>1 DEF IInv, Origins

\* The origin of a pair follows from what it was exchanged for.
LEMMA SameParentSameOrigin ==
  ASSUME Origins, NEW p \in Pairs, NEW q \in Pairs, parent[p] = parent[q],
         parent[p] \in Requests, parent[p][1] \in {"exchange", "refresh"}
  PROVE  origin[p] = origin[q]
<1>1. CASE parent[p][1] = "exchange"
  BY <1>1, WhoAsks DEF Origins
<1>2. CASE parent[p][1] = "refresh"
  BY <1>2, WhoAsks DEF Origins
<1> QED BY <1>1, <1>2

\* A step that mints and gives nothing, after which no dropped token works.
LEMMA SpentStays ==
  ASSUME IInv, UNCHANGED <<origin, parent, given>>, TokensFade, cut \subseteq cut',
         holder'.pair # 0 => holder'.pair = holder.pair
  PROVE  Spent'
<1>1. Spent
  BY DEF IInv
<1>2. \A r \in Pairs : Item("refresh", r) \in Tokens
  BY DEF Tokens
<1>3. ExchangedOnce'
  BY <1>1 DEF Spent, ExchangedOnce
<1>4. \A p \in given', r \in Pairs :
        parent'[p] = Item("refresh", r) => origin'[p] \in cut' \/ mem'[Item("refresh", r)] = "none"
  BY <1>1, <1>2 DEF Spent, TokensFade
<1>5. holder'.pair # 0 => \A p \in given' : parent'[p] = parent'[holder'.pair] => origin'[p] \in cut'
  BY <1>1 DEF Spent
<1> QED BY <1>3, <1>4, <1>5 DEF Spent

\* The pair a client is given is the only one for what it was exchanged for.
LEMMA SpentGiven ==
  ASSUME IInv, GivesPair, Fades, UNCHANGED <<origin, parent>>, cut \subseteq cut',
         holder' = NoHolder
  PROVE  Spent'
<1> DEFINE x == holder.pair
<1>1. /\ Spent /\ Origins /\ x \in Pairs /\ parent[x] = holder.op
      /\ holder.op[1] = "refresh" => holder.step = "retire" /\ mem[holder.op] = "none"
      /\ given' = given \cup {x}
  BY DEF IInv, GivesPair, LockShape, StoreShape
<1>2. holder.op \in Requests /\ holder.op[1] \in {"exchange", "refresh"}
  BY OperationsDiffer DEF IInv, StoreShape, GivesPair, Operations
<1>3. \A p \in given : parent[p] = parent[x] => origin[p] \in cut /\ origin[x] \in cut
  BY <1>1, <1>2, GivenAre, SameParentSameOrigin DEF Spent, GivesPair
<1>4. ExchangedOnce'
  BY <1>1, <1>3 DEF Spent, ExchangedOnce
<1>5. ASSUME NEW p \in given', NEW r \in Pairs, parent'[p] = Item("refresh", r)
      PROVE  origin'[p] \in cut' \/ mem'[Item("refresh", r)] = "none"
  <2>1. Item("refresh", r) \in Items
    BY ItemsAre DEF PairItems
  <2>2. CASE p \in given
    BY <1>1, <1>5, <2>1, <2>2 DEF Spent, Fades
  <2>3. CASE p = x
    <3>1. holder.op = Item("refresh", r) /\ holder.op[1] = "refresh"
      BY <1>1, <1>5, <2>3 DEF Item
    <3> QED BY <1>1, <2>1, <3>1 DEF Fades
  <2> QED BY <1>1, <1>5, <2>2, <2>3
<1>6. holder'.pair = 0
  BY NoHolderIs
<1> QED BY <1>4, <1>5, <1>6 DEF Spent

LEMMA SpentNext == IInv /\ StepKind => Spent'
<1> SUFFICES ASSUME IInv, StepKind PROVE Spent'
  OBVIOUS
<1>1. Spent /\ FlowShape /\ Origins /\ StoreShape
  BY DEF IInv
<1>2. cut \subseteq cut'
  BY HistoryNext
<1>3. CASE Rests
  BY <1>2, <1>3, FadesIn, SpentStays DEF Rests, tokenVars
<1>4. ASSUME NEW c \in Clients, Registers(c) PROVE Spent'
  <2>1. UNCHANGED <<origin, parent, given>> /\ holder'.pair = 0
    BY <1>4, RegistersIs DEF Begins, tokenVars
  <2> QED BY <1>2, <1>4, <2>1, FadesIn, SpentStays
<1>5. ASSUME NEW s \in SignIns, Approves(s) PROVE Spent'
  <2>1. UNCHANGED <<origin, parent, given>> /\ holder'.pair = 0
    BY <1>5, ApprovesIs DEF Begins, tokenVars
  <2> QED BY <1>2, <1>5, <2>1, FadesIn, SpentStays
<1>6. ASSUME NEW s \in SignIns, NEW op \in Requests, Mints(s, op) PROVE Spent'
  <2> DEFINE p == minted + 1
             c == Item("client", ClientOf[s])
  <2>1. /\ p \in Pairs
        /\ origin' = [origin EXCEPT ![p] = s] /\ parent' = [parent EXCEPT ![p] = op]
        /\ mem' = WithPair(p, c) /\ holder'.pair = p
        /\ UNCHANGED <<given, cut>>
    BY <1>6, MintsIs DEF Begins
  <2>2. \A q \in given : q \in Pairs /\ q # p /\ origin'[q] = origin[q] /\ parent'[q] = parent[q]
    BY <1>1, <2>1, GivenAre DEF FlowShape
  <2>3. parent'[p] = op
    BY <1>1, <2>1 DEF FlowShape
  <2>4. ExchangedOnce'
    BY <1>1, <2>1, <2>2 DEF Spent, ExchangedOnce
  <2>5. ASSUME NEW q \in given, NEW r \in Pairs, parent[q] = Item("refresh", r)
        PROVE  origin[q] \in cut \/ mem'[Item("refresh", r)] = "none"
    <3>1. r # p
      BY <1>1, <2>2, <2>5, GivenAre, PairsAreNat DEF Origins
    <3>2. Item("refresh", r) \in Items /\ Item("refresh", r) \notin PairItems(p)
          /\ Item("refresh", r) # c
      BY <3>1, ItemsAre DEF PairItems, Item
    <3>3. mem'[Item("refresh", r)] = mem[Item("refresh", r)]
      BY <2>1, <3>2 DEF WithPair
    <3> QED BY <1>1, <2>5, <3>3 DEF Spent
  <2>6. ASSUME NEW q \in given, parent[q] = op PROVE origin[q] \in cut
    <3>1. CASE op = Item("exchange", s) /\ stage[s] = "code"
      BY <1>1, <2>2, <2>6, <3>1, GivenAre DEF Origins
    <3>2. CASE \E r \in given : op = Item("refresh", r) /\ RefreshThere(r)
      BY <1>1, <2>2, <2>6, <3>2 DEF Spent, RefreshThere
    <3> QED BY <1>6, <3>1, <3>2 DEF Mints
  <2> HIDE DEF p
  <2> QED BY <2>1, <2>2, <2>3, <2>4, <2>5, <2>6 DEF Spent
<1>7. ASSUME NEW op \in {Maintain, Flush}, Saves(op) PROVE Spent'
  <2>1. UNCHANGED <<origin, parent, given>>
    BY <1>7, SavesIs DEF tokenVars
  <2>2. holder'.pair # 0 => holder'.pair = holder.pair
    BY <1>7, SavesIs DEF Begins
  <2>3. TokensFade
    BY <1>7, FadesIn
  <2> QED BY <1>2, <2>1, <2>2, <2>3, SpentStays
<1>8. ASSUME NEW keys, Forgets(keys) PROVE Spent'
  BY <1>2, <1>8, FadesIn, SpentStays DEF Forgets
<1>9. CASE Revoke
  BY <1>8, <1>9, ForgetsAre
<1>10. ASSUME NEW k \in Tokens, GiveBack(k) \/ Lapse(k) \/ LoadsExpired(k) PROVE Spent'
  <2>1. CASE Lapse(k)
    <3>1. UNCHANGED <<origin, parent, given, holder>> /\ Fades
      BY <2>1, ForgetsAre, FadesIn
    <3> QED BY <1>2, <3>1, FadesIn, SpentStays
  <2> QED BY <1>8, <1>10, <2>1, ForgetsAre
<1>11. ASSUME NEW k \in Items, Lands(k) PROVE Spent'
  BY <1>2, <1>11, FadesIn, SpentStays DEF Lands, lockVars, tokenVars
<1>12. ASSUME NEW gone, Releases(gone), given' = given \/ GivesPair PROVE Spent'
  BY <1>2, <1>12, FadesIn, SpentStays, SpentGiven, NoHolderIs DEF Releases
<1>13. CASE WriteDone
  <2>1. CASE /\ holder.op[1] = "refresh" /\ holder.op[2] \in Pairs
             /\ Begins(Without(mem, {holder.op}), unsaved \cup {holder.op}, {holder.op},
                       holder.op, "retire", holder.pair)
             /\ UNCHANGED <<reg, stage, tokenVars>>
    <3>1. UNCHANGED <<origin, parent, given>> /\ holder'.pair = holder.pair
      BY <2>1 DEF Begins, tokenVars
    <3> QED BY <1>2, <1>13, <3>1, FadesIn, SpentStays
  <2> QED BY <1>12, <1>13, <2>1, WriteDoneIs
<1>14. ASSUME NEW cancelled \in BOOLEAN, Fails(cancelled) PROVE Spent'
  BY <1>12, <1>14, FailsIs
\* What is forgotten in memory and works again was to be deleted.
<1>15. ASSUME NEW st, NEW gone, Reloads(st, gone),
              \A p \in given, r \in Pairs :
                parent[p] = Item("refresh", r) /\ origin[p] \notin cut'
                  => st[Item("refresh", r)] = "none"
       PROVE  Spent'
  <2>1. \A r \in Pairs : Item("refresh", r) \in Items
    BY ItemsAre DEF PairItems
  <2>2. \A r \in Pairs : st[Item("refresh", r)] = "none" => mem'[Item("refresh", r)] = "none"
    BY <1>15, <2>1, WithoutIs DEF Reloads
  <2>3. UNCHANGED <<origin, parent, given>> /\ holder'.pair = 0
    BY <1>15, NoHolderIs DEF Reloads, tokenVars
  <2>4. ExchangedOnce'
    BY <1>1, <1>2, <2>3 DEF Spent, ExchangedOnce
  <2> QED BY <1>15, <2>2, <2>3, <2>4 DEF Spent
<1>16. CASE Restarts
  <2>1. PICK gone : Reloads(stored, gone)
    BY <1>16, RestartsIs
  <2>2. stored = mem /\ cut' = cut
    BY <1>16, RestartsIs
  <2> QED BY <1>1, <1>15, <2>1, <2>2 DEF Spent
<1>17. CASE Crash
  <2>1. PICK st, gone : Reloads(st, gone) /\ \A k \in Items \ write.left : st[k] = stored[k]
    BY <1>17, CrashIs
  <2>2. ASSUME NEW p \in given, NEW r \in Pairs, parent[p] = Item("refresh", r), origin[p] \notin cut'
        PROVE  st[Item("refresh", r)] = "none"
    <3> DEFINE k == Item("refresh", r)
    <3>1. k \in Tokens /\ k \in Items /\ k[2] = r
      BY ItemsAre DEF Tokens, PairItems, Item
    <3>2. mem[k] = "none"
      BY <1>1, <1>2, <2>2 DEF Spent
    <3>3. origin[r] = origin[p] /\ origin[p] \in SignIns
      BY <1>1, <2>2, GivenAre DEF Origins
    <3>4. k \notin unsaved \cup write.keys
      BY <1>17, <2>2, <3>1, <3>3, CrashIs
    <3>5. stored[k] = mem[k] /\ k \notin write.left
      BY <1>1, <3>1, <3>4 DEF IInv, StoreFollowsMemory, StoreShape
    <3> QED BY <2>1, <3>1, <3>2, <3>5
  <2> QED BY <1>15, <2>1, <2>2
<1> QED BY <1>3, <1>4, <1>5, <1>6, <1>7, <1>9, <1>10, <1>11, <1>13, <1>14, <1>16, <1>17
        DEF StepKind

-----------------------------------------------------------------------------
(* A sign-in that was ended holds nothing                                  *)

\* What the invariant says of one sign-in.
RevokedIs(s) ==
  /\ stage[s] \in {"saving", "done"}
  /\ stage[s] = "saving" => mem[Item("approval", ClientOf[s])] = "none"
  /\ \A k \in Tokens : origin[k[2]] = s => mem[k] = "none"

LEMMA RevokedIsAll == Revoked <=> \A s \in ended : RevokedIs(s)
  BY DEF Revoked, RevokedHoldsNothing, RevokedIs

LEMMA ApprovalsAre ==
  \A s \in SignIns : /\ Item("approval", ClientOf[s]) \in Items
                     /\ Item("approval", ClientOf[s]) \notin ClientItems
                     /\ ClientOf[s] \in Clients
  BY ItemsAre, ClientOfAssumption DEF ClientItems, Item

\* Where a token comes from.
LEMMA TokensAre ==
  ASSUME NEW k \in Tokens
  PROVE  k[2] \in Pairs /\ k \in Items /\ k \in PairItems(k[2]) /\ k \notin ClientItems
  BY ItemsAre DEF Tokens, Item, PairItems, ClientItems

\* A step that leaves an ended sign-in alone.
LEMMA RevokedStays ==
  ASSUME IInv, NEW s \in ended, UNCHANGED origin, TokensFade,
         \/ stage'[s] = "done"
         \/ stage'[s] = stage[s] /\ Fades
  PROVE  RevokedIs(s)'
<1>1. RevokedIs(s) /\ s \in SignIns
  BY RevokedIsAll DEF IInv, FlowShape
<1> QED BY <1>1, ApprovalsAre DEF RevokedIs, TokensFade, Fades

LEMMA RevokedNext == IInv /\ StepKind => Revoked'
<1> SUFFICES ASSUME IInv, StepKind PROVE Revoked'
  OBVIOUS
<1>1. FlowShape /\ Origins /\ StoreShape /\ LockShape
  BY DEF IInv
<1>2. \A s \in ended : RevokedIs(s) /\ s \in SignIns
  BY <1>1, RevokedIsAll DEF IInv, FlowShape
<1>3. (\A s \in ended' : RevokedIs(s)') => Revoked'
  BY DEF Revoked, RevokedHoldsNothing, RevokedIs
<1>4. ASSUME UNCHANGED <<origin, ended>>, TokensFade,
             \A s \in ended : stage'[s] = "done" \/ (stage'[s] = stage[s] /\ Fades)
      PROVE  Revoked'
  BY <1>3, <1>4, RevokedStays
<1>5. CASE Rests
  <2>1. \A s \in ended : stage'[s] = stage[s]
    BY <1>2, <1>5 DEF Rests, RevokedIs
  <2> QED BY <1>4, <1>5, <2>1, FadesIn DEF Rests, tokenVars
\* Nobody has the lock, so no consent is half-way.
<1>6. Free => \A s \in ended : stage[s] = "done"
  BY <1>2, FreeIs DEF RevokedIs
<1>7. ASSUME NEW c \in Clients, Registers(c) PROVE Revoked'
  <2>1. UNCHANGED <<origin, ended, stage>>
    BY <1>7, RegistersIs DEF tokenVars
  <2> QED BY <1>4, <1>6, <1>7, <2>1, FadesIn DEF Registers
<1>8. ASSUME NEW t \in SignIns, Approves(t) PROVE Revoked'
  <2>1. UNCHANGED <<origin, ended>> /\ stage' = [stage EXCEPT ![t] = "saving"] /\ stage[t] # "done"
    BY <1>8, ApprovesIs DEF tokenVars
  <2>2. \A s \in ended : stage'[s] = "done"
    BY <1>1, <1>2, <1>6, <1>8, <2>1 DEF Approves, FlowShape
  <2> QED BY <1>4, <1>8, <2>1, <2>2, FadesIn
<1>9. ASSUME NEW t \in SignIns, NEW op \in Requests, Mints(t, op) PROVE Revoked'
  <2> DEFINE p == minted + 1
             c == Item("client", ClientOf[t])
  <2>1. /\ p \in Pairs /\ origin' = [origin EXCEPT ![p] = t] /\ ended' = ended
        /\ mem' = WithPair(p, c) /\ c \in Items
    BY <1>9, MintsIs DEF Begins
  <2>2. \A s \in ended : stage'[s] = "done"
    BY <1>2, <1>6, <1>9, HistoryNext DEF Mints
  <2>3. t \notin ended
    <3>1. CASE stage[t] = "code"
      BY <1>2, <3>1 DEF RevokedIs
    <3>2. CASE \E r \in given : t = origin[r] /\ RefreshThere(r)
      <4>1. PICK r \in given : t = origin[r] /\ RefreshThere(r)
        BY <3>2
      <4>2. Item("refresh", r) \in Tokens /\ Item("refresh", r)[2] = r
        BY GivenAre DEF Tokens, Item
      <4> QED BY <1>2, <4>1, <4>2 DEF RevokedIs, RefreshThere
    <3> QED BY <1>9, <3>1, <3>2 DEF Mints
  <2>4. ASSUME NEW s \in ended, NEW k \in Tokens, origin'[k[2]] = s PROVE mem'[k] = "none"
    <3>1. k[2] # p
      BY <1>1, <2>1, <2>3, <2>4 DEF FlowShape
    <3>2. origin[k[2]] = s
      BY <1>1, <2>1, <2>4, <3>1, TokensAre DEF FlowShape
    <3>3. k \in Items /\ k \notin PairItems(p) /\ k # c
      BY <2>1, <3>1, TokensAre, PairItemsAre
    <3>4. mem'[k] = mem[k]
      BY <2>1, <3>3 DEF WithPair
    <3> QED BY <1>2, <3>2, <3>4 DEF RevokedIs
  <2> HIDE DEF p, c
  <2>5. \A s \in ended' : RevokedIs(s)'
    BY <2>1, <2>2, <2>4 DEF RevokedIs
  <2> QED BY <1>3, <2>5
<1>10. ASSUME NEW op \in {Maintain, Flush}, Saves(op) PROVE Revoked'
  <2>1. UNCHANGED <<origin, ended, stage>> /\ Fades
    BY <1>10, SavesIs, FadesIn DEF tokenVars
  <2> QED BY <1>4, <2>1, FadesIn
<1>11. ASSUME NEW keys, Forgets(keys), UNCHANGED <<stage, ended>> PROVE Revoked'
  BY <1>4, <1>11, FadesIn DEF Forgets
<1>12. CASE Revoke
  <2>1. /\ mem' = Without(mem, Present(mem, Items \ ClientItems)) /\ origin' = origin
        /\ stage' = [s \in SignIns |-> IF stage[s] \in {"consent", "code"} THEN "done" ELSE stage[s]]
        /\ ended' = ended \cup {s \in SignIns : \/ stage[s] \in {"consent", "saving", "code"}
                                                \/ \E p \in Pairs : origin[p] = s}
    BY <1>12, ForgetsAre DEF Revoke, Forgets
  <2>2. \A k \in Items \ ClientItems : mem'[k] = "none"
    BY <1>1, <2>1, WithoutIs DEF StoreShape, Present
  <2>3. ASSUME NEW s \in ended' PROVE RevokedIs(s)'
    <3>1. s \in SignIns
      BY <1>2, <2>1
    <3>2. stage'[s] \in {"saving", "done"}
      <4>1. CASE s \in ended
        BY <1>2, <2>1, <3>1, <4>1 DEF RevokedIs
      <4>2. CASE stage[s] \in {"consent", "saving", "code"}
        BY <2>1, <3>1, <4>2
      <4>3. CASE \E p \in Pairs : origin[p] = s
        <5>1. PICK p \in Pairs : origin[p] = s
          BY <4>3
        <5>2. p <= minted
          BY <1>1, <3>1, <5>1, PairsAreNat, NoSignInAssumption DEF Origins, FlowShape
        <5>3. stage[s] = "done"
          BY <1>1, <5>1, <5>2 DEF Origins
        <5> QED BY <2>1, <3>1, <5>3
      <4> QED BY <2>1, <4>1, <4>2, <4>3
    <3> QED BY <2>2, <3>1, <3>2, ApprovalsAre, TokensAre DEF RevokedIs
  <2> QED BY <1>3, <2>3
<1>13. ASSUME NEW k \in Tokens, GiveBack(k) \/ Lapse(k) \/ LoadsExpired(k) PROVE Revoked'
  <2>1. CASE Lapse(k)
    BY <1>4, <2>1, ForgetsAre, FadesIn
  <2> QED BY <1>11, <1>13, <2>1, ForgetsAre
<1>14. ASSUME NEW k \in Items, Lands(k) PROVE Revoked'
  BY <1>4, <1>14, FadesIn DEF Lands, flowVars, tokenVars, boundVars
<1>15. ASSUME Fades, stage' = stage, UNCHANGED <<origin, ended>> PROVE Revoked'
  BY <1>4, <1>15, FadesIn
\* An approval that a revoke took away is worth no code.
<1>16. ASSUME NEW t \in SignIns, holder.op = Item("approve", t), Fades, UNCHANGED <<origin, ended>>,
              Consented(t) \/ stage' = [stage EXCEPT ![t] = "done"]
       PROVE  Revoked'
  <2>1. stage[t] = "saving"
    BY <1>1, <1>16 DEF LockShape
  <2>2. t \in ended => ~Approved(mem, t)
    BY <1>2, <2>1 DEF RevokedIs, Approved
  <2>3. \A s \in ended : stage'[s] = "done" \/ stage'[s] = stage[s]
    BY <1>1, <1>2, <1>16, <2>2 DEF Consented, FlowShape
  <2> QED BY <1>4, <1>16, <2>3, FadesIn
<1>17. CASE WriteDone
  <2>1. Fades /\ UNCHANGED <<origin, ended>>
    BY <1>17, FadesIn, WriteDoneIs DEF Releases, tokenVars
  <2> QED BY <1>15, <1>16, <1>17, <2>1, WriteDoneIs DEF GivesPair
<1>18. ASSUME NEW cancelled \in BOOLEAN, Fails(cancelled) PROVE Revoked'
  <2>1. Fades /\ UNCHANGED <<origin, ended>>
    BY <1>18, FadesIn, FailsIs DEF Releases
  <2> QED BY <1>15, <1>16, <1>18, <2>1, FailsIs DEF GivesPair
<1>19. ASSUME NEW st, NEW gone, Reloads(st, gone), NEW s \in ended PROVE stage'[s] = "done"
  BY <1>2, <1>19 DEF Reloads, RevokedIs
<1>20. CASE Restarts
  <2>1. PICK gone : Reloads(stored, gone)
    BY <1>20, RestartsIs
  <2>2. stored = mem /\ UNCHANGED <<ended, origin>>
    BY <1>20, <2>1, RestartsIs DEF Reloads, tokenVars
  <2>3. TokensFade
    BY <2>1, <2>2, WithoutIs, ItemsAre DEF Reloads, TokensFade
  <2> QED BY <1>4, <1>19, <2>1, <2>2, <2>3
<1>21. CASE Crash
  <2>1. \A s \in ended' : s \in ended /\ \A k \in Tokens : origin[k[2]] = s => mem'[k] = "none"
    BY <1>21, CrashIs
  <2>2. origin' = origin /\ \A s \in ended' : stage'[s] = "done"
    BY <1>19, <1>21, <2>1, CrashIs DEF Reloads, tokenVars
  <2>3. \A s \in ended' : RevokedIs(s)'
    BY <2>1, <2>2 DEF RevokedIs
  <2> QED BY <1>3, <2>3
<1> QED BY <1>5, <1>7, <1>8, <1>9, <1>10, <1>12, <1>13, <1>14, <1>17, <1>18, <1>20, <1>21
        DEF StepKind

-----------------------------------------------------------------------------
(* A sign-in that nobody ended goes on working                             *)

\* Some pair the client was given works, or the new one that replaces it does.
Goes(s) == \/ \E p \in given : origin[p] = s /\ Works(p)
           \/ holder.step = "retire" /\ origin[holder.pair] = s

\* What a step that gives nothing must leave to the living.
LEMMA SurvivesStays ==
  ASSUME IInv, UNCHANGED <<origin, given>>,
         \A s \in SignIns : Living(s)' => Living(s),
         \A p \in Pairs : origin[p] \in SignIns /\ Living(origin[p])' /\ Works(p) => Works(p)',
         \/ holder' = holder
         \/ holder'.pair = 0 /\ holder.step # "retire"
  PROVE  Survives'
<1>1. Survives /\ given \subseteq Pairs
  BY GivenAre DEF IInv
<1>2. holder.pair # 0 => holder.pair \in Pairs /\ origin[holder.pair] \in SignIns
  BY PairsAreNat DEF IInv, LockShape, StoreShape, FlowShape, Origins
<1>3. holder'.pair # 0 /\ Living(origin[holder.pair])'
        => holder'.pair = holder.pair /\ Works(holder.pair)'
  BY <1>1, <1>2 DEF Survives
<1>4. ASSUME NEW s \in SignIns, Living(s)', \E p \in given : origin[p] = s
      PROVE  \/ \E p \in given : origin[p] = s /\ Works(p)'
             \/ holder'.step = "retire" /\ origin[holder'.pair] = s
  BY <1>1, <1>4 DEF Survives
<1>5. (holder.pair # 0 /\ Living(origin[holder.pair]) => Works(holder.pair))'
  <2>1. holder'.pair # 0 => holder'.pair = holder.pair /\ origin'[holder'.pair] = origin[holder.pair]
    BY <1>1
  <2> QED BY <1>3, <2>1 DEF Living, Works
<1>6. (\A s \in SignIns : Living(s) /\ (\E p \in given : origin[p] = s)
         => \/ \E p \in given : origin[p] = s /\ Works(p)
            \/ holder.step = "retire" /\ origin[holder.pair] = s)'
  BY <1>4
<1> QED BY <1>5, <1>6 DEF Survives

LEMMA RefreshItems ==
  \A p \in Pairs : /\ Item("refresh", p) \in Tokens /\ Item("refresh", p) \in Items
                   /\ Item("refresh", p)[2] = p
                   /\ Item("refresh", p) \in PairItems(p)
<1>1. \A p \in Pairs : Item("refresh", p) \in Tokens /\ Item("refresh", p) \in PairItems(p)
  BY DEF Tokens, PairItems
<1>2. \A p : Item("refresh", p)[2] = p
  BY DEF Item
<1> QED BY <1>1, <1>2, ItemsAre

LEMMA LivingShrinks ==
  ASSUME UNCHANGED origin, quit \subseteq quit', ended \cup cut \subseteq ended' \cup cut'
  PROVE  \A s \in SignIns : Living(s)' => Living(s)
  BY DEF Living

\* The client got its pair, which works: nobody took it back meanwhile.
LEMMA SurvivesGiven ==
  ASSUME IInv, GivesPair, UNCHANGED <<origin, quit, ended>>, cut \subseteq cut', holder' = NoHolder,
         \A p \in Pairs : Works(p) => Works(p)'
  PROVE  Survives'
<1>1. Survives /\ given \subseteq Pairs /\ given' = given \cup {holder.pair} /\ holder.pair \in Pairs
  BY GivenAre DEF IInv, GivesPair, StoreShape
<1>2. \A s \in SignIns : Living(s)' => Living(s)
  BY LivingShrinks
<1>3. holder'.pair = 0
  BY NoHolderIs
<1>4. ASSUME NEW s \in SignIns, Living(s)', \E p \in given' : origin[p] = s
      PROVE  \E p \in given' : origin[p] = s /\ Works(p)'
  <2>1. CASE origin[holder.pair] = s
    <3>1. Works(holder.pair)
      BY <1>1, <1>2, <1>4, <2>1 DEF Survives, GivesPair
    <3> QED BY <1>1, <2>1, <3>1
  <2>2. CASE origin[holder.pair] # s
    <3>1. \E p \in given : origin[p] = s
      BY <1>1, <1>4, <2>2
    <3> QED BY <1>1, <1>2, <1>4, <2>2, <3>1 DEF Survives
  <2> QED BY <2>1, <2>2
<1>5. (\A s \in SignIns : Living(s) /\ (\E p \in given : origin[p] = s)
         => \E p \in given : origin[p] = s /\ Works(p))'
  BY <1>4
<1> QED BY <1>3, <1>5 DEF Survives

LEMMA SurvivesNext == IInv /\ StepKind => Survives'
<1> SUFFICES ASSUME IInv, StepKind PROVE Survives'
  OBVIOUS
<1>1. Survives /\ FlowShape /\ Origins /\ StoreShape /\ LockShape
  BY DEF IInv
<1>2. given \subseteq Pairs
  BY GivenAre
<1>3. \A gone : \A p \in Pairs : Works(p) /\ mem' = Without(mem, gone) /\ Item("refresh", p) \notin gone
        => Works(p)'
  BY <1>1, WithoutIs, RefreshItems DEF StoreShape, Works
\* Nobody who is living loses a token that was not given back and did not expire.
<1>4. ASSUME NEW p \in Pairs, Item("refresh", p) \in quit', origin' = origin
      PROVE  ~Living(origin[p])'
  BY <1>4, RefreshItems DEF Living
<1>5. CASE Rests
  <2>1. \A s \in SignIns : Living(s)' => Living(s)
    BY <1>5, LivingShrinks DEF Rests, tokenVars
  <2> QED BY <1>5, <2>1, SurvivesStays DEF Rests, tokenVars, Works
<1>6. ASSUME UNCHANGED <<origin, given, quit, ended, cut>>, Free,
             \A k \in Tokens : mem'[k] = mem[k], holder'.pair = 0
      PROVE  Survives'
  <2>1. \A s \in SignIns : Living(s)' => Living(s)
    BY <1>6, LivingShrinks
  <2>2. \A p \in Pairs : Works(p) => Works(p)'
    BY <1>6, RefreshItems DEF Works
  <2> QED BY <1>6, <2>1, <2>2, SurvivesStays, FreeIs
<1>7. ASSUME NEW kind \in {"client", "approval"}, NEW x
      PROVE  \A k \in Tokens : [mem EXCEPT ![Item(kind, x)] = "there"][k] = mem[k]
  <2>1. \A k \in Tokens : Item(kind, x) # k /\ k \in Items
    BY ItemsAre DEF Tokens, Item
  <2> QED BY <1>1, <2>1 DEF StoreShape
<1>8. ASSUME NEW c \in Clients, Registers(c) PROVE Survives'
  <2>1. /\ mem' = [mem EXCEPT ![Item("client", c)] = "there"] /\ holder'.pair = 0
        /\ UNCHANGED <<origin, given, quit, ended, cut>>
    BY <1>8, RegistersIs DEF Begins, tokenVars
  <2>2. \A k \in Tokens : mem'[k] = mem[k]
    BY <1>7, <2>1
  <2> QED BY <1>6, <1>8, <2>1, <2>2, FadesIn DEF Registers
<1>9. ASSUME NEW s \in SignIns, Approves(s) PROVE Survives'
  <2>1. /\ mem' = [mem EXCEPT ![Item("approval", ClientOf[s])] = "there"] /\ holder'.pair = 0
        /\ UNCHANGED <<origin, given, quit, ended, cut>>
    BY <1>9, ApprovesIs DEF Begins, tokenVars
  <2>2. \A k \in Tokens : mem'[k] = mem[k]
    BY <1>7, <2>1
  <2> QED BY <1>6, <1>9, <2>1, <2>2, FadesIn DEF Approves
<1>10. ASSUME NEW t \in SignIns, NEW op \in Requests, Mints(t, op) PROVE Survives'
  <2> DEFINE p == minted + 1
             c == Item("client", ClientOf[t])
  <2>1. /\ p \in Pairs /\ origin' = [origin EXCEPT ![p] = t] /\ UNCHANGED <<given, quit, ended, cut>>
        /\ mem' = WithPair(p, c) /\ c \in Items /\ holder'.pair = p
    BY <1>10, MintsIs DEF Begins
  <2>2. \A q \in Pairs : Works(q) => Works(q)'
    <3>1. \A q \in Pairs : Item("refresh", q) # c
      BY DEF Item
    <3> QED BY <2>1, <3>1, RefreshItems DEF WithPair, Works
  <2>3. Item("refresh", p) \in Items /\ Item("refresh", p) \in PairItems(p)
    BY <2>1, RefreshItems
  <2>4. mem'[Item("refresh", p)] = "there"
    BY <2>1, <2>3 DEF WithPair
  <2>5. \A q \in given : origin'[q] = origin[q] /\ q \in Pairs
    BY <1>1, <2>1, GivenAre DEF FlowShape
  <2>6. holder.step # "retire"
    BY <1>10, FreeIs DEF Mints
  <2>7. ASSUME NEW s \in SignIns, Living(s)' PROVE Living(s)
    <3>1. SUFFICES ASSUME NEW k \in quit, origin[k[2]] = s PROVE FALSE
      BY <2>1, <2>7 DEF Living
    <3>2. k[2] \in Pairs
      BY <1>1, TokensAre DEF FlowShape
    <3>3. k[2] # p
      <4>1. origin[p] \notin SignIns
        BY <2>1, PairsAreNat, NoSignInAssumption DEF IInv, Origins, FlowShape
      <4> QED BY <3>1, <4>1
    <3>4. origin'[k[2]] = s
      BY <1>1, <2>1, <3>1, <3>2, <3>3 DEF FlowShape
    <3> QED BY <2>1, <2>7, <3>4 DEF Living
  <2>8. ASSUME NEW s \in SignIns, Living(s)', \E q \in given : origin[q] = s
        PROVE  \E q \in given : origin'[q] = s /\ Works(q)'
    <3>1. PICK q \in given : origin[q] = s /\ Works(q)
      BY <1>1, <2>6, <2>7, <2>8 DEF Survives
    <3> QED BY <2>2, <2>5, <3>1
  <2>9. (\A s \in SignIns : Living(s) /\ (\E q \in given : origin[q] = s)
           => \E q \in given : origin[q] = s /\ Works(q))'
    BY <2>1, <2>5, <2>8
  <2>10. (holder.pair # 0 => Works(holder.pair))'
    BY <2>1, <2>4 DEF Works
  <2> HIDE DEF p, c
  <2> QED BY <2>9, <2>10 DEF Survives
<1>11. ASSUME NEW op \in {Maintain, Flush}, Saves(op) PROVE Survives'
  <2>1. UNCHANGED <<origin, given, quit, ended, cut>> /\ holder.step # "retire"
        /\ (holder' = holder \/ holder'.pair = 0)
    BY <1>11, SavesIs, FreeIs DEF Saves, tokenVars, Begins
  <2>2. \A s \in SignIns : Living(s)' => Living(s)
    BY <2>1, LivingShrinks
  <2>3. ASSUME NEW p \in Pairs, Living(origin[p])', Works(p) PROVE Works(p)'
    <3>1. CASE mem' = mem
      BY <2>3, <3>1 DEF Works
    <3>2. CASE \E gone \in MayExpire(mem) : mem' = Without(mem, gone)
      <4>1. PICK gone \in MayExpire(mem) : mem' = Without(mem, gone)
        BY <3>2
      <4>2. gone \cap Tokens \subseteq quit
        BY <1>1, <4>1, ExpiringIs DEF FlowShape
      <4>3. Item("refresh", p) \notin gone
        BY <1>4, <2>1, <2>3, <4>2, RefreshItems
      <4> QED BY <1>3, <2>3, <4>1, <4>3
    <3> QED BY <1>11, <3>1, <3>2, SavesIs DEF Begins
  <2> QED BY <2>1, <2>2, <2>3, SurvivesStays
<1>12. ASSUME NEW keys, Forgets(keys), quit \subseteq quit', ended \subseteq ended',
              \A p \in Pairs : Item("refresh", p) \in keys /\ origin[p] \in SignIns
                               => ~Living(origin[p])'
       PROVE  Survives'
  <2>1. \A s \in SignIns : Living(s)' => Living(s)
    BY <1>12, LivingShrinks DEF Forgets
  <2>2. \A p \in Pairs : origin[p] \in SignIns /\ Living(origin[p])' /\ Works(p) => Works(p)'
    BY <1>3, <1>12 DEF Forgets
  <2> QED BY <1>12, <2>1, <2>2, SurvivesStays DEF Forgets
<1>13. CASE Revoke
  <2>1. \A p \in Pairs : origin[p] \in SignIns => origin[p] \in ended'
    BY <1>13 DEF Revoke
  <2>2. \A p \in Pairs : origin[p] \in SignIns => ~Living(origin[p])'
    BY <1>13, <2>1, ForgetsAre DEF Living, Forgets
  <2>3. Forgets(Present(mem, Items \ ClientItems)) /\ quit' = quit /\ ended \subseteq ended'
    BY <1>13, ForgetsAre DEF Revoke
  <2> QED BY <1>12, <2>2, <2>3
<1>14. ASSUME NEW k \in Tokens, GiveBack(k) \/ Lapse(k) \/ LoadsExpired(k) PROVE Survives'
  <2>1. CASE Lapse(k)
    <3>1. UNCHANGED <<mem, holder, origin, given, ended, cut>> /\ quit \subseteq quit'
      BY <2>1, ForgetsAre DEF storeVars
    <3>2. \A s \in SignIns : Living(s)' => Living(s)
      BY <3>1, LivingShrinks
    <3> QED BY <3>1, <3>2, SurvivesStays DEF Works
  <2>2. CASE GiveBack(k) \/ LoadsExpired(k)
    <3>1. Forgets({k}) /\ k \in quit' /\ quit \subseteq quit' /\ ended' = ended /\ origin' = origin
      BY <1>1, <2>2, ForgetsAre DEF Forgets, FlowShape
    <3>2. \A p \in Pairs : Item("refresh", p) \in {k} => ~Living(origin[p])'
      BY <1>4, <3>1
    <3> QED BY <1>12, <3>1, <3>2
  <2> QED BY <1>14, <2>1, <2>2
<1>15. ASSUME NEW k \in Items, Lands(k) PROVE Survives'
  <2>1. UNCHANGED <<mem, holder, origin, given, quit, ended, cut>>
    BY <1>15 DEF Lands, lockVars, tokenVars, boundVars
  <2>2. \A s \in SignIns : Living(s)' => Living(s)
    BY <2>1, LivingShrinks
  <2> QED BY <2>1, <2>2, SurvivesStays DEF Works
\* The lock is let go, and the living keep the tokens they were given.
<1>16. ASSUME NEW gone, Releases(gone), given' = given, holder.step # "retire", cut \subseteq cut',
              \A p \in given : Item("refresh", p) \notin gone
       PROVE  Survives'
  <2>1. holder' = NoHolder /\ UNCHANGED <<origin, quit, ended>> /\ mem' = Without(mem, gone)
    BY <1>16 DEF Releases
  <2>2. \A s \in SignIns : Living(s)' => Living(s)
    BY <1>16, <2>1, LivingShrinks
  <2>3. \A p \in given : Works(p) => Works(p)'
    BY <1>2, <1>3, <1>16, <2>1
  <2>4. (\A s \in SignIns : Living(s) /\ (\E p \in given : origin[p] = s)
           => \E p \in given : origin[p] = s /\ Works(p))'
    BY <1>1, <1>16, <2>1, <2>2, <2>3 DEF Survives
  <2>5. holder'.pair = 0
    BY <2>1, NoHolderIs
  <2> QED BY <2>4, <2>5 DEF Survives
<1>17. ASSUME NEW gone, Releases(gone), gone \cap Tokens = {}, GivesPair, cut \subseteq cut'
       PROVE  Survives'
  <2>1. \A p \in Pairs : Works(p) => Works(p)'
    BY <1>3, <1>17, RefreshItems DEF Releases
  <2> QED BY <1>17, <2>1, SurvivesGiven DEF Releases
<1>18. CASE WriteDone
  <2>1. cut' = cut /\ (holder.step = "retire" => holder.op[1] = "refresh")
    BY <1>1, <1>18, WriteDoneIs DEF LockShape
  <2>2. CASE holder.op[1] = "register" /\ given' = given
             /\ \E gone : Releases(gone) /\ gone \cap Tokens = {}
    BY <1>2, <1>16, <2>1, <2>2, RefreshItems
  <2>3. CASE /\ holder.op[1] = "approve" \/ holder.op = Maintain
             /\ Releases({}) /\ given' = given
    BY <1>16, <2>1, <2>3, OperationsDiffer
  <2>4. CASE /\ holder.op[1] = "refresh" /\ holder.op[2] \in Pairs
             /\ holder.op = Item("refresh", holder.op[2]) /\ holder.step = "write"
             /\ Begins(Without(mem, {holder.op}), unsaved \cup {holder.op}, {holder.op},
                       holder.op, "retire", holder.pair)
             /\ UNCHANGED <<reg, stage, tokenVars>>
    <3> DEFINE r == holder.op[2]
    <3> PICK x \in Pairs : x = holder.pair
      BY <1>1, <2>4 DEF LockShape, StoreShape
    <3>1. /\ mem' = Without(mem, {holder.op}) /\ holder'.step = "retire" /\ holder'.pair = x
          /\ UNCHANGED <<origin, given, quit, ended, cut>>
      BY <1>18, <2>4, WriteDoneIs DEF Begins, tokenVars
    <3>2. x \in Pairs /\ parent[x] = Item("refresh", r) /\ r \in given /\ x \notin given
      BY <1>1, <2>4 DEF LockShape, StoreShape
    <3>3. origin[x] = origin[r] /\ origin[x] \in SignIns
      BY <1>1, <1>2, <2>4, <3>2, GivenAre DEF Origins
    <3>4. \A p \in Pairs : p # r => Item("refresh", p) \notin {holder.op}
      BY <2>4 DEF Item
    <3>5. \A p \in Pairs : p # r /\ Works(p) => Works(p)'
      BY <1>3, <3>1, <3>4
    <3>6. \A s \in SignIns : Living(s)' => Living(s)
      BY <3>1, LivingShrinks
    <3>7. ASSUME NEW s \in SignIns, s = origin[x], Living(s)' PROVE Works(x)'
      <4>1. Living(s) /\ x # r /\ x # 0
        BY <3>2, <3>6, <3>7, PairsAreNat
      <4>2. Works(x)
        BY <1>1, <3>7, <4>1 DEF Survives
      <4> QED BY <3>5, <4>1, <4>2
    <3>8. ASSUME NEW s \in SignIns, Living(s)', \E p \in given : origin[p] = s
          PROVE  (\E p \in given : origin[p] = s /\ Works(p)') \/ origin[x] = s
      <4> SUFFICES ASSUME origin[x] # s PROVE \E p \in given : origin[p] = s /\ Works(p)'
        OBVIOUS
      <4>1. PICK p \in given : origin[p] = s /\ Works(p)
        BY <1>1, <3>6, <3>8 DEF Survives
      <4>2. p # r
        BY <3>3, <4>1
      <4> QED BY <1>2, <3>5, <4>1, <4>2
    <3> HIDE DEF r
    <3>9. (holder.pair # 0 /\ Living(origin[holder.pair]) => Works(holder.pair))'
      <4>1. PICK s \in SignIns : s = origin[x]
        BY <3>3
      <4>2. Living(s)' => Works(x)'
        BY <3>7, <4>1
      <4> QED BY <3>1, <4>1, <4>2 DEF Living, Works
    <3>10. (\A s \in SignIns : Living(s) /\ (\E p \in given : origin[p] = s)
             => \/ \E p \in given : origin[p] = s /\ Works(p)
                \/ holder.step = "retire" /\ origin[holder.pair] = s)'
      BY <3>1, <3>8
    <3> QED BY <3>9, <3>10 DEF Survives
  <2> QED BY <1>17, <1>18, <2>1, <2>2, <2>3, <2>4, WriteDoneIs
<1>19. ASSUME NEW cancelled \in BOOLEAN, Fails(cancelled) PROVE Survives'
  <2>1. Releases(TakenBack) /\ cut \subseteq cut'
    BY <1>19, FailsIs, HistoryNext
  <2>2. \A p \in given : Item("refresh", p) \notin TakenBack
    <3>1. CASE TakenBack \cap Tokens = {}
      BY <1>2, <3>1, RefreshItems
    <3>2. CASE TakenBack \cap Tokens # {}
      <4>1. TakenBack = PairItems(holder.pair) /\ holder.pair \in Pairs /\ holder.pair \notin given
        BY <1>1, <3>2, TakenBackIs, PairsAreNat DEF LockShape
      <4> QED BY <1>2, <4>1, RefreshItems, PairItemsAre
    <3> QED BY <3>1, <3>2
  <2>3. CASE holder.step # "retire" /\ given' = given
    BY <1>16, <2>1, <2>2, <2>3
  <2>4. CASE holder.step = "retire" /\ GivesPair
    BY <1>17, <2>1, <2>4, TakenBackIs
  <2>5. CASE holder.step = "retire" /\ given' = given /\ cut' = cut \cup {origin[holder.pair]}
    <3>1. holder' = NoHolder /\ UNCHANGED <<origin, quit, ended>> /\ mem' = Without(mem, {})
      BY <2>1, <2>5, TakenBackIs DEF Releases
    <3>2. \A s \in SignIns : Living(s)' => Living(s) /\ s # origin[holder.pair]
      BY <2>5, <3>1, LivingShrinks DEF Living
    <3>3. \A p \in given : Works(p) => Works(p)'
      BY <1>2, <1>3, <3>1
    <3>4. (\A s \in SignIns : Living(s) /\ (\E p \in given : origin[p] = s)
             => \E p \in given : origin[p] = s /\ Works(p))'
      BY <1>1, <2>5, <3>1, <3>2, <3>3 DEF Survives
    <3>5. holder'.pair = 0
      BY <3>1, NoHolderIs
    <3> QED BY <3>4, <3>5 DEF Survives
  <2>6. holder.step = "retire" => holder.op[1] = "refresh"
    BY <1>1 DEF LockShape
  <2> QED BY <1>19, <2>3, <2>4, <2>5, <2>6, FailsIs
\* After a restart a token of the living is as it was.
<1>20. ASSUME NEW st, NEW gone, Reloads(st, gone), ended \cup cut \subseteq ended' \cup cut',
              \A s \in SignIns : Living(s)' /\ (\E p \in given : origin[p] = s)
                => \E p \in given : origin[p] = s /\ st[Item("refresh", p)] # "none"
       PROVE  Survives'
  <2>1. UNCHANGED <<origin, given, quit>> /\ holder'.pair = 0
    BY <1>20, NoHolderIs DEF Reloads, tokenVars
  <2>2. ASSUME NEW s \in SignIns, Living(s)', NEW p \in given, origin[p] = s,
               st[Item("refresh", p)] # "none"
        PROVE  Works(p)'
    <3>1. Item("refresh", p) \notin quit'
      BY <1>2, <1>4, <2>1, <2>2
    <3>2. Item("refresh", p) \notin gone
      BY <1>1, <1>2, <1>20, <2>1, <3>1, RefreshItems DEF Reloads, FlowShape
    <3> QED BY <1>2, <1>20, <2>2, <3>2, RefreshItems, WithoutIs DEF Reloads, Works
  <2>3. (\A s \in SignIns : Living(s) /\ (\E p \in given : origin[p] = s)
           => \E p \in given : origin[p] = s /\ Works(p))'
    BY <1>20, <2>1, <2>2
  <2> QED BY <2>1, <2>3 DEF Survives
<1>21. CASE Restarts
  <2>1. PICK gone : Reloads(stored, gone)
    BY <1>21, RestartsIs
  <2>2. stored = mem /\ holder.step # "retire" /\ UNCHANGED <<ended, cut>>
    BY <1>21, RestartsIs
  <2>3. \A s \in SignIns : Living(s)' => Living(s)
    BY <2>1, <2>2, LivingShrinks DEF Reloads, tokenVars
  <2> QED BY <1>1, <1>20, <2>1, <2>2, <2>3 DEF Survives, Works
<1>22. CASE Crash
  <2>1. PICK st, gone : Reloads(st, gone) /\ \A k \in Items \ write.left : st[k] = stored[k]
    BY <1>22, CrashIs
  <2>2. ended \cup cut \subseteq ended' \cup cut' /\ UNCHANGED <<origin, quit>>
    BY <1>22, <2>1, CrashIs DEF Reloads, tokenVars
  <2>3. \A s \in SignIns : Living(s)' => Living(s)
    BY <2>2, LivingShrinks
  <2>4. ASSUME NEW s \in SignIns, Living(s)', \E p \in given : origin[p] = s
        PROVE  \E p \in given : origin[p] = s /\ st[Item("refresh", p)] # "none"
    <3>1. s \notin cut'
      BY <2>4 DEF Living
    <3>2. ~(holder.step = "retire" /\ origin[holder.pair] = s)
      BY <1>1, <1>22, <3>1, CrashIs, OperationsDiffer DEF LockShape
    <3>3. PICK p \in given : origin[p] = s /\ Works(p)
      BY <1>1, <2>3, <2>4, <3>2 DEF Survives
    <3> DEFINE k == Item("refresh", p)
    <3>4. k \in Tokens /\ k \in Items /\ k[2] = p
      BY <1>2, <3>3, RefreshItems
    <3>5. k \notin unsaved \cup write.keys
      BY <1>22, <3>1, <3>3, <3>4, CrashIs
    <3>6. stored[k] = mem[k] /\ k \notin write.left
      BY <1>1, <3>4, <3>5 DEF IInv, StoreFollowsMemory, StoreShape
    <3> QED BY <2>1, <3>3, <3>4, <3>6 DEF Works
  <2> QED BY <1>20, <2>1, <2>2, <2>4
<1> QED BY <1>5, <1>8, <1>9, <1>10, <1>11, <1>13, <1>14, <1>15, <1>18, <1>19, <1>21, <1>22
        DEF StepKind

-----------------------------------------------------------------------------
(* Who waits for the lock                                                  *)

StillWaits == \A s \in SignIns : stage[s] = "waiting" => stage'[s] = "waiting"

\* One more waits behind the others.
Joins(op) ==
  /\ queue' = Append(queue, op) /\ op \in Requests \cup {Maintain}
  /\ minted' = minted /\ given' = given /\ StillWaits
  /\ op[1] \in {"exchange", "refresh"} => RoomForAPair
  /\ op[1] = "refresh" => op[2] \in given
  /\ op[1] = "approve" => stage[op[2]] = "consent" /\ stage'[op[2]] = "waiting"

\* What becomes of the queue, and of where sign-ins and registrations are.
Queues ==
  \/ queue' = queue /\ (queue = <<>> \/ (minted' = minted /\ StillWaits))
  \/ queue' = <<>>
  \/ \E op : Joins(op)
  \/ Resume
  \/ \E i \in DOMAIN queue : CancelWaiting(i)

FlowsTyped == reg' \in [Clients -> Regs] /\ stage' \in [SignIns -> Stages]

\* What a request that gets the lock changes.
LEMMA StartChanges ==
  ASSUME IInv, NEW op \in Requests \cup {Maintain}, Start(op)
  PROVE  /\ FlowsTyped /\ given' = given
         /\ minted' = minted \/ (op[1] \in {"exchange", "refresh"} /\ minted' = minted + 1)
         /\ \A s \in SignIns : stage[s] = "waiting"
              => stage'[s] = "waiting" \/ op = Item("approve", s)
<1>1. reg \in [Clients -> Regs] /\ stage \in [SignIns -> Stages]
  BY DEF IInv, FlowShape
<1>2. CASE op[1] = "register"
  BY <1>1, <1>2, OperationsDiffer
     DEF Start, StartRegister, FlowsTyped, Regs, tokenVars
<1>3. CASE op[1] = "approve"
  <2>1. op[2] \in SignIns /\ op = Item("approve", op[2])
    BY <1>3, WhoAsks, OperationsDiffer
  <2>2. stage' = [stage EXCEPT ![op[2]] = "saving"] /\ reg' = reg /\ UNCHANGED tokenVars
    BY <1>3, OperationsDiffer DEF Start, StartApprove
  <2>3. FlowsTyped
    BY <1>1, <2>1, <2>2 DEF FlowsTyped, Stages
  <2> QED BY <1>1, <2>1, <2>2, <2>3 DEF tokenVars
<1>4. CASE op[1] = "exchange"
  <2>1. op[2] \in SignIns
    BY <1>4, WhoAsks, OperationsDiffer
  <2>2. StartExchange(op[2])
    BY <1>4, OperationsDiffer DEF Start
  <2>3. CASE CodeThere(op[2]) /\ stage' = [stage EXCEPT ![op[2]] = "done"]
              /\ Issue(op[2], Item("exchange", op[2]), Item("exchange", op[2]))
    <3>1. reg' = reg /\ given' = given /\ minted' = minted + 1
      BY <2>3 DEF Issue
    <3>2. FlowsTyped
      BY <1>1, <2>1, <2>3, <3>1 DEF FlowsTyped, Stages
    <3> QED BY <1>1, <1>4, <2>1, <2>3, <3>1, <3>2 DEF CodeThere
  <2>4. CASE UNCHANGED <<flowVars, tokenVars>>
    BY <1>1, <2>4 DEF FlowsTyped, flowVars, tokenVars
  <2> QED BY <2>2, <2>3, <2>4 DEF StartExchange
<1>5. CASE op[1] = "refresh"
  <2>1. StartRefresh(op[2])
    BY <1>5, OperationsDiffer DEF Start
  <2>2. CASE Issue(origin[op[2]], Item("refresh", op[2]), Item("refresh", op[2])) /\ UNCHANGED stage
    BY <1>1, <1>5, <2>2 DEF Issue, FlowsTyped
  <2>3. CASE UNCHANGED <<flowVars, tokenVars>>
    BY <1>1, <2>3 DEF FlowsTyped, flowVars, tokenVars
  <2> QED BY <2>1, <2>2, <2>3 DEF StartRefresh
<1>6. CASE op = Maintain
  BY <1>1, <1>6, OperationsDiffer DEF Start, StartSaving, FlowsTyped, flowVars, tokenVars
<1> QED BY <1>2, <1>3, <1>4, <1>5, <1>6 DEF Start

LEMMA QueuesHold == IInv /\ [Next]_vars => Queues /\ FlowsTyped
<1> SUFFICES ASSUME IInv, [Next]_vars PROVE Queues /\ FlowsTyped
  OBVIOUS
<1>1. reg \in [Clients -> Regs] /\ stage \in [SignIns -> Stages] /\ LockShape
  BY DEF IInv, FlowShape
<1>2. ASSUME NEW op \in Requests \cup {Maintain}, AsksNow(op) PROVE Queues /\ FlowsTyped
  BY <1>2, StartChanges DEF AsksNow, Queues
<1>3. ASSUME UNCHANGED <<queue, minted, reg, stage>> PROVE Queues /\ FlowsTyped
  BY <1>1, <1>3 DEF Queues, FlowsTyped, StillWaits
<1>4. /\ \A c \in Clients : Item("register", c) \in Requests
      /\ \A s \in SignIns : Item("approve", s) \in Requests /\ Item("exchange", s) \in Requests
      /\ \A p \in Pairs : Item("refresh", p) \in Requests
      /\ \A kind, x : Item(kind, x)[1] = kind /\ Item(kind, x)[2] = x
  BY DEF Requests, Item
<1>5. ASSUME NEW c \in Clients, Register(c) PROVE Queues /\ FlowsTyped
  <2>1. CASE AsksNow(Item("register", c))
    BY <1>2, <1>4, <2>1
  <2>2. CASE Waits(Item("register", c)) /\ reg' = [reg EXCEPT ![c] = "waiting"] /\ UNCHANGED stage
    <3>1. Joins(Item("register", c))
      BY <1>4, <2>2 DEF Waits, Joins, StillWaits, tokenVars
    <3> QED BY <1>1, <2>2, <3>1 DEF Queues, FlowsTyped, Regs
  <2> QED BY <1>5, <2>1, <2>2 DEF Register
<1>6. ASSUME NEW s \in SignIns, NEW from, NEW to \in Stages, Moves(s, from, to), from # "waiting"
      PROVE  Queues /\ FlowsTyped
  <2>1. FlowsTyped /\ StillWaits /\ UNCHANGED <<queue, minted>>
    BY <1>1, <1>6 DEF Moves, FlowsTyped, StillWaits, lockVars, tokenVars
  <2> QED BY <2>1 DEF Queues
<1>7. ASSUME NEW s \in SignIns, Authorize(s) \/ CallsBack(s) \/ GoogleAnswers(s) \/ Drops(s)
      PROVE  Queues /\ FlowsTyped
  BY <1>6, <1>7 DEF Authorize, CallsBack, GoogleAnswers, Drops, Stages
<1>8. ASSUME NEW s \in SignIns, Approve(s) PROVE Queues /\ FlowsTyped
  <2>1. CASE AsksNow(Item("approve", s))
    BY <1>2, <1>4, <2>1
  <2>2. CASE Waits(Item("approve", s)) /\ stage' = [stage EXCEPT ![s] = "waiting"] /\ UNCHANGED reg
    <3>1. StillWaits /\ FlowsTyped /\ stage'[s] = "waiting" /\ stage[s] = "consent"
      BY <1>1, <1>8, <2>2 DEF StillWaits, FlowsTyped, Stages, Approve
    <3>2. Joins(Item("approve", s))
      BY <1>4, <2>2, <3>1 DEF Waits, Joins, tokenVars
    <3> QED BY <3>1, <3>2 DEF Queues
  <2> QED BY <1>8, <2>1, <2>2 DEF Approve
<1>9. ASSUME NEW s \in SignIns, Exchange(s) PROVE Queues /\ FlowsTyped
  <2>1. CASE Waits(Item("exchange", s)) /\ UNCHANGED flowVars
    <3>1. Joins(Item("exchange", s))
      BY <1>4, <1>9, <2>1 DEF Waits, Joins, StillWaits, tokenVars, flowVars, Exchange
    <3> QED BY <1>1, <2>1, <3>1 DEF Queues, FlowsTyped, flowVars
  <2> QED BY <1>2, <1>4, <1>9, <2>1 DEF Exchange
<1>10. ASSUME NEW p \in Pairs, Refresh(p) PROVE Queues /\ FlowsTyped
  <2>1. CASE Waits(Item("refresh", p)) /\ UNCHANGED flowVars
    <3>1. Joins(Item("refresh", p))
      BY <1>4, <1>10, <2>1 DEF Waits, Joins, StillWaits, tokenVars, flowVars, Refresh
    <3> QED BY <1>1, <2>1, <3>1 DEF Queues, FlowsTyped, flowVars
  <2> QED BY <1>2, <1>4, <1>10, <2>1 DEF Refresh
<1>11. CASE Revoke
  <2>1. stage' = [s \in SignIns |-> IF stage[s] \in {"consent", "code"} THEN "done" ELSE stage[s]]
        /\ UNCHANGED <<queue, minted, reg>>
    BY <1>11 DEF Revoke, Forget, lockVars, tokenVars
  <2>2. FlowsTyped /\ StillWaits
    BY <1>1, <2>1 DEF FlowsTyped, StillWaits, Stages
  <2> QED BY <2>1, <2>2 DEF Queues
<1>12. ASSUME NEW k \in Tokens, GiveBack(k) \/ Lapse(k) \/ LoadsExpired(k)
       PROVE  Queues /\ FlowsTyped
  BY <1>3, <1>12 DEF GiveBack, Lapse, LoadsExpired, Forget, lockVars, flowVars, tokenVars
<1>13. CASE Resume
  <2>1. queue \in Seq(Requests \cup {Maintain}) /\ queue # <<>>
    BY <1>13 DEF IInv, FlowShape, Resume
  <2>2. Head(queue) \in Requests \cup {Maintain}
    BY <2>1
  <2> QED BY <1>13, <2>2, StartChanges DEF Resume, Queues
<1>14. ASSUME NEW k \in Items, Lands(k) PROVE Queues /\ FlowsTyped
  BY <1>3, <1>14 DEF Lands, lockVars, flowVars, tokenVars
\* The holder's registration or consent goes on.
<1>15. ASSUME UNCHANGED <<queue, minted, reg>>, NEW s \in SignIns, stage[s] = "saving", NEW to \in Stages,
              stage' = [stage EXCEPT ![s] = to]
       PROVE  Queues /\ FlowsTyped
  <2>1. StillWaits /\ FlowsTyped
    BY <1>1, <1>15 DEF StillWaits, FlowsTyped
  <2> QED BY <1>15, <2>1 DEF Queues
<1>16. ASSUME UNCHANGED <<queue, minted, stage>>, NEW to \in Regs, NEW c, reg' = [reg EXCEPT ![c] = to]
       PROVE  Queues /\ FlowsTyped
  BY <1>1, <1>16 DEF Queues, StillWaits, FlowsTyped
<1>17. \A s \in SignIns : holder.op = Item("approve", s) => stage[s] = "saving"
  BY <1>1 DEF LockShape
<1>18. ASSUME NEW s \in SignIns, Consented(s)
       PROVE  reg' = reg /\ \E to \in Stages : stage' = [stage EXCEPT ![s] = to]
  BY <1>18 DEF Consented, Stages
<1>19. CASE WriteDone
  <2>1. UNCHANGED <<queue, minted>>
    BY <1>19 DEF WriteDone, Registered, Ends, Retires, tokenVars
  <2>2. "known" \in Regs
    BY DEF Regs
  <2> QED BY <1>3, <1>15, <1>16, <1>17, <1>18, <1>19, <2>1, <2>2, WriteDoneIs DEF GivesPair, tokenVars
<1>20. CASE Restart \/ Crash
  <2>1. queue' = <<>> /\ \E st \in [Items -> Values] : Reload(st)
    <3>1. CASE Restart
      BY <3>1 DEF Restart, Reload, IInv, StoreShape
    <3>2. CASE Crash
      BY <3>2, CrashIs DEF Crash, Reload, Reloads, IInv, StoreShape, Put, Next1
    <3> QED BY <1>20, <3>1, <3>2
  <2>2. FlowsTyped
    BY <1>1, <2>1 DEF Reload, FlowsTyped, Regs, Stages
  <2> QED BY <2>1, <2>2 DEF Queues
<1>21. ASSUME NEW cancelled \in BOOLEAN, Fails(cancelled) PROVE Queues /\ FlowsTyped
  <2>1. UNCHANGED <<queue, minted>>
    BY <1>21 DEF Fails, Ends
  <2>2. "refused" \in Regs /\ "done" \in Stages
    BY DEF Regs, Stages
  <2> QED BY <1>3, <1>15, <1>16, <1>17, <1>18, <1>21, <2>1, <2>2, FailsIs DEF GivesPair
<1>22. ASSUME NEW i \in DOMAIN queue, CancelWaiting(i) PROVE Queues /\ FlowsTyped
  <2>1. FlowsTyped
    BY <1>1, <1>22 DEF CancelWaiting, FlowsTyped, Regs, Stages
  <2> QED BY <1>22, <2>1 DEF Queues
<1>23. CASE MaintainAsks
  <2>1. ASSUME queue' = Append(queue, Maintain), UNCHANGED <<flowVars, tokenVars>>
        PROVE  Queues /\ FlowsTyped
    <3>1. Joins(Maintain)
      BY <2>1, OperationsDiffer DEF Joins, StillWaits, flowVars, tokenVars
    <3> QED BY <1>1, <2>1, <3>1 DEF Queues, FlowsTyped, flowVars
  <2> QED BY <1>2, <1>23, <2>1 DEF MaintainAsks
<1>24. CASE RetryTimer \/ CleanUpDue
  BY <1>3, <1>24 DEF RetryTimer, CleanUpDue, lockVars, flowVars, tokenVars
<1>25. CASE Shutdown
  <2>1. CASE StartSaving(Flush) /\ UNCHANGED queue
    BY <1>3, <2>1 DEF StartSaving, flowVars, tokenVars
  <2>2. CASE Reload(stored)
    <3>1. queue' = <<>> /\ FlowsTyped
      BY <1>1, <2>2 DEF Reload, FlowsTyped, Regs, Stages
    <3> QED BY <3>1 DEF Queues
  <2> QED BY <1>25, <2>1, <2>2 DEF Shutdown
<1>26. CASE UNCHANGED vars
  BY <1>3, <1>26 DEF vars, lockVars, flowVars, tokenVars
<1> QED BY <1>5, <1>7, <1>8, <1>9, <1>10, <1>11, <1>12, <1>13, <1>14, <1>19, <1>20, <1>21,
           <1>22, <1>23, <1>24, <1>25, <1>26 DEF Next

\* A queue without the one at i.
WithoutAt(q, i) == [j \in 1..(Len(q) - 1) |-> q[IF j < i THEN j ELSE j + 1]]

LEMMA MintingWithout ==
  ASSUME NEW q \in Seq(Requests \cup {Maintain}), NEW i \in DOMAIN q
  PROVE  /\ WithoutAt(q, i) \in Seq(Requests \cup {Maintain})
         /\ \A j \in DOMAIN WithoutAt(q, i) :
              LET k == IF j < i THEN j ELSE j + 1 IN
              k \in DOMAIN q /\ k # i /\ WithoutAt(q, i)[j] = q[k]
         /\ Cardinality(Minting(WithoutAt(q, i)))
              = Cardinality(Minting(q)) - (IF i \in Minting(q) THEN 1 ELSE 0)
<1> DEFINE r == WithoutAt(q, i)
           at(j) == IF j < i THEN j ELSE j + 1
           f == [j \in Minting(r) |-> at(j)]
<1>1. Len(q) \in Nat /\ i \in 1..Len(q) /\ DOMAIN q = 1..Len(q) /\ DOMAIN r = 1..(Len(q) - 1)
  BY DEF WithoutAt
<1>2. \A j \in DOMAIN r : at(j) \in DOMAIN q /\ at(j) # i /\ r[j] = q[at(j)]
  BY <1>1 DEF WithoutAt
<1>3. r \in Seq(Requests \cup {Maintain})
  <2>1. r \in [1..(Len(q) - 1) -> Requests \cup {Maintain}] /\ Len(q) - 1 \in Nat
    BY <1>1, <1>2 DEF WithoutAt
  <2> QED BY <2>1
<1>4. \A j \in DOMAIN r : j \in Minting(r) <=> at(j) \in Minting(q)
  BY <1>2 DEF Minting
<1>5. Minting(r) \subseteq DOMAIN r /\ Minting(q) \subseteq DOMAIN q
  BY DEF Minting
<1>6. \A k \in Minting(q) \ {i} : \E j \in Minting(r) : at(j) = k
  <2> SUFFICES ASSUME NEW k \in Minting(q) \ {i} PROVE \E j \in Minting(r) : at(j) = k
    OBVIOUS
  <2>1. CASE k < i
    <3>1. k \in DOMAIN r /\ at(k) = k
      BY <1>1, <1>5, <2>1
    <3> QED BY <1>4, <3>1
  <2>2. CASE ~(k < i)
    <3>1. k - 1 \in DOMAIN r /\ at(k - 1) = k
      BY <1>1, <1>5, <2>2
    <3> QED BY <1>4, <3>1
  <2> QED BY <2>1, <2>2
<1>7. \A j, k \in Minting(r) : at(j) = at(k) => j = k
  BY <1>1, <1>5
<1>8. f \in [Minting(r) -> Minting(q) \ {i}]
  BY <1>2, <1>4, <1>5
<1>9. f \in Bijection(Minting(r), Minting(q) \ {i})
  <2>1. \A a, b \in Minting(r) : f[a] = f[b] => a = b
    BY <1>7
  <2>2. \A k \in Minting(q) \ {i} : \E j \in Minting(r) : f[j] = k
    BY <1>6
  <2> HIDE DEF f
  <2> QED BY <1>8, <2>1, <2>2, Fun_IsBij
<1>10. IsFiniteSet(Minting(r)) /\ IsFiniteSet(Minting(q)) /\ Cardinality(Minting(q)) \in Nat
  BY <1>3, MintingFinite
<1>11. Cardinality(Minting(q) \ {i}) = Cardinality(Minting(r))
  BY <1>9, <1>10, FS_Bijection DEF ExistsBijection
<1>12. Cardinality(Minting(q) \ {i})
         = IF i \in Minting(q) THEN Cardinality(Minting(q)) - 1 ELSE Cardinality(Minting(q))
  BY <1>10, FS_RemoveElement
<1> QED BY <1>2, <1>3, <1>10, <1>11, <1>12

LEMMA TailIs ==
  ASSUME NEW q \in Seq(Requests \cup {Maintain}), q # <<>>
  PROVE  Tail(q) = WithoutAt(q, 1) /\ 1 \in DOMAIN q /\ Head(q) = q[1]
<1>1. Len(q) \in Nat /\ Len(q) > 0 /\ 1 \in DOMAIN q /\ Head(q) = q[1]
  OBVIOUS
<1>2. /\ Tail(q) \in Seq(Requests \cup {Maintain}) /\ Len(Tail(q)) = Len(q) - 1
      /\ \A j \in 1..(Len(q) - 1) : Tail(q)[j] = q[j + 1]
  BY <1>1
<1>3. /\ WithoutAt(q, 1) \in Seq(Requests \cup {Maintain}) /\ Len(WithoutAt(q, 1)) = Len(q) - 1
      /\ \A j \in 1..(Len(q) - 1) : WithoutAt(q, 1)[j] = q[j + 1]
  <2>1. WithoutAt(q, 1) \in Seq(Requests \cup {Maintain})
    BY <1>1, MintingWithout
  <2> QED BY <1>1, <2>1 DEF WithoutAt
<1>4. Tail(q) = WithoutAt(q, 1)
  BY <1>2, <1>3, SeqEqual
<1> QED BY <1>1, <1>4

LEMMA TypesNext ==
  ASSUME IInv, StepKind
  PROVE  quit' \subseteq Tokens /\ lapsed' \subseteq quit' /\ ended' \subseteq SignIns
<1>1. quit \subseteq Tokens /\ lapsed \subseteq quit /\ ended \subseteq SignIns
  BY DEF IInv, FlowShape
<1>2. CASE Rests
  BY <1>1, <1>2 DEF Rests, tokenVars
<1>3. CASE \E c \in Clients : Registers(c)
  BY <1>1, <1>3, RegistersIs DEF tokenVars
<1>4. CASE \E s \in SignIns : Approves(s)
  BY <1>1, <1>4, ApprovesIs DEF tokenVars
<1>5. CASE \E s \in SignIns, op \in Requests : Mints(s, op)
  BY <1>1, <1>5, MintsIs
<1>6. CASE \E op \in {Maintain, Flush} : Saves(op)
  BY <1>1, <1>6, SavesIs DEF tokenVars
<1>7. CASE Revoke
  BY <1>1, <1>7 DEF Revoke, tokenVars
<1>8. CASE \E k \in Tokens : GiveBack(k) \/ Lapse(k) \/ LoadsExpired(k)
  BY <1>1, <1>8, ForgetsAre DEF Forgets
<1>9. CASE \E k \in Items : Lands(k)
  BY <1>1, <1>9 DEF Lands, tokenVars, boundVars
<1>10. CASE WriteDone
  BY <1>1, <1>10, WriteDoneIs DEF Releases, tokenVars
<1>11. CASE \E cancelled \in BOOLEAN : Fails(cancelled)
  BY <1>1, <1>11, FailsIs DEF Releases
<1>12. CASE Restarts
  BY <1>1, <1>12 DEF Restarts, tokenVars, boundVars
<1>13. CASE Crash
  BY <1>1, <1>13, CrashIs DEF Crash, tokenVars
<1> QED BY <1>2, <1>3, <1>4, <1>5, <1>6, <1>7, <1>8, <1>9, <1>10, <1>11, <1>12, <1>13 DEF StepKind

LEMMA FlowShapeNext == IInv /\ StepKind /\ Queues /\ FlowsTyped => FlowShape'
<1> SUFFICES ASSUME IInv, StepKind, Queues, FlowsTyped PROVE FlowShape'
  OBVIOUS
<1>1. FlowShape
  BY DEF IInv
<1>2. queue \in Seq(Requests \cup {Maintain})
  BY <1>1 DEF FlowShape
<1>3. queue' \in Seq(Requests \cup {Maintain})
  <2>1. ASSUME NEW op, Joins(op) PROVE queue' \in Seq(Requests \cup {Maintain})
    BY <1>2, <2>1 DEF Joins
  <2>2. CASE Resume
    BY <1>2, <2>2 DEF Resume
  <2>3. ASSUME NEW i \in DOMAIN queue, CancelWaiting(i) PROVE queue' \in Seq(Requests \cup {Maintain})
    <3>1. queue' = WithoutAt(queue, i)
      BY <2>3 DEF CancelWaiting, WithoutAt
    <3> QED BY <1>2, <2>3, <3>1, MintingWithout
  <2>4. CASE queue' = <<>>
    BY <2>4
  <2> QED BY <1>2, <2>1, <2>2, <2>3, <2>4 DEF Queues
<1>4. /\ minted' \in 0..MaxPairs /\ given \subseteq 1..minted'
      /\ origin' \in [Pairs -> SignIns \cup {NoSignIn}]
      /\ parent' \in [Pairs -> Requests \cup {Nobody}]
  <2>1. CASE UNCHANGED <<minted, origin, parent>>
    BY <1>1, <2>1 DEF FlowShape
  <2>2. ASSUME NEW s \in SignIns, NEW op \in Requests, Mints(s, op)
        PROVE  /\ minted' \in 0..MaxPairs /\ given \subseteq 1..minted'
               /\ origin' \in [Pairs -> SignIns \cup {NoSignIn}]
               /\ parent' \in [Pairs -> Requests \cup {Nobody}]
    <3>1. /\ minted' = minted + 1 /\ minted \in Nat /\ minted < MaxPairs /\ MaxPairs \in Nat
          /\ origin' = [origin EXCEPT ![minted + 1] = s]
          /\ parent' = [parent EXCEPT ![minted + 1] = op]
      BY <2>2, MintsIs, PairsAreNat DEF Mints
    <3>2. given \subseteq 1..minted'
      BY <1>1, <3>1 DEF FlowShape
    <3>3. minted' \in 0..MaxPairs
      BY <3>1
    <3>4. origin' \in [Pairs -> SignIns \cup {NoSignIn}]
      BY <1>1, <3>1 DEF FlowShape
    <3>5. parent' \in [Pairs -> Requests \cup {Nobody}]
      BY <1>1, <3>1 DEF FlowShape
    <3> QED BY <3>2, <3>3, <3>4, <3>5
  <2> QED BY <2>1, <2>2, HistoryNext
<1>5. given' \subseteq 1..minted'
  <2>1. CASE given' = given
    BY <1>4, <2>1
  <2>2. CASE GivesPair
    <3>1. holder.pair \in 1..minted /\ ~Free
      BY <2>2, PairsAreNat DEF GivesPair, IInv, LockShape, StoreShape, FlowShape, Pairs, Free, NoHolder, Holding
    <3>2. minted' = minted
      BY <3>1, HistoryNext DEF Mints
    <3> QED BY <1>4, <2>2, <3>1, <3>2 DEF GivesPair
  <2> QED BY <2>1, <2>2, HistoryNext
<1> QED BY <1>3, <1>4, <1>5, TypesNext DEF FlowShape, FlowsTyped

LEMMA QueueHasRoomNext == IInv /\ Queues /\ FlowShape' => QueueHasRoom'
<1> SUFFICES ASSUME IInv, Queues, FlowShape' PROVE QueueHasRoom'
  OBVIOUS
<1>1. /\ queue \in Seq(Requests \cup {Maintain}) /\ queue' \in Seq(Requests \cup {Maintain})
      /\ minted \in Nat /\ minted' \in Nat /\ minted' <= MaxPairs /\ MaxPairs \in Nat
      /\ minted + Cardinality(Minting(queue)) <= MaxPairs
  BY PairsAreNat DEF IInv, FlowShape, QueueHasRoom
<1>2. /\ IsFiniteSet(Minting(queue)) /\ Cardinality(Minting(queue)) \in Nat
      /\ Cardinality(Minting(<<>>)) = 0
  BY <1>1, MintingFinite, FS_EmptySet DEF Minting
<1>3. CASE queue' = <<>>
  BY <1>1, <1>2, <1>3 DEF QueueHasRoom
<1>4. CASE queue' = queue /\ minted' = minted
  BY <1>1, <1>4 DEF QueueHasRoom
<1>5. ASSUME NEW op, Joins(op) PROVE QueueHasRoom'
  <2> DEFINE n == Len(queue) + 1
  <2>1. op[1] \notin {"exchange", "refresh"} => Minting(queue') = Minting(queue)
    BY <1>1, <1>5 DEF Joins, Minting
  <2>2. op[1] \in {"exchange", "refresh"} => Minting(queue') = Minting(queue) \cup {n}
    BY <1>1, <1>5 DEF Joins, Minting
  <2>3. Cardinality(Minting(queue) \cup {n}) <= Cardinality(Minting(queue)) + 1
        /\ Cardinality(Minting(queue) \cup {n}) \in Nat
    <3> HIDE DEF n
    <3>1. Cardinality(Minting(queue) \cup {n})
            \in {Cardinality(Minting(queue)), Cardinality(Minting(queue)) + 1}
      BY <1>2, FS_AddElement
    <3> QED BY <1>2, <3>1
  <2>4. op[1] \in {"exchange", "refresh"} => minted + Cardinality(Minting(queue)) < MaxPairs
    BY <1>5 DEF Joins, RoomForAPair, Minting
  <2> HIDE DEF n
  <2>5. minted' = minted
    BY <1>5 DEF Joins
  <2>6. CASE op[1] \in {"exchange", "refresh"}
    <3> DEFINE a == Cardinality(Minting(queue))
               b == Cardinality(Minting(queue) \cup {n})
    <3>2. a \in Nat /\ b \in Nat /\ b <= a + 1 /\ minted + a < MaxPairs
      BY <1>2, <2>3, <2>4, <2>6
    <3>3. Cardinality(Minting(queue')) = b
      BY <2>2, <2>6
    <3> HIDE DEF a, b
    <3>1. minted + Cardinality(Minting(queue')) <= MaxPairs
      BY <1>1, <3>2, <3>3
    <3> QED BY <2>5, <3>1 DEF QueueHasRoom
  <2>7. CASE op[1] \notin {"exchange", "refresh"}
    BY <1>1, <2>1, <2>5, <2>7 DEF QueueHasRoom
  <2> QED BY <2>6, <2>7
<1>6. CASE Resume
  <2>1. queue # <<>> /\ Start(Head(queue)) /\ queue' = Tail(queue)
    BY <1>6 DEF Resume
  <2>2. 1 \in DOMAIN queue /\ Head(queue) = queue[1] /\ queue' = WithoutAt(queue, 1)
        /\ Head(queue) \in Requests \cup {Maintain}
    BY <1>1, <2>1, TailIs
  <2>3. minted' = minted \/ (1 \in Minting(queue) /\ minted' = minted + 1)
    BY <2>1, <2>2, StartChanges DEF Minting
  <2>4. Cardinality(Minting(queue'))
          = Cardinality(Minting(queue)) - (IF 1 \in Minting(queue) THEN 1 ELSE 0)
    BY <1>1, <2>2, MintingWithout
  <2> QED BY <1>1, <1>2, <2>3, <2>4 DEF QueueHasRoom
<1>7. ASSUME NEW i \in DOMAIN queue, CancelWaiting(i) PROVE QueueHasRoom'
  <2>1. queue' = WithoutAt(queue, i) /\ minted' = minted
    BY <1>7 DEF CancelWaiting, WithoutAt, tokenVars
  <2>2. Cardinality(Minting(queue'))
          = Cardinality(Minting(queue)) - (IF i \in Minting(queue) THEN 1 ELSE 0)
    BY <1>1, <2>1, MintingWithout
  <2> QED BY <1>1, <1>2, <2>1, <2>2 DEF QueueHasRoom
<1> QED BY <1>3, <1>4, <1>5, <1>6, <1>7 DEF Queues

LEMMA QueueTidyNext == IInv /\ StepKind /\ Queues => QueueTidy'
<1> SUFFICES ASSUME IInv, StepKind, Queues PROVE QueueTidy'
  OBVIOUS
<1>1. QueueTidy /\ queue \in Seq(Requests \cup {Maintain})
  BY DEF IInv, FlowShape
<1>2. given \subseteq given'
  BY HistoryNext DEF GivesPair
<1>3. CASE queue' = <<>>
  BY <1>3 DEF QueueTidy
<1>4. CASE queue' = queue /\ StillWaits
  BY <1>1, <1>2, <1>4 DEF QueueTidy, StillWaits
<1>5. ASSUME NEW op, Joins(op) PROVE QueueTidy'
  <2> DEFINE n == Len(queue) + 1
  <2>1. /\ n \in Nat /\ DOMAIN queue' = 1..n /\ DOMAIN queue = 1..(n - 1)
        /\ queue'[n] = op /\ \A i \in DOMAIN queue : queue'[i] = queue[i] /\ i # n
        /\ \A i \in DOMAIN queue' : i = n \/ i \in DOMAIN queue
    BY <1>1, <1>5 DEF Joins
  <2>2. \A s \in SignIns : op = Item("approve", s)
          => stage[s] = "consent" /\ stage'[s] = "waiting" /\ \A i \in DOMAIN queue : queue[i] # op
    <3>1. \A s \in SignIns : op = Item("approve", s) => stage[s] = "consent" /\ stage'[s] = "waiting"
      BY <1>5 DEF Joins, Item
    <3> QED BY <1>1, <3>1 DEF QueueTidy
  <2> HIDE DEF n
  <2>3. \A i \in DOMAIN queue' : queue'[i][1] = "refresh" => queue'[i][2] \in given'
    BY <1>1, <1>2, <1>5, <2>1 DEF QueueTidy, Joins
  <2>4. ASSUME NEW i \in DOMAIN queue', NEW s \in SignIns, queue'[i] = Item("approve", s)
        PROVE  stage'[s] = "waiting" /\ \A j \in DOMAIN queue' : queue'[j] = queue'[i] => j = i
    <3>1. CASE i = n
      BY <2>1, <2>2, <2>4, <3>1
    <3>2. CASE i \in DOMAIN queue
      BY <1>1, <1>5, <2>1, <2>2, <2>4, <3>2 DEF QueueTidy, Joins, StillWaits
    <3> QED BY <2>1, <3>1, <3>2
  <2> QED BY <2>3, <2>4 DEF QueueTidy
\* One leaves the queue, and nothing happens to the consents of the others.
<1>6. ASSUME NEW i \in DOMAIN queue, queue' = WithoutAt(queue, i),
             \A s \in SignIns : stage[s] = "waiting" => stage'[s] = "waiting" \/ queue[i] = Item("approve", s)
      PROVE  QueueTidy'
  <2> DEFINE at(j) == IF j < i THEN j ELSE j + 1
  <2>1. \A j \in DOMAIN queue' : at(j) \in DOMAIN queue /\ at(j) # i /\ queue'[j] = queue[at(j)]
    BY <1>1, <1>6, MintingWithout
  <2>2. DOMAIN queue' \subseteq Nat /\ i \in Nat
    BY <1>1, <1>6 DEF WithoutAt
  <2>3. \A j, k \in DOMAIN queue' : at(j) = at(k) => j = k
    BY <2>2
  <2> HIDE DEF at
  <2>4. \A j \in DOMAIN queue' : queue'[j][1] = "refresh" => queue'[j][2] \in given'
    BY <1>1, <1>2, <2>1 DEF QueueTidy
  <2>5. ASSUME NEW j \in DOMAIN queue', NEW s \in SignIns, queue'[j] = Item("approve", s)
        PROVE  stage'[s] = "waiting" /\ \A k \in DOMAIN queue' : queue'[k] = queue'[j] => k = j
    <3>1. stage[s] = "waiting" /\ queue[i] # Item("approve", s)
      BY <1>1, <2>1, <2>5 DEF QueueTidy
    <3>2. \A k \in DOMAIN queue' : queue'[k] = queue'[j] => at(k) = at(j)
      BY <1>1, <2>1, <2>5 DEF QueueTidy
    <3> QED BY <1>6, <2>3, <3>1, <3>2
  <2> QED BY <2>4, <2>5 DEF QueueTidy
<1>7. CASE Resume
  <2>1. queue # <<>> /\ Start(Head(queue)) /\ queue' = Tail(queue)
    BY <1>7 DEF Resume
  <2>2. 1 \in DOMAIN queue /\ Head(queue) = queue[1] /\ queue' = WithoutAt(queue, 1)
        /\ Head(queue) \in Requests \cup {Maintain}
    BY <1>1, <2>1, TailIs
  <2> QED BY <1>6, <2>1, <2>2, StartChanges
<1>8. ASSUME NEW i \in DOMAIN queue, CancelWaiting(i) PROVE QueueTidy'
  <2>1. queue' = WithoutAt(queue, i)
    BY <1>8 DEF CancelWaiting, WithoutAt
  <2>2. \A s \in SignIns : stage[s] = "waiting" => stage'[s] = "waiting" \/ queue[i] = Item("approve", s)
    BY <1>8 DEF CancelWaiting
  <2> QED BY <1>6, <2>1, <2>2
<1>9. CASE queue' = queue /\ queue = <<>>
  BY <1>3, <1>9
<1> QED BY <1>3, <1>4, <1>5, <1>7, <1>8, <1>9 DEF Queues

-----------------------------------------------------------------------------
(* The invariant holds, and what follows                                   *)

LEMMA IInvInit == Init => IInv
<1> SUFFICES ASSUME Init PROVE IInv
  OBVIOUS
<1>1. /\ mem = [k \in Items |-> "none"] /\ stored = mem /\ unsaved = {} /\ write = NoWrite
      /\ holder = NoHolder /\ queue = <<>> /\ minted = 0 /\ given = {} /\ quit = {} /\ ended = {}
      /\ reg = [c \in Clients |-> "new"] /\ stage = [s \in SignIns |-> "idle"]
      /\ origin = [p \in Pairs |-> NoSignIn] /\ parent = [p \in Pairs |-> Nobody]
  BY DEF Init
<1>2. /\ NoWrite.keys = {} /\ NoWrite.left = {} /\ NoWrite.value \in [{} -> Values]
      /\ NoWrite = [keys |-> NoWrite.keys, left |-> NoWrite.left, value |-> NoWrite.value]
      /\ NoHolder \in [op : Operations, step : {"free", "write", "retire"}, pair : Pairs \cup {0}]
  BY DEF NoWrite, NoHolder, Holding, Operations
<1>3. StoreShape
  BY <1>1, <1>2 DEF StoreShape, Values
<1>4. FlowShape
  BY <1>1, PairsAreNat DEF Init, FlowShape, Regs, Stages
<1>5. QueueHasRoom /\ QueueTidy
  <2>1. Minting(queue) = {} /\ DOMAIN queue = {}
    BY <1>1 DEF Minting
  <2>2. Cardinality(Minting(queue)) = 0
    BY <2>1, FS_EmptySet
  <2>3. QueueHasRoom
    BY <1>1, <2>2, PairsAreNat DEF QueueHasRoom
  <2> QED BY <2>1, <2>3 DEF QueueTidy
<1>6. LockShape
  <2>1. \A s \in SignIns : stage[s] # "saving"
    BY <1>1
  <2>2. /\ holder.op = Nobody /\ holder.step = "free" /\ holder.pair = 0
        /\ Nobody[1] = "nobody" /\ Nobody # Flush /\ \A s \in SignIns : Nobody # Item("approve", s)
    BY <1>1, NoHolderIs DEF Nobody, Flush, Item
  <2> QED BY <1>1, <2>1, <2>2 DEF LockShape
<1>7. Origins
  <2>1. \A kind, x : kind \in {"exchange", "refresh"} => Nobody # Item(kind, x)
    BY DEF Nobody, Item
  <2>2. \A p \in Pairs : ~(p <= minted) /\ parent[p] = Nobody /\ origin[p] = NoSignIn
    BY <1>1, PairsAreNat
  <2> QED BY <2>1, <2>2 DEF Origins
<1>8. StoreFollowsMemory /\ Landed
  BY <1>1, <1>2 DEF StoreFollowsMemory, Landed
<1>9. GrantsSafe
  BY <1>1, NoHolderIs DEF GrantsSafe
<1>10. Spent
  BY <1>1, NoHolderIs DEF Spent, ExchangedOnce
<1>11. Revoked
  BY <1>1 DEF Revoked, RevokedHoldsNothing
<1>12. Survives
  BY <1>1, NoHolderIs DEF Survives
<1> QED BY <1>3, <1>4, <1>5, <1>6, <1>7, <1>8, <1>9, <1>10, <1>11, <1>12 DEF IInv

LEMMA IInvNext == IInv /\ [Next]_vars => IInv'
<1> SUFFICES ASSUME IInv, [Next]_vars PROVE IInv'
  OBVIOUS
<1>1. StepKind /\ Queues /\ FlowsTyped
  BY StepKindHolds, QueuesHold
<1>2. FlowShape'
  BY <1>1, FlowShapeNext
<1> QED BY <1>1, <1>2, StoreShapeNext, QueueHasRoomNext, QueueTidyNext, LockShapeNext, OriginsNext,
           StoreFollowsNext, GrantsSafeNext, SpentNext, RevokedNext, SurvivesNext DEF IInv

\* The parts of the invariant hold together after any requests, failed
\* writes, cancelled requests, crashes and restarts.
THEOREM IInvHolds == Spec => []IInv
  BY IInvInit, IInvNext, PTL DEF Spec

\* Whatever write fails, request is cancelled or process dies: an item that
\* is not marked unsaved is in the store as it is in memory, a client that
\* was given a token or a registration keeps it over a restart, a code or a
\* refresh token buys one pair (but for a crash before its delete is
\* stored), and a sign-in nobody ended has a refresh token that works:
\* _write, _issue_tokens, register_client and exchange_refresh_token.
THEOREM TokensAreSoundHolds == Spec => []TokensAreSound
<1>1. IInv => StoreFollowsMemory
  BY DEF IInv
<1>2. IInv => GrantsAreStored
  BY DEF IInv, GrantsSafe, Safe, GrantsAreStored
<1>3. IInv => ExchangedOnce
  BY DEF IInv, Spent
<1>4. IInv => SignInSurvives
  <2> SUFFICES ASSUME IInv, NEW s \in SignIns \ (ended \cup cut), \E p \in given : origin[p] = s,
                      \A k \in quit : origin[k[2]] # s
               PROVE  \E p \in given \cup {holder.pair} :
                        p # 0 /\ origin[p] = s /\ mem[Item("refresh", p)] # "none"
    BY DEF SignInSurvives
  <2>1. Living(s)
    BY DEF Living
  <2>2. CASE \E p \in given : origin[p] = s /\ Works(p)
    BY <2>2, GivenAre, PairsAreNat DEF Works
  <2>3. CASE holder.step = "retire" /\ origin[holder.pair] = s
    <3>1. holder.pair # 0
      BY <2>3 DEF IInv, LockShape
    <3> QED BY <2>1, <2>3, <3>1 DEF IInv, Survives, Works
  <2> QED BY <2>1, <2>2, <2>3 DEF IInv, Survives
<1>5. IInv => TokensAreSound
  BY <1>1, <1>2, <1>3, <1>4 DEF TokensAreSound
<1> QED BY <1>5, IInvHolds, PTL

\* A sign-in that a revoke of the user ended has no code and no token that
\* works, whatever exchange, renewal, consent, write or restart was under
\* way: revoke_user_tokens.
THEOREM RevokedHoldsNothingHolds == Spec => []RevokedHoldsNothing
<1>1. IInv => RevokedHoldsNothing
  BY DEF IInv, Revoked
<1> QED BY <1>1, IInvHolds, PTL
=============================================================================
