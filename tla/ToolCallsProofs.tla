-------------------------- MODULE ToolCallsProofs ---------------------------
(***************************************************************************)
(* Proofs about ToolCalls, for any number of requests and sessions:        *)
(* what is not safe to repeat runs once, the end of a request is accounted *)
(* for, and a heal never closes the session that replaced a stalled one.   *)
(*                                                                         *)
(* The invariant IInv says what a request owes to the place it has         *)
(* reached.  Each action is described once, by what it does to its own     *)
(* request (Kept, EndsAs, Goes, Steady, ...) and to what the requests      *)
(* share (GlobalEffect); the parts of the invariant are then preserved one *)
(* by one.                                                                 *)
(***************************************************************************)
EXTENDS ToolCalls, FiniteSetTheorems, TLAPS

-----------------------------------------------------------------------------
(* The inductive invariant                                                 *)

Ats == {"unborn", "admitting", "charging", "resolving", "sent", "failed", "reopening",
        "settling", "recording", "ended"}
Healths == {"good", "silent", "dead", "revoked"}
Statuses == {"none", "denied", "success", "error", "cancelled"}

Requests ==
  [kind : Kinds, at : Ats, sess : 0..MaxSessions, tries : 0..2,
   stall : {"none", "before", "after"}, replied : BOOLEAN,
   checked : {"none", "fine", "banned"}, sent : {"none", "fine", "banned"}, status : Statuses,
   broke : BOOLEAN, cancelled : BOOLEAN, unlucky : BOOLEAN, revoked : BOOLEAN]

\* What values the variables have.
Shape ==
  /\ mode \in {"service_account", "oauth"} /\ grant \in {"good", "revoked", "none"}
  /\ stopped \in BOOLEAN /\ allowed \in BOOLEAN /\ default \in {"fine", "banned"}
  /\ opened \in 0..MaxSessions /\ live \in 0..opened
  /\ health \in [Sessions -> Healths] /\ call \in [Calls -> Requests]
  /\ flying \in [Calls -> SUBSET Sessions] /\ ran \in [Calls -> Nat]
  /\ row \in [Calls -> Statuses] /\ trouble \in Nat /\ acts \in Nat

\* A request only knows sessions that were opened; only the shared session
\* is opened anew by a heal.
Known ==
  \A c \in Calls :
    /\ call[c].sess <= opened
    /\ call[c].at = "reopening" => mode = "service_account"

Untouched(c) == ran[c] = 0 /\ flying[c] = {}
Fresh == {"unborn", "admitting", "charging"}

\* The place a request has reached says whether it was dispatched and
\* whether it stalled; who is about to be dispatched has a try left.
TriesOf(c) ==
    /\ call[c].tries = 0 => Untouched(c) /\ call[c].stall = "none"
    /\ call[c].tries # 0 => call[c].sess # 0
    /\ call[c].at \in Fresh => call[c].tries = 0
    /\ call[c].at = "resolving" => call[c].tries < MaxAttempts(c)
    /\ call[c].at = "resolving" /\ call[c].tries # 0 => call[c].stall # "none"
    /\ call[c].at \in {"sent", "failed", "reopening", "settling"} => call[c].tries # 0
    /\ call[c].at = "sent" => call[c].stall = "none"
    /\ call[c].at \in {"failed", "reopening", "settling"} => call[c].stall # "none"
Tries == \A c \in Calls : TriesOf(c)

Unsafe(c) == call[c].kind = "tool" \/ (call[c].kind = "read" /\ ~call[c].broke)

\* What is unsafe to repeat has run or is under way at most once, and not at
\* all while it still is to be sent.
OnceOf(c) ==
  Unsafe(c) =>
    /\ \/ ran[c] = 0 /\ (flying[c] = {} \/ \E s \in Sessions : flying[c] = {s})
       \/ ran[c] = 1 /\ flying[c] = {}
    /\ call[c].kind = "read" /\ call[c].stall = "before" => Untouched(c)
    /\ call[c].at = "resolving" => Untouched(c)
Once == \A c \in Calls : OnceOf(c)

\* What the statuses and the row say of the upstream.
AuditedOf(c) ==
    /\ call[c].replied => ran[c] > 0
    /\ call[c].status = "success" => ran[c] > 0
    /\ call[c].status = "denied" => call[c].tries = 0 /\ call[c].at \in {"recording", "ended"}
    /\ call[c].at = "recording" => call[c].status # "none"
    /\ call[c].at # "ended" => row[c] = "none"
    /\ row[c] = "success" => ran[c] > 0
    /\ call[c].at = "ended" /\ ~call[c].unlucky /\ row[c] \in {"none", "denied"}
       => call[c].tries = 0
Audited == \A c \in Calls : AuditedOf(c)

\* Nobody is left on the session it saw stall, and a stopped upstream has
\* none.
Dropped ==
  /\ stopped => live = 0 /\ acts > 0
  /\ \A c \in Calls : call[c].stall # "none" /\ call[c].at # "failed" => live # call[c].sess

\* One session at most met the revocation, and it is the one in use, if any.
Revocation ==
  /\ \A s \in Sessions : health[s] = "revoked" => mode = "oauth" /\ grant # "good"
  /\ \A s, t \in Sessions : health[s] = "revoked" /\ health[t] = "revoked" => s = t
  /\ mode = "oauth" /\ grant # "good" /\ live # 0 => health[live] = "revoked"

Excused(c) == call[c].cancelled \/ call[c].unlucky

\* A request that met the revocation is still on its way to notice it, or
\* the sign-in is deleted.
NoticedOf(c) ==
  /\ call[c].revoked => mode = "oauth" /\ grant # "good"
  /\ call[c].revoked /\ ~Excused(c) /\ acts = 0 /\ grant = "revoked"
     => /\ call[c].tries = 1 /\ health[call[c].sess] = "revoked"
        /\ call[c].at \in {"failed", "resolving", "settling"}
Noticed == \A c \in Calls : NoticedOf(c)

IInv == Shape /\ Known /\ Tries /\ Once /\ Audited /\ Dropped /\ Revocation /\ Noticed

-----------------------------------------------------------------------------
(* Initial states                                                          *)

LEMMA Bound == MaxSessions \in Nat /\ MaxTrouble \in Nat /\ MaxAdmin \in Nat
  BY CallsAssumption

LEMMA IInvInit == Init => IInv
<1> SUFFICES ASSUME Init PROVE IInv
  OBVIOUS
<1> USE Bound DEF Init
<1>1. Unborn \in Requests
  BY DEF Unborn, Requests, Kinds, Ats, Statuses
<1>2. Shape
  <2>1. "none" \in Statuses /\ "good" \in Healths
    BY DEF Statuses, Healths
  <2>2. health \in [Sessions -> Healths] /\ call \in [Calls -> Requests]
    BY <1>1, <2>1
  <2>3. /\ flying \in [Calls -> SUBSET Sessions] /\ ran \in [Calls -> Nat]
        /\ row \in [Calls -> Statuses]
    BY <2>1
  <2>4. /\ mode \in {"service_account", "oauth"} /\ grant = "good" /\ stopped = FALSE
        /\ allowed \in BOOLEAN /\ default = "fine"
        /\ opened = 0 /\ live = 0 /\ trouble = 0 /\ acts = 0
    OBVIOUS
  <2> HIDE DEF Init
  <2>5. mode \in {"service_account", "oauth"} /\ grant \in {"good", "revoked", "none"}
    BY <2>4
  <2>6. stopped \in BOOLEAN /\ allowed \in BOOLEAN /\ default \in {"fine", "banned"}
    BY <2>4
  <2>7. opened \in 0..MaxSessions /\ live \in 0..opened /\ trouble \in Nat /\ acts \in Nat
    BY <2>4
  <2> QED BY <2>2, <2>3, <2>5, <2>6, <2>7 DEF Shape
<1>3. Known /\ Tries /\ Once /\ Audited /\ Noticed
  BY DEF Known, Tries, Once, Audited, TriesOf, OnceOf, AuditedOf, Noticed, NoticedOf, Unborn, Fresh, Untouched
<1>4. Dropped /\ Revocation
  BY DEF Dropped, Revocation, Unborn
<1> QED BY <1>2, <1>3, <1>4 DEF IInv

-----------------------------------------------------------------------------
(* What a request's step does to the requests                              *)

\* One request's record is put in the place of another.
LEMMA Put ==
  ASSUME NEW c \in Calls, NEW r \in Requests, Shape, call' = [call EXCEPT ![c] = r]
  PROVE  /\ call' \in [Calls -> Requests] /\ call'[c] = r
         /\ \A d \in Calls \ {c} : call'[d] = call[d]
  BY DEF Shape

LEMMA ConcludedTyped ==
  ASSUME Shape, NEW c \in Calls, NEW status \in Statuses
  PROVE  /\ Concluded(c, status) \in Requests
         /\ [Concluded(c, status) EXCEPT !.unlucky = TRUE] \in Requests
         /\ [Concluded(c, status) EXCEPT !.cancelled = TRUE] \in Requests
<1>1. call[c] \in Requests
  BY DEF Shape
<1>2. Concluded(c, status) \in Requests
  BY <1>1 DEF Requests, Concluded, Ats
<1> QED BY <1>2 DEF Requests

OneMoves(c) ==
  /\ call' \in [Calls -> Requests]
  /\ \A d \in Calls \ {c} : call'[d] = call[d]

LEMMA StepTyped == ASSUME Shape, Tries, NEW c \in Calls, CallNext(c) PROVE OneMoves(c)
<1> USE Bound
<1>1. call[c] \in Requests
  BY DEF Shape
<1>2. ASSUME NEW r \in Requests, call' = [call EXCEPT ![c] = r] PROVE OneMoves(c)
  BY <1>2, Put DEF OneMoves
<1>3. ASSUME NEW status \in Statuses, Concludes(c, status) PROVE OneMoves(c)
  BY <1>2, <1>3, ConcludedTyped DEF Concludes
<1>4. ASSUME NEW at \in Ats, Moves(c, at) PROVE OneMoves(c)
  <2>1. [call[c] EXCEPT !.at = at] \in Requests
    BY <1>1 DEF Requests
  <2>2. call' = [call EXCEPT ![c] = [call[c] EXCEPT !.at = at]]
    BY <1>4 DEF Moves
  <2> QED BY <1>2, <2>1, <2>2
<1>5. CASE CallsTool(c)
  BY <1>1, <1>5 DEF CallsTool, OneMoves, Shape, Requests, Kinds, Ats
<1>6. CASE Reads(c)
  BY <1>1, <1>6 DEF Reads, OneMoves, Shape, Requests, Kinds, Ats
<1>7. CASE NamesNothing(c) \/ Charges(c)
  BY <1>3, <1>4, <1>7 DEF NamesNothing, Charges, Ats, Statuses
<1>8. CASE Admitted(c)
  <2>1. CASE Moves(c, "ended")
    BY <1>4, <2>1 DEF Ats
  <2>2. CASE call' = [call EXCEPT ![c].at = "resolving", ![c].sent = default]
    BY <1>1, <2>2 DEF OneMoves, Shape, Requests, Ats
  <2> QED BY <1>8, <2>1, <2>2 DEF Admitted
<1>9. CASE Unavailable(c)
  BY <1>2, <1>3, <1>9, ConcludedTyped DEF Unavailable, Statuses
<1>10. CASE Connects(c)
  BY <1>1, <1>10 DEF Connects, OneMoves, Shape
<1>11. CASE Sends(c)
  <2>1. call'[c] \in Requests
    BY <1>1, <1>11 DEF Sends, Shape, Requests, Kinds, Ats, Tries, TriesOf, MaxAttempts
  <2> QED BY <1>11, <2>1 DEF Sends, OneMoves, Shape
<1>12. CASE Returns(c)
  BY <1>3, <1>12 DEF Returns, Statuses
<1>13. CASE Stalls(c)
  <2>1. call'[c] \in Requests
    BY <1>1, <1>13 DEF Stalls, Shape, Requests, Ats, FirstRevoked
  <2> QED BY <1>13, <2>1 DEF Stalls, OneMoves, Shape
<1>14. AfterHeal(c) \in Ats
  BY DEF AfterHeal, Ats
<1>15. [call[c] EXCEPT !.at = AfterHeal(c), !.status = "error"] \in Requests
  BY <1>1, <1>14 DEF Requests, Statuses
<1>16. CASE Handles(c)
  <2>1. \/ Concludes(c, "error") \/ Moves(c, "reopening")
        \/ call' = [call EXCEPT ![c] = [call[c] EXCEPT !.at = AfterHeal(c), !.status = "error"]]
    BY <1>16 DEF Handles
  <2> QED BY <1>2, <1>3, <1>4, <1>15, <2>1 DEF Ats, Statuses
<1>17. CASE Reopens(c)
  <2>1. \/ Concludes(c, "error")
        \/ call' = [call EXCEPT ![c] = [call[c] EXCEPT !.at = AfterHeal(c), !.status = "error"]]
    BY <1>17 DEF Reopens
  <2> QED BY <1>2, <1>3, <1>15, <2>1 DEF Statuses
<1>18. CASE Settles(c)
  BY <1>2, <1>3, <1>18, ConcludedTyped DEF Settles, Statuses
<1>19. CASE Records(c)
  BY <1>1, <1>4, <1>19, SMTT(40) DEF Records, OneMoves, Shape, Requests, Ats
<1>20. CASE Cancels(c)
  <2>1. CASE call' = [call EXCEPT ![c].at = "ended", ![c].cancelled = TRUE]
    BY <1>1, <2>1 DEF OneMoves, Shape, Requests, Ats
  <2>2. CASE CancelledInWrite(c)
    BY <1>1, <2>2 DEF OneMoves, Shape, Requests, CancelledInWrite
  <2>3. CASE call' = [call EXCEPT ![c] = [Concluded(c, "cancelled") EXCEPT !.cancelled = TRUE]]
    BY <1>2, <2>3, ConcludedTyped DEF Statuses
  <2> QED BY <1>20, <2>1, <2>2, <2>3 DEF Cancels
<1>21. ASSUME NEW s \in Sessions, Runs(c, s) PROVE OneMoves(c)
  <2>1. call'[c] \in Requests
    BY <1>1, <1>21 DEF Runs, Shape, Requests
  <2> QED BY <1>21, <2>1 DEF Runs, OneMoves, Shape
<1> QED BY <1>5, <1>6, <1>7, <1>8, <1>9, <1>10, <1>11, <1>12, <1>13, <1>16, <1>17, <1>18,
           <1>19, <1>20, <1>21 DEF CallNext

LEMMA ShapeNext == Shape /\ Tries /\ [Next]_vars => Shape'
<1> SUFFICES ASSUME Shape, Tries, [Next]_vars PROVE Shape'
  OBVIOUS
<1> USE Bound
<1> USE DEF Shape, Sessions, Admin, Upstream, Bounds, Healths
<1>1. ASSUME NEW c \in Calls, CallNext(c) PROVE Shape'
  <2>1. OneMoves(c)
    BY <1>1, StepTyped
  <2> USE <2>1 DEF OneMoves
  <2>2. CASE CallsTool(c) \/ Reads(c) \/ NamesNothing(c) \/ Admitted(c) \/ Charges(c)
    BY <2>2 DEF CallsTool, Reads, NamesNothing, Admitted, Charges
  <2>3. CASE Unavailable(c) \/ Returns(c) \/ Stalls(c) \/ Cancels(c)
    BY <2>3 DEF Unavailable, Returns, Stalls, Cancels
  <2>4. CASE Connects(c)
    BY <2>4 DEF Connects, Opens
  <2>5. CASE Sends(c)
    <3>1. live \in Sessions
      BY <2>5 DEF Sends
    <3>2. \/ flying' = flying \/ flying' = [flying EXCEPT ![c] = flying[c]]
          \/ flying' = [flying EXCEPT ![c] = flying[c] \cup {live}]
      BY <2>5 DEF Sends
    <3>3. flying' \in [Calls -> SUBSET Sessions]
      BY <3>1, <3>2
    <3>4. UNCHANGED <<mode, stopped, allowed, default, grant, live, health, ran, row, opened,
                      trouble, acts>>
      BY <2>5 DEF Sends
    <3> QED BY <3>3, <3>4
  <2>6. CASE Handles(c)
    <3>1. live' = live \/ live' = 0
      BY <2>6 DEF Handles
    <3>2. health' = health \/ health' = [health EXCEPT ![live] = Closed(@)]
      BY <2>6 DEF Handles
    <3>3. health' \in [Sessions -> Healths]
      BY <3>2 DEF Closed
    <3>4. UNCHANGED <<mode, stopped, allowed, default, grant, flying, ran, row, opened, trouble, acts>>
      BY <2>6 DEF Handles
    <3> QED BY <3>1, <3>3, <3>4
  <2>7. CASE Reopens(c) \/ Settles(c)
    <3>1. opened' \in 0..MaxSessions /\ live' \in 0..opened'
      BY <2>7 DEF Reopens, Settles, Opens
    <3>2. grant' \in {"good", "revoked", "none"}
      BY <2>7 DEF Reopens, Settles
    <3> QED BY <2>7, <3>1, <3>2 DEF Reopens, Settles
  <2>8. CASE Records(c)
    <3>1. call[c].status \in Statuses
      BY DEF Requests
    <3> QED BY <2>8, <3>1 DEF Records
  <2>9. ASSUME NEW s \in Sessions, Runs(c, s) PROVE Shape'
    <3>1. flying' \in [Calls -> SUBSET Sessions] /\ ran' \in [Calls -> Nat]
      BY <2>9 DEF Runs
    <3> QED BY <2>9, <3>1 DEF Runs
  <2> QED BY <1>1, <2>2, <2>3, <2>4, <2>5, <2>6, <2>7, <2>8, <2>9 DEF CallNext
<1>2. ASSUME NEW how \in {"silent", "dead", "revoked"}, Breaks(how) PROVE Shape'
  BY <1>2 DEF Breaks
<1>3. CASE Stops
  BY <1>3 DEF Stops, Acts, Closed
<1>4. CASE Starts
  BY <1>4 DEF Starts
<1>5. CASE Edits
  BY <1>5 DEF Edits, Acts
<1>6. CASE UNCHANGED vars
  BY <1>6 DEF vars
<1> QED BY <1>1, <1>2, <1>3, <1>4, <1>5, <1>6 DEF Next

\* The step of one request leaves alone what belongs to another.
LEMMA OthersStay ==
  ASSUME Shape, Tries, NEW c \in Calls, CallNext(c), NEW d \in Calls \ {c}
  PROVE  call'[d] = call[d] /\ flying'[d] = flying[d] /\ ran'[d] = ran[d] /\ row'[d] = row[d]
<1>1. call'[d] = call[d]
  BY StepTyped DEF OneMoves
<1>2. flying'[d] = flying[d] /\ ran'[d] = ran[d]
  <2> USE DEF Shape, Upstream
  <2>1. CASE Sends(c)
    <3>1. \/ flying' = flying \/ flying' = [flying EXCEPT ![c] = flying[c]]
          \/ flying' = [flying EXCEPT ![c] = flying[c] \cup {live}]
      BY <2>1 DEF Sends
    <3> QED BY <2>1, <3>1 DEF Sends
  <2>2. ASSUME NEW s \in Sessions, Runs(c, s) PROVE flying'[d] = flying[d] /\ ran'[d] = ran[d]
    BY <2>2 DEF Runs
  <2>3. UNCHANGED Upstream \/ Sends(c) \/ \E s \in Sessions : Runs(c, s)
    BY DEF CallNext, CallsTool, Reads, NamesNothing, Admitted, Charges, Unavailable, Connects,
           Returns, Stalls, Handles, Reopens, Settles, Records, Cancels
  <2> QED BY <2>1, <2>2, <2>3
<1>3. row'[d] = row[d]
  <2>1. row' = row \/ row' = [row EXCEPT ![c] = call[c].status]
    BY DEF CallNext, CallsTool, Reads, NamesNothing, Admitted, Charges, Unavailable, Connects, Sends,
           Runs, Returns, Stalls, Handles, Reopens, Settles, Records, Cancels
  <2> QED BY <2>1 DEF Shape
<1> QED BY <1>1, <1>2, <1>3

\* No step but a request's own touches what belongs to requests.
LEMMA NobodyElse ==
  ASSUME [Next]_vars, ~\E c \in Calls : CallNext(c)
  PROVE  UNCHANGED <<call, flying, ran, row>>
  BY DEF Next, vars, Breaks, Stops, Starts, Edits, Upstream

-----------------------------------------------------------------------------
(* What becomes of the request itself, field by field                      *)

\* What only a dispatch or a stall changes.
Kept(c) ==
  /\ call'[c].kind = call[c].kind /\ call'[c].sess = call[c].sess
  /\ call'[c].tries = call[c].tries /\ call'[c].stall = call[c].stall
  /\ call'[c].broke = call[c].broke /\ call'[c].revoked = call[c].revoked

EndsAs(c, status) ==
  /\ Kept(c) /\ call'[c].at = "recording" /\ call'[c].status = status
  /\ call'[c].replied = FALSE
  /\ call[c].unlucky => call'[c].unlucky
  /\ call[c].cancelled => call'[c].cancelled

Goes(c, at) ==
  /\ Kept(c) /\ call'[c].at = at /\ call'[c].status = call[c].status
  /\ call'[c].replied = call[c].replied /\ call'[c].unlucky = call[c].unlucky
  /\ call'[c].cancelled = call[c].cancelled

LEMMA MovesEffect ==
  ASSUME Shape, NEW c \in Calls, NEW at, Moves(c, at)
  PROVE  Goes(c, at)
<1>1. call[c] \in Requests /\ call \in [Calls -> Requests]
  BY DEF Shape
<1> QED BY <1>1 DEF Moves, Goes, Kept, Requests

LEMMA ConcludesEffect ==
  ASSUME Shape, NEW c \in Calls, NEW status \in Statuses
  PROVE  /\ Concludes(c, status) => EndsAs(c, status) /\ call'[c].unlucky = call[c].unlucky
                                    /\ call'[c].cancelled = call[c].cancelled
         /\ call' = [call EXCEPT ![c] = [Concluded(c, status) EXCEPT !.unlucky = TRUE]]
            => EndsAs(c, status) /\ call'[c].unlucky
         /\ call' = [call EXCEPT ![c] = [Concluded(c, status) EXCEPT !.cancelled = TRUE]]
            => EndsAs(c, status) /\ call'[c].cancelled
<1>1. call[c] \in Requests /\ call \in [Calls -> Requests]
  BY DEF Shape
<1>2. Concluded(c, status) \in Requests
  BY ConcludedTyped
<1> DEFINE r == Concluded(c, status)
<1>3. /\ r.kind = call[c].kind /\ r.sess = call[c].sess /\ r.tries = call[c].tries
      /\ r.stall = call[c].stall /\ r.broke = call[c].broke /\ r.revoked = call[c].revoked
      /\ r.at = "recording" /\ r.status = status /\ r.replied = FALSE
      /\ r.unlucky = call[c].unlucky /\ r.cancelled = call[c].cancelled
  BY <1>1 DEF Concluded, Requests
<1>4. Concludes(c, status) <=> call' = [call EXCEPT ![c] = r]
  BY DEF Concludes
<1> HIDE DEF r
<1>5. r \in Requests
  BY <1>2 DEF r
<1>6. call' = [call EXCEPT ![c] = r] => call'[c] = r
  BY <1>1
<1>7. call' = [call EXCEPT ![c] = [r EXCEPT !.unlucky = TRUE]]
      => call'[c] = [r EXCEPT !.unlucky = TRUE]
  BY <1>1
<1>8. call' = [call EXCEPT ![c] = [r EXCEPT !.cancelled = TRUE]]
      => call'[c] = [r EXCEPT !.cancelled = TRUE]
  BY <1>1
<1>9. ASSUME call'[c] = r
      PROVE  EndsAs(c, status) /\ call'[c].unlucky = call[c].unlucky
             /\ call'[c].cancelled = call[c].cancelled
  BY <1>3, <1>9 DEF EndsAs, Kept
<1>10. ASSUME call'[c] = [r EXCEPT !.unlucky = TRUE] PROVE EndsAs(c, status) /\ call'[c].unlucky
  BY <1>3, <1>5, <1>10 DEF EndsAs, Kept, Requests
<1>11. ASSUME call'[c] = [r EXCEPT !.cancelled = TRUE]
       PROVE  EndsAs(c, status) /\ call'[c].cancelled
  BY <1>3, <1>5, <1>11 DEF EndsAs, Kept, Requests
<1> QED BY <1>4, <1>6, <1>7, <1>8, <1>9, <1>10, <1>11 DEF r

LEMMA HealEffect ==
  ASSUME Shape, NEW c \in Calls,
         call' = [call EXCEPT ![c].at = AfterHeal(c), ![c].status = "error"]
  PROVE  /\ Kept(c) /\ call'[c].at = AfterHeal(c) /\ call'[c].status = "error"
         /\ call'[c].replied = call[c].replied /\ call'[c].unlucky = call[c].unlucky
         /\ call'[c].cancelled = call[c].cancelled
<1>1. call[c] \in Requests /\ call \in [Calls -> Requests]
  BY DEF Shape
<1> QED BY <1>1 DEF Kept, Requests

LEMMA TriesNext == Shape /\ Tries /\ [Next]_vars => Tries'
<1> SUFFICES ASSUME Shape, Tries, [Next]_vars PROVE Tries'
  OBVIOUS
<1>1. ASSUME NEW c \in Calls, CallNext(c) PROVE Tries'
  <2>1. ASSUME NEW d \in Calls \ {c} PROVE TriesOf(d)'
    BY <1>1, <2>1, OthersStay DEF Tries, TriesOf, Untouched, MaxAttempts
  <2>2. TriesOf(c)'
    <3> USE DEF TriesOf, Untouched, MaxAttempts, Upstream, Fresh
    <3>1. TriesOf(c) /\ call[c] \in Requests /\ call \in [Calls -> Requests]
      BY DEF Tries, Shape
    <3>2. ASSUME NEW status \in Statuses, EndsAs(c, status), UNCHANGED Upstream PROVE TriesOf(c)'
      BY <3>1, <3>2 DEF EndsAs, Kept
    <3>3. ASSUME NEW at \in {"ended", "recording"}, Goes(c, at), UNCHANGED Upstream
          PROVE  TriesOf(c)'
      BY <3>1, <3>3 DEF Goes, Kept
    <3>4. {"none", "denied", "success", "error", "cancelled"} \subseteq Statuses
      BY DEF Statuses
    <3>5. CASE CallsTool(c)
      BY <3>1, <3>5 DEF CallsTool, Requests
    <3>6. CASE Reads(c)
      BY <3>1, <3>6 DEF Reads, Requests
    <3>7. CASE NamesNothing(c) \/ Charges(c)
      BY <3>2, <3>3, <3>4, <3>7, MovesEffect, ConcludesEffect DEF NamesNothing, Charges
    <3>8. CASE Admitted(c)
      <4>1. CASE Moves(c, "ended")
        BY <3>3, <3>8, <4>1, MovesEffect DEF Admitted
      <4>2. CASE call' = [call EXCEPT ![c].at = "resolving", ![c].sent = default]
        BY <3>1, <3>8, <4>2 DEF Admitted, Requests
      <4> QED BY <3>8, <4>1, <4>2 DEF Admitted
    <3>9. CASE Unavailable(c)
      BY <3>2, <3>4, <3>9, ConcludesEffect DEF Unavailable
    <3>10. CASE Connects(c)
      BY <3>1, <3>10 DEF Connects
    <3>11. CASE Sends(c)
      BY <3>1, <3>11, SMTT(40) DEF Sends, Requests, Shape
    <3>12. CASE Returns(c)
      BY <3>2, <3>4, <3>12, ConcludesEffect DEF Returns
    <3>13. CASE Stalls(c)
      BY <3>1, <3>13 DEF Stalls, Requests
    <3>14. ASSUME call' = [call EXCEPT ![c].at = AfterHeal(c), ![c].status = "error"],
                  call[c].at \in {"failed", "reopening"}, UNCHANGED Upstream
           PROVE  TriesOf(c)'
      BY <3>1, <3>14, HealEffect, ZenonT(60) DEF AfterHeal, MayRetry, Kept, Requests
    <3>15. CASE Handles(c)
      <4>1. CASE Moves(c, "reopening")
        BY <3>1, <3>15, <4>1, MovesEffect DEF Handles, Goes, Kept
      <4> QED BY <3>2, <3>4, <3>14, <3>15, <4>1, ConcludesEffect DEF Handles
    <3>16. CASE Reopens(c)
      BY <3>2, <3>4, <3>14, <3>16, ConcludesEffect DEF Reopens
    <3>17. CASE Settles(c)
      BY <3>2, <3>4, <3>17, ConcludesEffect DEF Settles
    <3>18. CASE Records(c)
      BY <3>1, <3>3, <3>18, MovesEffect DEF Records, Requests
    <3>19. CASE Cancels(c)
      <4>1. CASE call' = [call EXCEPT ![c].at = "ended", ![c].cancelled = TRUE]
        BY <3>1, <3>19, <4>1 DEF Requests, Cancels
      <4>2. CASE CancelledInWrite(c)
        BY <3>1, <3>19, <4>2 DEF Requests, Cancels, CancelledInWrite
      <4> QED BY <3>2, <3>4, <3>19, <4>1, <4>2, ConcludesEffect DEF Cancels
    <3>20. ASSUME NEW s \in Sessions, Runs(c, s) PROVE TriesOf(c)'
      BY <3>1, <3>20 DEF Runs, Requests
    <3> QED BY <1>1, <3>5, <3>6, <3>7, <3>8, <3>9, <3>10, <3>11, <3>12, <3>13, <3>15, <3>16,
               <3>17, <3>18, <3>19, <3>20 DEF CallNext
  <2> QED BY <2>1, <2>2 DEF Tries
<1>2. CASE UNCHANGED <<call, flying, ran, row>>
  BY <1>2 DEF Tries, TriesOf, Untouched, MaxAttempts
<1> QED BY <1>1, <1>2, NobodyElse

LEMMA OnceNext == Shape /\ Tries /\ Once /\ [Next]_vars => Once'
<1> SUFFICES ASSUME Shape, Tries, Once, [Next]_vars PROVE Once'
  OBVIOUS
<1>1. ASSUME NEW c \in Calls, CallNext(c) PROVE Once'
  <2>1. ASSUME NEW d \in Calls \ {c} PROVE OnceOf(d)'
    BY <1>1, <2>1, OthersStay DEF Once, OnceOf, Untouched, Unsafe
  <2>2. OnceOf(c)'
    <3> USE DEF OnceOf, Untouched, Upstream, Unsafe
    <3>1. /\ OnceOf(c) /\ TriesOf(c) /\ call[c] \in Requests /\ call \in [Calls -> Requests]
          /\ ran \in [Calls -> Nat] /\ flying \in [Calls -> SUBSET Sessions]
      BY DEF Once, Tries, Shape
    <3>2. ASSUME NEW status \in Statuses, EndsAs(c, status), UNCHANGED Upstream PROVE OnceOf(c)'
      BY <3>1, <3>2 DEF EndsAs, Kept
    <3>3. ASSUME NEW at \in {"ended", "recording", "reopening"}, Goes(c, at), UNCHANGED Upstream
          PROVE  OnceOf(c)'
      BY <3>1, <3>3 DEF Goes, Kept
    <3>4. {"none", "denied", "success", "error", "cancelled"} \subseteq Statuses
      BY DEF Statuses
    <3>5. CASE CallsTool(c)
      BY <3>1, <3>5 DEF CallsTool, Requests, TriesOf, Fresh
    <3>6. CASE Reads(c)
      BY <3>1, <3>6 DEF Reads, Requests, TriesOf, Fresh
    <3>7. CASE NamesNothing(c) \/ Charges(c)
      BY <3>2, <3>3, <3>4, <3>7, MovesEffect, ConcludesEffect DEF NamesNothing, Charges
    <3>8. CASE Admitted(c)
      <4>1. CASE Moves(c, "ended")
        BY <3>3, <3>8, <4>1, MovesEffect DEF Admitted
      <4>2. CASE call' = [call EXCEPT ![c].at = "resolving", ![c].sent = default]
        BY <3>1, <3>8, <4>2 DEF Admitted, Requests, TriesOf, Fresh
      <4> QED BY <3>8, <4>1, <4>2 DEF Admitted
    <3>9. CASE Unavailable(c)
      BY <3>2, <3>4, <3>9, ConcludesEffect DEF Unavailable
    <3>10. CASE Connects(c)
      BY <3>1, <3>10 DEF Connects
    <3>11. CASE Sends(c)
      <4>1. live \in Sessions
        BY <3>11, Bound DEF Sends, Shape, Sessions
      <4>2. /\ call'[c].kind = call[c].kind /\ call'[c].broke = call[c].broke
            /\ call'[c].at # "resolving"
            /\ call'[c].stall = IF health[live] \in Down THEN "before" ELSE "none"
        BY <3>1, <3>11 DEF Sends, Requests
      <4>3. \/ flying'[c] = flying[c]
            \/ health[live] \notin Down /\ flying'[c] = flying[c] \cup {live}
        BY <3>1, <3>11 DEF Sends
      <4>4. ran'[c] = ran[c] /\ call[c].at = "resolving"
        BY <3>11 DEF Sends
      <4> QED BY <3>1, <4>1, <4>2, <4>3, <4>4
    <3>12. CASE Returns(c)
      BY <3>2, <3>4, <3>12, ConcludesEffect DEF Returns
    <3>13. CASE Stalls(c)
      BY <3>1, <3>13 DEF Stalls, Requests
    <3>14. ASSUME call' = [call EXCEPT ![c].at = AfterHeal(c), ![c].status = "error"],
                  call[c].at \in {"failed", "reopening"}, UNCHANGED Upstream
           PROVE  OnceOf(c)'
      <4>1. Kept(c) /\ call'[c].at = AfterHeal(c)
        BY <3>14, HealEffect
      <4>2. call[c].kind \in Kinds /\ call[c].tries \in 0..2 /\ call[c].tries # 0
        BY <3>1, <3>14 DEF Requests, TriesOf
      <4>3. ASSUME AfterHeal(c) = "resolving", Unsafe(c)
            PROVE  call[c].kind = "read" /\ call[c].stall # "after"
        BY <4>2, <4>3 DEF AfterHeal, MayRetry, MaxAttempts
      <4>4. call[c].stall \in {"before", "after"}
        BY <3>1, <3>14 DEF Requests, TriesOf
      <4> QED BY <3>1, <3>14, <4>1, <4>3, <4>4 DEF Kept
    <3>15. CASE Handles(c)
      BY <3>2, <3>3, <3>4, <3>14, <3>15, MovesEffect, ConcludesEffect DEF Handles
    <3>16. CASE Reopens(c)
      BY <3>2, <3>4, <3>14, <3>16, ConcludesEffect DEF Reopens
    <3>17. CASE Settles(c)
      BY <3>2, <3>4, <3>17, ConcludesEffect DEF Settles
    <3>18. CASE Records(c)
      BY <3>1, <3>3, <3>18, MovesEffect DEF Records, Requests
    <3>19. CASE Cancels(c)
      <4>1. CASE call' = [call EXCEPT ![c].at = "ended", ![c].cancelled = TRUE]
        BY <3>1, <3>19, <4>1 DEF Requests, Cancels
      <4>2. CASE CancelledInWrite(c)
        BY <3>1, <3>19, <4>2 DEF Requests, Cancels, CancelledInWrite
      <4> QED BY <3>2, <3>4, <3>19, <4>1, <4>2, ConcludesEffect DEF Cancels
    <3>20. ASSUME NEW s \in Sessions, Runs(c, s) PROVE OnceOf(c)'
      <4>1. /\ call'[c].kind = call[c].kind /\ call'[c].broke = call[c].broke
            /\ call'[c].at = call[c].at /\ call'[c].stall = call[c].stall
        BY <3>1, <3>20 DEF Runs, Requests
      <4>2. s \in flying[c] /\ flying'[c] = flying[c] \ {s} /\ ran'[c] = ran[c] + 1
        BY <3>1, <3>20 DEF Runs
      <4> QED BY <3>1, <4>1, <4>2
    <3> QED BY <1>1, <3>5, <3>6, <3>7, <3>8, <3>9, <3>10, <3>11, <3>12, <3>13, <3>15, <3>16,
               <3>17, <3>18, <3>19, <3>20 DEF CallNext
  <2> QED BY <2>1, <2>2 DEF Once
<1>2. CASE UNCHANGED <<call, flying, ran, row>>
  BY <1>2 DEF Once, OnceOf, Untouched, Unsafe
<1> QED BY <1>1, <1>2, NobodyElse

LEMMA AuditedNext == Shape /\ Tries /\ Audited /\ [Next]_vars => Audited'
<1> SUFFICES ASSUME Shape, Tries, Audited, [Next]_vars PROVE Audited'
  OBVIOUS
<1>1. ASSUME NEW c \in Calls, CallNext(c) PROVE Audited'
  <2>1. ASSUME NEW d \in Calls \ {c} PROVE AuditedOf(d)'
    BY <1>1, <2>1, OthersStay DEF Audited, AuditedOf
  <2>2. AuditedOf(c)'
    <3> USE DEF AuditedOf, Upstream
    <3>1. /\ AuditedOf(c) /\ TriesOf(c) /\ call[c] \in Requests /\ call \in [Calls -> Requests]
          /\ ran \in [Calls -> Nat] /\ row \in [Calls -> Statuses]
      BY DEF Audited, Tries, Shape
    <3> HIDE DEF Statuses
    <3>2. ASSUME NEW status \in Statuses, EndsAs(c, status), UNCHANGED <<Upstream, row>>,
                 call[c].at # "ended", status # "none", status = "denied" => call[c].at \in Fresh,
                 status = "success" => ran[c] > 0
          PROVE  AuditedOf(c)'
      BY <3>1, <3>2 DEF EndsAs, Kept, TriesOf, Fresh
    <3>3. ASSUME Goes(c, "ended"), UNCHANGED <<Upstream, row>>, call[c].at \in Fresh
          PROVE  AuditedOf(c)'
      BY <3>1, <3>3 DEF Goes, Kept, TriesOf
    <3>4. {"none", "denied", "success", "error", "cancelled"} \subseteq Statuses
      BY DEF Statuses
    <3>5. CASE CallsTool(c)
      BY <3>1, <3>5 DEF CallsTool, Requests
    <3>6. CASE Reads(c)
      BY <3>1, <3>6 DEF Reads, Requests
    <3>7. CASE NamesNothing(c) \/ Charges(c)
      BY <3>2, <3>3, <3>4, <3>7, MovesEffect, ConcludesEffect DEF NamesNothing, Charges, Fresh
    <3>8. CASE Admitted(c)
      <4>1. CASE Moves(c, "ended")
        BY <3>3, <3>8, <4>1, MovesEffect DEF Admitted, Fresh
      <4>2. CASE call' = [call EXCEPT ![c].at = "resolving", ![c].sent = default]
        BY <3>1, <3>8, <4>2 DEF Admitted, Requests
      <4> QED BY <3>8, <4>1, <4>2 DEF Admitted
    <3>9. CASE Unavailable(c)
      BY <3>2, <3>4, <3>9, ConcludesEffect DEF Unavailable, Fresh
    <3>10. CASE Connects(c)
      BY <3>1, <3>10 DEF Connects
    <3>11. CASE Sends(c)
      <4>1. /\ call'[c].replied = FALSE /\ call'[c].status = call[c].status
            /\ call'[c].at \in {"failed", "sent"} /\ call[c].at = "resolving"
        BY <3>1, <3>11 DEF Sends, Requests
      <4>2. ran'[c] = ran[c] /\ row'[c] = row[c]
        BY <3>11 DEF Sends
      <4> QED BY <3>1, <4>1, <4>2
    <3>12. CASE Returns(c)
      BY <3>1, <3>2, <3>4, <3>12, ConcludesEffect DEF Returns, Fresh
    <3>13. CASE Stalls(c)
      BY <3>1, <3>13 DEF Stalls, Requests
    <3>14. ASSUME call' = [call EXCEPT ![c].at = AfterHeal(c), ![c].status = "error"],
                  call[c].at \in {"failed", "reopening"}, UNCHANGED <<Upstream, row>>
           PROVE  AuditedOf(c)'
      <4>1. /\ Kept(c) /\ call'[c].at = AfterHeal(c) /\ call'[c].status = "error"
            /\ call'[c].replied = call[c].replied
        BY <3>14, HealEffect
      <4>2. AfterHeal(c) \in {"resolving", "settling", "recording"}
        BY DEF AfterHeal
      <4> QED BY <3>1, <3>14, <4>1, <4>2 DEF Kept, TriesOf
    <3>15. CASE Handles(c)
      <4>1. CASE Moves(c, "reopening")
        BY <3>1, <3>15, <4>1, MovesEffect DEF Handles, Goes, Kept, TriesOf
      <4> QED BY <3>2, <3>4, <3>14, <3>15, <4>1, ConcludesEffect DEF Handles, Fresh
    <3>16. CASE Reopens(c)
      BY <3>2, <3>4, <3>14, <3>16, ConcludesEffect DEF Reopens, Fresh
    <3>17. CASE Settles(c)
      BY <3>2, <3>4, <3>17, ConcludesEffect DEF Settles, Fresh
    <3>18. CASE Records(c)
      <4>1. CASE row' = [row EXCEPT ![c] = call[c].status] /\ Moves(c, "ended")
        BY <3>1, <3>18, <4>1, MovesEffect DEF Records, Goes, Kept, TriesOf
      <4>2. CASE row' = row /\ call' = [call EXCEPT ![c].at = "ended", ![c].unlucky = TRUE]
        BY <3>1, <3>18, <4>2 DEF Records, Requests
      <4> QED BY <3>18, <4>1, <4>2 DEF Records
    <3>19. CASE Cancels(c)
      <4>1. CASE call[c].at \in Fresh /\ call' = [call EXCEPT ![c].at = "ended", ![c].cancelled = TRUE]
        BY <3>1, <3>19, <4>1 DEF Requests, Cancels, TriesOf
      <4>2. CASE CancelledInWrite(c)
        BY <3>1, <3>19, <4>2 DEF Requests, Cancels, CancelledInWrite
      <4> QED BY <3>2, <3>4, <3>19, <4>1, <4>2, ConcludesEffect DEF Cancels, Fresh
    <3>20. ASSUME NEW s \in Sessions, Runs(c, s) PROVE AuditedOf(c)'
      <4>1. /\ call'[c].tries = call[c].tries /\ call'[c].status = call[c].status
            /\ call'[c].at = call[c].at /\ call'[c].unlucky = call[c].unlucky
        BY <3>1, <3>20 DEF Runs, Requests
      <4>2. ran'[c] = ran[c] + 1 /\ row'[c] = row[c]
        BY <3>1, <3>20 DEF Runs
      <4> QED BY <3>1, <4>1, <4>2
    <3> QED BY <1>1, <3>5, <3>6, <3>7, <3>8, <3>9, <3>10, <3>11, <3>12, <3>13, <3>15, <3>16,
               <3>17, <3>18, <3>19, <3>20 DEF CallNext
  <2> QED BY <2>1, <2>2 DEF Audited
<1>2. CASE UNCHANGED <<call, flying, ran, row>>
  BY <1>2 DEF Audited, AuditedOf
<1> QED BY <1>1, <1>2, NobodyElse

-----------------------------------------------------------------------------
(* What a request's step does to what all share                            *)

GlobalEffect(c) ==
  /\ mode' = mode /\ stopped' = stopped /\ acts' = acts
  /\ \/ live' = live /\ opened' = opened /\ health' = health
     \/ /\ live = 0 /\ live' = opened + 1 /\ opened' = opened + 1 /\ health' = health
        /\ opened < MaxSessions /\ ~stopped
        /\ mode = "oauth" => grant = "good"
     \/ /\ Handles(c) /\ live = call[c].sess /\ live' = 0 /\ opened' = opened /\ ~stopped
        /\ health' = [health EXCEPT ![live] = Closed(@)]
  /\ \/ grant' = grant
     \/ grant' = "none" /\ grant # "good" /\ live = 0 /\ live' = 0

LEMMA GlobalStep == ASSUME Shape, Known, NEW c \in Calls, CallNext(c) PROVE GlobalEffect(c)
<1> USE DEF GlobalEffect, Admin, Bounds
<1>1. CASE CallsTool(c) \/ Reads(c) \/ NamesNothing(c) \/ Admitted(c) \/ Charges(c) \/ Sends(c)
  BY <1>1 DEF CallsTool, Reads, NamesNothing, Admitted, Charges, Sends
<1>2. CASE Unavailable(c) \/ Returns(c) \/ Stalls(c) \/ Records(c) \/ Cancels(c)
  BY <1>2 DEF Unavailable, Returns, Stalls, Records, Cancels
<1>3. CASE Connects(c)
  BY <1>3 DEF Connects, Opens
<1>4. CASE Handles(c)
  BY <1>4 DEF Handles, DropsStalled
<1>5. CASE Reopens(c)
  BY <1>5 DEF Reopens, Opens, Known
<1>6. CASE Settles(c)
  BY <1>6 DEF Settles, Opens
<1>7. ASSUME NEW s \in Sessions, Runs(c, s) PROVE GlobalEffect(c)
  BY <1>7 DEF Runs
<1> QED BY <1>1, <1>2, <1>3, <1>4, <1>5, <1>6, <1>7 DEF CallNext

\* But for a dispatch, a stall and its handling, a step leaves the request
\* its session, its tries and its stall.
Steady(c) ==
  /\ call'[c].sess = call[c].sess /\ call'[c].tries = call[c].tries
  /\ call'[c].stall = call[c].stall /\ call'[c].revoked = call[c].revoked
  /\ call'[c].at \in {"failed", "reopening"} => call'[c].at = call[c].at
  /\ call[c].at = "failed" => call'[c].at = "failed"
  /\ call[c].cancelled => call'[c].cancelled
  /\ call[c].unlucky => call'[c].unlucky

LEMMA SteadyStep ==
  ASSUME Shape, Tries, NEW c \in Calls, CallNext(c), ~Sends(c), ~Stalls(c), ~Handles(c)
  PROVE  Steady(c)
<1>1. call[c] \in Requests /\ call \in [Calls -> Requests]
  BY DEF Shape
<1>2. ASSUME NEW status \in Statuses, EndsAs(c, status), call[c].at # "failed" PROVE Steady(c)
  BY <1>2 DEF EndsAs, Kept, Steady
<1>3. ASSUME NEW at \in Ats \ {"failed", "reopening"}, Goes(c, at), call[c].at # "failed" PROVE Steady(c)
  BY <1>3 DEF Goes, Kept, Steady
<1>4. {"denied", "success", "error", "cancelled"} \subseteq Statuses
  BY DEF Statuses
<1>5. CASE CallsTool(c) \/ Reads(c)
  BY <1>1, <1>5 DEF CallsTool, Reads, Requests, Steady
<1>6. CASE NamesNothing(c) \/ Charges(c)
  BY <1>2, <1>3, <1>4, <1>6, MovesEffect, ConcludesEffect DEF NamesNothing, Charges, Ats
<1>7. CASE Admitted(c)
  <2>1. CASE Moves(c, "ended")
    BY <1>3, <1>7, <2>1, MovesEffect DEF Ats, Admitted
  <2>2. CASE call' = [call EXCEPT ![c].at = "resolving", ![c].sent = default]
    BY <1>1, <1>7, <2>2 DEF Requests, Steady, Admitted
  <2> QED BY <1>7, <2>1, <2>2 DEF Admitted
<1>8. CASE Unavailable(c) \/ Returns(c) \/ Settles(c)
  BY <1>2, <1>4, <1>8, ConcludesEffect DEF Unavailable, Returns, Settles
<1>9. CASE Connects(c)
  BY <1>9 DEF Connects, Steady
<1>10. CASE Reopens(c)
  <2>1. CASE call' = [call EXCEPT ![c].at = AfterHeal(c), ![c].status = "error"]
    <3>1. AfterHeal(c) \notin {"failed", "reopening"}
      BY DEF AfterHeal
    <3> QED BY <1>10, <2>1, <3>1, HealEffect DEF Kept, Steady, Reopens
  <2> QED BY <1>2, <1>4, <1>10, <2>1, ConcludesEffect DEF Reopens
<1>11. CASE Records(c)
  <2>1. CASE Moves(c, "ended")
    BY <1>3, <1>11, <2>1, MovesEffect DEF Ats, Records
  <2>2. CASE call' = [call EXCEPT ![c].at = "ended", ![c].unlucky = TRUE]
    BY <1>1, <1>11, <2>2 DEF Requests, Steady, Records
  <2> QED BY <1>11, <2>1, <2>2 DEF Records
<1>12. CASE Cancels(c)
  <2>1. CASE call' = [call EXCEPT ![c].at = "ended", ![c].cancelled = TRUE]
    BY <1>1, <1>12, <2>1 DEF Requests, Steady, Cancels
  <2>2. CASE CancelledInWrite(c)
    BY <1>1, <2>2 DEF Requests, Steady, CancelledInWrite
  <2> QED BY <1>2, <1>4, <1>12, <2>1, <2>2, ConcludesEffect DEF Cancels
<1>13. ASSUME NEW s \in Sessions, Runs(c, s) PROVE Steady(c)
  BY <1>1, <1>13 DEF Runs, Requests, Steady
<1> QED BY <1>5, <1>6, <1>7, <1>8, <1>9, <1>10, <1>11, <1>12, <1>13 DEF CallNext

\* The three steps that touch the session and the stall of a request.
LEMMA SendsEffect ==
  ASSUME Shape, Tries, NEW c \in Calls, Sends(c)
  PROVE  /\ live # 0 /\ call[c].at = "resolving" /\ call'[c].sess = live
         /\ call'[c].tries = call[c].tries + 1
         /\ call'[c].at = (IF health[live] \in Down THEN "failed" ELSE "sent")
         /\ call'[c].stall = (IF health[live] \in Down THEN "before" ELSE "none")
         /\ call'[c].revoked => call[c].revoked \/ (call[c].tries = 0 /\ health[live] = "revoked")
         /\ call'[c].unlucky = call[c].unlucky /\ call'[c].cancelled = call[c].cancelled
<1>1. call[c] \in Requests /\ call \in [Calls -> Requests]
  BY DEF Shape
<1> QED BY <1>1 DEF Sends, Requests

LEMMA StallsEffect ==
  ASSUME Shape, NEW c \in Calls, Stalls(c)
  PROVE  /\ call[c].at = "sent" /\ call'[c].at = "failed"
         /\ call'[c].sess = call[c].sess /\ call'[c].tries = call[c].tries
         /\ call'[c].revoked => call[c].revoked \/ FirstRevoked(c)
         /\ call'[c].unlucky = call[c].unlucky /\ call'[c].cancelled = call[c].cancelled
<1>1. call[c] \in Requests /\ call \in [Calls -> Requests]
  BY DEF Shape
<1> QED BY <1>1 DEF Stalls, Requests

LEMMA HandlesEffect ==
  ASSUME Shape, Tries, NEW c \in Calls, Handles(c)
  PROVE  /\ call[c].at = "failed" /\ call'[c].at # "failed" /\ Kept(c)
         /\ call[c].cancelled => call'[c].cancelled
         /\ call[c].unlucky => call'[c].unlucky
         /\ stopped \/ live = 0 \/ live # call[c].sess => live' = live
         /\ ~stopped /\ live = call[c].sess => live' = 0
         /\ call'[c].at = "reopening" => mode = "service_account"
         /\ ~stopped /\ mode = "oauth" => call'[c].at = AfterHeal(c)
<1> USE DEF Handles
<1>1. call[c].at = "failed" /\ call[c].stall # "none"
  BY DEF Tries, TriesOf
<1>2. AfterHeal(c) \in {"resolving", "settling", "recording"}
  BY DEF AfterHeal
<1>3. \/ stopped /\ EndsAs(c, "error") /\ live' = live
      \/ ~stopped /\ Goes(c, "reopening") /\ mode = "service_account"
      \/ /\ ~stopped /\ Kept(c) /\ call'[c].at = AfterHeal(c)
         /\ call'[c].unlucky = call[c].unlucky /\ call'[c].cancelled = call[c].cancelled
  BY <1>1, MovesEffect, ConcludesEffect, HealEffect DEF Heals, Statuses
<1>4. /\ stopped \/ live # call[c].sess => live' = live
      /\ ~stopped /\ live = call[c].sess => live' = 0
  BY <1>1 DEF Heals, DropsStalled
<1> QED BY <1>1, <1>2, <1>3, <1>4 DEF EndsAs, Goes, Kept

LEMMA KnownNext == Shape /\ Tries /\ Known /\ [Next]_vars => Known'
<1> SUFFICES ASSUME Shape, Tries, Known, [Next]_vars PROVE Known'
  OBVIOUS
<1> USE DEF Known
<1>0. opened \in Nat /\ live \in Nat /\ live <= opened
  BY Bound DEF Shape
<1>1. ASSUME NEW c \in Calls, CallNext(c) PROVE Known'
  <2>1. GlobalEffect(c)
    BY <1>1, GlobalStep
  <2>2. mode' = mode /\ opened' \in Nat /\ opened <= opened'
    BY <1>0, <2>1 DEF GlobalEffect
  <2>3. ASSUME NEW d \in Calls PROVE call[d].sess \in Nat /\ call[d].sess <= opened
    BY Bound DEF Shape, Requests
  <2>4. ASSUME NEW d \in Calls \ {c}
        PROVE  call'[d].sess <= opened' /\ (call'[d].at = "reopening" => mode' = "service_account")
    BY <1>0, <1>1, <2>2, <2>3, <2>4, OthersStay
  <2>5. call'[c].sess <= opened'
    <3>1. call'[c].sess = call[c].sess \/ call'[c].sess = live
      BY <1>1, SteadyStep, SendsEffect, StallsEffect, HandlesEffect DEF Steady, Kept
    <3> QED BY <1>0, <2>2, <2>3, <3>1
  <2>6. call'[c].at = "reopening" => mode' = "service_account"
    <3>1. CASE Handles(c)
      BY <2>2, <3>1, HandlesEffect
    <3>2. CASE ~Handles(c)
      BY <1>1, <2>2, <3>2, SteadyStep, SendsEffect, StallsEffect DEF Steady
    <3> QED BY <3>1, <3>2
  <2> QED BY <2>4, <2>5, <2>6
<1>2. CASE ~\E c \in Calls : CallNext(c)
  <2>1. call' = call
    BY <1>2, NobodyElse
  <2>2. mode' = mode /\ opened' = opened
    BY <1>2 DEF Next, vars, Breaks, Stops, Starts, Edits, Admin
  <2> QED BY <2>1, <2>2
<1> QED BY <1>1, <1>2

LEMMA DroppedNext == Shape /\ Tries /\ Known /\ Dropped /\ [Next]_vars => Dropped'
<1> SUFFICES ASSUME Shape, Tries, Known, Dropped, [Next]_vars PROVE Dropped'
  OBVIOUS
<1> DEFINE Gone(d) == call[d].stall # "none" /\ call[d].at # "failed" => live # call[d].sess
<1>1. opened \in Nat /\ live \in Nat /\ live <= opened /\ acts \in Nat
  BY Bound DEF Shape
<1>2. ASSUME NEW d \in Calls
      PROVE  /\ call[d].sess \in Nat /\ call[d].sess <= opened
             /\ call[d].stall # "none" => call[d].sess # 0
  BY Bound DEF Shape, Requests, Known, Tries, TriesOf
<1>3. ASSUME NEW c \in Calls, CallNext(c) PROVE Dropped'
  <2>1. GlobalEffect(c)
    BY <1>3, GlobalStep
  <2>2. live' = live \/ live' = opened + 1 \/ live' = 0
    BY <2>1 DEF GlobalEffect
  <2>3. stopped' => live' = 0 /\ acts' > 0
    BY <2>1 DEF GlobalEffect, Dropped
  <2>4. ASSUME NEW d \in Calls \ {c} PROVE Gone(d)'
    <3>1. call'[d] = call[d]
      BY <1>3, OthersStay
    <3> QED BY <1>1, <1>2, <2>2, <3>1 DEF Dropped
  <2>5. Gone(c)'
    <3>1. CASE Steady(c)
      BY <1>1, <1>2, <2>2, <3>1 DEF Dropped, Steady
    <3>2. CASE Sends(c)
      BY <3>2, SendsEffect
    <3>3. CASE Stalls(c)
      BY <3>3, StallsEffect
    <3>4. CASE Handles(c)
      BY <1>1, <1>2, <3>4, HandlesEffect DEF Dropped, Kept
    <3> QED BY <1>3, <3>1, <3>2, <3>3, <3>4, SteadyStep
  <2> QED BY <2>3, <2>4, <2>5 DEF Dropped
<1>4. CASE ~\E c \in Calls : CallNext(c)
  <2>1. call' = call
    BY <1>4, NobodyElse
  <2>2. live' = live \/ live' = 0
    BY <1>4 DEF Next, vars, Breaks, Stops, Starts, Edits
  <2>3. stopped' => live' = 0 /\ acts' > 0
    <3>1. CASE Stops
      BY <1>1, <3>1 DEF Stops, Acts
    <3>2. CASE Edits
      BY <1>1, <3>2 DEF Edits, Acts, Dropped
    <3> QED BY <1>4, <3>1, <3>2 DEF Next, vars, Breaks, Starts, Admin, Dropped
  <2> QED BY <1>2, <2>1, <2>2, <2>3 DEF Dropped
<1> QED BY <1>3, <1>4

LEMMA RevocationNext == Shape /\ Known /\ Revocation /\ [Next]_vars => Revocation'
<1> SUFFICES ASSUME Shape, Known, Revocation, [Next]_vars PROVE Revocation'
  OBVIOUS
<1>1. /\ health \in [Sessions -> Healths] /\ live \in 0..opened /\ opened \in 0..MaxSessions
      /\ MaxSessions \in Nat
  BY Bound DEF Shape
<1>2. live # 0 => live \in Sessions
  BY <1>1 DEF Sessions
<1> DEFINE Cut == live # 0 /\ health' = [health EXCEPT ![live] = Closed(@)]
<1>3. ASSUME health' = health \/ Cut, NEW s \in Sessions
      PROVE  health'[s] = "revoked" <=> health[s] = "revoked"
  BY <1>1, <1>2, <1>3 DEF Closed
<1>4. ASSUME NEW c \in Calls, CallNext(c) PROVE Revocation'
  <2>1. GlobalEffect(c)
    BY <1>4, GlobalStep
  <2>2. health' = health \/ live = 0 \/ Cut
    BY <2>1 DEF GlobalEffect
  <2>3. health' = health \/ Cut
    <3>1. CASE live = 0
      BY <1>1, <2>1, <3>1 DEF GlobalEffect, Sessions
    <3>2. CASE live # 0
      BY <2>1, <3>2 DEF GlobalEffect
    <3> QED BY <3>1, <3>2
  <2>4. mode' = mode /\ (grant' = "good" => grant = "good") /\ (grant # "good" => grant' # "good")
    BY <2>1 DEF GlobalEffect
  <2>5. live' = live \/ live' = 0 \/ (mode = "oauth" => grant' = "good")
    BY <2>1 DEF GlobalEffect
  <2>6. \A s \in Sessions : health'[s] = "revoked" <=> health[s] = "revoked"
    BY <1>3, <2>3
  <2> HIDE DEF Cut
  <2>7. grant # "good" \/ grant' = "good" \/ (live = 0 /\ live' = 0)
    BY <2>1 DEF GlobalEffect
  <2> QED BY <1>2, <2>4, <2>5, <2>6, <2>7 DEF Revocation
<1>5. ASSUME NEW how \in {"silent", "dead", "revoked"}, Breaks(how) PROVE Revocation'
  <2>1. live # 0 /\ live \in Sessions /\ health[live] = "good" /\ live' = live /\ mode' = mode
    BY <1>2, <1>5 DEF Breaks, Admin
  <2>2. \A s \in Sessions : health'[s] = IF s = live THEN how ELSE health[s]
    BY <1>1, <1>5 DEF Breaks
  <2>3. how = "revoked" => mode = "oauth" /\ grant' = "revoked"
    BY <1>5 DEF Breaks
  <2>4. mode = "oauth" => grant = "good"
    BY <2>1 DEF Revocation
  <2>5. how # "revoked" => grant' = grant
    BY <1>5 DEF Breaks
  <2> QED BY <2>1, <2>2, <2>3, <2>4, <2>5 DEF Revocation
<1>6. CASE Stops
  <2>1. mode' = mode /\ grant' = grant /\ live' = 0 /\ (health' = health \/ Cut)
    BY <1>6 DEF Stops
  <2>2. \A s \in Sessions : health'[s] = "revoked" <=> health[s] = "revoked"
    BY <1>3, <2>1
  <2> HIDE DEF Cut
  <2> QED BY <2>1, <2>2 DEF Revocation
<1>7. CASE Starts \/ Edits \/ UNCHANGED vars
  BY <1>7 DEF Starts, Edits, vars, Revocation, Admin
<1> QED BY <1>4, <1>5, <1>6, <1>7 DEF Next

LEMMA NoticedNext == IInv /\ [Next]_vars => Noticed'
<1> SUFFICES ASSUME IInv, [Next]_vars PROVE Noticed'
  OBVIOUS
<1>1. Shape /\ Known /\ Tries /\ Dropped /\ Revocation /\ Noticed
  BY DEF IInv
<1>2. /\ health \in [Sessions -> Healths] /\ live \in 0..opened /\ opened \in 0..MaxSessions
      /\ MaxSessions \in Nat /\ acts \in Nat /\ stopped \in BOOLEAN
      /\ mode \in {"service_account", "oauth"}
  BY <1>1, Bound DEF Shape
<1>3. live # 0 => live \in Sessions
  BY <1>2 DEF Sessions
<1>0. ASSUME NEW d \in Calls, call[d].tries # 0 PROVE call[d].sess \in Sessions
  BY <1>0, <1>1, <1>2 DEF Shape, Requests, Tries, TriesOf, Sessions
<1>4. ASSUME NEW c \in Calls, CallNext(c) PROVE Noticed'
  <2>1. GlobalEffect(c)
    BY <1>1, <1>4, GlobalStep
  <2>2. /\ mode' = mode /\ stopped' = stopped /\ acts' = acts
        /\ grant' = "revoked" => grant = "revoked"
        /\ grant # "good" => grant' # "good"
    BY <2>1 DEF GlobalEffect
  <2>3. ASSUME NEW s \in Sessions, health[s] = "revoked" PROVE health'[s] = "revoked"
    <3>1. health' = health \/ health' = [health EXCEPT ![live] = Closed(@)]
      BY <2>1 DEF GlobalEffect
    <3> QED BY <1>2, <2>3, <3>1 DEF Closed
  <2>4. ASSUME NEW d \in Calls \ {c} PROVE NoticedOf(d)'
    <3>1. call'[d] = call[d]
      BY <1>1, <1>4, OthersStay
    <3> QED BY <1>0, <1>1, <2>2, <2>3, <3>1 DEF Noticed, NoticedOf, Excused
  <2>5. NoticedOf(c)'
    <3>1. call'[c].revoked => mode' = "oauth" /\ grant' # "good"
      <4>1. CASE call[c].revoked
        BY <1>1, <2>2, <4>1 DEF Noticed, NoticedOf
      <4>2. CASE Sends(c) /\ health[live] = "revoked"
        BY <1>1, <1>3, <2>2, <4>2, SendsEffect DEF Revocation
      <4>3. CASE Stalls(c) /\ FirstRevoked(c)
        <5>1. health[call[c].sess] = "revoked" /\ call[c].sess \in Sessions
          BY <1>0, <4>3 DEF FirstRevoked
        <5> QED BY <1>1, <2>2, <5>1 DEF Revocation
      <4>4. ASSUME call'[c].revoked, ~call[c].revoked
            PROVE  (Sends(c) /\ health[live] = "revoked") \/ (Stalls(c) /\ FirstRevoked(c))
        <5>1. ~Steady(c) /\ ~Handles(c)
          BY <1>1, <4>4, HandlesEffect DEF Kept, Steady
        <5>2. Sends(c) => health[live] = "revoked"
          BY <1>1, <4>4, SendsEffect
        <5>3. Stalls(c) => FirstRevoked(c)
          BY <1>1, <4>4, StallsEffect
        <5> QED BY <1>1, <1>4, <5>1, <5>2, <5>3, SteadyStep
      <4> QED BY <4>1, <4>2, <4>3, <4>4
    <3>2. ASSUME call'[c].revoked, ~Excused(c)', acts' = 0, grant' = "revoked"
          PROVE  /\ call'[c].tries = 1 /\ health'[call'[c].sess] = "revoked"
                 /\ call'[c].at \in {"failed", "resolving", "settling"}
      <4>1. acts = 0 /\ grant = "revoked" /\ mode = "oauth" /\ ~stopped
        BY <1>1, <1>2, <2>2, <3>1, <3>2 DEF Dropped
      <4>2. live = 0 \/ health[live] = "revoked"
        BY <1>1, <4>1 DEF Revocation
      <4>3. CASE Sends(c)
        <5>1. ~call[c].revoked
          <6>1. SUFFICES ASSUME call[c].revoked PROVE FALSE
            OBVIOUS
          <6>2. call[c].tries = 1 /\ health[call[c].sess] = "revoked"
            BY <1>1, <3>2, <4>1, <4>3, <6>1, SendsEffect DEF Noticed, NoticedOf, Excused
          <6>3. live # call[c].sess /\ call[c].sess \in Sessions
            BY <1>1, <1>2, <4>3, <6>2, SendsEffect, SMTT(40)
               DEF Dropped, Tries, TriesOf, Shape, Requests, Sessions
          <6> QED BY <1>1, <1>3, <4>2, <4>3, <6>2, <6>3, SendsEffect DEF Revocation
        <5>2. call[c].tries = 0 /\ health[live] = "revoked"
          BY <1>1, <3>2, <4>3, <5>1, SendsEffect
        <5> QED BY <1>1, <1>3, <2>3, <4>3, <5>2, SendsEffect DEF Down
      <4>4. CASE Stalls(c)
        <5>1. ~call[c].revoked
          BY <1>1, <3>2, <4>1, <4>4, StallsEffect DEF Noticed, NoticedOf, Excused
        <5>2. FirstRevoked(c)
          BY <1>1, <3>2, <4>4, <5>1, StallsEffect
        <5> QED BY <1>0, <1>1, <2>3, <4>4, <5>2, StallsEffect DEF FirstRevoked
      <4>5. CASE Handles(c)
        <5>1. call[c].revoked /\ call[c].tries = 1 /\ health[call[c].sess] = "revoked"
          BY <1>1, <3>2, <4>1, <4>5, HandlesEffect DEF Noticed, NoticedOf, Excused, Kept
        <5>2. call'[c].at = AfterHeal(c)
          BY <1>1, <4>1, <4>5, HandlesEffect
        <5>3. AfterHeal(c) \in {"resolving", "settling"}
          BY <4>1, <5>1 DEF AfterHeal
        <5> QED BY <1>0, <1>1, <2>3, <4>5, <5>1, <5>2, <5>3, HandlesEffect DEF Kept
      <4>6. CASE ~Sends(c) /\ ~Stalls(c) /\ ~Handles(c)
        <5>1. Steady(c)
          BY <1>1, <1>4, <4>6, SteadyStep
        <5>2. /\ call[c].revoked /\ call[c].tries = 1 /\ health[call[c].sess] = "revoked"
              /\ call[c].at \in {"failed", "resolving", "settling"}
          BY <1>1, <3>2, <4>1, <5>1 DEF Noticed, NoticedOf, Excused, Steady
        <5>3. call[c].at # "failed" => live = 0
          <6>1. call[c].sess \in Sessions /\ call[c].stall # "none"
            BY <1>1, <1>2, <5>2 DEF Tries, TriesOf, Shape, Requests, Sessions
          <6> QED BY <1>1, <1>3, <4>2, <5>2, <6>1 DEF Dropped, Revocation
        <5>4. call'[c].at = call[c].at
          <6> USE <1>1
          <6>1. call[c] \in Requests /\ call \in [Calls -> Requests]
            BY DEF Shape
          <6>2. CASE call[c].at = "failed"
            BY <5>1, <6>2 DEF Steady
          <6>3. CASE Unavailable(c)
            BY <3>2, <4>1, <6>3, ConcludesEffect DEF Unavailable, Excused, Statuses
          <6>4. CASE Settles(c)
            BY <3>2, <4>1, <5>2, <5>3, <6>4, ConcludesEffect DEF Settles, Excused, Statuses
          <6>5. CASE Cancels(c)
            <7>1. call'[c].cancelled
              <8>1. CASE call' = [call EXCEPT ![c].at = "ended", ![c].cancelled = TRUE]
                BY <6>1, <8>1 DEF Requests
              <8>2. CASE CancelledInWrite(c)
                BY <6>1, <8>2 DEF Requests, CancelledInWrite
              <8> QED BY <6>5, <8>1, <8>2, ConcludesEffect DEF Cancels, Statuses
            <7> QED BY <3>2, <7>1 DEF Excused
          <6>6. CASE Connects(c)
            BY <6>6 DEF Connects
          <6>7. ASSUME NEW s \in Sessions, Runs(c, s) PROVE call'[c].at = call[c].at
            BY <6>1, <6>7 DEF Runs, Requests
          <6> QED BY <1>4, <4>6, <5>2, <6>2, <6>3, <6>4, <6>5, <6>6, <6>7
                 DEF CallNext, CallsTool, Reads, NamesNothing, Admitted, Charges, Returns, Reopens,
                     Records
        <5> QED BY <1>0, <2>3, <5>1, <5>2, <5>4 DEF Steady
      <4> QED BY <4>3, <4>4, <4>5, <4>6
    <3> QED BY <3>1, <3>2 DEF NoticedOf
  <2> QED BY <2>4, <2>5 DEF Noticed
<1>5. CASE ~\E c \in Calls : CallNext(c)
  <2>1. call' = call
    BY <1>5, NobodyElse
  <2>2. mode' = mode /\ (acts' = 0 => acts = 0)
    BY <1>2, <1>5 DEF Next, vars, Breaks, Stops, Acts, Starts, Edits, Admin, Bounds
  <2>3. ASSUME NEW how \in {"silent", "dead", "revoked"}, Breaks(how)
        PROVE  /\ grant' = grant \/ (grant' = "revoked" /\ mode = "oauth" /\ grant = "good")
               /\ \A s \in Sessions : health[s] = "revoked" => health'[s] = "revoked"
    <3>1. live # 0 /\ health[live] = "good" /\ health' = [health EXCEPT ![live] = how]
      BY <2>3 DEF Breaks
    <3>2. grant' = grant \/ (grant' = "revoked" /\ mode = "oauth")
      BY <2>3 DEF Breaks
    <3>3. mode = "oauth" => grant = "good"
      BY <1>1, <3>1 DEF Revocation
    <3> QED BY <1>2, <3>1, <3>2, <3>3
  <2>4. CASE Stops
    <3>1. health' = health \/ health' = [health EXCEPT ![live] = Closed(@)]
      BY <2>4 DEF Stops
    <3>2. \A s \in Sessions : health[s] = "revoked" => health'[s] = "revoked"
      BY <1>2, <3>1 DEF Closed
    <3>3. grant' = grant
      BY <2>4 DEF Stops
    <3> QED BY <1>0, <1>1, <2>1, <2>2, <3>2, <3>3 DEF Noticed, NoticedOf, Excused
  <2>5. CASE Starts \/ Edits \/ UNCHANGED vars
    <3>1. grant' = grant /\ health' = health
      BY <2>5 DEF Starts, Edits, vars
    <3> QED BY <1>1, <2>1, <2>2, <3>1 DEF Noticed, NoticedOf, Excused
  <2>6. ASSUME NEW how \in {"silent", "dead", "revoked"}, Breaks(how) PROVE Noticed'
    BY <1>0, <1>1, <2>1, <2>2, <2>3, <2>6 DEF Noticed, NoticedOf, Excused
  <2> QED BY <1>5, <2>4, <2>5, <2>6 DEF Next
<1> QED BY <1>4, <1>5

-----------------------------------------------------------------------------
(* The theorems                                                            *)

LEMMA IInvNext == IInv /\ [Next]_vars => IInv'
  BY ShapeNext, KnownNext, TriesNext, OnceNext, AuditedNext, DroppedNext, RevocationNext,
     NoticedNext DEF IInv

\* In every reachable state each part of the invariant holds.
THEOREM IInvHolds == Spec => []IInv
  BY IInvInit, IInvNext, PTL DEF Spec

\* A tool that did not declare itself safe to repeat, and a read whose
\* stream never broke in a way that looks like a refused write, run at most
\* once, however many sessions and requests there are (may_retry).
THEOREM UnsafeRunsOnceHolds == Spec => []UnsafeRunsOnce
<1>1. IInv => UnsafeRunsOnce
  <2> SUFFICES ASSUME IInv, NEW c \in Calls, Unsafe(c)
               PROVE  ran[c] + Cardinality(flying[c]) <= 1
    BY DEF UnsafeRunsOnce, Unsafe
  <2>1. \/ ran[c] = 0 /\ (flying[c] = {} \/ \E s \in Sessions : flying[c] = {s})
        \/ ran[c] = 1 /\ flying[c] = {}
    BY DEF IInv, Once, OnceOf
  <2>2. Cardinality({}) = 0 /\ \A s \in Sessions : Cardinality({s}) = 1
    BY FS_EmptySet, FS_Singleton
  <2> QED BY <2>1, <2>2
<1> QED BY <1>1, IInvHolds, PTL

\* When a request is over, its row, the cached session and the stored
\* sign-in say what has become of it: whatever may have run has a row, no
\* later request gets the session it stalled on, and a sign-in whose
\* revocation it met is deleted.
THEOREM EndsAreAccountedForHolds == Spec => []EndsAreAccountedFor
<1>1. IInv => RowTellsTruth
  BY DEF IInv, Audited, AuditedOf, Tries, TriesOf, Untouched, RowTellsTruth, Ended
<1>2. IInv => StalledIsDropped
  BY DEF IInv, Dropped, StalledIsDropped
<1>3. IInv => RevokedIsNoticed
  BY DEF IInv, Noticed, NoticedOf, RevokedIsNoticed, Ended, Excused
<1> QED BY <1>1, <1>2, <1>3, IInvHolds, PTL DEF EndsAreAccountedFor

\* A session is closed under its users only by a Stop or by the heal of a
\* request that stalled on that very session, never by one that stalled on
\* the session it replaced (heal_stalled_session).
THEOREM HealKeepsReplacementHolds == Spec => HealKeepsReplacement
<1>1. IInv /\ [Next]_vars
      => [live # 0 /\ live' # live /\ ~stopped' =>
            \E c \in Calls : call[c].at = "failed" /\ call'[c].at # "failed" /\ call[c].sess = live]_vars
  <2> SUFFICES ASSUME IInv, [Next]_vars, live # 0, live' # live, ~stopped'
               PROVE  \E c \in Calls : call[c].at = "failed" /\ call'[c].at # "failed"
                                       /\ call[c].sess = live
    OBVIOUS
  <2>1. Shape /\ Known /\ Tries
    BY DEF IInv
  <2>2. PICK c \in Calls : CallNext(c)
    BY DEF Next, vars, Breaks, Stops, Starts, Edits
  <2>3. Handles(c) /\ live = call[c].sess
    BY <2>1, <2>2, GlobalStep DEF GlobalEffect
  <2> QED BY <2>1, <2>3, HandlesEffect
<1> QED BY <1>1, IInvHolds, PTL DEF Spec, HealKeepsReplacement
=============================================================================
