------------------------- MODULE SignInTokensProofs -------------------------
(* Proofs about SignInTokens, for any number of jobs, sign-ins and tokens. *)
EXTENDS SignInTokens, TLAPS

USE JobsAssumption, BoundsAssumption

\* The types, group by group.
StoreTypes ==
  /\ row \in Rows
  /\ client \in Clients \cup {NoClient}
  /\ failures \in 0..Threshold
  /\ due \in BOOLEAN

UpstreamTypes ==
  /\ issued \in [SignIns -> 0..MaxTokens]
  /\ uses \in [SignIns -> Clients \cup {NoClient}]
  /\ revoked \subseteq SignIns
  /\ clients \in Clients

JobTypes ==
  /\ lock \in Jobs \cup {NoJob}
  /\ pc \in [Jobs -> Steps]
  /\ job \in [Jobs -> JobRecords]

SignTypes ==
  /\ signs \in SignIns
  /\ signing \in {"none", "consent", "settle", "count"}
  /\ signing = "consent" => signs < MaxSignIns
  /\ ctx \in Clients \cup {NoClient}

GhostTypes ==
  /\ astray \in BOOLEAN
  /\ lost \subseteq SignIns
  /\ trouble \in 0..MaxTrouble

Types == StoreTypes /\ UpstreamTypes /\ JobTypes /\ SignTypes /\ GhostTypes

-----------------------------------------------------------------------------
(* A job's own variables *)

LEMMA FirstClient == 1 \in Clients /\ 1 \in SignIns
BY SMT DEF Clients, SignIns

LEMMA NewJobIsAJob ==
  ASSUME NEW k \in {"none", "periodic", "reconnect", "session"}
  PROVE  /\ NewJob \in JobRecords
         /\ [NewJob EXCEPT !.kind = k] \in JobRecords
<1>1. NoToken \in Rows /\ NoClient \in Clients \cup {NoClient}
  BY DEF Rows
<1>2. 0 \in 0..Tries
  BY SMT
<1>3. NewJob \in JobRecords
  BY <1>1, <1>2 DEF NewJob, JobRecords, Askers
<1> QED BY <1>3, SMT DEF JobRecords

\* A step of a job keeps the types of what the jobs hold.
LEMMA GoTypes ==
  ASSUME JobTypes, NEW j \in Jobs, NEW where \in Steps, NEW r \in JobRecords,
         Go(j, where, r)
  PROVE  pc' \in [Jobs -> Steps] /\ job' \in [Jobs -> JobRecords]
BY DEF Go, JobTypes

LEMMA AnsweredTypes ==
  ASSUME JobTypes, NEW j \in Jobs, NEW r \in JobRecords,
         NEW result \in {"none", "ok", "unauth", "lost"},
         Answered(j, r, result)
  PROVE  pc' \in [Jobs -> Steps] /\ job' \in [Jobs -> JobRecords]
<1>1. [r EXCEPT !.result = result] \in JobRecords
  BY SMT DEF JobRecords
<1>2. r.next \in Steps /\ "idle" \in Steps
  BY SMT DEF JobRecords, Steps, Askers
<1>3. CASE r.next = "idle"
  BY <1>2, <1>3, GoTypes, NewJobIsAJob DEF Answered, Ends
<1>4. CASE r.next # "idle"
  BY <1>1, <1>2, <1>4, GoTypes DEF Answered
<1> QED BY <1>3, <1>4

LEMMA RefusedTypes ==
  ASSUME JobTypes, NEW j \in Jobs, NEW r \in JobRecords, StoreTypes, UpstreamTypes,
         Refused(j, r)
  PROVE  /\ pc' \in [Jobs -> Steps] /\ job' \in [Jobs -> JobRecords]
         /\ client' \in Clients \cup {NoClient} /\ clients' \in Clients
<1>1. CASE r.with # NoClient
  BY <1>1, AnsweredTypes DEF Refused, StoreTypes, UpstreamTypes
<1>2. CASE r.with = NoClient
  <2>1. clients + 1 \in Clients
    BY <1>2, SMT DEF Refused, UpstreamTypes, Clients
  <2>2. [r EXCEPT !.with = clients + 1] \in JobRecords
    BY <2>1, SMT DEF JobRecords
  <2>3. /\ clients' = clients + 1 /\ client' = clients'
        /\ Answered(j, [r EXCEPT !.with = clients + 1], "unauth")
    BY <1>2 DEF Refused
  <2> QED BY <2>1, <2>2, <2>3, AnsweredTypes
<1> QED BY <1>1, <1>2

LEMMA ClosesTypes ==
  ASSUME JobTypes, NEW j \in Jobs, NEW where \in Steps,
         Closes(j, where) \/ Ends(j) \/ End(j) \/ Goto(j, where)
  PROVE  pc' \in [Jobs -> Steps] /\ job' \in [Jobs -> JobRecords]
<1>1. job[j] \in JobRecords /\ job[j].kind \in {"none", "periodic", "reconnect", "session"}
  BY SMT DEF JobTypes, JobRecords
<1>2. "idle" \in Steps /\ "letGo" \in Steps
  BY DEF Steps
<1> QED BY <1>1, <1>2, GoTypes, NewJobIsAJob DEF Closes, Ends, End, Goto

-----------------------------------------------------------------------------
(* The five things a step of a job may do to what the store and the upstream *)
(* hold of its tokens.                                                       *)

\* It goes on, with what it held, with what is stored, or with nothing, and
\* with no tokens that it has still to save.
Moves(j) ==
  \E where \in Steps \ {"save", "present"}, r \in JobRecords :
    /\ Go(j, where, r)
    /\ r.held \in {NoToken, job[j].held, row, row'}
    /\ r.got = NoToken

SignsStay == UNCHANGED <<issued, signs>>

\* Nothing new is stored; tokens that were to be saved are lost, or unwanted.
Rests(j) ==
  /\ Moves(j)
  /\ row' \in {row, NoToken}
  /\ SignsStay
  /\ lost \subseteq lost'
  /\ pc[j] = "save" => \/ job[j].got.sign \in lost'
                       \/ row = NoToken
                       \/ row.sign # job[j].held.sign

\* The tokens it was issued are stored over older ones of the same sign-in.
Writes(j) ==
  /\ Moves(j)
  /\ pc[j] = "save"
  /\ row # NoToken /\ row.sign = job[j].held.sign
  /\ row' = job[j].got
  /\ SignsStay
  /\ lost' = lost

\* It is about to present what is stored.
Asks(j) ==
  /\ pc[j] # "save"
  /\ row # NoToken
  /\ \E r \in JobRecords :
       Go(j, "present", r) /\ r.held = row /\ r.got = job[j].got
  /\ UNCHANGED <<row, lost>> /\ SignsStay

\* The upstream took what it presented, and issued the next.
Issues(j) ==
  /\ pc[j] = "present"
  /\ job[j].held.k = issued[job[j].held.sign]
  /\ issued[job[j].held.sign] < MaxTokens
  /\ issued' = [issued EXCEPT ![job[j].held.sign] = @ + 1]
  /\ UNCHANGED <<row, signs>>

Gets(j) ==
  /\ Issues(j)
  /\ lost' = lost
  /\ \E r \in JobRecords :
       /\ Go(j, "save", r)
       /\ r.held = job[j].held
       /\ r.got = [sign |-> job[j].held.sign,
                   k |-> issued[job[j].held.sign] + 1]

\* The same, but the answer never arrives.
Misses(j) ==
  /\ Issues(j)
  /\ Moves(j)
  /\ lost' = lost \cup {job[j].held.sign}

Effect(j) == Rests(j) \/ Writes(j) \/ Asks(j) \/ Gets(j) \/ Misses(j)

\* What a job that is saving, or presenting, has in its hands.
Hands(j) ==
  /\ pc[j] = "save" => /\ job[j].got \in Tokens
                       /\ job[j].got.sign = job[j].held.sign
                       /\ job[j].got.k = issued[job[j].got.sign]
  /\ pc[j] # "save" => job[j].got = NoToken
  /\ pc[j] = "present" => job[j].held \in Tokens

LEMMA JobFields ==
  ASSUME NEW r \in JobRecords
  PROVE  /\ r.kind \in {"none", "periodic", "reconnect", "session"}
         /\ r.next \in Askers /\ r.next \in Steps \ {"save", "present"}
         /\ r.held \in Rows /\ r.got \in Rows /\ r.first \in Rows
         /\ r.blamed \in Rows /\ r.with \in Clients \cup {NoClient}
         /\ r.left \in 0..Tries
BY SMT DEF JobRecords, Askers, Steps

LEMMA NewJobFields ==
  ASSUME NEW k
  PROVE  /\ NewJob.held = NoToken /\ NewJob.got = NoToken
         /\ [NewJob EXCEPT !.kind = k].held = NoToken
         /\ [NewJob EXCEPT !.kind = k].got = NoToken
BY SMT DEF NewJob

\* A job that ends a part of its work moves.
LEMMA EndsMove ==
  ASSUME JobTypes, NEW j \in Jobs, NEW where \in Steps \ {"save", "present"},
         Closes(j, where) \/ Ends(j) \/ End(j)
  PROVE  Moves(j)
<1>1. "idle" \in Steps \ {"save", "present"} /\ "letGo" \in Steps \ {"save", "present"}
  BY DEF Steps
<1>2. job[j] \in JobRecords
  BY DEF JobTypes
<1>3. CASE Ends(j)
  BY <1>1, <1>3, NewJobIsAJob, NewJobFields DEF Ends, Moves
<1>4. ASSUME NEW w \in Steps \ {"save", "present"}, Closes(j, w)
      PROVE  Moves(j)
  BY <1>2, <1>4, NewJobIsAJob, NewJobFields, JobFields DEF Closes, Moves
<1> QED BY <1>1, <1>3, <1>4 DEF End

\* A job that only goes somewhere else moves.
LEMMA GotoMoves ==
  ASSUME JobTypes, NEW j \in Jobs, NEW where \in Steps \ {"save", "present"},
         Hands(j), pc[j] # "save", Goto(j, where)
  PROVE  Moves(j)
BY DEF JobTypes, Hands, Goto, Moves

LEMMA AnsweredMoves ==
  ASSUME JobTypes, NEW j \in Jobs, NEW r \in JobRecords,
         NEW result \in {"none", "ok", "unauth", "lost"},
         Answered(j, r, result), r.got = NoToken,
         r.held \in {NoToken, job[j].held, row, row'}
  PROVE  Moves(j)
<1> DEFINE q == [r EXCEPT !.result = result]
<1>1. q \in JobRecords /\ q.held = r.held /\ q.got = r.got
  BY SMT DEF JobRecords
<1>2. CASE r.next = "idle"
  BY <1>2, EndsMove, JobFields DEF Answered
<1>3. CASE r.next # "idle"
  <2>1. Go(j, r.next, q)
    BY <1>3 DEF Answered
  <2> HIDE DEF q
  <2> QED BY <1>1, <2>1, JobFields DEF Moves
<1> QED BY <1>2, <1>3

LEMMA RefusedMoves ==
  ASSUME JobTypes, UpstreamTypes, NEW j \in Jobs, NEW r \in JobRecords,
         Refused(j, r), r.got = NoToken,
         r.held \in {NoToken, job[j].held, row, row'}
  PROVE  Moves(j)
<1>1. CASE r.with # NoClient
  BY <1>1, AnsweredMoves DEF Refused
<1>2. CASE r.with = NoClient
  <2> DEFINE q == [r EXCEPT !.with = clients + 1]
  <2>1. clients + 1 \in Clients
    BY <1>2, SMT DEF Refused, UpstreamTypes, Clients
  <2>2. q \in JobRecords /\ q.held = r.held /\ q.got = r.got
    BY <2>1, SMT DEF JobRecords
  <2>3. Answered(j, q, "unauth")
    BY <1>2 DEF Refused
  <2> HIDE DEF q
  <2> QED BY <2>2, <2>3, AnsweredMoves
<1> QED BY <1>1, <1>2

\* A refused refresh is handed to the clean-up.
LEMMA BlamesMoves ==
  ASSUME JobTypes, NEW j \in Jobs, NEW r \in JobRecords, Blames(j, r)
  PROVE  Moves(j)
<1>1. About(r) \in Rows /\ Verdict(r) \in {"none", "terminal", "other"}
  BY SMT DEF About, Verdict, JobRecords
<1> DEFINE q == [NewJob EXCEPT !.kind = r.kind, !.blamed = About(r),
                               !.code = Verdict(r), !.with = r.with]
<1>2. r.kind \in {"none", "periodic", "reconnect", "session"}
      /\ r.with \in Clients \cup {NoClient} /\ NewJob \in JobRecords
  BY JobFields, NewJobIsAJob
<1>3. q \in JobRecords
  BY <1>1, <1>2, Zenon DEF JobRecords
<1>4. q.held = NoToken /\ q.got = NoToken
  BY SMT DEF NewJob
<1>5. Go(j, "still", q) /\ "still" \in Steps \ {"save", "present"}
  BY DEF Blames, Steps
<1> HIDE DEF q
<1> QED BY <1>3, <1>4, <1>5 DEF Moves

\* What a job that starts anew, or that takes note of the stored row, holds.
LEMMA SetFields ==
  ASSUME NEW r \in JobRecords, NEW a \in Askers,
         NEW t \in Rows, NEW n \in 0..Tries
  PROVE  /\ [r EXCEPT !.held = t] \in JobRecords
         /\ [r EXCEPT !.next = a] \in JobRecords
         /\ [r EXCEPT !.tried = TRUE] \in JobRecords
         /\ [r EXCEPT !.left = n] \in JobRecords
         /\ [r EXCEPT !.first = t, !.held = t, !.next = a, !.left = n] \in JobRecords
         /\ [r EXCEPT !.held = t, !.next = a] \in JobRecords
BY Zenon DEF JobRecords

LEMMA StorageFields ==
  ASSUME NEW j, NEW a \in Askers
  PROVE  /\ NewStorage(j, a) \in JobRecords
         /\ NewStorage(j, a).held = NoToken /\ NewStorage(j, a).got = NoToken
         /\ [NewStorage(j, a) EXCEPT !.forced = TRUE] \in JobRecords
         /\ [NewStorage(j, a) EXCEPT !.forced = TRUE].held = NoToken
         /\ [NewStorage(j, a) EXCEPT !.forced = TRUE].got = NoToken
<1>1. NewJob \in JobRecords /\ NewJob.held = NoToken /\ NewJob.got = NoToken
  BY NewJobIsAJob, NewJobFields
<1>2. NewStorage(j, a) \in JobRecords
  BY <1>1, Zenon DEF NewStorage, JobRecords
<1>3. NewStorage(j, a).held = NoToken /\ NewStorage(j, a).got = NoToken
  BY <1>1, SMT DEF NewStorage, JobRecords
<1> QED BY <1>2, <1>3, Zenon DEF JobRecords

\* The steps that touch neither the store nor the upstream.
Elsewhere(j) ==
  \/ StartPeriodic(j) \/ StartReconnect(j) \/ StartSession(j)
  \/ ReadRow(j) \/ Check(j) \/ LetGo(j) \/ Still(j)
  \/ ReadSaved(j) \/ Wait(j) \/ StepOneDone(j) \/ Peek(j) \/ Connected(j)
  \/ BeforeForce(j) \/ ForceWait(j) \/ ForceRead(j) \/ Forced(j) \/ Retried(j)

LEMMA ElsewhereMoves ==
  ASSUME StoreTypes, JobTypes, NEW j \in Jobs, Hands(j), Elsewhere(j)
  PROVE  Moves(j)
<1> DEFINE Places == Steps \ {"save", "present"}
<1>1. {"idle", "read", "load", "bearer", "check", "good", "still", "record", "letGo",
       "readSaved", "wait", "stepOne", "peek", "connected", "force", "forceWait",
       "forceRead", "forced", "retried"} \subseteq Places
  BY DEF Steps
<1>2. {"idle", "check", "stepOne", "peek", "connected", "forced", "retried"} \subseteq Askers
  BY DEF Askers
<1>3. job[j] \in JobRecords /\ row \in Rows /\ Tries \in 0..Tries
  <2>1. Tries \in 0..Tries
    BY SMT
  <2> QED BY <2>1 DEF JobTypes, StoreTypes
<1>4. ASSUME NEW kind, NEW where \in Places, Start(j, kind, where),
             kind \in {"periodic", "reconnect", "session"}
      PROVE  Moves(j)
  BY <1>4, NewJobIsAJob, NewJobFields DEF Start, Moves
<1>5. CASE StartPeriodic(j) \/ StartReconnect(j) \/ StartSession(j)
  BY <1>1, <1>4, <1>5 DEF StartPeriodic, StartReconnect, StartSession
\* From here on the job is not about to save.
<1>6. ASSUME pc[j] # "save", NEW where \in Places, NEW r \in JobRecords, Go(j, where, r),
             r.held \in {NoToken, job[j].held, row}, r.got = job[j].got
      PROVE  Moves(j)
  BY <1>6 DEF Hands, Moves
<1> HIDE DEF Places
<1>7. CASE ReadRow(j)
  <2>1. CASE due
    <3> DEFINE q == [job[j] EXCEPT !.first = row, !.held = row, !.next = "check", !.left = Tries]
    <3>1. q \in JobRecords
      BY <1>2, <1>3, SetFields
    <3>2. q.held = row /\ q.got = job[j].got
      BY <1>3, SMT DEF JobRecords
    <3>3. Go(j, "load", q) /\ pc[j] # "save"
      BY <1>7, <2>1 DEF ReadRow
    <3> HIDE DEF q
    <3> QED BY <1>1, <1>6, <3>1, <3>2, <3>3
  <2>2. CASE ~due
    BY <1>1, <1>7, <2>2, EndsMove DEF ReadRow, Places
  <2> QED BY <2>1, <2>2
<1>8. CASE Check(j)
  <2>1. pc[j] # "save"
    BY <1>8 DEF Check
  <2>2. CASE TriesAgain(job[j]) /\ Go(j, "load", [job[j] EXCEPT !.left = @ - 1])
    <3> DEFINE q == [job[j] EXCEPT !.left = @ - 1]
    <3>1. job[j].left - 1 \in 0..Tries
      BY <1>3, <2>2, JobFields, SMT DEF TriesAgain
    <3>2. q \in JobRecords /\ q.held = job[j].held /\ q.got = job[j].got
      BY <1>3, <3>1, SMT DEF JobRecords
    <3> HIDE DEF q
    <3>3. Go(j, "load", q)
      BY <2>2 DEF q
    <3> QED BY <1>1, <1>6, <2>1, <3>2, <3>3
  <2>3. CASE Closes(j, "good") \/ Closes(j, "letGo")
    BY <1>1, <2>3, EndsMove DEF Places
  <2>4. CASE Blames(j, job[j])
    BY <1>3, <2>4, BlamesMoves
  <2> QED BY <1>8, <2>2, <2>3, <2>4 DEF Check
<1>9. CASE LetGo(j) \/ Still(j)
  BY <1>1, <1>9, EndsMove, GotoMoves DEF LetGo, Still, Places
<1>10. CASE ReadSaved(j)
  <2> DEFINE q == [job[j] EXCEPT !.held = row]
             q2 == [q EXCEPT !.next = "peek"]
  <2>1. q \in JobRecords /\ q.held = row /\ q.got = job[j].got
    BY <1>3, SMT DEF JobRecords
  <2> HIDE DEF q
  <2>2. q2 \in JobRecords /\ q2.held = row /\ q2.got = job[j].got
    BY <1>2, <2>1, Zenon DEF JobRecords
  <2>3. pc[j] # "save" /\ (Ends(j) \/ Go(j, "wait", q) \/ Go(j, "load", q2))
    BY <1>10 DEF ReadSaved, q
  <2> HIDE DEF q2
  <2> QED BY <1>1, <1>6, <2>1, <2>2, <2>3, EndsMove DEF Places
<1>11. CASE Wait(j)
  <2> DEFINE q == [job[j] EXCEPT !.next = "stepOne"]
  <2>1. q \in JobRecords /\ q.held = job[j].held /\ q.got = job[j].got
    BY <1>2, <1>3, SMT DEF JobRecords
  <2>2. pc[j] # "save" /\ (Ends(j) \/ Go(j, "load", q))
    BY <1>11 DEF Wait
  <2> HIDE DEF q
  <2> QED BY <1>1, <1>6, <2>1, <2>2, EndsMove DEF Places
<1>12. CASE StepOneDone(j)
  BY <1>1, <1>12, GotoMoves DEF StepOneDone, Places
<1>13. CASE Peek(j)
  <2> DEFINE q == [job[j] EXCEPT !.next = "connected"]
  <2>1. q \in JobRecords /\ q.held = job[j].held /\ q.got = job[j].got
    BY <1>2, <1>3, SMT DEF JobRecords
  <2>2. pc[j] # "save" /\ (Ends(j) \/ Go(j, "load", q) \/ Go(j, "bearer", q))
    BY <1>13 DEF Peek
  <2> HIDE DEF q
  <2> QED BY <1>1, <1>6, <2>1, <2>2, EndsMove DEF Places
<1>14. CASE Connected(j)
  <2>1. pc[j] # "save" /\ (Closes(j, "good") \/ Ends(j) \/ Blames(j, job[j]) \/ Goto(j, "force"))
    BY <1>14 DEF Connected
  <2> QED BY <1>1, <1>3, <2>1, EndsMove, GotoMoves, BlamesMoves DEF Places
<1>15. Tried(j) \in JobRecords
  BY <1>3, Zenon DEF Tried, JobRecords
<1>16. CASE BeforeForce(j) \/ ForceWait(j)
  <2>1. pc[j] # "save" /\ (\/ Blames(j, job[j]) \/ Blames(j, Tried(j))
                          \/ Goto(j, "forceWait") \/ Goto(j, "forceRead"))
    BY <1>16 DEF BeforeForce, ForceWait
  <2> QED BY <1>1, <1>3, <1>15, <2>1, GotoMoves, BlamesMoves DEF Places
<1>17. CASE ForceRead(j) \/ Forced(j)
  <2> DEFINE q == [NewStorage(j, "forced") EXCEPT !.forced = TRUE]
  <2>1. \/ Blames(j, job[j]) \/ Blames(j, Tried(j))
        \/ Go(j, "load", NewStorage(j, "retried")) \/ Go(j, "load", q)
    BY <1>17 DEF ForceRead, Forced
  <2>2. q \in JobRecords /\ q.held = NoToken /\ q.got = NoToken
    BY <1>2, StorageFields
  <2> HIDE DEF q
  <2> QED BY <1>1, <1>2, <1>3, <1>15, <2>1, <2>2, StorageFields, BlamesMoves DEF Moves, Places
<1>18. CASE Retried(j)
  BY <1>1, <1>3, <1>18, EndsMove, BlamesMoves DEF Retried, Places
<1> QED
  BY <1>5, <1>7, <1>8, <1>9, <1>10, <1>11, <1>12, <1>13, <1>14, <1>16, <1>17, <1>18
     DEF Elsewhere

LEMMA ElsewhereRests ==
  ASSUME StoreTypes, JobTypes, NEW j \in Jobs, Hands(j), Elsewhere(j)
  PROVE  /\ Rests(j) /\ lock' \in Jobs \cup {NoJob}
         /\ UNCHANGED <<storeVars, upstreamVars, signVars, ghostVars, trouble>>
<1>1. UNCHANGED <<storeVars, upstreamVars, signVars, ghostVars, trouble>> /\ pc[j] # "save"
  BY DEF Elsewhere, StartPeriodic, StartReconnect, StartSession, Start, ReadRow, Check,
         LetGo, Still, ReadSaved, Wait, StepOneDone, Peek, Connected, BeforeForce,
         ForceWait, ForceRead, Forced, Retried
<1>2. lock' \in {lock, j, NoJob}
  BY DEF Elsewhere, StartPeriodic, StartReconnect, StartSession, ReadRow, Check,
         LetGo, Still, ReadSaved, Wait, StepOneDone, Peek, Connected, BeforeForce,
         ForceWait, ForceRead, Forced, Retried
<1>3. Rests(j)
  BY <1>1, ElsewhereMoves DEF Rests, SignsStay, storeVars, upstreamVars, signVars, ghostVars
<1> QED BY <1>1, <1>2, <1>3 DEF JobTypes

\* The library's request.
LEMMA LoadEffect ==
  ASSUME Types, NEW j \in Jobs, Hands(j), Load(j)
  PROVE  Effect(j)
<1> USE DEF Types
<1> DEFINE q == [job[j] EXCEPT !.held = row, !.with = client, !.fresh = FALSE, !.result = "none"]
           q2 == [q EXCEPT !.fresh = TRUE]
<1>1. job[j] \in JobRecords /\ row \in Rows /\ client \in Clients \cup {NoClient}
  BY DEF JobTypes, StoreTypes
<1>2. q \in JobRecords
  BY <1>1, Zenon DEF JobRecords
<1>3. q.held = row /\ q.got = job[j].got
  BY <1>1, SMT DEF JobRecords
<1>4. /\ pc[j] = "load" /\ UNCHANGED <<row, issued, signs, lost>>
      /\ \/ row # NoToken /\ Go(j, "present", q)
         \/ Go(j, "bearer", q2)
         \/ Refused(j, q)
  BY DEF Load, signVars
<1> HIDE DEF q
<1>5. q2 \in JobRecords
  BY <1>2, Zenon DEF JobRecords
<1>6. q2.held = row /\ q2.got = job[j].got
  BY <1>2, <1>3, SMT DEF JobRecords
<1> HIDE DEF q2
<1>7. job[j].got = NoToken
  BY <1>4 DEF Hands
<1>8. CASE row # NoToken /\ Go(j, "present", q)
  BY <1>2, <1>3, <1>4, <1>8 DEF Asks, SignsStay, Effect
<1>9. CASE Go(j, "bearer", q2)
  <2>1. "bearer" \in Steps \ {"save", "present"}
    BY DEF Steps
  <2>2. Moves(j)
    BY <1>5, <1>6, <1>7, <1>9, <2>1 DEF Moves
  <2> QED BY <1>4, <2>2 DEF Rests, SignsStay, Effect
<1>10. CASE Refused(j, q)
  <2>1. Moves(j)
    BY <1>2, <1>3, <1>7, <1>10, RefusedMoves
  <2> QED BY <1>4, <2>1 DEF Rests, SignsStay, Effect
<1> QED BY <1>4, <1>8, <1>9, <1>10

LEMMA PresentEffect ==
  ASSUME Types, NEW j \in Jobs, Hands(j), Present(j) \/ PresentFails(j)
  PROVE  Effect(j)
<1> USE DEF Types
<1> DEFINE s == job[j].held.sign
           got == [sign |-> s, k |-> issued[s] + 1]
           q == [job[j] EXCEPT !.got = got]
<1>1. job[j] \in JobRecords /\ job[j].held \in Tokens /\ job[j].held \in Rows
      /\ job[j].got = NoToken /\ pc[j] = "present"
  BY JobFields DEF JobTypes, Hands, Present, PresentFails
<1>2. s \in SignIns /\ issued[s] \in 0..MaxTokens
  BY <1>1, SMT DEF Tokens, UpstreamTypes
<1>3. ASSUME issued[s] < MaxTokens, Accepts(job[j].held, job[j].with),
             issued' = [issued EXCEPT ![s] = @ + 1], UNCHANGED <<row, signs>>
      PROVE  Issues(j)
  BY <1>1, <1>3 DEF Issues, Accepts
<1>4. ASSUME NEW c \in {"other", "terminal"},
             Answered(j, [job[j] EXCEPT !.code = c, !.blamed = job[j].held], "unauth")
      PROVE  Moves(j)
  <2> DEFINE r == [job[j] EXCEPT !.code = c, !.blamed = job[j].held]
  <2>1. r \in JobRecords
    BY <1>1, Zenon DEF JobRecords
  <2>2. r.held = job[j].held /\ r.got = NoToken
    BY <1>1, SMT DEF JobRecords
  <2>3. Answered(j, r, "unauth")
    BY <1>4
  <2> HIDE DEF r
  <2> QED BY <2>1, <2>2, <2>3, AnsweredMoves
<1>5. Answered(j, job[j], "lost") => Moves(j)
  BY <1>1, AnsweredMoves
<1>6. CASE Present(j)
  <2>1. UNCHANGED <<row, signs, lost>>
    BY <1>6 DEF Present, storeVars, signVars, ghostVars
  <2>2. CASE /\ Accepts(job[j].held, job[j].with)
             /\ issued[s] < MaxTokens
             /\ issued' = [issued EXCEPT ![s] = @ + 1]
             /\ Go(j, "save", q)
    <3>1. got \in Rows
      BY <1>2, <2>2, SMT DEF Tokens, Rows
    <3> HIDE DEF got
    <3>2. q \in JobRecords
      BY <1>1, <3>1, Zenon DEF JobRecords
    <3>3. q.held = job[j].held /\ q.got = got
      BY <1>1, <3>1, SMT DEF JobRecords
    <3>4. Go(j, "save", q) /\ Issues(j)
      BY <1>3, <2>1, <2>2
    <3> HIDE DEF q
    <3> QED BY <2>1, <3>2, <3>3, <3>4 DEF Gets, Effect, got
  <2>3. CASE /\ Answered(j, [job[j] EXCEPT !.code = "terminal", !.blamed = job[j].held], "unauth")
             /\ UNCHANGED issued
    BY <1>1, <1>4, <2>1, <2>3 DEF Rests, SignsStay, Effect
  <2> QED BY <1>6, <2>2, <2>3 DEF Present
<1>7. CASE PresentFails(j)
  <2>1. UNCHANGED <<row, signs>>
    BY <1>7 DEF PresentFails, storeVars, signVars
  <2>2. CASE Answered(j, job[j], "lost") /\ UNCHANGED <<issued, lost>>
    BY <1>1, <1>5, <2>1, <2>2 DEF Rests, SignsStay, Effect
  <2>3. CASE /\ Accepts(job[j].held, job[j].with)
             /\ issued[s] < MaxTokens
             /\ issued' = [issued EXCEPT ![s] = @ + 1]
             /\ lost' = lost \cup {s}
             /\ Answered(j, job[j], "lost")
    BY <1>3, <1>5, <2>1, <2>3 DEF Misses, Effect
  <2>4. CASE /\ Answered(j, [job[j] EXCEPT !.code = "other", !.blamed = job[j].held], "unauth")
             /\ UNCHANGED <<issued, lost>>
    BY <1>1, <1>4, <2>1, <2>4 DEF Rests, SignsStay, Effect
  <2> QED BY <1>7, <2>2, <2>3, <2>4 DEF PresentFails
<1> QED BY <1>6, <1>7

LEMMA SaveEffect ==
  ASSUME Types, NEW j \in Jobs, Hands(j), Save(j) \/ SaveTimesOut(j)
  PROVE  Effect(j)
<1> USE DEF Types
<1> DEFINE p == [job[j] EXCEPT !.got = NoToken]
           q == [job[j] EXCEPT !.got = NoToken, !.fresh = TRUE]
           q2 == [q EXCEPT !.held = job[j].got, !.saved = TRUE]
<1>1. job[j] \in JobRecords /\ job[j].got \in Rows /\ NoToken \in Rows
      /\ pc[j] = "save"
  BY JobFields DEF JobTypes, Rows, Save, SaveTimesOut
<1>2. p \in JobRecords /\ q \in JobRecords
  BY <1>1, Zenon DEF JobRecords
<1>3. /\ p.held = job[j].held /\ p.got = NoToken
      /\ q.held = job[j].held /\ q.got = NoToken
  BY <1>1, SMT DEF JobRecords
<1>4. "bearer" \in Steps \ {"save", "present"}
  BY DEF Steps
<1>5. CASE Save(j)
  <2>1. UNCHANGED <<issued, signs, lost>>
    BY <1>5 DEF Save, upstreamVars, signVars, ghostVars
  <2>2. CASE SavesOver(q)
    <3>1. row' = job[j].got /\ Go(j, "bearer", q2)
      BY <1>5, <2>2 DEF Save
    <3>2. row # NoToken /\ row.sign = job[j].held.sign
      BY <1>3, <2>2 DEF SavesOver
    <3> HIDE DEF q
    <3>3. q2 \in JobRecords
      BY <1>1, <1>2, Zenon DEF JobRecords
    <3>4. q2.held = job[j].got /\ q2.got = NoToken
      BY <1>1, <1>2, <1>3, SMT DEF JobRecords
    <3> HIDE DEF q2
    <3>5. Moves(j)
      BY <1>4, <3>1, <3>3, <3>4 DEF Moves
    <3> QED BY <1>1, <2>1, <3>1, <3>2, <3>5 DEF Writes, SignsStay, Effect
  <2>3. CASE ~SavesOver(q)
    <3>1. row' = row /\ Go(j, "bearer", q)
      BY <1>5, <2>3 DEF Save
    <3>2. row = NoToken \/ row.sign # job[j].held.sign
      BY <1>3, <2>3 DEF SavesOver
    <3> HIDE DEF q
    <3>3. Moves(j)
      BY <1>2, <1>3, <1>4, <3>1 DEF Moves
    <3> QED BY <2>1, <3>1, <3>2, <3>3 DEF Rests, SignsStay, Effect
  <2> QED BY <2>2, <2>3
<1>6. CASE SaveTimesOut(j)
  <2>1. UNCHANGED <<issued, signs>> /\ Answered(j, p, "lost")
    BY <1>6 DEF SaveTimesOut, upstreamVars, signVars
  <2> HIDE DEF p
  <2>2. Moves(j)
    BY <1>2, <1>3, <2>1, AnsweredMoves
  <2>3. CASE lost' = lost \cup {job[j].got.sign} /\ UNCHANGED <<row, due>>
    BY <2>1, <2>2, <2>3 DEF Rests, SignsStay, Effect
  <2>4. CASE SavesOver(job[j]) /\ row' = job[j].got /\ UNCHANGED lost
    BY <1>1, <2>1, <2>2, <2>4 DEF SavesOver, Writes, SignsStay, Effect
  <2> QED BY <1>6, <2>3, <2>4 DEF SaveTimesOut
<1> QED BY <1>5, <1>6

LEMMA BearerEffect ==
  ASSUME Types, NEW j \in Jobs, Hands(j), Bearer(j)
  PROVE  Effect(j)
<1>1. job[j] \in JobRecords /\ job[j].got = NoToken /\ pc[j] = "bearer"
  BY DEF Types, JobTypes, Hands, Bearer
<1>2. UNCHANGED <<row, issued, signs, lost>>
  BY DEF Bearer, signVars, ghostVars
<1>3. Answered(j, job[j], "ok") \/ Answered(j, job[j], "lost") \/ Refused(j, job[j])
  BY DEF Bearer
<1>4. Moves(j)
  BY <1>1, <1>3, AnsweredMoves, RefusedMoves DEF Types
<1> QED BY <1>1, <1>2, <1>4 DEF Rests, SignsStay, Effect

\* The clean-up, and a reconnect that is given up.
LEMMA CleanUpEffect ==
  ASSUME Types, NEW j \in Jobs, Hands(j),
         Record(j) \/ Purge(j) \/ PurgeClient(j) \/ ResetFailures(j) \/ Aborted(j)
  PROVE  Effect(j)
<1> USE DEF Types
<1>1. {"purge", "purgeClient", "purgeCount"} \subseteq Steps \ {"save", "present"}
  BY DEF Steps
<1>2. UNCHANGED <<issued, signs>> /\ row' \in {row, NoToken}
  BY DEF Record, Purge, PurgeClient, ResetFailures, Aborted, upstreamVars, signVars, storeVars
<1>3. CASE Record(j) \/ Purge(j) \/ PurgeClient(j) \/ ResetFailures(j)
  <2>1. /\ pc[j] # "save" /\ lost' = lost
        /\ \/ End(j) \/ Goto(j, "purge") \/ Closes(j, "purgeClient")
           \/ Goto(j, "purgeCount")
    BY <1>3 DEF Record, Purge, PurgeClient, ResetFailures, ghostVars
  <2>2. Moves(j)
    BY <1>1, <2>1, EndsMove, GotoMoves
  <2> QED BY <1>2, <2>1, <2>2 DEF Rests, SignsStay, Effect
<1>4. CASE Aborted(j)
  <2>1. /\ Ends(j)
        /\ lost' = IF job[j].got = NoToken THEN lost ELSE lost \cup {job[j].got.sign}
    BY <1>4 DEF Aborted
  <2>2. Moves(j)
    BY <1>1, <2>1, EndsMove
  <2>3. pc[j] = "save" => job[j].got # NoToken
    BY SMT DEF Hands, Tokens, NoToken, SignIns
  <2> QED BY <1>2, <2>1, <2>2, <2>3 DEF Rests, SignsStay, Effect
<1> QED BY <1>3, <1>4

LEMMA JobEffects ==
  ASSUME Types, NEW j \in Jobs, Hands(j), JobStep(j)
  PROVE  Effect(j)
<1>1. Elsewhere(j) => Effect(j)
  BY ElsewhereRests DEF Types, Effect
<1> QED
  BY <1>1, LoadEffect, PresentEffect, SaveEffect, BearerEffect, CleanUpEffect
     DEF JobStep, Elsewhere

-----------------------------------------------------------------------------
(* The invariant *)

HandsRight == \A j \in Jobs : Hands(j)

\* t is not a token of g's sign-in that was issued after g, or is g.
Older(t, g) == t.sign = g.sign => t.k < g.k

\* Whoever is about to save tokens has the newest of their sign-in, and nobody
\* else has them.
Alone ==
  \A j \in Jobs :
    pc[j] = "save" =>
      /\ Older(row, job[j].got)
      /\ \A i \in Jobs \ {j} :
           /\ Older(job[i].held, job[j].got)
           /\ pc[i] = "save" => job[i].got.sign # job[j].got.sign

\* Only tokens that the upstream issued, for sign-ins that were made, are about.
WasIssued(t) == t # NoToken => t.sign <= signs /\ t.k <= issued[t.sign]

Known == WasIssued(row) /\ \A j \in Jobs : WasIssued(job[j].held)

TokensInv == Types /\ HandsRight /\ Alone /\ Known /\ StoredTokensWork

LEMMA RowFields ==
  ASSUME NEW t \in Rows
  PROVE  /\ t = NoToken => t.sign = 0 /\ t.k = 0
         /\ t # NoToken => /\ t \in Tokens
                          /\ t.sign \in SignIns /\ t.k \in 1..MaxTokens
BY SMT DEF Rows, Tokens, NoToken, SignIns

LEMMA TokensInit == Init => TokensInv
<1> SUFFICES ASSUME Init PROVE TokensInv
  OBVIOUS
<1> USE DEF Init
<1>1. /\ 1 \in SignIns /\ 1 \in Clients /\ 1 \in 1..MaxTokens
      /\ 0 \in 0..Threshold /\ 0 \in 0..MaxTrouble
  BY SMT DEF SignIns, Clients
<1>2. row \in Tokens /\ row \in Rows /\ row.sign = 1 /\ row.k = 1 /\ issued[1] = 1
  BY <1>1, SMT DEF Tokens, Rows
<1>3. \A j \in Jobs : pc[j] = "idle" /\ job[j].held = NoToken /\ job[j].got = NoToken
  BY NewJobFields
<1>4. StoreTypes
  BY <1>1, <1>2 DEF StoreTypes
<1>5. UpstreamTypes
  <2>1. issued \in [SignIns -> 0..MaxTokens]
    BY <1>1, SMT
  <2>2. uses \in [SignIns -> Clients \cup {NoClient}]
    BY <1>1
  <2> QED BY <1>1, <2>1, <2>2 DEF UpstreamTypes
<1>6. JobTypes
  BY NewJobIsAJob DEF JobTypes, Steps
<1>7. SignTypes /\ GhostTypes
  BY <1>1 DEF SignTypes, GhostTypes
<1>8. HandsRight /\ Alone
  BY <1>3 DEF HandsRight, Hands, Alone
<1>9. Known /\ StoredTokensWork
  BY <1>2, <1>3, SMT DEF Known, WasIssued, StoredTokensWork
<1> QED BY <1>4, <1>5, <1>6, <1>7, <1>8, <1>9 DEF TokensInv, Types

\* Where the job goes is a type matter of its effect.
LEMMA EffectTypes ==
  ASSUME Types, NEW j \in Jobs, Hands(j), Effect(j)
  PROVE  /\ row' \in Rows
         /\ issued' \in [SignIns -> 0..MaxTokens]
         /\ pc' \in [Jobs -> Steps]
         /\ job' \in [Jobs -> JobRecords]
<1> USE DEF Types
<1>1. Moves(j) => pc' \in [Jobs -> Steps] /\ job' \in [Jobs -> JobRecords]
  BY GoTypes DEF Moves
<1>2. Issues(j) => issued' \in [SignIns -> 0..MaxTokens] /\ row' = row
  <2>1. SUFFICES ASSUME Issues(j) PROVE issued' \in [SignIns -> 0..MaxTokens]
    BY DEF Issues
  <2>2. job[j].held.sign \in SignIns
    BY <2>1, SMT DEF Issues, Hands, Tokens
  <2> QED BY <2>1, <2>2, SMT DEF Issues, UpstreamTypes
<1>3. NoToken \in Rows /\ row \in Rows /\ job[j].got \in Rows
      /\ issued \in [SignIns -> 0..MaxTokens]
  BY JobFields DEF Rows, StoreTypes, JobTypes, UpstreamTypes
<1>4. CASE Rests(j) \/ Writes(j)
  BY <1>1, <1>3, <1>4 DEF Rests, Writes, SignsStay
<1>5. CASE Asks(j)
  BY <1>3, <1>5, GoTypes DEF Asks, SignsStay, Steps
<1>6. CASE Gets(j)
  BY <1>2, <1>3, <1>6, GoTypes DEF Gets, Steps
<1>7. CASE Misses(j)
  BY <1>1, <1>2, <1>3, <1>7 DEF Misses
<1> QED BY <1>4, <1>5, <1>6, <1>7 DEF Effect

LEMMA JobStepTypes ==
  ASSUME Types, NEW j \in Jobs, Hands(j), JobStep(j)
  PROVE  Types'
<1> USE DEF Types
<1>1. /\ row' \in Rows /\ issued' \in [SignIns -> 0..MaxTokens]
      /\ pc' \in [Jobs -> Steps] /\ job' \in [Jobs -> JobRecords]
  BY JobEffects, EffectTypes
<1>2. Trouble => trouble' \in 0..MaxTrouble
  BY SMT DEF Trouble, GhostTypes
<1>3. ASSUME NEW r \in JobRecords, Refused(j, r)
      PROVE  client' \in Clients \cup {NoClient} /\ clients' \in Clients
  BY <1>3, RefusedTypes
<1> DEFINE Rest == /\ client' \in Clients \cup {NoClient} /\ clients' \in Clients
                   /\ failures' \in 0..Threshold /\ due' \in BOOLEAN
                   /\ lock' \in Jobs \cup {NoJob} /\ lost' \subseteq SignIns
                   /\ astray' \in BOOLEAN /\ trouble' \in 0..MaxTrouble
                   /\ UNCHANGED <<uses, revoked, signs, signing, ctx>>
<1>4. Rest => Types'
  BY <1>1 DEF StoreTypes, UpstreamTypes, JobTypes, SignTypes, GhostTypes
<1> USE DEF storeVars, upstreamVars, signVars, ghostVars
<1>5. /\ client \in Clients \cup {NoClient} /\ clients \in Clients
      /\ failures \in 0..Threshold /\ due \in BOOLEAN
      /\ lock \in Jobs \cup {NoJob} /\ lost \subseteq SignIns
      /\ astray \in BOOLEAN /\ trouble \in 0..MaxTrouble
      /\ job[j] \in JobRecords
  BY DEF StoreTypes, UpstreamTypes, JobTypes, GhostTypes
<1>6. ASSUME Elsewhere(j) PROVE Rest
  BY <1>5, <1>6, ElsewhereRests
<1>7. ASSUME Load(j) PROVE Rest
  <2> DEFINE q == [job[j] EXCEPT !.held = row, !.with = client, !.fresh = FALSE, !.result = "none"]
  <2>1. row \in Rows
    BY DEF StoreTypes
  <2>2. q \in JobRecords
    BY <1>5, <2>1, Zenon DEF JobRecords
  <2>3. /\ \/ Refused(j, q)
           \/ UNCHANGED <<client, clients>>
        /\ astray' \in BOOLEAN
        /\ UNCHANGED <<failures, due, lock, lost, trouble, uses, revoked, signVars>>
    BY <1>5, <1>7 DEF Load
  <2> HIDE DEF q
  <2> QED BY <1>3, <1>5, <2>2, <2>3
<1>8. ASSUME Present(j) \/ PresentFails(j) PROVE Rest
  <2>1. job[j].held.sign \in SignIns
    BY <1>8, SMT DEF Hands, Tokens, Present, PresentFails
  <2>2. /\ UNCHANGED <<client, clients, failures, due, lock, astray, uses, revoked, signVars>>
        /\ lost' \in {lost, lost \cup {job[j].held.sign}}
        /\ trouble' = trouble \/ Trouble
    BY <1>8 DEF Present, PresentFails
  <2> QED BY <1>2, <1>5, <2>1, <2>2
<1>9. ASSUME Save(j) \/ SaveTimesOut(j) PROVE Rest
  <2>1. job[j].got.sign \in SignIns
    BY <1>9, SMT DEF Hands, Tokens, Save, SaveTimesOut
  <2>2. /\ UNCHANGED <<client, clients, failures, lock, astray, uses, revoked, signVars>>
        /\ due' \in {due, FALSE}
        /\ lost' \in {lost, lost \cup {job[j].got.sign}}
        /\ trouble' = trouble \/ Trouble
    BY <1>9 DEF Save, SaveTimesOut
  <2> QED BY <1>2, <1>5, <2>1, <2>2
<1>10. ASSUME Bearer(j) PROVE Rest
  <2>1. /\ UNCHANGED <<failures, due, lock, lost, astray, uses, revoked, signVars>>
        /\ Refused(j, job[j]) \/ UNCHANGED <<client, clients>>
        /\ trouble' = trouble \/ Trouble
    BY <1>10 DEF Bearer
  <2> QED BY <1>2, <1>3, <1>5, <2>1
<1>11. ASSUME Record(j) PROVE Rest
  <2>1. failures' \in 0..Threshold
    BY <1>5, <1>11, SMT DEF Record
  <2>2. UNCHANGED <<client, clients, due, lock, lost, astray, trouble, uses, revoked, signVars>>
    BY <1>11 DEF Record
  <2> QED BY <1>5, <2>1, <2>2
<1>12. ASSUME Purge(j) PROVE Rest
  BY <1>5, <1>12 DEF Purge
<1>13. ASSUME PurgeClient(j) PROVE Rest
  BY <1>5, <1>13 DEF PurgeClient
<1>14. ASSUME ResetFailures(j) PROVE Rest
  <2>1. 0 \in 0..Threshold
    BY SMT
  <2> QED BY <1>5, <1>14, <2>1 DEF ResetFailures
<1>15. ASSUME Aborted(j) PROVE Rest
  <2>1. job[j].got # NoToken => job[j].got.sign \in SignIns
    BY <1>5, JobFields, RowFields
  <2>2. /\ UNCHANGED <<client, clients, failures, due, lock, astray, uses, revoked, signVars>>
        /\ Trouble
        /\ lost' = IF job[j].got = NoToken THEN lost ELSE lost \cup {job[j].got.sign}
    BY <1>15 DEF Aborted
  <2> QED BY <1>2, <1>5, <2>1, <2>2
<1> QED
  BY <1>4, <1>6, <1>7, <1>8, <1>9, <1>10, <1>11, <1>12, <1>13, <1>14, <1>15
     DEF JobStep, Elsewhere

\* Steps of the user, of the upstream and of time leave the jobs alone.
Outside == UserStep \/ (\E s \in SignIns : Revoke(s)) \/ Age

LEMMA OutsideTypes ==
  ASSUME Types, Outside
  PROVE  Types'
<1> USE DEF Types, StoreTypes, UpstreamTypes, JobTypes, SignTypes, GhostTypes,
            storeVars, upstreamVars, signVars, ghostVars
<1>1. CASE Consent
  <2>1. client' \in Clients \cup {NoClient} /\ clients' \in Clients
        /\ ctx' \in Clients \cup {NoClient}
    <3>1. clients < MaxClients => clients + 1 \in Clients
      BY SMT DEF Clients
    <3> QED BY <1>1, <3>1 DEF Consent
  <2> QED BY <1>1, <2>1 DEF Consent
<1>2. CASE SignIn
  <2>1. signs + 1 \in SignIns /\ 1 \in 1..MaxTokens /\ 1 \in 0..MaxTokens
    BY <1>2, SMT DEF SignIn, SignIns
  <2>2. row' \in Rows
    BY <1>2, <2>1 DEF SignIn, Rows, Tokens
  <2>3. /\ issued' \in [SignIns -> 0..MaxTokens]
        /\ uses' \in [SignIns -> Clients \cup {NoClient}]
    BY <1>2, <2>1 DEF SignIn
  <2> QED BY <1>2, <2>1, <2>2, <2>3 DEF SignIn
<1>3. CASE SettleClient
  BY <1>3 DEF SettleClient
<1>4. CASE SettleFailures
  <2>1. 0 \in 0..Threshold
    BY SMT
  <2> QED BY <1>4, <2>1 DEF SettleFailures
<1>5. CASE Disconnect
  BY <1>5 DEF Disconnect, Rows
<1>6. ASSUME NEW s \in SignIns, Revoke(s) PROVE Types'
  <2>1. trouble' \in 0..MaxTrouble
    BY <1>6, SMT DEF Revoke, Trouble
  <2> QED BY <1>6, <2>1 DEF Revoke
<1>7. CASE Age
  BY <1>7 DEF Age
<1> QED BY <1>1, <1>2, <1>3, <1>4, <1>5, <1>6, <1>7 DEF Outside, UserStep

\* A move of one job.
LEMMA MovesSlots ==
  ASSUME JobTypes, NEW j \in Jobs, Moves(j)
  PROVE  /\ pc'[j] \notin {"save", "present"}
         /\ job'[j].got = NoToken
         /\ job'[j].held \in {NoToken, job[j].held, row, row'}
         /\ \A i \in Jobs \ {j} : pc'[i] = pc[i] /\ job'[i] = job[i]
BY DEF JobTypes, Moves, Go

LEMMA AsksSlots ==
  ASSUME JobTypes, NEW j \in Jobs, Asks(j)
  PROVE  /\ pc'[j] = "present" /\ job'[j].got = job[j].got /\ job'[j].held = row
         /\ \A i \in Jobs \ {j} : pc'[i] = pc[i] /\ job'[i] = job[i]
BY DEF JobTypes, Asks, Go

LEMMA GetsSlots ==
  ASSUME JobTypes, NEW j \in Jobs, Gets(j)
  PROVE  /\ pc'[j] = "save" /\ job'[j].held = job[j].held
         /\ job'[j].got = [sign |-> job[j].held.sign, k |-> issued[job[j].held.sign] + 1]
         /\ \A i \in Jobs \ {j} : pc'[i] = pc[i] /\ job'[i] = job[i]
BY DEF JobTypes, Gets, Go

\* Where the upstream has just issued the next token of a sign-in, no other job
\* was about to save one of the same sign-in.
LEMMA NobodyElseSaves ==
  ASSUME Types, HandsRight, Alone, NEW j \in Jobs, Issues(j),
         NEW i \in Jobs \ {j}, pc[i] = "save"
  PROVE  job[i].got.sign # job[j].held.sign
<1> SUFFICES ASSUME job[i].got.sign = job[j].held.sign PROVE FALSE
  OBVIOUS
<1>1. job[i].got \in Tokens /\ job[i].got.k = issued[job[i].got.sign]
      /\ Older(job[j].held, job[i].got)
  BY DEF HandsRight, Hands, Alone
<1>2. job[j].held.k < job[i].got.k /\ job[j].held.k = job[i].got.k
  BY <1>1 DEF Older, Issues
<1>3. job[i].got.k \in Nat
  BY <1>1, SMT DEF Tokens
<1> QED BY <1>2, <1>3, SMT

\* An issue of a token: the upstream's count of that sign-in, and only that,
\* goes up by one.
LEMMA IssuesCounts ==
  ASSUME Types, HandsRight, NEW j \in Jobs, Issues(j)
  PROVE  /\ job[j].held \in Tokens /\ job[j].held.sign \in SignIns
         /\ job[j].held.k \in Nat /\ issued[job[j].held.sign] \in Nat
         /\ issued[job[j].held.sign] + 1 \in 1..MaxTokens
         /\ job[j].held.k = issued[job[j].held.sign]
         /\ issued'[job[j].held.sign] = issued[job[j].held.sign] + 1
         /\ \A s \in SignIns \ {job[j].held.sign} : issued'[s] = issued[s]
<1>1. job[j].held \in Tokens
  BY DEF HandsRight, Hands, Issues
<1>2. job[j].held.sign \in SignIns /\ job[j].held.k \in 1..MaxTokens
  BY <1>1, SMT DEF Tokens
<1>3. issued \in [SignIns -> 0..MaxTokens]
  BY DEF Types, UpstreamTypes
<1>4. /\ issued[job[j].held.sign] < MaxTokens
      /\ job[j].held.k = issued[job[j].held.sign]
      /\ issued' = [issued EXCEPT ![job[j].held.sign] = @ + 1]
  BY DEF Issues
<1> QED BY <1>1, <1>2, <1>3, <1>4, SMT
-----------------------------------------------------------------------------
LEMMA HandsStep ==
  ASSUME TokensInv, NEW j \in Jobs, Effect(j)
  PROVE  HandsRight'
<1> USE DEF TokensInv, Types
<1> SUFFICES ASSUME NEW i \in Jobs PROVE Hands(i)'
  BY DEF HandsRight
<1>1. Hands(i) /\ Hands(j)
  BY DEF HandsRight
<1>2. CASE i = j
  <2>1. CASE Moves(j)
    BY <1>2, <2>1, MovesSlots DEF Hands
  <2>2. CASE Asks(j)
    <3>1. row \in Tokens /\ job[j].got = NoToken
      BY <1>1, <2>2, RowFields DEF Asks, StoreTypes, Hands
    <3> QED BY <1>2, <2>2, <3>1, AsksSlots DEF Hands
  <2>3. CASE Gets(j)
    <3> DEFINE s == job[j].held.sign
               new == [sign |-> s, k |-> issued[s] + 1]
    <3>1. s \in SignIns /\ issued[s] + 1 \in 1..MaxTokens /\ issued'[s] = issued[s] + 1
      BY <2>3, IssuesCounts DEF Gets
    <3>2. new \in Tokens /\ new.sign = s /\ new.k = issued'[s]
      BY <3>1 DEF Tokens
    <3>3. pc'[j] = "save" /\ job'[j].got = new /\ job'[j].held.sign = s
      BY <2>3, GetsSlots
    <3> HIDE DEF s, new
    <3> QED BY <1>2, <3>2, <3>3 DEF Hands
  <2> QED BY <2>1, <2>2, <2>3 DEF Effect, Rests, Writes, Misses
<1>3. CASE i # j
  <2>1. pc'[i] = pc[i] /\ job'[i] = job[i]
    BY <1>3, MovesSlots, AsksSlots, GetsSlots DEF Effect, Rests, Writes, Misses
  <2>2. pc[i] = "save" => issued'[job[i].got.sign] = issued[job[i].got.sign]
    <3>1. pc[i] = "save" => job[i].got.sign \in SignIns
      BY <1>1, SMT DEF Hands, Tokens
    <3>2. CASE Issues(j)
      BY <1>3, <3>1, <3>2, IssuesCounts, NobodyElseSaves
    <3>3. CASE issued' = issued
      BY <3>3
    <3> QED BY <3>2, <3>3 DEF Effect, Rests, Writes, Asks, Gets, Misses, SignsStay
  <2> QED BY <1>1, <2>1, <2>2 DEF Hands
<1> QED BY <1>2, <1>3

LEMMA KnownStep ==
  ASSUME TokensInv, NEW j \in Jobs, Effect(j)
  PROVE  Known'
<1> USE DEF TokensInv, Types
<1>1. signs' = signs
  BY DEF Effect, Rests, Writes, Asks, Gets, Misses, Issues, SignsStay
\* What was issued stays issued.
<1>2. ASSUME NEW t \in Rows, WasIssued(t) PROVE WasIssued(t)'
  <2>1. CASE issued' = issued
    BY <1>1, <1>2, <2>1 DEF WasIssued
  <2>2. CASE Issues(j)
    <3>1. t # NoToken => t.sign \in SignIns /\ t.k \in 1..MaxTokens
      BY RowFields
    <3>2. CASE t.sign = job[j].held.sign
      <4>1. t # NoToken => t.k <= issued'[t.sign]
        BY <1>2, <2>2, <3>1, <3>2, IssuesCounts, SMT DEF WasIssued
      <4> QED BY <1>1, <1>2, <4>1 DEF WasIssued
    <3>3. CASE t.sign # job[j].held.sign
      BY <1>1, <1>2, <2>2, <3>1, <3>3, IssuesCounts DEF WasIssued
    <3> QED BY <3>2, <3>3
  <2> QED BY <2>1, <2>2 DEF Effect, Rests, Writes, Asks, Gets, Misses, SignsStay
<1>3. /\ row \in Rows /\ WasIssued(row)
      /\ \A i \in Jobs : job[i].held \in Rows /\ job[i].got \in Rows /\ WasIssued(job[i].held)
  BY JobFields DEF Known, StoreTypes, JobTypes
<1>4. WasIssued(NoToken)' /\ NoToken \in Rows
  BY DEF WasIssued, Rows
<1>5. WasIssued(row)'
  <2>1. CASE row' \in {row, NoToken}
    BY <1>2, <1>3, <1>4, <2>1 DEF WasIssued
  <2>2. CASE Writes(j)
    <3>1. /\ job[j].got \in Tokens /\ job[j].got.k = issued[job[j].got.sign]
          /\ job[j].got.sign = row.sign /\ row # NoToken
      BY <2>2 DEF Writes, HandsRight, Hands
    <3>2. job[j].got.sign <= signs
      BY <1>3, <3>1 DEF WasIssued
    <3>3. job[j].got.k <= issued[job[j].got.sign]
      BY <3>1, SMT DEF Tokens
    <3> QED BY <1>1, <2>2, <3>2, <3>3 DEF WasIssued, Writes, SignsStay
  <2> QED BY <2>1, <2>2 DEF Effect, Rests, Asks, Gets, Misses, Issues
<1>6. ASSUME NEW i \in Jobs PROVE WasIssued(job[i].held)'
  <2>1. job'[i].held \in {NoToken, job[i].held, row, row'}
    BY MovesSlots, AsksSlots, GetsSlots DEF Effect, Rests, Writes, Misses
  <2>2. WasIssued(job[i].held) /\ job[i].held \in Rows
    BY <1>3
  <2> QED BY <1>2, <1>3, <1>4, <1>5, <2>1, <2>2 DEF WasIssued
<1> QED BY <1>5, <1>6 DEF Known

LEMMA AloneStep ==
  ASSUME TokensInv, NEW j \in Jobs, Effect(j)
  PROVE  Alone'
<1> USE DEF TokensInv, Types
<1>1. /\ row \in Rows /\ WasIssued(row)
      /\ \A i \in Jobs : job[i].held \in Rows /\ job[i].got \in Rows /\ WasIssued(job[i].held)
  BY JobFields DEF Known, StoreTypes, JobTypes
<1>2. \A i \in Jobs : pc[i] = "save" => job[i].got.sign \in SignIns
  BY SMT DEF HandsRight, Hands, Tokens
<1>3. ASSUME NEW g, g.sign \in SignIns PROVE Older(NoToken, g)
  BY <1>3, SMT DEF Older, NoToken, SignIns
<1> SUFFICES ASSUME NEW k \in Jobs, pc'[k] = "save"
             PROVE  /\ Older(row', job'[k].got)
                    /\ \A i \in Jobs \ {k} :
                         /\ Older(job'[i].held, job'[k].got)
                         /\ pc'[i] = "save" => job'[i].got.sign # job'[k].got.sign
  BY DEF Alone, Older
<1>4. CASE k = j
  <2>1. Gets(j)
    BY <1>4, MovesSlots, AsksSlots DEF Effect, Rests, Writes, Misses
  <2> DEFINE s == job[j].held.sign
             new == [sign |-> s, k |-> issued[s] + 1]
  <2>2. /\ job'[k].got = new /\ s \in SignIns /\ issued[s] \in Nat /\ Issues(j)
        /\ \A i \in Jobs \ {j} : pc'[i] = pc[i] /\ job'[i] = job[i]
    BY <1>4, <2>1, GetsSlots, IssuesCounts DEF Gets
  <2>3. ASSUME NEW t \in Rows, WasIssued(t) PROVE Older(t, new)
    <3>1. CASE t = NoToken
      BY <1>3, <2>2, <3>1
    <3>2. CASE t # NoToken
      <4>1. t.k \in Nat /\ (t.sign = s => t.k <= issued[s])
        BY <2>3, <3>2, RowFields, SMT DEF WasIssued
      <4> QED BY <2>2, <4>1, SMT DEF Older
    <3> QED BY <3>1, <3>2
  <2>4. row' = row
    BY <2>2 DEF Issues
  <2>5. Older(row', new) /\ \A i \in Jobs \ {k} : Older(job'[i].held, new)
    BY <1>1, <1>4, <2>2, <2>3, <2>4
  <2>6. \A i \in Jobs \ {k} : pc'[i] = "save" => job'[i].got.sign # s
    BY <1>4, <2>2, NobodyElseSaves
  <2>7. new.sign = s
    OBVIOUS
  <2> HIDE DEF new, s
  <2> QED BY <2>2, <2>5, <2>6, <2>7
<1>5. CASE k # j
  <2>1. \A i \in Jobs \ {j} : pc'[i] = pc[i] /\ job'[i] = job[i]
    BY MovesSlots, AsksSlots, GetsSlots DEF Effect, Rests, Writes, Misses
  <2>2. pc[k] = "save" /\ job'[k].got = job[k].got /\ job[k].got.sign \in SignIns
    BY <1>2, <1>5, <2>1
  <2>3. /\ Older(row, job[k].got)
        /\ \A i \in Jobs \ {k} : /\ Older(job[i].held, job[k].got)
                                 /\ pc[i] = "save" => job[i].got.sign # job[k].got.sign
    BY <2>2 DEF Alone
  <2>4. Older(row', job[k].got)
    <3>1. CASE row' \in {row, NoToken}
      BY <1>3, <2>2, <2>3, <3>1
    <3>2. CASE Writes(j)
      BY <1>5, <2>3, <3>2 DEF Writes, Older
    <3> QED BY <3>1, <3>2 DEF Effect, Rests, Asks, Gets, Misses, Issues
  <2>5. Older(job'[j].held, job[k].got)
    <3>1. job'[j].held \in {NoToken, job[j].held, row, row'}
      BY MovesSlots, AsksSlots, GetsSlots DEF Effect, Rests, Writes, Misses
    <3> QED BY <1>3, <1>5, <2>2, <2>3, <2>4, <3>1
  <2>6. pc'[j] = "save" => job'[j].got.sign # job[k].got.sign
    <3>1. SUFFICES ASSUME Gets(j) PROVE job'[j].got.sign # job[k].got.sign
      BY MovesSlots, AsksSlots DEF Effect, Rests, Writes, Misses
    <3>2. job'[j].got = [sign |-> job[j].held.sign, k |-> issued[job[j].held.sign] + 1]
      BY <3>1, GetsSlots
    <3>3. job'[j].got.sign = job[j].held.sign
      BY <3>2
    <3> QED BY <1>5, <2>2, <3>1, <3>3, NobodyElseSaves DEF Gets
  <2> QED BY <2>1, <2>2, <2>3, <2>4, <2>5, <2>6
<1> QED BY <1>4, <1>5

\* The heart of the matter: the newest tokens of the stored sign-in are stored, or
\* some job is about to store them, or nobody has them.
LEMMA WorkStep ==
  ASSUME TokensInv, NEW j \in Jobs, Effect(j)
  PROVE  StoredTokensWork'
<1> USE DEF TokensInv, Types
<1> SUFFICES ASSUME row' # NoToken, row'.sign \notin lost'
             PROVE  \/ row'.k = issued'[row'.sign]
                    \/ \E i \in Jobs : job'[i].got = [sign |-> row'.sign, k |-> issued'[row'.sign]]
  BY DEF StoredTokensWork, InHand
<1>1. CASE Writes(j)
  BY <1>1 DEF Writes, HandsRight, Hands, SignsStay
<1>2. CASE ~Writes(j)
  <2> DEFINE newest == [sign |-> row.sign, k |-> issued[row.sign]]
  <2>1. row' = row /\ lost \subseteq lost' /\ row.sign \notin lost
    BY <1>2 DEF Effect, Rests, Asks, Gets, Misses, Issues
  <2>2. row \in Tokens /\ row.sign \in SignIns
    BY <2>1, RowFields DEF StoreTypes
  <2>3. row.k = issued[row.sign] \/ \E i \in Jobs : job[i].got = newest
    BY <2>1 DEF StoredTokensWork, InHand
  <2>4. newest # NoToken /\ newest.sign = row.sign
    BY <2>2, SMT DEF NoToken, SignIns
  <2>5. \A i \in Jobs : job[i].got = newest => pc[i] = "save" /\ job[i].held.sign = row.sign
    BY <2>4 DEF HandsRight, Hands
  <2> HIDE DEF newest
  <2>6. CASE Rests(j)
    <3>1. ASSUME NEW i \in Jobs, job[i].got = newest PROVE job'[i].got = newest
      <4>1. CASE i = j
        BY <2>1, <2>4, <2>5, <2>6, <3>1, <4>1 DEF Rests
      <4>2. CASE i # j
        BY <2>6, <3>1, <4>2, MovesSlots DEF Rests
      <4> QED BY <4>1, <4>2
    <3> QED BY <2>1, <2>3, <2>6, <3>1 DEF Rests, SignsStay, newest
  <2>7. CASE Asks(j)
    <3>1. ASSUME NEW i \in Jobs PROVE job'[i].got = job[i].got
      BY <2>7, AsksSlots
    <3> QED BY <2>1, <2>3, <2>7, <3>1 DEF Asks, SignsStay, newest
  <2>8. ASSUME Issues(j), row.sign # job[j].held.sign,
               \A i \in Jobs \ {j} : job'[i] = job[i]
        PROVE  \/ row.k = issued'[row.sign]
               \/ \E i \in Jobs : job'[i].got = [sign |-> row.sign, k |-> issued'[row.sign]]
    <3>1. issued'[row.sign] = issued[row.sign]
      BY <2>2, <2>8, IssuesCounts
    <3>2. pc[j] # "save"
      BY <2>8 DEF Issues
    <3> QED BY <2>3, <2>5, <2>8, <3>1, <3>2 DEF newest
  <2>9. CASE Gets(j)
    <3>1. CASE row.sign = job[j].held.sign
      <4>1. issued'[row.sign] = issued[row.sign] + 1
        BY <2>9, <3>1, IssuesCounts DEF Gets
      <4>2. job'[j].got = [sign |-> row.sign, k |-> issued'[row.sign]]
        BY <2>9, <3>1, <4>1, GetsSlots
      <4> QED BY <2>1, <4>2
    <3>2. CASE row.sign # job[j].held.sign
      BY <2>1, <2>8, <2>9, <3>2, GetsSlots DEF Gets
    <3> QED BY <3>1, <3>2
  <2>10. CASE Misses(j)
    <3>1. row.sign # job[j].held.sign
      BY <2>1, <2>10 DEF Misses
    <3> QED BY <2>1, <2>8, <2>10, <3>1, MovesSlots DEF Misses
  <2> QED BY <1>2, <2>6, <2>7, <2>9, <2>10 DEF Effect
<1> QED BY <1>1, <1>2

\* A new sign-in is newer than whatever anybody holds; the other steps from outside
\* change no token but to delete the stored one.
LEMMA OutsideStep ==
  ASSUME TokensInv, Outside
  PROVE  HandsRight' /\ Alone' /\ Known' /\ StoredTokensWork'
<1> USE DEF TokensInv, Types
<1>1. pc' = pc /\ job' = job /\ lost' = lost
  BY DEF Outside, UserStep, Consent, SignIn, SettleClient, SettleFailures, Disconnect,
         Revoke, Age, ghostVars
<1>2. ASSUME NEW g, g.sign \in SignIns PROVE Older(NoToken, g)
  BY <1>2, SMT DEF Older, NoToken, SignIns
<1>3. \A i \in Jobs : pc[i] = "save" => job[i].got.sign \in SignIns
  BY SMT DEF HandsRight, Hands, Tokens
<1>4. CASE row' \in {row, NoToken} /\ UNCHANGED <<issued, signs>>
  <2>1. HandsRight'
    BY <1>1, <1>4 DEF HandsRight, Hands
  <2>2. Alone'
    BY <1>1, <1>2, <1>3, <1>4 DEF Alone, Older
  <2>3. Known'
    BY <1>1, <1>4 DEF Known, WasIssued
  <2>4. StoredTokensWork'
    BY <1>1, <1>4 DEF StoredTokensWork, InHand
  <2> QED BY <2>1, <2>2, <2>3, <2>4
<1>5. CASE SignIn
  <2> DEFINE s == signs + 1
  <2>1. /\ row' = [sign |-> s, k |-> 1] /\ signs' = s
        /\ issued' = [issued EXCEPT ![s] = 1]
    BY <1>5 DEF SignIn
  <2>2. s \in SignIns /\ signs \in Nat
    BY <1>5, SMT DEF SignIn, SignTypes, SignIns
  <2>3. issued \in [SignIns -> 0..MaxTokens]
    BY DEF UpstreamTypes
  <2>4. issued'[s] = 1 /\ \A x \in SignIns \ {s} : issued'[x] = issued[x]
    BY <2>1, <2>2, <2>3
  <2>5. \A i \in Jobs : /\ job[i].held \in Rows /\ WasIssued(job[i].held)
                        /\ job[i].held # NoToken => job[i].held.sign \in SignIns
    BY JobFields, RowFields DEF Known, JobTypes
  <2>6. \A x \in SignIns : x <= signs => x # s
    BY <2>2, SMT DEF SignIns
  <2>7. \A i \in Jobs : job[i].held # NoToken =>
           job[i].held.sign # s /\ job[i].held.sign <= signs
    BY <2>5, <2>6 DEF WasIssued
  <2>8. \A i \in Jobs : pc[i] = "save" =>
           job[i].got.sign # s /\ job[i].got.sign = job[i].held.sign
    <3>1. ASSUME NEW i \in Jobs, pc[i] = "save" PROVE job[i].held # NoToken
      BY <1>3, <3>1, SMT DEF HandsRight, Hands, NoToken, SignIns
    <3> QED BY <2>7, <3>1 DEF HandsRight, Hands
  <2>9. row'.sign = s /\ row'.k = 1
    BY <2>1
  <2> HIDE DEF s
  <2>10. HandsRight'
    BY <1>1, <1>3, <2>4, <2>8 DEF HandsRight, Hands
  <2>11. Alone'
    <3>1. \A i \in Jobs : pc[i] = "save" => Older(row', job[i].got)
      BY <2>8, <2>9 DEF Older
    <3> QED BY <1>1, <3>1 DEF Alone, Older
  <2>12. Known'
    <3>1. ASSUME NEW i \in Jobs PROVE WasIssued(job[i].held)'
      <4>1. CASE job[i].held = NoToken
        BY <1>1, <4>1 DEF WasIssued
      <4>2. CASE job[i].held # NoToken
        <5>1. job[i].held.k <= issued'[job[i].held.sign]
          BY <2>4, <2>5, <2>7, <4>2 DEF WasIssued
        <5>2. job[i].held.sign <= signs'
          <6>1. job[i].held.sign \in Nat
            BY <2>5, <4>2, SMT DEF SignIns
          <6> QED BY <2>1, <2>2, <2>7, <4>2, <6>1, SMT DEF s
        <5> QED BY <1>1, <5>1, <5>2 DEF WasIssued
      <4> QED BY <4>1, <4>2
    <3>2. WasIssued(row)'
      <4>1. row'.sign <= signs' /\ row'.k <= issued'[row'.sign]
        BY <2>1, <2>2, <2>4, <2>9, SMT DEF s
      <4> QED BY <4>1 DEF WasIssued
    <3> QED BY <3>1, <3>2 DEF Known
  <2>13. StoredTokensWork'
    BY <2>4, <2>9 DEF StoredTokensWork
  <2> QED BY <2>10, <2>11, <2>12, <2>13
<1> QED
  BY <1>4, <1>5 DEF Outside, UserStep, Consent, SettleClient, SettleFailures, Disconnect,
                    Revoke, Age, storeVars, upstreamVars, signVars

-----------------------------------------------------------------------------
(* The theorems *)

LEMMA TokensStep == TokensInv /\ [Next]_vars => TokensInv'
<1> SUFFICES ASSUME TokensInv, [Next]_vars PROVE TokensInv'
  OBVIOUS
<1>1. ASSUME NEW j \in Jobs, JobStep(j) PROVE TokensInv'
  <2>1. Types /\ Hands(j)
    BY DEF TokensInv, HandsRight
  <2>2. Effect(j) /\ Types'
    BY <1>1, <2>1, JobEffects, JobStepTypes
  <2> QED BY <2>2, HandsStep, AloneStep, KnownStep, WorkStep DEF TokensInv
<1>2. CASE Outside
  BY <1>2, OutsideTypes, OutsideStep DEF TokensInv
<1>3. CASE UNCHANGED vars
  <2> USE <1>3 DEF vars, storeVars, upstreamVars, signVars, ghostVars
  <2>1. Types'
    BY DEF TokensInv, Types, StoreTypes, UpstreamTypes, JobTypes, SignTypes, GhostTypes
  <2>2. HandsRight' /\ Alone'
    BY DEF TokensInv, HandsRight, Hands, Alone, Older
  <2>3. Known' /\ StoredTokensWork'
    BY DEF TokensInv, Known, WasIssued, StoredTokensWork, InHand
  <2> QED BY <2>1, <2>2, <2>3 DEF TokensInv
<1> QED BY <1>1, <1>2, <1>3 DEF Next, Outside

\* The invariant of the tokens: types; who saves holds the newest tokens of their
\* sign-in, alone; only issued tokens are about; the stored ones work.
THEOREM TokensInvHolds == Spec => []TokensInv
<1>1. Init => TokensInv
  BY TokensInit
<1>2. TokensInv /\ [Next]_vars => TokensInv'
  BY TokensStep
<1> QED BY <1>1, <1>2, PTL DEF Spec

\* Every reachable state has the types that TypeOK states (the store, the
\* upstream, and what McpTokenStorage and the sign-in library hold for a job).
THEOREM TokensTypeCorrect == Spec => []TypeOK
<1>1. TokensInv => TypeOK
  BY DEF TokensInv, Types, StoreTypes, UpstreamTypes, JobTypes, SignTypes, GhostTypes, TypeOK
<1> QED BY <1>1, TokensInvHolds, PTL

\* No rotation gets lost: the conditional save of McpTokenStorage.set_tokens and
\* its jobs leave the newest refresh token of the stored sign-in stored, or in the
\* hands of a job that is about to store it, unless nobody could save it.
THEOREM RotationsAreNotLost == Spec => []StoredTokensWork
<1>1. TokensInv => StoredTokensWork
  BY DEF TokensInv
<1> QED BY <1>1, TokensInvHolds, PTL

\* What a step may do to the stored tokens.
LEMMA RowStep ==
  ASSUME TokensInv, [Next]_vars
  PROVE  \/ row' \in {row, NoToken}
         \/ row # NoToken /\ row'.sign = row.sign /\ row'.k > row.k
         \/ signs' = signs + 1 /\ row' = [sign |-> signs', k |-> 1]
<1> USE DEF TokensInv, Types
<1>1. ASSUME NEW j \in Jobs, Effect(j), row' \notin {row, NoToken}
      PROVE  row # NoToken /\ row'.sign = row.sign /\ row'.k > row.k
  <2>1. Writes(j)
    BY <1>1 DEF Effect, Rests, Asks, Gets, Misses, Issues
  <2>2. /\ row # NoToken /\ row' = job[j].got /\ job[j].got.sign = row.sign
        /\ job[j].got \in Tokens
    BY <2>1 DEF Writes, HandsRight, Hands
  <2>3. row.k < job[j].got.k
    BY <2>1, <2>2 DEF Writes, Alone, Older
  <2>4. row.k \in Nat /\ job[j].got.k \in Nat
    BY <2>2, RowFields, SMT DEF StoreTypes, Tokens
  <2> QED BY <2>2, <2>3, <2>4, SMT
<1>2. ASSUME NEW j \in Jobs, JobStep(j) PROVE Effect(j)
  BY <1>2, JobEffects DEF HandsRight
<1>3. Outside => \/ row' \in {row, NoToken}
                 \/ signs' = signs + 1 /\ row' = [sign |-> signs', k |-> 1]
  BY DEF Outside, UserStep, Consent, SignIn, SettleClient, SettleFailures, Disconnect,
         Revoke, Age, storeVars
<1>4. UNCHANGED vars => row' = row
  BY DEF vars, storeVars
<1> QED BY <1>1, <1>2, <1>3, <1>4 DEF Next, Outside

\* A deleted sign-in comes back only by a fresh sign-in: put_user_token_if_same_sign_in
\* keeps every refresh under way from writing it back.
THEOREM DeletedStaysDeleted == Spec => NothingComesBack
<1>1. TokensInv /\ [Next]_vars =>
        [row = NoToken /\ row' # NoToken => signs' = signs + 1 /\ row'.sign = signs']_vars
  BY RowStep
<1> QED BY <1>1, TokensInvHolds, PTL DEF Spec, NothingComesBack

\* Nobody writes older tokens over newer ones, or over a newer sign-in.
THEOREM NewerTokensAreKept == Spec => NewerTokensKept
<1>1. TokensInv /\ [Next]_vars =>
        [row # NoToken /\ row' # NoToken /\ row' # row
         => \/ row'.sign > row.sign
            \/ row'.sign = row.sign /\ row'.k > row.k]_vars
  <2> SUFFICES ASSUME TokensInv, [Next]_vars, row # NoToken, row' # NoToken, row' # row
               PROVE  \/ row'.sign > row.sign
                      \/ row'.sign = row.sign /\ row'.k > row.k
    OBVIOUS
  <2>1. row.sign \in SignIns /\ row.sign <= signs /\ signs \in SignIns
    BY RowFields DEF TokensInv, Types, StoreTypes, SignTypes, Known, WasIssued
  <2>2. CASE signs' = signs + 1 /\ row' = [sign |-> signs', k |-> 1]
    <3>1. row'.sign = signs + 1
      BY <2>2
    <3>2. row'.sign > row.sign
      BY <2>1, <3>1, SMT DEF SignIns
    <3> QED BY <3>2
  <2> QED BY <2>2, RowStep
<1> QED BY <1>1, TokensInvHolds, PTL DEF Spec, NewerTokensKept

-----------------------------------------------------------------------------
(* Whose sign-in a refusal costs: the invariant                            *)

Requesting == {"load", "present", "save", "bearer"}
Periodic == {"read", "check", "letGo"}
Reconnecting == {"readSaved", "wait", "stepOne", "peek", "connected", "force",
                 "forceWait", "forceRead", "forced", "retried"}
CleaningUp == {"good", "still", "record", "purge", "purgeClient", "purgeCount"}

\* Which kind of job, r, is at which place p.
Placed(p, r) ==
  /\ p \in Periodic => r.kind = "periodic"
  /\ p = "check" => r.next = "check"
  /\ p \in Reconnecting => r.kind = "reconnect"
  /\ p \in CleaningUp => r.kind \in {"periodic", "reconnect"}
  /\ p \in Requesting => /\ r.next = "check" => r.kind = "periodic"
                         /\ r.next \in Reconnecting => r.kind = "reconnect"
                         /\ r.next = "idle" => r.kind = "session"

\* Who has the refresh lock.
Locking(p, r) ==
  \/ p # "idle" /\ r.kind = "periodic"
  \/ p \in {"stepOne", "forceRead", "forced"}
  \/ p \in Requesting /\ r.next \in {"stepOne", "forced"}

LocksRight == \A j \in Jobs : Placed(pc[j], job[j]) /\ (lock = j <=> Locking(pc[j], job[j]))

\* A sign-in uses a registration that was made.
ClientsKnown ==
  /\ signing # "none" => ctx # NoClient
  /\ client <= clients /\ ctx <= clients /\ \A s \in SignIns : uses[s] <= clients

\* What a job remembers was issued, and nobody is still to save it.
Memory(r) == {r.first, r.held, r.blamed}
Recalled(t) == WasIssued(t) /\ (t # NoToken => \A i \in Jobs : t # job[i].got)
Recalls == \A j \in Jobs : \A t \in Memory(job[j]) : Recalled(t)

\* The tokens t are not stored, or of no use: with the registration c at least.
Guilty(t, c) ==
  \/ t = NoToken \/ row # t
  \/ t.sign \in revoked \cup lost
  \/ c # uses[t.sign]

\* The tokens t, if they are stored, are due.
StillDue(t) == row = t /\ t # NoToken => due

\* A periodic refresh starts from a row that is due: as long as that is stored, it
\* is what is presented, and no request is sent before it has been.
PeriodicOf(p, r) ==
  /\ r.next = "check" =>
       /\ p \in Requesting \cup {"check"} => StillDue(r.first)
       /\ p \in {"present", "save"} /\ row = r.first => r.first = NoToken \/ r.held = r.first
       /\ p = "bearer" /\ row = r.first => r.first = NoToken
  /\ p = "check" /\ r.result = "unauth" /\ r.code = "none" /\ ~r.saved /\ row = r.first
     => Guilty(r.held, r.with)

\* What a job presents is the newest of its sign-in.
PresentsOf(p, r) ==
  p = "present" =>
    /\ r.held.k = issued[r.held.sign] \/ r.held.sign \in lost
    /\ ~r.forced => StillDue(r.held)

\* What a job knows of a refusal is true: the refresh token that was refused is
\* of no use, and one that was not tried is not blamed.
RefusalOf(p, r) ==
  /\ r.forced => p \in Requesting \cup {"forced"} /\ r.next = "forced"
  /\ p \in Requesting => r.code = "none" \/ r.next = "connected"
  /\ p \in {"read", "readSaved", "wait", "force", "forceWait", "forceRead"} => r.code = "none"
  /\ p = "check" /\ r.result = "lost" => r.code = "none"
  /\ p \in Requesting /\ r.next \in {"forced", "retried"} => r.tried
  /\ p \in {"forced", "retried"} => r.tried
  /\ r.code = "terminal" =>
       /\ Guilty(r.blamed, r.with)
       /\ p \in {"stepOne", "peek", "load"} => StillDue(r.blamed)

Knows(p, r) == PeriodicOf(p, r) /\ PresentsOf(p, r) /\ RefusalOf(p, r)

Registered == row # NoToken \/ signing # "none" => client # NoClient

\* As long as every refresh had the lock.
Blameless ==
  ~astray => /\ Registered
             /\ \A j \in Jobs : pc[j] \in {"present", "save"} => lock = j
             /\ \A j \in Jobs : Knows(pc[j], job[j])

RefusalInv == LocksRight /\ ClientsKnown /\ Recalls /\ Blameless

-----------------------------------------------------------------------------
(* What no step takes back                                                 *)

\* Only a new sign-in, or tokens in somebody's hands, can become the stored ones.
Steady ==
  /\ \A t : Recalled(t) /\ t # NoToken /\ row' = t => row = t
  /\ row' = row /\ due => due'
  /\ revoked \subseteq revoked' /\ lost \subseteq lost' /\ signs <= signs'
  /\ \A s \in SignIns : s <= signs => uses'[s] = uses[s]
  /\ clients <= clients' /\ (astray => astray')

LEMMA RowComesFrom ==
  ASSUME TokensInv, [Next]_vars
  PROVE  row' \in {row, NoToken} \/ (\E j \in Jobs : row' = job[j].got) \/ row'.sign = signs + 1
<1> USE DEF TokensInv, Types
<1>1. ASSUME NEW j \in Jobs, JobStep(j) PROVE row' \in {row, NoToken} \/ row' = job[j].got
  <2>1. Effect(j)
    BY <1>1, JobEffects DEF HandsRight
  <2> QED BY <2>1 DEF Effect, Rests, Writes, Asks, Gets, Misses, Issues
<1>2. Outside => row' \in {row, NoToken} \/ row'.sign = signs + 1
  <2>1. [sign |-> signs + 1, k |-> 1].sign = signs + 1
    OBVIOUS
  <2> QED BY <2>1 DEF Outside, UserStep, Consent, SignIn, SettleClient, SettleFailures, Disconnect,
         Revoke, Age, storeVars
<1>3. UNCHANGED vars => row' = row
  BY DEF vars, storeVars
<1> QED BY <1>1, <1>2, <1>3 DEF Next, Outside

LEMMA NoTokenComesBack ==
  ASSUME TokensInv, [Next]_vars, NEW t, Recalled(t), t # NoToken, row' = t
  PROVE  row = t
<1>1. row' # NoToken /\ \A j \in Jobs : row' # job[j].got
  BY DEF Recalled
<1>2. row'.sign <= signs /\ signs \in Nat
  BY DEF Recalled, WasIssued, TokensInv, Types, SignTypes, SignIns
<1>3. row'.sign # signs + 1
  BY <1>2
<1> QED BY <1>1, <1>3, RowComesFrom

LEMMA SavedIsNew ==
  ASSUME TokensInv, NEW j \in Jobs, pc[j] = "save"
  PROVE  job[j].got # row
<1>1. job[j].got \in Tokens /\ (row.sign = job[j].got.sign => row.k < job[j].got.k)
  BY DEF TokensInv, HandsRight, Hands, Alone, Older
<1>2. job[j].got.k \in Nat
  BY <1>1, SMT DEF Tokens
<1> QED BY <1>1, <1>2

\* What is stored, nobody is still to save.
RowRecalled == Recalled(row)

LEMMA StoredIsRecalled == TokensInv => RowRecalled
<1> SUFFICES ASSUME TokensInv PROVE RowRecalled
  OBVIOUS
<1>1. ASSUME NEW i \in Jobs, row # NoToken PROVE row # job[i].got
  BY <1>1, SavedIsNew DEF TokensInv, HandsRight, Hands
<1> QED BY <1>1 DEF RowRecalled, Recalled, WasIssued, TokensInv, Known

LEMMA AllSteady ==
  ASSUME TokensInv, [Next]_vars
  PROVE  Steady
<1> USE DEF storeVars, upstreamVars, signVars, ghostVars
<1>1. \A t : Recalled(t) /\ t # NoToken /\ row' = t => row = t
  BY NoTokenComesBack
<1>2. clients \in Nat /\ signs \in Nat /\ row \in Rows /\ {due, astray} \subseteq BOOLEAN
  BY DEF TokensInv, Types, UpstreamTypes, SignTypes, StoreTypes, GhostTypes, Clients, SignIns
<1> DEFINE Rest == /\ row' = row /\ due => due'
                   /\ revoked \subseteq revoked' /\ lost \subseteq lost' /\ signs <= signs'
                   /\ \A s \in SignIns : s <= signs => uses'[s] = uses[s]
                   /\ clients <= clients' /\ (astray => astray')
<1>3. ASSUME NEW j \in Jobs, JobStep(j) PROVE Rest
  <2>1. ASSUME NEW r, Refused(j, r) PROVE clients <= clients'
    BY <1>2, <2>1 DEF Refused
  <2>2. CASE Load(j)
    BY <1>2, <2>1, <2>2 DEF Load
  <2>3. CASE Present(j)
    BY <1>2, <2>3 DEF Present
  <2>4. CASE PresentFails(j)
    BY <1>2, <2>4 DEF PresentFails
  <2>5. CASE Save(j)
    BY <1>2, <2>5, SavedIsNew DEF Save
  <2>6. CASE SaveTimesOut(j)
    BY <1>2, <2>6, SavedIsNew DEF SaveTimesOut
  <2>7. CASE Bearer(j)
    BY <1>2, <2>1, <2>7 DEF Bearer
  <2>8. CASE Purge(j)
    BY <1>2, <2>8 DEF Purge, StillStored
  <2>9. CASE Elsewhere(j)
    BY <1>2, <2>9 DEF Elsewhere, StartPeriodic, StartReconnect, StartSession, ReadRow, Check, LetGo,
       Still, ReadSaved, Wait, StepOneDone, Peek, Connected, BeforeForce, ForceWait, ForceRead,
       Forced, Retried
  <2>10. CASE Record(j) \/ PurgeClient(j) \/ ResetFailures(j) \/ Aborted(j)
    BY <1>2, <2>10 DEF Record, PurgeClient, ResetFailures, Aborted
  <2> QED BY <1>3, <2>2, <2>3, <2>4, <2>5, <2>6, <2>7, <2>8, <2>9, <2>10 DEF JobStep, Elsewhere
<1>4. ASSUME SignIn PROVE Rest
  <2>1. row.sign # signs + 1
    <3>1. CASE row = NoToken
      BY <1>2, <3>1 DEF NoToken
    <3>2. CASE row # NoToken
      BY <1>2, <3>2, RowFields DEF TokensInv, Known, WasIssued, SignIns
    <3> QED BY <3>1, <3>2
  <2>2. row' # row
    BY <1>4, <2>1 DEF SignIn
  <2>3. \A s \in SignIns : s <= signs => uses'[s] = uses[s]
    BY <1>2, <1>4 DEF SignIn, SignIns, TokensInv, Types, UpstreamTypes
  <2>4. clients' = clients /\ signs' = signs + 1 /\ revoked' = revoked /\ lost' = lost /\ astray' = astray
    BY <1>4 DEF SignIn
  <2> QED BY <1>2, <2>2, <2>3, <2>4
<1>5. ASSUME Consent \/ SettleClient \/ SettleFailures \/ Disconnect \/ Age \/ \E s \in SignIns : Revoke(s)
      PROVE  Rest
  <2>1. /\ (clients' = clients \/ clients' = clients + 1) /\ signs' = signs /\ uses' = uses
        /\ lost' = lost /\ astray' = astray /\ revoked \subseteq revoked'
    BY <1>5 DEF Consent, SettleClient, SettleFailures, Disconnect, Age, Revoke
  <2>2. row' = row => due' = due \/ due'
    BY <1>5 DEF Consent, SettleClient, SettleFailures, Disconnect, Age, Revoke
  <2> QED BY <1>2, <2>1, <2>2
<1>6. ASSUME UNCHANGED vars PROVE Rest
  <2>1. clients' = clients /\ signs' = signs /\ revoked' = revoked /\ lost' = lost /\ uses' = uses
    BY <1>6 DEF vars
  <2>2. astray' = astray /\ due' = due
    BY <1>6 DEF vars
  <2> QED BY <1>2, <2>1, <2>2
<1>7. Rest
  <2> HIDE DEF Rest
  <2> QED BY <1>3, <1>4, <1>5, <1>6 DEF Next, UserStep
<1> QED BY <1>1, <1>7 DEF Steady

LEMMA RecalledIsKnown ==
  ASSUME TokensInv, NEW t \in Rows, Recalled(t), t # NoToken
  PROVE  t.sign \in SignIns /\ t.sign <= signs
BY RowFields DEF Recalled, WasIssued

\* A guilty sign-in stays guilty, and so on.
LEMMA GuiltStays ==
  ASSUME TokensInv, Steady, NEW t \in Rows, NEW c, Recalled(t), Guilty(t, c)
  PROVE  Guilty(t, c)'
BY RecalledIsKnown DEF Guilty, Steady

LEMMA DueStays ==
  ASSUME Steady, NEW t \in Rows, Recalled(t), StillDue(t)
  PROVE  StillDue(t)'
BY DEF StillDue, Steady

LEMMA KnowledgeStays ==
  ASSUME TokensInv, Steady, NEW p, NEW r \in JobRecords, \A t \in Memory(r) : Recalled(t),
         p = "present" => r.held \in Tokens /\ issued'[r.held.sign] = issued[r.held.sign],
         Knows(p, r)
  PROVE  Knows(p, r)'
<1>1. /\ {r.first, r.held, r.blamed} \subseteq Rows
      /\ Recalled(r.first) /\ Recalled(r.held) /\ Recalled(r.blamed)
  BY JobFields DEF Memory
<1>2. Guilty(r.held, r.with) => Guilty(r.held, r.with)'
  BY <1>1, GuiltStays
<1>3. Guilty(r.blamed, r.with) => Guilty(r.blamed, r.with)'
  BY <1>1, GuiltStays
<1>4. /\ StillDue(r.first) => StillDue(r.first)'
      /\ StillDue(r.held) => StillDue(r.held)'
      /\ StillDue(r.blamed) => StillDue(r.blamed)'
  BY <1>1, DueStays
<1>5. row' = r.first /\ r.first # NoToken => row = r.first
  BY <1>1 DEF Steady
<1>6. row' = r.first /\ r.first = NoToken => Guilty(r.held, r.with)'
  BY <1>1 DEF Guilty
<1>7. PeriodicOf(p, r)'
  BY <1>2, <1>4, <1>5, <1>6 DEF Knows, PeriodicOf
<1>8. PresentsOf(p, r)'
  BY <1>4 DEF Knows, PresentsOf, Steady
<1>9. RefusalOf(p, r)'
  BY <1>3, <1>4 DEF Knows, RefusalOf
<1> QED BY <1>7, <1>8, <1>9 DEF Knows

-----------------------------------------------------------------------------
(* What a step of a job makes of itself                                    *)

Passes(j) == lock' = lock \/ (lock = j /\ lock' = NoJob) \/ (lock = NoJob /\ lock' = j)

Fine(j) ==
  /\ Placed(pc'[j], job'[j]) /\ (lock' = j <=> Locking(pc'[j], job'[j])) /\ Passes(j)
  /\ Memory(job'[j]) \subseteq Memory(job[j]) \cup {NoToken, row, row'}
  /\ ~astray' => /\ pc'[j] \in {"present", "save"} => lock' = j
                 /\ Knows(pc[j], job[j])'

\* What is known of a job j, at p with r, before its step.
Before(j, p, r) ==
  /\ pc[j] = p /\ job[j] = r /\ r \in JobRecords
  /\ Placed(p, r) /\ (lock = j <=> Locking(p, r))
  /\ \A t \in Memory(r) : Recalled(t)
  /\ ~astray => Knows(p, r)

LEMMA BeforeHolds ==
  ASSUME TokensInv, RefusalInv, NEW j \in Jobs
  PROVE  Before(j, pc[j], job[j])
<1>1. job[j] \in JobRecords
  BY DEF TokensInv, Types, JobTypes
<1>2. Placed(pc[j], job[j]) /\ (lock = j <=> Locking(pc[j], job[j]))
  BY DEF RefusalInv, LocksRight
<1>3. \A t \in Memory(job[j]) : Recalled(t)
  BY DEF RefusalInv, Recalls
<1>4. ~astray => Knows(pc[j], job[j])
  BY DEF RefusalInv, Blameless
<1> QED BY <1>1, <1>2, <1>3, <1>4 DEF Before

LEMMA GoFine ==
  ASSUME JobTypes, NEW j \in Jobs, NEW p, NEW r, Go(j, p, r),
         Placed(p, r), lock' = j <=> Locking(p, r), Passes(j),
         Memory(r) \subseteq Memory(job[j]) \cup {NoToken, row, row'},
         ~astray' => (p \in {"present", "save"} => lock' = j) /\ Knows(p, r)'
  PROVE  Fine(j)
<1>1. pc'[j] = p /\ job'[j] = r
  BY DEF Go, JobTypes
<1>2. Knows(p, r)' => Knows(pc[j], job[j])'
  BY <1>1 DEF Knows, PeriodicOf, PresentsOf, RefusalOf, Guilty, StillDue
<1> QED BY <1>1, <1>2 DEF Fine

\* A job that has just begun, or only keeps its books.
LEMMA BlankFields ==
  ASSUME NEW k, NEW r, r = [NewJob EXCEPT !.kind = k]
  PROVE  /\ r.kind = k /\ r.next = "idle" /\ r.code = "none" /\ ~r.forced
         /\ Memory(r) = {NoToken}
BY SMT DEF NewJob, Memory

LEMMA BlankKnows ==
  ASSUME NEW r, NEW p \in {"idle", "letGo", "good", "purgeClient", "read", "readSaved", "load"},
         r.next = "idle", r.code = "none", ~r.forced
  PROVE  Knows(p, r)'
BY DEF Knows, PeriodicOf, PresentsOf, RefusalOf

LEMMA BlankFine ==
  ASSUME JobTypes, NEW j \in Jobs, Passes(j),
         NEW k \in {"none", "periodic", "reconnect", "session"},
         NEW p \in {"idle", "letGo", "good", "purgeClient", "read", "readSaved", "load"},
         Go(j, p, [NewJob EXCEPT !.kind = k]),
         lock' = j <=> p # "idle" /\ k = "periodic",
         p \in {"letGo", "read"} => k = "periodic", p = "readSaved" => k = "reconnect",
         p \in {"good", "purgeClient"} => k \in {"periodic", "reconnect"},
         p = "load" => k = "session"
  PROVE  Fine(j)
<1>1. PICK r : r = [NewJob EXCEPT !.kind = k]
  OBVIOUS
<1>2. /\ r.kind = k /\ r.next = "idle" /\ r.code = "none" /\ ~r.forced
      /\ Memory(r) = {NoToken}
  BY <1>1, BlankFields
<1>3. Knows(p, r)'
  BY <1>2, BlankKnows
<1>4. Placed(p, r) /\ (lock' = j <=> Locking(p, r))
  BY <1>2 DEF Placed, Locking, Periodic, Reconnecting, CleaningUp, Requesting
<1> QED BY <1>1, <1>2, <1>3, <1>4, GoFine

LEMMA EndsFine ==
  ASSUME JobTypes, NEW j \in Jobs, Passes(j), lock' # j, Ends(j)
  PROVE  Fine(j)
<1>1. PICK r : r = NewJob
  OBVIOUS
<1>2. /\ r.kind = "none" /\ r.next = "idle" /\ r.code = "none" /\ ~r.forced
      /\ Memory(r) = {NoToken}
  BY <1>1, SMT DEF NewJob, Memory
<1>3. Knows("idle", r)'
  BY <1>2, BlankKnows
<1>4. Placed("idle", r) /\ ~Locking("idle", r)
  BY <1>2 DEF Placed, Locking, Periodic, Reconnecting, CleaningUp, Requesting
<1> QED BY <1>1, <1>2, <1>3, <1>4, GoFine DEF Ends

LEMMA ClosesFine ==
  ASSUME JobTypes, NEW j \in Jobs, NEW p, NEW r, Before(j, p, r), lock' = lock,
         NEW w \in {"letGo", "good", "purgeClient"}, Closes(j, w),
         p \in {"read", "check", "connected", "retried"} \cup CleaningUp,
         w = "letGo" => r.kind = "periodic"
  PROVE  Fine(j)
<1>1. r.kind \in {"periodic", "reconnect"} /\ (lock = j <=> r.kind = "periodic")
  BY DEF Before, Placed, Locking, Periodic, Reconnecting, CleaningUp, Requesting
<1>2. Go(j, w, [NewJob EXCEPT !.kind = r.kind])
  BY DEF Closes, Before
<1> QED BY <1>1, <1>2, BlankFine DEF Passes

LEMMA EndFine ==
  ASSUME JobTypes, NEW j \in Jobs, NEW p \in CleaningUp, NEW r, Before(j, p, r), lock' = lock,
         End(j)
  PROVE  Fine(j)
<1>1. CASE r.kind = "periodic"
  BY <1>1, ClosesFine DEF End, Before
<1>2. CASE r.kind # "periodic"
  <2>1. lock # j
    BY <1>2 DEF Before, Placed, Locking, CleaningUp, Requesting
  <2> QED BY <1>2, <2>1, EndsFine DEF End, Before, Passes
<1> QED BY <1>1, <1>2

\* A job that goes on with what it has.
LEMMA GotoFine ==
  ASSUME TokensInv, Steady, NEW j \in Jobs, NEW p, NEW r, Before(j, p, r),
         NEW w \in {"record", "purge", "purgeCount", "peek", "force", "forceWait", "forceRead"},
         p \notin Requesting \cup {"forced"},
         Goto(j, w), Placed(w, r), lock' = j <=> Locking(w, r), Passes(j),
         ~astray => /\ w \in {"force", "forceWait", "forceRead"} => r.code = "none"
                    /\ w = "peek" /\ r.code = "terminal" => StillDue(r.blamed)
  PROVE  Fine(j)
<1>1. Go(j, w, r) /\ JobTypes /\ r = job[j]
  BY DEF Goto, Before, TokensInv, Types
<1>2. r.blamed \in Rows /\ Recalled(r.blamed)
  BY JobFields DEF Before, Memory
<1>3. ASSUME ~astray' PROVE Knows(w, r)'
  <2>1. ~astray
    BY <1>3 DEF Steady
  <2>2. RefusalOf(p, r)
    BY <2>1 DEF Before, Knows
  <2>3. r.code = "terminal" => Guilty(r.blamed, r.with)'
    BY <1>2, <2>2, GuiltStays DEF RefusalOf
  <2>4. w = "peek" /\ r.code = "terminal" => StillDue(r.blamed)'
    BY <1>2, <2>1, DueStays
  <2> QED BY <2>1, <2>2, <2>3, <2>4 DEF Knows, PeriodicOf, PresentsOf, RefusalOf, Requesting
<1> QED BY <1>1, <1>3, GoFine DEF Memory

\* A refused refresh is handed to the clean-up.
LEMMA BlamesFine ==
  ASSUME TokensInv, Steady, NEW j \in Jobs, NEW p, NEW r, Before(j, p, r),
         NEW q \in {r, [r EXCEPT !.tried = TRUE]}, Blames(j, q), Passes(j),
         r.kind \in {"periodic", "reconnect"}, lock' = j <=> r.kind = "periodic",
         ~astray /\ Verdict(q) = "terminal" => Guilty(About(q), r.with)
  PROVE  Fine(j)
<1>1. r \in JobRecords /\ r = job[j] /\ JobTypes
  BY DEF Before, TokensInv, Types
<1>2. /\ q.kind = r.kind /\ q.held = r.held /\ q.blamed = r.blamed /\ q.with = r.with
      /\ q.code = r.code
  BY <1>1, SMT DEF JobRecords
<1>3. PICK b : b = [NewJob EXCEPT !.kind = q.kind, !.blamed = About(q),
                                  !.code = Verdict(q), !.with = q.with]
  OBVIOUS
<1>4. /\ b.kind = r.kind /\ b.blamed = About(q) /\ b.code = Verdict(q) /\ b.with = r.with
      /\ b.first = NoToken /\ b.held = NoToken /\ ~b.forced /\ b.next = "idle"
  BY <1>2, <1>3, SMT DEF NewJob
<1>5. Go(j, "still", b)
  BY <1>3 DEF Blames
<1>6. About(q) \in {r.held, r.blamed}
  BY <1>2 DEF About
<1>7. About(q) \in Rows /\ Recalled(About(q))
  BY <1>1, <1>6, JobFields DEF Before, Memory
<1>8. b.blamed \in Rows /\ Recalled(b.blamed) /\ b.blamed \in {r.held, r.blamed}
  BY <1>4, <1>6, <1>7
<1>9. ASSUME ~astray' PROVE Knows("still", b)'
  <2>1. b.code = "terminal" => Guilty(b.blamed, b.with)
    BY <1>4, <1>9 DEF Steady
  <2>2. b.code = "terminal" => Guilty(b.blamed, b.with)'
    BY <1>8, <2>1, GuiltStays
  <2> QED BY <1>4, <2>2 DEF Knows, PeriodicOf, PresentsOf, RefusalOf, Requesting
<1>10. Placed("still", b) /\ (lock' = j <=> Locking("still", b))
  BY <1>4 DEF Placed, Locking, Periodic, Reconnecting, CleaningUp, Requesting
<1>11. Memory(b) \subseteq Memory(job[j]) \cup {NoToken, row, row'}
  BY <1>1, <1>4, <1>8 DEF Memory
<1> QED BY <1>1, <1>5, <1>9, <1>10, <1>11, GoFine

\* A request of the library is over.
LEMMA AnsweredFine ==
  ASSUME TokensInv, Steady, NEW j \in Jobs, NEW p \in Requesting, NEW r, Before(j, p, r),
         NEW q \in JobRecords, NEW res \in {"ok", "unauth", "lost"}, Answered(j, q, res),
         q.next = r.next, q.kind = r.kind, q.tried = r.tried, q.forced = r.forced,
         lock' = lock, Memory(q) \subseteq Memory(r) \cup {NoToken, row, row'},
         ~astray' =>
           /\ q.next = "check" => StillDue(q.first)' /\ (res = "lost" => q.code = "none")
           /\ q.next = "check" /\ res = "unauth" /\ q.code = "none" /\ ~q.saved /\ row' = q.first
              => Guilty(q.held, q.with)'
           /\ q.code = "terminal" =>
                /\ Guilty(q.blamed, q.with)'
                /\ q.next \in {"stepOne", "peek"} => StillDue(q.blamed)'
  PROVE  Fine(j)
<1>1. r \in JobRecords /\ r = job[j] /\ JobTypes /\ Passes(j)
  BY DEF Before, TokensInv, Types, Passes
<1>2. q.next \in {"idle", "check", "stepOne", "peek", "connected", "forced", "retried"}
  BY JobFields DEF Askers
<1>3. CASE q.next = "idle"
  <2>1. lock # j
    BY <1>3 DEF Before, Placed, Locking, Requesting
  <2> QED BY <1>1, <1>3, <2>1, EndsFine DEF Answered
<1>4. CASE q.next # "idle"
  <2>1. PICK b : b = [q EXCEPT !.result = res]
    OBVIOUS
  <2>2. /\ b.next = q.next /\ b.kind = q.kind /\ b.tried = q.tried /\ b.forced = q.forced
        /\ b.first = q.first /\ b.held = q.held /\ b.blamed = q.blamed /\ b.with = q.with
        /\ b.code = q.code /\ b.saved = q.saved /\ b.result = res
    BY <2>1, SMT DEF JobRecords
  <2>3. Go(j, q.next, b)
    BY <1>4, <2>1 DEF Answered
  <2>4. Placed(q.next, b) /\ (lock' = j <=> Locking(q.next, b))
    BY <1>2, <1>4, <2>2 DEF Before, Placed, Locking, Periodic, Reconnecting, CleaningUp, Requesting
  <2>5. Memory(b) \subseteq Memory(job[j]) \cup {NoToken, row, row'}
    BY <1>1, <2>2 DEF Memory
  <2>6. ASSUME ~astray' PROVE Knows(q.next, b)'
    <3>1. RefusalOf(p, r)
      BY <2>6 DEF Steady, Before, Knows
    <3>2. PICK c : c = q.next
      OBVIOUS
    <3>3. c = "check" /\ b.result = "unauth" /\ b.code = "none" /\ ~b.saved /\ row' = b.first
          => Guilty(b.held, b.with)'
      BY <2>2, <2>6, <3>2
    <3>4. b.code = "terminal" => /\ Guilty(b.blamed, b.with)'
                                 /\ c \in {"stepOne", "peek"} => StillDue(b.blamed)'
      BY <2>2, <2>6, <3>2
    <3>5. c \notin Requesting /\ c \notin {"force", "forceWait", "forceRead"}
      BY <1>2, <3>2 DEF Requesting
    <3>6. (b.forced => c = "forced" /\ b.next = "forced") /\ (c \in {"forced", "retried"} => b.tried)
      BY <2>2, <3>1, <3>2 DEF RefusalOf
    <3>8. /\ b.next = "check" => StillDue(b.first)' /\ (b.result = "lost" => b.code = "none")
          /\ c = b.next /\ c \notin {"read", "readSaved", "wait"}
      BY <1>2, <2>2, <2>6, <3>2
    <3>7. Knows(c, b)'
      BY <2>2, <3>2, <3>3, <3>4, <3>5, <3>6, <3>8 DEF Knows, PeriodicOf, PresentsOf, RefusalOf, Requesting
    <3> QED BY <3>2, <3>7
  <2>7. q.next \notin {"present", "save"}
    BY <1>2
  <2> QED BY <1>1, <2>3, <2>4, <2>5, <2>6, <2>7, GoFine
<1> QED BY <1>3, <1>4

-----------------------------------------------------------------------------
(* Every step of a job is a fine one: the places                           *)

LEMMA NotAJob == NoJob \notin Jobs
OBVIOUS

LEMMA BlamedIsRemembered ==
  ASSUME NEW r, NEW q \in {r, [r EXCEPT !.tried = TRUE]}, r \in JobRecords
  PROVE  /\ q.tried /\ r.code # "terminal" => Verdict(q) # "terminal"
         /\ r.result # "unauth" /\ r.code # "terminal" => Verdict(q) # "terminal"
         /\ r.saved /\ r.code # "terminal" => Verdict(q) # "terminal"
         /\ r.code \notin {"none", "terminal"} => Verdict(q) # "terminal"
         /\ r.code = "terminal" => About(q) = r.blamed
         /\ r.code = "none" => About(q) = r.held
<1>1. /\ q.code = r.code /\ q.result = r.result /\ q.saved = r.saved
      /\ q.held = r.held /\ q.blamed = r.blamed
  BY SMT DEF JobRecords
<1> QED BY <1>1 DEF Verdict, About

LEMMA StartsFine ==
  ASSUME TokensInv, NEW j \in Jobs, NEW p, NEW r, Before(j, p, r),
         StartPeriodic(j) \/ StartReconnect(j) \/ StartSession(j)
  PROVE  Fine(j)
<1>1. JobTypes /\ NoJob # j
  BY DEF TokensInv, Types
<1>2. p = "idle" => lock # j
  BY DEF Before, Locking, Requesting
<1>3. CASE StartPeriodic(j)
  BY <1>1, <1>3, BlankFine DEF StartPeriodic, Start, Passes
<1>4. CASE StartReconnect(j)
  BY <1>1, <1>2, <1>4, BlankFine DEF StartReconnect, Start, Passes, Before
<1>5. CASE StartSession(j)
  BY <1>1, <1>2, <1>5, BlankFine DEF StartSession, Start, Passes, Before
<1> QED BY <1>3, <1>4, <1>5

LEMMA CleanUpFine ==
  ASSUME TokensInv, Steady, NEW j \in Jobs, NEW p, NEW r, Before(j, p, r),
         Still(j) \/ Record(j) \/ Purge(j) \/ PurgeClient(j) \/ ResetFailures(j)
  PROVE  Fine(j)
<1>1. JobTypes /\ p = pc[j] /\ lock' = lock /\ Passes(j)
  BY DEF TokensInv, Types, Before, Still, Record, Purge, PurgeClient, ResetFailures, Passes
<1>2. p \in CleaningUp
  BY <1>1 DEF Still, Record, Purge, PurgeClient, ResetFailures, CleaningUp
<1>3. CASE End(j)
  BY <1>1, <1>2, <1>3, EndFine
<1>4. CASE Closes(j, "purgeClient")
  BY <1>1, <1>2, <1>4, ClosesFine
<1>5. ASSUME NEW w \in {"record", "purge", "purgeCount"}, Goto(j, w) PROVE Fine(j)
  <2>1. Placed(w, r) /\ (lock' = j <=> Locking(w, r)) /\ p \notin Requesting \cup {"forced"}
    BY <1>1, <1>2 DEF Before, Placed, Locking, Periodic, Reconnecting, CleaningUp, Requesting
  <2> QED BY <1>1, <1>5, <2>1, GotoFine
<1> QED BY <1>3, <1>4, <1>5 DEF Still, Record, Purge, PurgeClient, ResetFailures

LEMMA LetGoFine ==
  ASSUME TokensInv, NEW j \in Jobs, NEW p, NEW r, Before(j, p, r), LetGo(j)
  PROVE  Fine(j)
<1>1. lock = j
  BY DEF LetGo, Before, Placed, Periodic, Locking
<1> QED BY <1>1, NotAJob, EndsFine DEF LetGo, Passes, TokensInv, Types

\* A request of the library begins.
LEMMA LoadsFine ==
  ASSUME TokensInv, Steady, NEW j \in Jobs, NEW p, NEW r, Before(j, p, r),
         NEW q, Go(j, "load", q), Placed("load", q), lock' = j <=> Locking("load", q), Passes(j),
         Memory(q) \subseteq Memory(r) \cup {NoToken, row},
         ~astray =>
           /\ q.forced => q.next = "forced"
           /\ q.next \in {"forced", "retried"} => q.tried
           /\ \/ q.code = "none"
              \/ q.next = "connected" /\ q.code = r.code /\ q.blamed = r.blamed /\ q.with = r.with
           /\ q.next = "check" => StillDue(q.first)
           /\ q.code = "terminal" => StillDue(q.blamed)
  PROVE  Fine(j)
<1>1. JobTypes /\ r = job[j] /\ r \in JobRecords
  BY DEF TokensInv, Types, Before
<1>2. Recalled(NoToken) /\ Recalled(row)
  <2>1. row # NoToken => \A i \in Jobs : row # job[i].got
    <3>1. ASSUME NEW i \in Jobs, row # NoToken PROVE row # job[i].got
      BY <3>1, SavedIsNew DEF TokensInv, HandsRight, Hands
    <3> QED BY <3>1
  <2> QED BY <2>1 DEF Recalled, WasIssued, TokensInv, Known
<1>3. {NoToken, row} \cup Memory(r) \subseteq Rows
  BY <1>1, JobFields DEF Memory, Rows, TokensInv, Types, StoreTypes
<1>4. \A t \in Memory(q) : t \in Rows /\ Recalled(t)
  BY <1>2, <1>3 DEF Before
<1>5. q.first \in Rows /\ Recalled(q.first) /\ q.blamed \in Rows /\ Recalled(q.blamed)
  BY <1>4 DEF Memory
<1>6. ASSUME ~astray' PROVE Knows("load", q)'
  <2>1. ~astray
    BY <1>6 DEF Steady
  <2>2. q.next = "check" => StillDue(q.first)'
    BY <1>5, <2>1, DueStays
  <2>3. q.code = "terminal" => StillDue(q.blamed)'
    BY <1>5, <2>1, DueStays
  <2>4. q.code = "terminal" => Guilty(q.blamed, q.with)
    BY <2>1 DEF Before, Knows, RefusalOf
  <2>5. q.code = "terminal" => Guilty(q.blamed, q.with)'
    BY <1>5, <2>4, GuiltStays
  <2> QED BY <2>1, <2>2, <2>3, <2>5 DEF Knows, PeriodicOf, PresentsOf, RefusalOf, Requesting
<1> QED BY <1>1, <1>6, GoFine

LEMMA ReadFine ==
  ASSUME TokensInv, Steady, NEW j \in Jobs, NEW p, NEW r, Before(j, p, r), ReadRow(j)
  PROVE  Fine(j)
<1>1. JobTypes /\ p = "read" /\ r = job[j] /\ r \in JobRecords /\ lock' = lock /\ Passes(j)
  BY DEF TokensInv, Types, Before, ReadRow, Passes
<1>2. r.kind = "periodic" /\ lock = j
  BY <1>1 DEF Before, Placed, Periodic, Locking
<1>3. CASE due
  <2>1. PICK q : q = [r EXCEPT !.first = row, !.held = row, !.next = "check", !.left = Tries]
    OBVIOUS
  <2>2. /\ q.first = row /\ q.held = row /\ q.next = "check" /\ q.kind = r.kind
        /\ q.code = r.code /\ q.blamed = r.blamed /\ q.forced = r.forced
    BY <1>1, <2>1, SMT DEF JobRecords
  <2>3. Go(j, "load", q)
    BY <1>1, <1>3, <2>1 DEF ReadRow
  <2>4. Placed("load", q) /\ Locking("load", q)
    BY <1>2, <2>2 DEF Placed, Locking, Periodic, Reconnecting, CleaningUp, Requesting
  <2>5. ~astray => r.code = "none" /\ ~r.forced
    BY <1>1 DEF Before, Knows, RefusalOf, Requesting
  <2> QED BY <1>1, <1>2, <1>3, <2>2, <2>3, <2>4, <2>5, LoadsFine DEF Memory, StillDue
<1>4. CASE ~due
  BY <1>1, <1>2, <1>4, ClosesFine DEF ReadRow
<1> QED BY <1>3, <1>4

LEMMA ReadSavedFine ==
  ASSUME TokensInv, Steady, NEW j \in Jobs, NEW p, NEW r, Before(j, p, r), ReadSaved(j)
  PROVE  Fine(j)
<1>1. JobTypes /\ p = "readSaved" /\ r = job[j] /\ r \in JobRecords /\ lock' = lock /\ Passes(j)
  BY DEF TokensInv, Types, Before, ReadSaved, Passes
<1>2. r.kind = "reconnect" /\ lock # j
  BY <1>1 DEF Before, Placed, Reconnecting, Locking, Requesting
<1>3. ~astray => r.code = "none" /\ ~r.forced
  BY <1>1 DEF Before, Knows, RefusalOf, Requesting
<1>4. CASE Ends(j)
  BY <1>1, <1>2, <1>4, EndsFine
<1>5. CASE Go(j, "wait", [r EXCEPT !.held = row])
  <2>1. PICK q : q = [r EXCEPT !.held = row]
    OBVIOUS
  <2>2. /\ q.first = r.first /\ q.held = row /\ q.next = r.next /\ q.kind = r.kind
        /\ q.code = r.code /\ q.blamed = r.blamed /\ q.forced = r.forced
    BY <1>1, <2>1, SMT DEF JobRecords
  <2>3. Placed("wait", q) /\ ~Locking("wait", q)
    BY <1>2, <2>2 DEF Placed, Locking, Periodic, Reconnecting, CleaningUp, Requesting
  <2>4. ASSUME ~astray' PROVE Knows("wait", q)'
    <3>1. q.code = "none" /\ ~q.forced
      BY <1>3, <2>2, <2>4 DEF Steady
    <3> QED BY <3>1 DEF Knows, PeriodicOf, PresentsOf, RefusalOf, Requesting
  <2> QED BY <1>1, <1>2, <1>5, <2>1, <2>2, <2>3, <2>4, GoFine DEF Memory
<1>6. CASE Go(j, "load", [[r EXCEPT !.held = row] EXCEPT !.next = "peek"])
  <2>1. PICK q : q = [[r EXCEPT !.held = row] EXCEPT !.next = "peek"]
    OBVIOUS
  <2>2. /\ q.first = r.first /\ q.held = row /\ q.next = "peek" /\ q.kind = r.kind
        /\ q.code = r.code /\ q.blamed = r.blamed /\ q.forced = r.forced
    BY <1>1, <2>1, SMT DEF JobRecords
  <2>3. Placed("load", q) /\ ~Locking("load", q)
    BY <1>2, <2>2 DEF Placed, Locking, Periodic, Reconnecting, CleaningUp, Requesting
  <2> QED BY <1>1, <1>2, <1>3, <1>6, <2>1, <2>2, <2>3, LoadsFine, ZenonT(60) DEF Memory
<1> QED BY <1>1, <1>4, <1>5, <1>6 DEF ReadSaved

LEMMA WaitFine ==
  ASSUME TokensInv, Steady, NEW j \in Jobs, NEW p, NEW r, Before(j, p, r), Wait(j)
  PROVE  Fine(j)
<1>1. JobTypes /\ p = "wait" /\ r = job[j] /\ r \in JobRecords /\ Passes(j)
  BY DEF TokensInv, Types, Before, Wait, Passes
<1>2. r.kind = "reconnect" /\ lock # j
  BY <1>1 DEF Before, Placed, Reconnecting, Locking, Requesting
<1>3. CASE Ends(j) /\ lock' = lock
  BY <1>1, <1>2, <1>3, EndsFine
<1>4. CASE lock' = j /\ Go(j, "load", [r EXCEPT !.next = "stepOne"])
  <2>1. PICK q : q = [r EXCEPT !.next = "stepOne"]
    OBVIOUS
  <2>2. /\ Memory(q) = Memory(r) /\ q.next = "stepOne" /\ q.kind = r.kind
        /\ q.code = r.code /\ q.forced = r.forced
    BY <1>1, <2>1, SMT DEF JobRecords, Memory
  <2>3. Placed("load", q) /\ Locking("load", q)
    BY <1>2, <2>2 DEF Placed, Locking, Periodic, Reconnecting, CleaningUp, Requesting
  <2>4. ~astray => r.code = "none" /\ ~r.forced
    BY <1>1 DEF Before, Knows, RefusalOf, Requesting
  <2> QED BY <1>1, <1>2, <1>4, <2>1, <2>2, <2>3, <2>4, LoadsFine
<1> QED BY <1>1, <1>3, <1>4 DEF Wait

LEMMA StepOneFine ==
  ASSUME TokensInv, Steady, NEW j \in Jobs, NEW p, NEW r, Before(j, p, r), StepOneDone(j)
  PROVE  Fine(j)
<1>1. p = "stepOne" /\ lock = j /\ lock' = NoJob /\ lock' # j /\ Goto(j, "peek")
  BY NotAJob DEF Before, StepOneDone, Locking
<1>2. r.kind = "reconnect"
  BY <1>1 DEF Before, Placed, Reconnecting
<1>3. Placed("peek", r) /\ ~Locking("peek", r) /\ p \notin Requesting \cup {"forced"}
  BY <1>1, <1>2 DEF Placed, Locking, Periodic, Reconnecting, CleaningUp, Requesting
<1>4. ~astray /\ r.code = "terminal" => StillDue(r.blamed)
  BY <1>1 DEF Before, Knows, RefusalOf
<1> QED BY <1>1, <1>3, <1>4, GotoFine DEF Passes

LEMMA PeekFine ==
  ASSUME TokensInv, Steady, NEW j \in Jobs, NEW p, NEW r, Before(j, p, r), Peek(j)
  PROVE  Fine(j)
<1>1. JobTypes /\ p = "peek" /\ r = job[j] /\ r \in JobRecords /\ lock' = lock /\ Passes(j)
  BY DEF TokensInv, Types, Before, Peek, Passes
<1>2. r.kind = "reconnect" /\ lock # j
  BY <1>1 DEF Before, Placed, Reconnecting, Locking, Requesting
<1>3. ~astray => ~r.forced /\ (r.code = "terminal" => StillDue(r.blamed) /\ Guilty(r.blamed, r.with))
  BY <1>1 DEF Before, Knows, RefusalOf, Requesting
<1>4. CASE Ends(j)
  BY <1>1, <1>2, <1>4, EndsFine
<1>5. ASSUME NEW w \in {"bearer", "load"}, Go(j, w, [r EXCEPT !.next = "connected"])
      PROVE  Fine(j)
  <2>1. PICK q : q = [r EXCEPT !.next = "connected"]
    OBVIOUS
  <2>2. /\ Memory(q) = Memory(r) /\ q.next = "connected" /\ q.kind = r.kind
        /\ q.code = r.code /\ q.forced = r.forced /\ q.blamed = r.blamed /\ q.with = r.with
    BY <1>1, <2>1, SMT DEF JobRecords, Memory
  <2>3. Placed(w, q) /\ ~Locking(w, q)
    BY <1>2, <2>2 DEF Placed, Locking, Periodic, Reconnecting, CleaningUp, Requesting
  <2>4. CASE w = "load"
    BY <1>1, <1>2, <1>3, <1>5, <2>1, <2>2, <2>3, <2>4, LoadsFine
  <2>5. CASE w = "bearer"
    <3>1. ASSUME ~astray' PROVE Knows("bearer", q)'
      <4>1. ~q.forced /\ (q.code = "terminal" => Guilty(q.blamed, q.with))
        BY <1>3, <2>2, <3>1 DEF Steady
      <4>2. q.blamed \in Rows /\ Recalled(q.blamed)
        BY <1>1, <2>2, JobFields DEF Before, Memory
      <4>3. q.code = "terminal" => Guilty(q.blamed, q.with)'
        BY <4>1, <4>2, GuiltStays
      <4> QED BY <2>2, <4>1, <4>3 DEF Knows, PeriodicOf, PresentsOf, RefusalOf, Requesting
    <3> QED BY <1>1, <1>2, <1>5, <2>1, <2>2, <2>3, <2>5, <3>1, GoFine
  <2> QED BY <2>4, <2>5
<1> QED BY <1>1, <1>4, <1>5 DEF Peek

LEMMA ConnectedFine ==
  ASSUME TokensInv, Steady, NEW j \in Jobs, NEW p, NEW r, Before(j, p, r), Connected(j)
  PROVE  Fine(j)
<1>1. JobTypes /\ p = "connected" /\ r = job[j] /\ r \in JobRecords /\ lock' = lock /\ Passes(j)
  BY DEF TokensInv, Types, Before, Connected, Passes
<1>2. r.kind = "reconnect" /\ lock # j
  BY <1>1 DEF Before, Placed, Reconnecting, Locking, Requesting
<1>3. ~astray => (r.code = "terminal" => Guilty(r.blamed, r.with))
  BY <1>1 DEF Before, Knows, RefusalOf
<1>4. CASE Closes(j, "good")
  BY <1>1, <1>4, ClosesFine
<1>5. CASE Ends(j)
  BY <1>1, <1>2, <1>5, EndsFine
<1>6. CASE r.code = "none" /\ Goto(j, "force")
  <2>1. Placed("force", r) /\ ~Locking("force", r) /\ p \notin Requesting \cup {"forced"}
    BY <1>1, <1>2 DEF Placed, Locking, Periodic, Reconnecting, CleaningUp, Requesting
  <2> QED BY <1>1, <1>2, <1>6, <2>1, GotoFine
<1>7. CASE (r.result # "unauth" \/ r.code # "none" \/ r.saved) /\ Blames(j, r)
  <2>1. ~astray /\ Verdict(r) = "terminal" => Guilty(About(r), r.with)
    BY <1>1, <1>3, <1>7, BlamedIsRemembered
  <2> QED BY <1>1, <1>2, <1>7, <2>1, BlamesFine
<1> QED BY <1>1, <1>4, <1>5, <1>6, <1>7 DEF Connected

\* Tokens that are not stored are nobody's.
LEMMA NoneIsGuilty ==
  ASSUME NEW t, NEW c, row = NoToken
  PROVE  Guilty(t, c)
BY DEF Guilty

LEMMA BeforeForceFine ==
  ASSUME TokensInv, RefusalInv, Steady, NEW j \in Jobs, NEW p, NEW r, Before(j, p, r),
         BeforeForce(j)
  PROVE  Fine(j)
<1>1. JobTypes /\ p = "force" /\ r = job[j] /\ r \in JobRecords /\ lock' = lock /\ Passes(j)
  BY DEF TokensInv, Types, Before, BeforeForce, Passes
<1>2. r.kind = "reconnect" /\ lock # j
  BY <1>1 DEF Before, Placed, Reconnecting, Locking, Requesting
<1>3. CASE client = NoClient /\ Blames(j, r)
  <2>1. ~astray => row = NoToken
    BY <1>3 DEF RefusalInv, Blameless, Registered
  <2>2. ~astray => Guilty(About(r), r.with)
    BY <2>1, NoneIsGuilty
  <2> QED BY <1>1, <1>2, <1>3, <2>2, BlamesFine
<1>4. CASE Goto(j, "forceWait")
  <2>1. Placed("forceWait", r) /\ ~Locking("forceWait", r) /\ p \notin Requesting \cup {"forced"}
    BY <1>1, <1>2 DEF Placed, Locking, Periodic, Reconnecting, CleaningUp, Requesting
  <2>2. ~astray => r.code = "none"
    BY <1>1 DEF Before, Knows, RefusalOf
  <2> QED BY <1>1, <1>2, <1>4, <2>1, <2>2, GotoFine
<1> QED BY <1>1, <1>3, <1>4 DEF BeforeForce

LEMMA TriedIs ==
  ASSUME NEW j \in Jobs, NEW p, NEW r, Before(j, p, r)
  PROVE  Tried(j) = [r EXCEPT !.tried = TRUE] /\ Tried(j).tried
BY SMT DEF Before, Tried, JobRecords

LEMMA ForceWaitFine ==
  ASSUME TokensInv, Steady, NEW j \in Jobs, NEW p, NEW r, Before(j, p, r), ForceWait(j)
  PROVE  Fine(j)
<1>1. JobTypes /\ p = "forceWait" /\ r = job[j] /\ r \in JobRecords /\ Passes(j)
  BY DEF TokensInv, Types, Before, ForceWait, Passes
<1>2. r.kind = "reconnect" /\ lock # j
  BY <1>1 DEF Before, Placed, Reconnecting, Locking, Requesting
<1>3. ~astray => r.code = "none"
  BY <1>1 DEF Before, Knows, RefusalOf
<1>4. CASE lock' = j /\ Goto(j, "forceRead")
  <2>1. Placed("forceRead", r) /\ Locking("forceRead", r) /\ p \notin Requesting \cup {"forced"}
    BY <1>1, <1>2 DEF Placed, Locking, Periodic, Reconnecting, CleaningUp, Requesting
  <2> QED BY <1>1, <1>2, <1>3, <1>4, <2>1, GotoFine
<1>5. CASE lock' = lock /\ Blames(j, Tried(j))
  <2>1. ~astray => Verdict(Tried(j)) # "terminal"
    BY <1>1, <1>3, TriedIs, BlamedIsRemembered
  <2> QED BY <1>1, <1>2, <1>5, <2>1, TriedIs, BlamesFine
<1> QED BY <1>4, <1>5 DEF ForceWait

LEMMA StorageIs ==
  ASSUME NEW j, NEW a \in {"forced", "retried"},
         NEW q \in {NewStorage(j, a), [NewStorage(j, a) EXCEPT !.forced = TRUE]}
  PROVE  /\ q.kind = "reconnect" /\ q.next = a /\ q.tried /\ q.code = "none"
         /\ Memory(q) = {NoToken}
         /\ q = NewStorage(j, a) => ~q.forced
<1> DEFINE n == NewStorage(j, a)
<1>1. /\ n.kind = "reconnect" /\ n.next = a /\ n.tried /\ n.code = "none" /\ ~n.forced
      /\ n.first = NoToken /\ n.held = NoToken /\ n.blamed = NoToken
  BY SMT DEF NewStorage, NewJob
<1>2. n \in JobRecords
  BY StorageFields DEF Askers
<1> HIDE DEF n
<1>3. CASE q = n
  BY <1>1, <1>3 DEF Memory
<1>4. CASE q = [n EXCEPT !.forced = TRUE]
  <2>1. /\ q.kind = n.kind /\ q.next = n.next /\ q.tried = n.tried /\ q.code = n.code
        /\ q.first = n.first /\ q.held = n.held /\ q.blamed = n.blamed /\ q.forced
    BY <1>2, <1>4, SMT DEF JobRecords
  <2> QED BY <1>1, <2>1 DEF Memory, n
<1> QED BY <1>3, <1>4 DEF n

\* One more connect with a storage of its own.
LEMMA StorageLoads ==
  ASSUME TokensInv, Steady, NEW j \in Jobs, NEW p, NEW r, Before(j, p, r), Passes(j),
         \/ lock' # j /\ Go(j, "load", NewStorage(j, "retried"))
         \/ lock' = j /\ Go(j, "load", [NewStorage(j, "forced") EXCEPT !.forced = TRUE])
  PROVE  Fine(j)
<1>1. CASE lock' # j /\ Go(j, "load", NewStorage(j, "retried"))
  <2>1. PICK q : q = NewStorage(j, "retried")
    OBVIOUS
  <2>2. /\ q.kind = "reconnect" /\ q.next = "retried" /\ q.tried /\ q.code = "none"
        /\ Memory(q) = {NoToken} /\ ~q.forced
    BY <2>1, StorageIs
  <2>3. Placed("load", q) /\ ~Locking("load", q)
    BY <2>2 DEF Placed, Locking, Periodic, Reconnecting, CleaningUp, Requesting
  <2> QED BY <1>1, <2>1, <2>2, <2>3, LoadsFine
<1>2. CASE lock' = j /\ Go(j, "load", [NewStorage(j, "forced") EXCEPT !.forced = TRUE])
  <2>1. PICK q : q = [NewStorage(j, "forced") EXCEPT !.forced = TRUE]
    OBVIOUS
  <2>2. /\ q.kind = "reconnect" /\ q.next = "forced" /\ q.tried /\ q.code = "none"
        /\ Memory(q) = {NoToken}
    BY <2>1, StorageIs
  <2>3. Placed("load", q) /\ Locking("load", q)
    BY <2>2 DEF Placed, Locking, Periodic, Reconnecting, CleaningUp, Requesting
  <2> QED BY <1>2, <2>1, <2>2, <2>3, LoadsFine
<1> QED BY <1>1, <1>2

LEMMA ForceReadFine ==
  ASSUME TokensInv, Steady, NEW j \in Jobs, NEW p, NEW r, Before(j, p, r), ForceRead(j)
  PROVE  Fine(j)
<1>1. p = "forceRead" /\ r = job[j] /\ r \in JobRecords
  BY DEF Before, ForceRead
<1>2. r.kind = "reconnect" /\ lock = j
  BY <1>1 DEF Before, Placed, Reconnecting, Locking
<1>3. Passes(j) /\ (lock' = NoJob => lock' # j)
  BY <1>2, NotAJob DEF ForceRead, Passes
<1>4. CASE row = NoToken /\ lock' = NoJob /\ Blames(j, r)
  BY <1>1, <1>2, <1>3, <1>4, NoneIsGuilty, BlamesFine
<1>5. CASE lock' = NoJob /\ Blames(j, Tried(j))
  <2>1. ~astray => r.code = "none"
    BY <1>1 DEF Before, Knows, RefusalOf
  <2>2. ~astray => Verdict(Tried(j)) # "terminal"
    BY <1>1, <2>1, TriedIs, BlamedIsRemembered
  <2> QED BY <1>1, <1>2, <1>3, <1>5, <2>2, TriedIs, BlamesFine
<1>6. CASE lock' = NoJob /\ Go(j, "load", NewStorage(j, "retried"))
  BY <1>3, <1>6, StorageLoads
<1>7. CASE lock' = lock /\ Go(j, "load", [NewStorage(j, "forced") EXCEPT !.forced = TRUE])
  BY <1>2, <1>3, <1>7, StorageLoads
<1> QED BY <1>1, <1>4, <1>5, <1>6, <1>7 DEF ForceRead

LEMMA ForcedFine ==
  ASSUME TokensInv, Steady, NEW j \in Jobs, NEW p, NEW r, Before(j, p, r), Forced(j)
  PROVE  Fine(j)
<1>1. p = "forced" /\ r = job[j] /\ r \in JobRecords /\ lock' = NoJob
  BY DEF Before, Forced
<1>2. r.kind = "reconnect" /\ lock = j
  BY <1>1 DEF Before, Placed, Reconnecting, Locking
<1>3. Passes(j) /\ lock' # j
  BY <1>1, <1>2, NotAJob DEF Passes
<1>4. CASE Blames(j, r)
  <2>1. ~astray => r.tried /\ (r.code = "terminal" => Guilty(r.blamed, r.with))
    BY <1>1 DEF Before, Knows, RefusalOf
  <2>2. ~astray /\ Verdict(r) = "terminal" => Guilty(About(r), r.with)
    BY <1>1, <2>1, BlamedIsRemembered
  <2> QED BY <1>1, <1>2, <1>3, <1>4, <2>2, BlamesFine
<1>5. CASE Go(j, "load", NewStorage(j, "retried"))
  BY <1>3, <1>5, StorageLoads
<1> QED BY <1>1, <1>4, <1>5 DEF Forced

LEMMA RetriedFine ==
  ASSUME TokensInv, Steady, NEW j \in Jobs, NEW p, NEW r, Before(j, p, r), Retried(j)
  PROVE  Fine(j)
<1>1. JobTypes /\ p = "retried" /\ r = job[j] /\ r \in JobRecords /\ lock' = lock /\ Passes(j)
  BY DEF TokensInv, Types, Before, Retried, Passes
<1>2. r.kind = "reconnect" /\ lock # j
  BY <1>1 DEF Before, Placed, Reconnecting, Locking, Requesting
<1>3. CASE Blames(j, r)
  <2>1. ~astray => r.tried /\ (r.code = "terminal" => Guilty(r.blamed, r.with))
    BY <1>1 DEF Before, Knows, RefusalOf
  <2>2. ~astray /\ Verdict(r) = "terminal" => Guilty(About(r), r.with)
    BY <1>1, <2>1, BlamedIsRemembered
  <2> QED BY <1>1, <1>2, <1>3, <2>2, BlamesFine
<1>4. CASE Closes(j, "good")
  BY <1>1, <1>4, ClosesFine
<1>5. CASE Ends(j)
  BY <1>1, <1>2, <1>5, EndsFine
<1> QED BY <1>1, <1>3, <1>4, <1>5 DEF Retried

LEMMA AbortedFine ==
  ASSUME TokensInv, Steady, NEW j \in Jobs, NEW p, NEW r, Before(j, p, r), Aborted(j)
  PROVE  Fine(j)
<1>1. /\ JobTypes /\ p = pc[j] /\ r = job[j] /\ lock' = lock /\ Passes(j) /\ Ends(j)
      /\ r.kind = "reconnect"
  BY DEF TokensInv, Types, Before, Aborted, Passes
<1>2. lock # j
  BY <1>1 DEF Before, Aborted, Locking, Requesting
<1> QED BY <1>1, <1>2, EndsFine

LEMMA CheckFine ==
  ASSUME TokensInv, Steady, NEW j \in Jobs, NEW p, NEW r, Before(j, p, r), Check(j)
  PROVE  Fine(j)
<1>1. JobTypes /\ p = "check" /\ r = job[j] /\ r \in JobRecords /\ lock' = lock /\ Passes(j)
  BY DEF TokensInv, Types, Before, Check, Passes
<1>2. r.kind = "periodic" /\ r.next = "check" /\ lock = j
  BY <1>1 DEF Before, Placed, Periodic, Locking
<1>3. ~astray => /\ StillDue(r.first) /\ ~r.forced
                 /\ r.result = "lost" => r.code = "none"
                 /\ r.code = "terminal" => Guilty(r.blamed, r.with)
                 /\ r.result = "unauth" /\ r.code = "none" /\ ~r.saved /\ row = r.first
                    => Guilty(r.held, r.with)
  BY <1>1, <1>2 DEF Before, Knows, PeriodicOf, RefusalOf, Requesting
<1>4. CASE r.result = "lost" /\ Go(j, "load", [r EXCEPT !.left = @ - 1])
  <2>1. PICK q : q = [r EXCEPT !.left = @ - 1]
    OBVIOUS
  <2>2. /\ Memory(q) = Memory(r) /\ q.next = r.next /\ q.kind = r.kind /\ q.first = r.first
        /\ q.code = r.code /\ q.forced = r.forced
    BY <1>1, <2>1, SMT DEF JobRecords, Memory
  <2>3. Placed("load", q) /\ Locking("load", q)
    BY <1>2, <2>2 DEF Placed, Locking, Periodic, Reconnecting, CleaningUp, Requesting
  <2> QED BY <1>1, <1>2, <1>3, <1>4, <2>1, <2>2, <2>3, LoadsFine
<1>5. CASE row = r.first /\ ~r.saved /\ Blames(j, r)
  <2>1. ASSUME ~astray, Verdict(r) = "terminal" PROVE Guilty(About(r), r.with)
    <3>1. CASE r.code = "none"
      <4>1. r.result = "unauth"
        BY <2>1, <3>1 DEF Verdict
      <4> QED BY <1>1, <1>3, <1>5, <2>1, <3>1, <4>1, BlamedIsRemembered
    <3>2. CASE r.code # "none"
      BY <1>1, <1>3, <2>1, <3>2, BlamedIsRemembered
    <3> QED BY <3>1, <3>2
  <2> QED BY <1>1, <1>2, <1>5, <2>1, BlamesFine
<1>6. CASE Closes(j, "good") \/ Closes(j, "letGo")
  BY <1>1, <1>2, <1>6, ClosesFine
<1> QED BY <1>1, <1>4, <1>5, <1>6 DEF Check

-----------------------------------------------------------------------------
(* Every step of a job is a fine one: the requests                         *)

\* A registration made just now is not the one a sign-in uses.
LEMMA NewClientIsGuilty ==
  ASSUME TokensInv, ClientsKnown, NEW t \in Rows, WasIssued(t)
  PROVE  Guilty(t, clients + 1)
<1>1. CASE t = NoToken
  BY <1>1 DEF Guilty
<1>2. CASE t # NoToken
  <2>1. t.sign \in SignIns /\ uses[t.sign] <= clients
    BY <1>2, RowFields DEF ClientsKnown
  <2>2. uses[t.sign] \in Nat /\ clients \in Nat
    BY <2>1 DEF TokensInv, Types, UpstreamTypes, Clients, NoClient
  <2> QED BY <2>1, <2>2 DEF Guilty
<1> QED BY <1>1, <1>2

\* While every refresh has the lock, what is stored under it is the newest.
LEMMA StoredIsNewest ==
  ASSUME TokensInv, RefusalInv, NEW j \in Jobs, lock = j, pc[j] # "save", ~astray, row # NoToken
  PROVE  row.k = issued[row.sign] \/ row.sign \in lost
<1>1. SUFFICES ASSUME InHand([sign |-> row.sign, k |-> issued[row.sign]]) PROVE FALSE
  BY DEF TokensInv, StoredTokensWork
<1>2. PICK i \in Jobs : job[i].got = [sign |-> row.sign, k |-> issued[row.sign]]
  BY <1>1 DEF InHand
<1>3. row.sign \in SignIns /\ row.sign # 0
  BY RowFields, SMT DEF TokensInv, Types, StoreTypes, SignIns
<1>4. job[i].got # NoToken
  BY <1>2, <1>3 DEF NoToken
<1>5. pc[i] = "save"
  BY <1>4 DEF TokensInv, HandsRight, Hands
<1> QED BY <1>5 DEF RefusalInv, Blameless

\* A 401: with the registration the library loaded, or with a new one.
LEMMA RefusedFine ==
  ASSUME TokensInv, RefusalInv, Steady, NEW j \in Jobs, NEW p \in Requesting, NEW r,
         Before(j, p, r), NEW q \in JobRecords, Refused(j, q),
         q.next = r.next, q.kind = r.kind, q.tried = r.tried, q.forced = r.forced,
         lock' = lock, row' = row, UNCHANGED uses,
         \A t \in Memory(q) : Recalled(t),
         Memory(q) \subseteq Memory(r) \cup {NoToken, row},
         ~astray =>
           /\ q.next = "check" => StillDue(q.first)
           /\ q.next = "check" /\ q.code = "none" /\ ~q.saved /\ row = q.first /\ q.with # NoClient
              => Guilty(q.held, q.with)
           /\ q.code = "terminal" => /\ q.with # NoClient => Guilty(q.blamed, q.with)
                                     /\ q.next \notin {"stepOne", "peek"}
  PROVE  Fine(j)
<1>1. /\ q.first \in Rows /\ Recalled(q.first) /\ q.held \in Rows /\ Recalled(q.held)
      /\ q.blamed \in Rows /\ Recalled(q.blamed)
  BY JobFields DEF Memory
<1>2. WasIssued(q.held) /\ WasIssued(q.blamed)
  BY <1>1 DEF Recalled
<1>3. PICK c : c = clients + 1
  OBVIOUS
<1>4. Guilty(q.held, c) /\ Guilty(q.blamed, c)
  BY <1>1, <1>2, <1>3, NewClientIsGuilty DEF RefusalInv
<1>5. Guilty(q.held, c)' /\ Guilty(q.blamed, c)'
  BY <1>1, <1>4, GuiltStays
<1>6. ~astray' /\ q.next = "check" => StillDue(q.first)'
  BY <1>1, DueStays DEF Steady
<1>7. ~astray' => ~astray
  BY DEF Steady
<1>8. CASE q.with # NoClient /\ Answered(j, q, "unauth")
  <2>1. ~astray /\ q.next = "check" /\ q.code = "none" /\ ~q.saved /\ row' = q.first
        => Guilty(q.held, q.with)'
    BY <1>1, <1>8, GuiltStays
  <2>2. ~astray /\ q.code = "terminal" => Guilty(q.blamed, q.with)'
    BY <1>1, <1>8, GuiltStays
  <2> QED BY <1>6, <1>7, <1>8, <2>1, <2>2, AnsweredFine
<1>9. CASE Answered(j, [q EXCEPT !.with = c], "unauth") /\ c \in Clients
  <2>1. PICK n : n = [q EXCEPT !.with = c]
    OBVIOUS
  <2>2. n \in JobRecords
    BY <1>9, <2>1, SMT DEF JobRecords
  <2>3. /\ n.next = q.next /\ n.kind = q.kind /\ n.tried = q.tried /\ n.forced = q.forced
        /\ n.first = q.first /\ n.held = q.held /\ n.blamed = q.blamed /\ n.with = c
        /\ n.code = q.code /\ n.saved = q.saved
    BY <2>1, SMT DEF JobRecords
  <2>4. Guilty(n.held, n.with)' /\ Guilty(n.blamed, n.with)'
    BY <1>5, <2>3
  <2>5. ~astray' => /\ n.next = "check" => StillDue(n.first)'
                    /\ n.code = "terminal" => n.next \notin {"stepOne", "peek"}
    BY <1>6, <1>7, <2>3
  <2>6. Memory(n) = Memory(q)
    BY <2>3 DEF Memory
  <2> QED BY <1>9, <2>1, <2>2, <2>3, <2>4, <2>5, <2>6, AnsweredFine, ZenonT(60)
<1>10. clients + 1 \in Clients \/ q.with # NoClient
  BY SMT DEF Refused, TokensInv, Types, UpstreamTypes, Clients
<1> QED BY <1>3, <1>8, <1>9, <1>10 DEF Refused

\* What a job that is sending a request remembers, and knows.
LEMMA RequestKnows ==
  ASSUME TokensInv, NEW j \in Jobs, NEW p \in Requesting, NEW r, Before(j, p, r)
  PROVE  /\ JobTypes /\ Hands(j) /\ r = job[j] /\ r \in JobRecords /\ p = pc[j]
         /\ Recalled(row) /\ Recalled(NoToken) /\ row \in Rows
         /\ \A t \in Memory(r) : t \in Rows /\ Recalled(t)
         /\ r.next \in {"stepOne", "forced", "check"} \/ lock # j
         /\ ~astray => /\ r.next = "check" => StillDue(r.first)
                       /\ r.code = "none" \/ r.next = "connected"
                       /\ r.code = "terminal" => Guilty(r.blamed, r.with)
                       /\ r.forced => r.next = "forced"
                       /\ r.next \in {"forced", "retried"} => r.tried
<1>1. JobTypes /\ Hands(j) /\ r = job[j] /\ r \in JobRecords /\ p = pc[j] /\ row \in Rows
  BY DEF TokensInv, Types, StoreTypes, HandsRight, Before
<1>2. Recalled(row) /\ Recalled(NoToken)
  BY StoredIsRecalled DEF RowRecalled, Recalled, WasIssued
<1>3. \A t \in Memory(r) : t \in Rows /\ Recalled(t)
  BY <1>1, JobFields DEF Before, Memory
<1>4. r.next \in {"stepOne", "forced", "check"} \/ lock # j
  <2>1. r.next \in Askers
    BY <1>1, JobFields
  <2> QED BY <2>1 DEF Askers, Before, Placed, Locking, Reconnecting, Requesting
<1>5. ~astray => /\ r.next = "check" => StillDue(r.first)
                 /\ r.code = "none" \/ r.next = "connected"
                 /\ r.code = "terminal" => Guilty(r.blamed, r.with)
                 /\ r.forced => r.next = "forced"
                 /\ r.next \in {"forced", "retried"} => r.tried
  BY DEF Before, Knows, PeriodicOf, RefusalOf
<1> QED BY <1>1, <1>2, <1>3, <1>4, <1>5

\* Within a request the job keeps its kind, and its lock.
LEMMA StaysPlaced ==
  ASSUME NEW j, NEW p \in Requesting, NEW r, Before(j, p, r),
         NEW w \in Requesting, NEW q, q.next = r.next, q.kind = r.kind
  PROVE  Placed(w, q) /\ (lock = j <=> Locking(w, q))
BY DEF Before, Placed, Locking, Periodic, Reconnecting, CleaningUp, Requesting

LEMMA LoadFine ==
  ASSUME TokensInv, RefusalInv, Steady, NEW j \in Jobs, NEW r, Before(j, "load", r), Load(j)
  PROVE  Fine(j)
<1>1. PICK q : q = [r EXCEPT !.held = row, !.with = client, !.fresh = FALSE, !.result = "none"]
  OBVIOUS
<1>2. /\ JobTypes /\ r = job[j] /\ r \in JobRecords /\ "load" = pc[j]
      /\ Recalled(row) /\ Recalled(NoToken) /\ row \in Rows
      /\ \A t \in Memory(r) : t \in Rows /\ Recalled(t)
      /\ r.next \in {"stepOne", "forced", "check"} \/ lock # j
      /\ ~astray => /\ r.next = "check" => StillDue(r.first)
                    /\ r.code = "none" \/ r.next = "connected"
                    /\ r.code = "terminal" => Guilty(r.blamed, r.with)
                    /\ r.forced => r.next = "forced"
                    /\ r.next \in {"forced", "retried"} => r.tried
  BY RequestKnows DEF Requesting
<1>3. /\ q.held = row /\ q.with = client /\ q.next = r.next /\ q.kind = r.kind /\ q.first = r.first
      /\ q.code = r.code /\ q.blamed = r.blamed /\ q.forced = r.forced /\ q.tried = r.tried
      /\ q.saved = r.saved /\ q.got = r.got
  BY <1>1, <1>2, SMT DEF JobRecords
<1>4. q \in JobRecords
  BY <1>1, <1>2, ZenonT(60) DEF JobRecords, TokensInv, Types, StoreTypes
<1>5. /\ Memory(q) \subseteq Memory(r) \cup {NoToken, row}
      /\ \A t \in Memory(q) : t \in Rows /\ Recalled(t)
  BY <1>2, <1>3 DEF Memory
<1>6. row' = row /\ due' = due /\ lock' = lock /\ Passes(j) /\ UNCHANGED <<uses, issued, lost>>
  BY DEF Load, signVars, Passes
<1>7. ~astray => (r.code = "terminal" => StillDue(r.blamed))
  BY DEF Before, Knows, RefusalOf
<1>8. q.first \in Rows /\ Recalled(q.first) /\ q.blamed \in Rows /\ Recalled(q.blamed)
  BY <1>5 DEF Memory
<1>9. ~astray' => ~astray
  BY DEF Steady
<1>10. CASE row # NoToken /\ (due \/ r.forced) /\ Go(j, "present", q) /\ astray' = (astray \/ lock # j)
  <2>1. Placed("present", q) /\ (lock' = j <=> Locking("present", q))
    BY <1>3, <1>6, StaysPlaced DEF Requesting
  <2>2. ASSUME ~astray' PROVE lock = j /\ Knows("present", q)'
    <3>1. ~astray /\ lock = j
      BY <1>9, <1>10, <2>2
    <3>2. q.code = "none"
      BY <1>2, <1>3, <3>1
    <3>3. PICK t : t = row
      OBVIOUS
    <3>4. (t.k = issued[t.sign] \/ t.sign \in lost) /\ q.held = t
      BY <1>2, <1>3, <1>10, <3>1, <3>3, StoredIsNewest
    <3>5. q.held.k = issued'[q.held.sign] \/ q.held.sign \in lost'
      BY <1>6, <3>4
    <3>6. (~q.forced => StillDue(q.held)') /\ (row' = q.first => q.held = q.first)
      BY <1>3, <1>6, <1>10, <3>3, <3>4 DEF StillDue
    <3>7. q.next = "check" => StillDue(q.first)'
      BY <1>2, <1>3, <1>8, <3>1, DueStays
    <3>8. PeriodicOf("present", q)'
      BY <3>6, <3>7 DEF PeriodicOf
    <3>9. PresentsOf("present", q)'
      BY <3>5, <3>6 DEF PresentsOf
    <3>10. RefusalOf("present", q)'
      BY <1>2, <1>3, <3>1, <3>2 DEF RefusalOf, Requesting
    <3> QED BY <3>1, <3>8, <3>9, <3>10 DEF Knows
  <2> QED BY <1>2, <1>5, <1>6, <1>10, <2>1, <2>2, GoFine
<1>11. CASE row # NoToken /\ ~due /\ Go(j, "bearer", [q EXCEPT !.fresh = TRUE])
  <2>1. PICK n : n = [q EXCEPT !.fresh = TRUE]
    OBVIOUS
  <2>2. /\ n.next = q.next /\ n.kind = q.kind /\ n.first = q.first /\ n.code = q.code /\ n.with = q.with
        /\ n.blamed = q.blamed /\ n.forced = q.forced /\ n.tried = q.tried /\ Memory(n) = Memory(q)
    BY <1>4, <2>1, SMT DEF JobRecords, Memory
  <2>3. Placed("bearer", n) /\ (lock' = j <=> Locking("bearer", n))
    BY <1>3, <1>6, <2>2, StaysPlaced, ZenonT(60) DEF Requesting
  <2>4. ASSUME ~astray' PROVE Knows("bearer", n)'
    <3>1. n.next = "check" => StillDue(n.first)' /\ (row' = n.first => n.first = NoToken)
      <4>1. n.next = "check" => StillDue(n.first)
        BY <1>2, <1>3, <1>9, <2>2, <2>4
      <4>2. n.next = "check" => StillDue(n.first)'
        BY <1>8, <2>2, <4>1, DueStays
      <4> QED BY <1>6, <1>11, <4>1, <4>2 DEF StillDue
    <3>2. n.code = "terminal" => Guilty(n.blamed, n.with)'
      <4>1. n.code = "terminal" => Guilty(n.blamed, n.with)
        BY <1>3, <1>7, <1>9, <1>11, <2>2, <2>4 DEF StillDue, Guilty
      <4> QED BY <1>8, <2>2, <4>1, GuiltStays
    <3>3. /\ n.code = "none" \/ n.next = "connected"
          /\ n.forced => n.next = "forced"
          /\ n.next \in {"forced", "retried"} => n.tried
      BY <1>2, <1>3, <1>9, <2>2, <2>4
    <3> QED BY <3>1, <3>2, <3>3 DEF Knows, PeriodicOf, PresentsOf, RefusalOf, Requesting
  <2> QED BY <1>2, <1>5, <1>6, <1>11, <2>1, <2>2, <2>3, <2>4, GoFine
<1>12. CASE (row = NoToken \/ client = NoClient) /\ Refused(j, q)
  <2>1. ~astray => /\ q.next = "check" => StillDue(q.first)
                   /\ q.code = "terminal" => q.next \notin {"stepOne", "peek"}
    BY <1>2, <1>3
  <2>2. q.with # NoClient => row = NoToken
    BY <1>3, <1>12
  <2>3. q.with # NoClient => Guilty(q.held, q.with) /\ Guilty(q.blamed, q.with)
    BY <2>2, NoneIsGuilty
  <2> QED BY <1>3, <1>4, <1>5, <1>6, <1>12, <2>1, <2>3, RefusedFine DEF Requesting
<1> QED BY <1>1, <1>2, <1>10, <1>11, <1>12 DEF Load

LEMMA PresentFine ==
  ASSUME TokensInv, RefusalInv, Steady, NEW j \in Jobs, NEW r, Before(j, "present", r),
         Present(j) \/ PresentFails(j)
  PROVE  Fine(j)
<1>1. /\ JobTypes /\ r = job[j] /\ r \in JobRecords /\ "present" = pc[j] /\ Hands(j)
      /\ Recalled(NoToken)
      /\ \A t \in Memory(r) : t \in Rows /\ Recalled(t)
      /\ ~astray => /\ r.next = "check" => StillDue(r.first)
                    /\ r.code = "none" \/ r.next = "connected"
                    /\ r.code = "terminal" => Guilty(r.blamed, r.with)
                    /\ r.forced => r.next = "forced"
                    /\ r.next \in {"forced", "retried"} => r.tried
  BY RequestKnows DEF Requesting
<1>2. /\ r.first \in Rows /\ Recalled(r.first) /\ r.held \in Rows /\ Recalled(r.held)
      /\ r.blamed \in Rows /\ Recalled(r.blamed)
  BY <1>1 DEF Memory
<1>3. lock' = lock /\ Passes(j) /\ row' = row /\ due' = due /\ (~astray' => ~astray)
  BY DEF Present, PresentFails, storeVars, Passes, Steady
<1>4. ~astray => /\ r.held.k = issued[r.held.sign] \/ r.held.sign \in lost
                 /\ ~r.forced => StillDue(r.held)
                 /\ r.next = "check" /\ row = r.first => r.first = NoToken \/ r.held = r.first
  BY DEF Before, Knows, PresentsOf, PeriodicOf
<1>5. /\ ~astray /\ r.next = "check" => StillDue(r.first)'
      /\ ~astray /\ ~r.forced => StillDue(r.held)'
      /\ ~astray /\ r.code = "terminal" => Guilty(r.blamed, r.with)'
  BY <1>1, <1>2, <1>4, DueStays, GuiltStays
<1>6. ASSUME NEW g, Go(j, "save", [r EXCEPT !.got = g]) PROVE Fine(j)
  <2>1. PICK n : n = [r EXCEPT !.got = g]
    OBVIOUS
  <2>2. /\ n.next = r.next /\ n.kind = r.kind /\ n.first = r.first /\ n.code = r.code /\ n.with = r.with
        /\ n.held = r.held /\ n.blamed = r.blamed /\ n.forced = r.forced /\ n.tried = r.tried
        /\ Memory(n) = Memory(r)
    BY <1>1, <2>1, SMT DEF JobRecords, Memory
  <2>3. Placed("save", n) /\ (lock' = j <=> Locking("save", n))
    BY <1>3, <2>2, StaysPlaced DEF Requesting
  <2>4. ASSUME ~astray' PROVE lock' = j /\ Knows("save", n)'
    <3>1. ~astray /\ lock' = j
      BY <1>1, <1>3, <2>4 DEF RefusalInv, Blameless
    <3>2. PeriodicOf("save", n)'
      BY <1>3, <1>4, <1>5, <2>2, <3>1 DEF PeriodicOf
    <3>3. RefusalOf("save", n)'
      BY <1>1, <1>5, <2>2, <3>1 DEF RefusalOf, Requesting
    <3> QED BY <3>1, <3>2, <3>3 DEF Knows, PresentsOf
  <2> QED BY <1>1, <1>3, <1>6, <2>1, <2>2, <2>3, <2>4, GoFine
<1>7. ASSUME NEW c \in {"terminal", "other"},
             c = "terminal" => ~Accepts(r.held, r.with),
             Answered(j, [r EXCEPT !.code = c, !.blamed = r.held], "unauth")
      PROVE  Fine(j)
  <2>1. PICK n : n = [r EXCEPT !.code = c, !.blamed = r.held]
    OBVIOUS
  <2>2. /\ n.next = r.next /\ n.kind = r.kind /\ n.first = r.first /\ n.code = c /\ n.with = r.with
        /\ n.held = r.held /\ n.blamed = r.held /\ n.forced = r.forced /\ n.tried = r.tried
        /\ Memory(n) \subseteq Memory(r)
    BY <1>1, <2>1, SMT DEF JobRecords, Memory
  <2>3. n \in JobRecords
    BY <1>1, <1>2, <2>1, ZenonT(60) DEF JobRecords
  <2>4. ASSUME ~astray, c = "terminal" PROVE Guilty(n.blamed, n.with)'
    <3>1. Guilty(r.held, r.with)
      BY <1>4, <1>7, <2>4 DEF Accepts, Guilty
    <3>2. Guilty(r.held, r.with)'
      BY <1>2, <3>1, GuiltStays
    <3> QED BY <2>2, <3>2
  <2>5. ASSUME ~astray, n.next \in {"stepOne", "peek"} PROVE StillDue(n.blamed)'
    BY <1>1, <1>5, <2>2, <2>5
  <2>6. ~astray /\ n.next = "check" => StillDue(n.first)'
    BY <1>5, <2>2
  <2> QED BY <1>3, <1>7, <2>1, <2>2, <2>3, <2>4, <2>5, <2>6, AnsweredFine DEF Requesting
<1>8. CASE Answered(j, r, "lost")
  <2>1. ~astray /\ r.code = "terminal" => r.next = "connected"
    BY <1>1
  <2>2. ~astray /\ r.next = "check" => r.code = "none"
    BY <1>1
  <2> QED BY <1>1, <1>3, <1>5, <1>8, <2>1, <2>2, AnsweredFine DEF Requesting
<1> QED BY <1>1, <1>6, <1>7, <1>8 DEF Present, PresentFails

LEMMA SaveFine ==
  ASSUME TokensInv, RefusalInv, Steady, NEW j \in Jobs, NEW r, Before(j, "save", r),
         Save(j) \/ SaveTimesOut(j)
  PROVE  Fine(j)
<1>1. /\ JobTypes /\ r = job[j] /\ r \in JobRecords /\ "save" = pc[j] /\ Hands(j)
      /\ Recalled(NoToken)
      /\ \A t \in Memory(r) : t \in Rows /\ Recalled(t)
      /\ ~astray => /\ r.next = "check" => StillDue(r.first)
                    /\ r.code = "none" \/ r.next = "connected"
                    /\ r.code = "terminal" => Guilty(r.blamed, r.with)
                    /\ r.forced => r.next = "forced"
                    /\ r.next \in {"forced", "retried"} => r.tried
  BY RequestKnows DEF Requesting
<1>2. /\ r.first \in Rows /\ Recalled(r.first) /\ r.held \in Rows /\ Recalled(r.held)
      /\ r.blamed \in Rows /\ Recalled(r.blamed)
  BY <1>1 DEF Memory
<1>3. lock' = lock /\ Passes(j) /\ (~astray' => ~astray)
  BY DEF Save, SaveTimesOut, Passes, Steady
<1>4. /\ ~astray /\ r.next = "check" => StillDue(r.first)'
      /\ ~astray /\ r.code = "terminal" => Guilty(r.blamed, r.with)'
  BY <1>1, <1>2, DueStays, GuiltStays
<1>5. r.got \in Tokens /\ r.got.sign = r.held.sign /\ r.got # row /\ r.got \in Rows
  BY <1>1, SavedIsNew DEF Hands, Rows
<1>6. ASSUME NEW n, Go(j, "bearer", n), n.next = r.next, n.kind = r.kind, n.first = r.first,
             n.code = r.code, n.with = r.with, n.blamed = r.blamed, n.forced = r.forced,
             n.tried = r.tried, n.held \in {r.held, row'},
             ~astray /\ n.next = "check" /\ row' = n.first => n.first = NoToken
      PROVE  Fine(j)
  <2>1. Placed("bearer", n) /\ (lock' = j <=> Locking("bearer", n))
    BY <1>3, <1>6, StaysPlaced DEF Requesting
  <2>2. ASSUME ~astray' PROVE Knows("bearer", n)'
    <3>1. PeriodicOf("bearer", n)'
      BY <1>3, <1>4, <1>6, <2>2 DEF PeriodicOf
    <3>2. RefusalOf("bearer", n)'
      BY <1>1, <1>3, <1>4, <1>6, <2>2 DEF RefusalOf, Requesting
    <3> QED BY <3>1, <3>2 DEF Knows, PresentsOf
  <2>3. Memory(n) \subseteq Memory(job[j]) \cup {NoToken, row, row'}
    BY <1>1, <1>6 DEF Memory
  <2> QED BY <1>1, <1>3, <1>6, <2>1, <2>2, <2>3, GoFine
<1>7. PICK q : q = [r EXCEPT !.got = NoToken, !.fresh = TRUE]
  OBVIOUS
<1>8. /\ q.next = r.next /\ q.kind = r.kind /\ q.first = r.first /\ q.code = r.code /\ q.with = r.with
      /\ q.held = r.held /\ q.blamed = r.blamed /\ q.forced = r.forced /\ q.tried = r.tried
  BY <1>1, <1>7, SMT DEF JobRecords
<1>9. ASSUME row' = r.got, Go(j, "bearer", [q EXCEPT !.held = r.got, !.saved = TRUE])
      PROVE  Fine(j)
  <2>1. PICK n : n = [q EXCEPT !.held = r.got, !.saved = TRUE]
    OBVIOUS
  <2>2. q \in JobRecords
    BY <1>1, <1>7, ZenonT(60) DEF JobRecords, Rows
  <2>3. /\ n.next = q.next /\ n.kind = q.kind /\ n.first = q.first /\ n.code = q.code /\ n.with = q.with
        /\ n.held = r.got /\ n.blamed = q.blamed /\ n.forced = q.forced /\ n.tried = q.tried
    BY <2>1, <2>2, SMT DEF JobRecords
  <2>4. row' = r.first => r.first = NoToken
    <3>1. row' # row
      BY <1>5, <1>9
    <3> QED BY <1>2, <3>1 DEF Steady
  <2> QED BY <1>6, <1>8, <1>9, <2>1, <2>3, <2>4
<1>10. ASSUME ~SavesOver(q), row' = row, Go(j, "bearer", q) PROVE Fine(j)
  <2>1. ASSUME ~astray, q.next = "check", row' = q.first PROVE q.first = NoToken
    <3>1. r.first = NoToken \/ r.held = r.first
      BY <1>8, <1>10, <2>1 DEF Before, Knows, PeriodicOf
    <3>2. row # NoToken => row # r.held
      BY <1>8, <1>10 DEF SavesOver
    <3> QED BY <1>8, <1>10, <2>1, <3>1, <3>2
  <2> QED BY <1>6, <1>8, <1>10, <2>1
<1>11. CASE Answered(j, [r EXCEPT !.got = NoToken], "lost")
  <2>1. PICK n : n = [r EXCEPT !.got = NoToken]
    OBVIOUS
  <2>2. /\ n.next = r.next /\ n.kind = r.kind /\ n.first = r.first /\ n.code = r.code /\ n.with = r.with
        /\ n.held = r.held /\ n.blamed = r.blamed /\ n.forced = r.forced /\ n.tried = r.tried
        /\ Memory(n) = Memory(r)
    BY <1>1, <2>1, SMT DEF JobRecords, Memory
  <2>3. n \in JobRecords
    BY <1>1, <2>1, Zenon DEF JobRecords, Rows
  <2>4. ~astray /\ n.code = "terminal" => n.next = "connected" /\ Guilty(n.blamed, n.with)'
    BY <1>1, <1>4, <2>2
  <2>5. ~astray /\ n.next = "check" => n.code = "none" /\ StillDue(n.first)'
    BY <1>1, <1>4, <2>2
  <2> QED BY <1>3, <1>11, <2>1, <2>2, <2>3, <2>4, <2>5, AnsweredFine DEF Requesting
<1>12. CASE Save(j)
  BY <1>1, <1>7, <1>9, <1>10, <1>12 DEF Save
<1>13. CASE SaveTimesOut(j)
  BY <1>1, <1>11, <1>13 DEF SaveTimesOut
<1> QED BY <1>12, <1>13

LEMMA BearerFine ==
  ASSUME TokensInv, RefusalInv, Steady, NEW j \in Jobs, NEW r, Before(j, "bearer", r), Bearer(j)
  PROVE  Fine(j)
<1>1. /\ JobTypes /\ r = job[j] /\ r \in JobRecords /\ "bearer" = pc[j]
      /\ \A t \in Memory(r) : t \in Rows /\ Recalled(t)
      /\ ~astray => /\ r.next = "check" => StillDue(r.first)
                    /\ r.code = "none" \/ r.next = "connected"
                    /\ r.code = "terminal" => Guilty(r.blamed, r.with)
  BY RequestKnows DEF Requesting
<1>2. r.first \in Rows /\ Recalled(r.first) /\ r.blamed \in Rows /\ Recalled(r.blamed)
  BY <1>1 DEF Memory
<1>3. lock' = lock /\ row' = row /\ UNCHANGED uses /\ (~astray' => ~astray)
  BY DEF Bearer, Steady
<1>4. /\ ~astray /\ r.next = "check" => StillDue(r.first)'
      /\ ~astray /\ r.code = "terminal" => Guilty(r.blamed, r.with)'
  BY <1>1, <1>2, DueStays, GuiltStays
<1>5. CASE Answered(j, r, "ok") \/ Answered(j, r, "lost")
  <2>1. ~astray /\ r.code = "terminal" => r.next = "connected"
    BY <1>1
  <2>2. ~astray /\ r.next = "check" => r.code = "none"
    BY <1>1
  <2> QED BY <1>1, <1>3, <1>4, <1>5, <2>1, <2>2, AnsweredFine DEF Requesting
<1>6. CASE Refused(j, r)
  <2>1. ASSUME ~astray, r.next = "check", row = r.first PROVE Guilty(r.held, r.with)
    <3>1. row = NoToken
      BY <2>1 DEF Before, Knows, PeriodicOf
    <3> QED BY <3>1, NoneIsGuilty
  <2>2. ~astray /\ r.code = "terminal" => r.next \notin {"stepOne", "peek"}
    BY <1>1
  <2> QED BY <1>1, <1>3, <1>6, <2>1, <2>2, RefusedFine DEF Requesting
<1> QED BY <1>1, <1>5, <1>6 DEF Bearer

-----------------------------------------------------------------------------
(* Every step of every job is fine *)

LEMMA AllFine ==
  ASSUME TokensInv, RefusalInv, Steady, NEW j \in Jobs, JobStep(j)
  PROVE  Fine(j)
<1>1. PICK p, r : p = pc[j] /\ r = job[j]
  OBVIOUS
<1>2. Before(j, p, r)
  BY <1>1, BeforeHolds
<1>3. /\ Load(j) => Before(j, "load", r)
      /\ Present(j) \/ PresentFails(j) => Before(j, "present", r)
      /\ Save(j) \/ SaveTimesOut(j) => Before(j, "save", r)
      /\ Bearer(j) => Before(j, "bearer", r)
  BY <1>1, <1>2 DEF Load, Present, PresentFails, Save, SaveTimesOut, Bearer
<1>4. Load(j) \/ Present(j) \/ PresentFails(j) \/ Save(j) \/ SaveTimesOut(j) \/ Bearer(j)
      => Fine(j)
  BY <1>3, LoadFine, PresentFine, SaveFine, BearerFine
<1>5. \/ StartPeriodic(j) \/ StartReconnect(j) \/ StartSession(j)
      \/ Still(j) \/ Record(j) \/ Purge(j) \/ PurgeClient(j) \/ ResetFailures(j)
      \/ ReadRow(j) \/ Check(j) \/ LetGo(j)
      => Fine(j)
  BY <1>2, StartsFine, CleanUpFine, ReadFine, CheckFine, LetGoFine
<1>6. \/ ReadSaved(j) \/ Wait(j) \/ StepOneDone(j) \/ Peek(j) \/ Connected(j)
      \/ BeforeForce(j) \/ ForceWait(j) \/ ForceRead(j) \/ Forced(j) \/ Retried(j) \/ Aborted(j)
      => Fine(j)
  BY <1>2, ReadSavedFine, WaitFine, StepOneFine, PeekFine, ConnectedFine, BeforeForceFine,
     ForceWaitFine, ForceReadFine, ForcedFine, RetriedFine, AbortedFine
<1> QED BY <1>4, <1>5, <1>6 DEF JobStep

\* What a step of the job j does to the other jobs, and to what was issued.
LEMMA OthersStay ==
  ASSUME TokensInv, NEW j \in Jobs, Effect(j), NEW i \in Jobs \ {j}
  PROVE  pc'[i] = pc[i] /\ job'[i] = job[i]
BY MovesSlots, AsksSlots, GetsSlots
   DEF TokensInv, Types, Effect, Rests, Writes, Misses

LEMMA IssuedGrows ==
  ASSUME TokensInv, NEW j \in Jobs, Effect(j)
  PROVE  /\ signs' = signs
         /\ \A s \in SignIns : issued[s] <= issued'[s]
         /\ pc[j] # "present" => issued' = issued
         /\ issued' = issued \/ Issues(j)
<1>1. \A s \in SignIns : issued[s] \in Nat
  BY SMT DEF TokensInv, Types, UpstreamTypes
<1>2. CASE issued' = issued /\ signs' = signs
  BY <1>1, <1>2, SMT
<1>3. CASE Issues(j)
  <2>1. issued[job[j].held.sign] <= issued'[job[j].held.sign]
    BY <1>1, <1>3, IssuesCounts DEF TokensInv
  <2>2. \A s \in SignIns \ {job[j].held.sign} : issued[s] <= issued'[s]
    BY <1>1, <1>3, IssuesCounts, SMT DEF TokensInv
  <2>3. signs' = signs /\ pc[j] = "present"
    BY <1>3 DEF Issues
  <2> QED BY <1>3, <2>1, <2>2, <2>3
<1> QED BY <1>2, <1>3 DEF Effect, Rests, Writes, Asks, Gets, Misses, SignsStay

\* What was recalled still is, whoever gets new tokens.
LEMMA RecallStays ==
  ASSUME TokensInv, NEW j \in Jobs, Effect(j), NEW t \in Rows, Recalled(t)
  PROVE  Recalled(t)'
<1>1. CASE t = NoToken
  BY <1>1 DEF Recalled, WasIssued
<1>2. CASE t # NoToken
  <2>1. /\ t.sign \in SignIns /\ t.k \in Nat /\ t.sign <= signs /\ t.k <= issued[t.sign]
        /\ \A i \in Jobs : t # job[i].got
    BY <1>2, RowFields, SMT DEF Recalled, WasIssued
  <2>2. issued[t.sign] <= issued'[t.sign] /\ signs' = signs
    BY <2>1, IssuedGrows
  <2>3. issued[t.sign] \in Nat /\ issued'[t.sign] \in Nat
    <3>1. issued[t.sign] \in Nat
      BY <2>1, SMT DEF TokensInv, Types, UpstreamTypes
    <3>2. CASE Issues(j)
      BY <2>1, <3>1, <3>2, IssuesCounts, SMT DEF TokensInv
    <3> QED BY <3>1, <3>2, IssuedGrows
  <2>4. t.k <= issued'[t.sign]
    BY <2>1, <2>2, <2>3, SMT
  <2>5. t # job'[j].got
    <3>1. CASE Gets(j)
      <4>1. /\ job'[j].got = [sign |-> job[j].held.sign, k |-> issued[job[j].held.sign] + 1]
            /\ issued[job[j].held.sign] \in Nat
        BY <3>1, GetsSlots, IssuesCounts DEF TokensInv, Types, Gets
      <4>2. job'[j].got.sign = job[j].held.sign /\ job'[j].got.k = issued[job[j].held.sign] + 1
        BY <4>1
      <4> QED BY <2>1, <4>1, <4>2, SMT
    <3>2. CASE ~Gets(j)
      BY <1>2, <2>1, <3>2, MovesSlots, AsksSlots
         DEF TokensInv, Types, Effect, Rests, Writes, Misses
    <3> QED BY <3>1, <3>2
  <2>6. \A i \in Jobs : t # job'[i].got
    BY <2>1, <2>5, OthersStay
  <2> QED BY <2>1, <2>2, <2>4, <2>6 DEF Recalled, WasIssued
<1> QED BY <1>1, <1>2

-----------------------------------------------------------------------------
(* Every step keeps the invariant *)

\* A job that did not move, while the others did not give or take its lock.
LEMMA LocksStep ==
  ASSUME TokensInv, RefusalInv, NEW j \in Jobs, Effect(j), Fine(j)
  PROVE  LocksRight'
<1>1. ASSUME NEW i \in Jobs, i # j
      PROVE  Placed(pc'[i], job'[i]) /\ (lock' = i <=> Locking(pc'[i], job'[i]))
  <2>1. pc'[i] = pc[i] /\ job'[i] = job[i]
    BY <1>1, OthersStay
  <2>2. lock' = i <=> lock = i
    BY <1>1, NotAJob DEF Fine, Passes
  <2> QED BY <2>1, <2>2 DEF RefusalInv, LocksRight
<1>2. Placed(pc'[j], job'[j]) /\ (lock' = j <=> Locking(pc'[j], job'[j]))
  BY DEF Fine
<1> QED BY <1>1, <1>2 DEF LocksRight, Placed, Locking

\* A job leaves the registration, or gets a new one, unless it deletes it.
LEMMA JobsClient ==
  ASSUME NEW j \in Jobs, JobStep(j)
  PROVE  /\ UNCHANGED <<uses, ctx, signing>>
         /\ client' \in {client, clients', NoClient}
         /\ ~PurgeClient(j) => client' \in {client, clients'}
<1> USE DEF storeVars, upstreamVars, signVars
<1>1. CASE Elsewhere(j)
  BY <1>1 DEF Elsewhere, StartPeriodic, StartReconnect, StartSession, ReadRow, Check, LetGo,
     Still, ReadSaved, Wait, StepOneDone, Peek, Connected, BeforeForce, ForceWait, ForceRead,
     Forced, Retried
<1>2. CASE Load(j) \/ Present(j) \/ PresentFails(j) \/ Save(j) \/ SaveTimesOut(j) \/ Bearer(j)
  BY <1>2 DEF Load, Present, PresentFails, Save, SaveTimesOut, Bearer, Refused
<1>3. CASE Record(j) \/ Purge(j) \/ PurgeClient(j) \/ ResetFailures(j) \/ Aborted(j)
  BY <1>3 DEF Record, Purge, PurgeClient, ResetFailures, Aborted
<1> QED BY <1>1, <1>2, <1>3 DEF JobStep, Elsewhere

LEMMA ClientsStep ==
  ASSUME TokensInv, ClientsKnown, Steady, [Next]_vars
  PROVE  ClientsKnown'
<1> USE DEF storeVars, upstreamVars, signVars, ghostVars
<1>1. /\ {clients, client, ctx} \subseteq Nat /\ \A s \in SignIns : uses[s] \in Nat
      /\ clients <= clients' /\ clients' \in Nat
  <2>1. TokensInv'
    BY TokensStep
  <2> QED BY <2>1, SMT
     DEF TokensInv, Types, StoreTypes, UpstreamTypes, SignTypes, Clients, NoClient, Steady
<1>3. CASE /\ uses' = uses
           /\ client' \in {client, ctx, clients', NoClient}
           /\ ctx' \in {ctx, client, clients', NoClient}
           /\ signing' # "none" => ctx' # NoClient
  <2>1. \A n \in {client, ctx, clients', NoClient} : n <= clients'
    BY <1>1, SMT DEF ClientsKnown, NoClient
  <2>2. \A s \in SignIns : uses'[s] <= clients'
    BY <1>1, <1>3, SMT DEF ClientsKnown
  <2> QED BY <1>3, <2>1, <2>2 DEF ClientsKnown
<1>4. CASE SignIn
  <2>1. \A s \in SignIns : uses'[s] \in {uses[s], ctx}
    BY <1>4 DEF SignIn, TokensInv, Types, UpstreamTypes
  <2>2. ctx' = ctx /\ clients' = clients /\ client' = client /\ ctx # NoClient
    BY <1>4 DEF SignIn, ClientsKnown
  <2> QED BY <2>1, <2>2 DEF ClientsKnown
<1>5. CASE SettleFailures
  BY <1>3, <1>5 DEF SettleFailures
<1>6. CASE Consent
  <2>1. clients + 1 # NoClient
    BY <1>1, SMT DEF NoClient
  <2> QED BY <1>3, <1>6, <2>1 DEF Consent
<1>7. CASE SettleClient
  BY <1>3, <1>7 DEF SettleClient, ClientsKnown
<1>8. CASE Disconnect \/ Age \/ (\E s \in SignIns : Revoke(s)) \/ UNCHANGED vars
  <2>1. UNCHANGED <<uses, ctx, client, signing>>
    BY <1>8 DEF Disconnect, Age, Revoke, vars
  <2> QED BY <1>3, <2>1 DEF ClientsKnown
<1>9. ASSUME NEW j \in Jobs, JobStep(j) PROVE ClientsKnown'
  BY <1>3, <1>9, JobsClient DEF ClientsKnown
<1> QED BY <1>4, <1>5, <1>6, <1>7, <1>8, <1>9 DEF Next, UserStep

LEMMA RecallsStep ==
  ASSUME TokensInv, TokensInv', RefusalInv, NEW j \in Jobs, Effect(j), Fine(j)
  PROVE  Recalls'
<1>1. \A t \in Memory(job'[j]) : t \in Memory(job[j]) \cup {NoToken, row, row'}
  BY DEF Fine
<1>2. ASSUME NEW i \in Jobs, NEW t \in Memory(job[i]) PROVE t \in Rows /\ Recalled(t)'
  <2>1. t \in Rows
    BY JobFields DEF Memory, TokensInv, Types, JobTypes
  <2> QED BY <2>1, RecallStays DEF RefusalInv, Recalls
<1>3. Recalled(row)'
  <2>1. RowRecalled'
    BY StoredIsRecalled, PTL
  <2> QED BY <2>1 DEF RowRecalled
<1>4. \A t : t = row => Recalled(t)'
  <2>1. row \in Rows /\ Recalled(row)
    BY StoredIsRecalled DEF RowRecalled, TokensInv, Types, StoreTypes
  <2>2. PICK t \in Rows : t = row
    BY <2>1
  <2>3. Recalled(t)'
    BY <2>1, <2>2, RecallStays
  <2> QED BY <2>2, <2>3
<1>5. Recalled(NoToken)'
  BY DEF Recalled, WasIssued
<1>6. \A t \in Memory(job'[j]) : Recalled(t)'
  BY <1>1, <1>2, <1>3, <1>4, <1>5 DEF Recalled, WasIssued
<1>7. ASSUME NEW i \in Jobs, i # j, NEW t \in Memory(job'[i]) PROVE Recalled(t)'
  BY <1>2, <1>7, OthersStay
<1> QED BY <1>6, <1>7 DEF Recalls, Memory

\* What one job knows, another's step does not make untrue.
LEMMA OthersKnow ==
  ASSUME TokensInv, RefusalInv, Steady, NEW j \in Jobs, Effect(j), ~astray,
         NEW i \in Jobs, i # j
  PROVE  Knows(pc[i], job[i])'
<1>1. PICK p, r : p = pc[i] /\ r = job[i]
  OBVIOUS
<1>2. pc'[i] = p /\ job'[i] = r
  BY <1>1, OthersStay
<1>3. /\ r \in JobRecords /\ Knows(p, r) /\ \A t \in Memory(r) : Recalled(t)
      /\ p = "present" => r.held \in Tokens
  BY <1>1 DEF TokensInv, Types, JobTypes, HandsRight, Hands, RefusalInv, Recalls, Blameless
<1>4. p = "present" => issued' = issued
  <2>1. p = "present" => pc[j] # "present"
    BY <1>1 DEF RefusalInv, Blameless
  <2> QED BY <2>1, IssuedGrows
<1>5. Knows(p, r)'
  BY <1>3, <1>4, KnowledgeStays
<1> QED BY <1>2, <1>5 DEF Knows, PeriodicOf, PresentsOf, RefusalOf, Guilty, StillDue

LEMMA BlamelessStep ==
  ASSUME TokensInv, RefusalInv, Steady, NEW j \in Jobs, JobStep(j), Effect(j), Fine(j)
  PROVE  Blameless'
<1> SUFFICES ASSUME ~astray' PROVE Blameless'
  BY DEF Blameless
<1>1. ~astray
  BY DEF Steady
<1>2. Registered'
  <2>1. row' # NoToken => row # NoToken
    BY DEF Effect, Rests, Writes, Asks, Gets, Misses, Issues
  <2>2. Registered
    BY <1>1 DEF RefusalInv, Blameless
  <2>3. clients' # NoClient
    <3>1. clients \in Nat \ {0} /\ clients <= clients'
      BY SMT DEF TokensInv, Types, UpstreamTypes, Clients, Steady
    <3> QED BY <3>1, SMT DEF NoClient, Steady
  <2>4. CASE PurgeClient(j)
    BY <2>4 DEF PurgeClient, Registered, signVars
  <2>5. CASE ~PurgeClient(j)
    <3>1. signing' = signing /\ client' \in {client, clients'}
      BY <2>5, JobsClient
    <3> QED BY <2>1, <2>2, <2>3, <3>1 DEF Registered
  <2> QED BY <2>4, <2>5
<1>3. ASSUME NEW i \in Jobs, pc'[i] \in {"present", "save"} PROVE lock' = i
  <2>1. CASE i = j
    BY <1>3, <2>1 DEF Fine
  <2>2. CASE i # j
    <3>1. lock = i
      BY <1>1, <1>3, <2>2, OthersStay DEF RefusalInv, Blameless
    <3> QED BY <2>2, <3>1, NotAJob DEF Fine, Passes
  <2> QED BY <2>1, <2>2
<1>4. ASSUME NEW i \in Jobs PROVE Knows(pc[i], job[i])'
  BY <1>1, OthersKnow DEF Fine
<1> QED BY <1>2, <1>3, <1>4 DEF Blameless

\* A step from outside, or none, leaves the jobs alone and every token as new as it was.
LEMMA OutsideLeaves ==
  ASSUME TokensInv, Outside \/ UNCHANGED vars
  PROVE  /\ pc' = pc /\ job' = job /\ lock' = lock /\ astray' = astray
         /\ signs \in Nat /\ signs <= signs'
         /\ \A s \in SignIns : s <= signs => issued'[s] = issued[s]
<1> USE DEF storeVars, upstreamVars, signVars, ghostVars
<1>1. pc' = pc /\ job' = job /\ lock' = lock /\ astray' = astray
  BY DEF Outside, UserStep, Consent, SignIn, SettleClient, SettleFailures, Disconnect,
         Revoke, Age, vars
<1>2. signs \in Nat
  BY SMT DEF TokensInv, Types, SignTypes, SignIns
<1>3. CASE SignIn
  <2>1. signs' = signs + 1 /\ issued' = [issued EXCEPT ![signs + 1] = 1]
    BY <1>3 DEF SignIn
  <2>2. \A s \in SignIns : s <= signs => s # signs + 1
    BY <1>2, SMT DEF SignIns
  <2> QED BY <1>1, <1>2, <2>1, <2>2, SMT DEF TokensInv, Types, UpstreamTypes
<1>4. CASE ~SignIn
  <2>1. signs' = signs /\ issued' = issued
    BY <1>4 DEF Outside, UserStep, Consent, SettleClient, SettleFailures, Disconnect,
         Revoke, Age, vars
  <2> QED BY <1>1, <1>2, <2>1
<1> QED BY <1>3, <1>4

LEMMA OutsideRegistered ==
  ASSUME TokensInv, ClientsKnown, Registered, Outside \/ UNCHANGED vars
  PROVE  Registered'
<1> USE DEF storeVars, upstreamVars, signVars, ghostVars
<1>1. CASE Consent
  <2>1. clients + 1 # NoClient
    BY SMT DEF TokensInv, Types, UpstreamTypes, Clients, NoClient
  <2> QED BY <1>1, <2>1 DEF Consent, Registered
<1>2. CASE SignIn
  BY <1>2 DEF SignIn, Registered
<1>3. CASE SettleClient
  BY <1>3 DEF SettleClient, Registered, ClientsKnown
<1>4. CASE SettleFailures
  BY <1>4 DEF SettleFailures, Registered
<1>5. CASE Disconnect \/ Age \/ (\E s \in SignIns : Revoke(s)) \/ UNCHANGED vars
  <2>1. client' = client /\ signing' = signing /\ row' \in {row, NoToken}
    BY <1>5 DEF Disconnect, Age, Revoke, vars
  <2> QED BY <2>1 DEF Registered
<1> QED BY <1>1, <1>2, <1>3, <1>4, <1>5 DEF Outside, UserStep

LEMMA OutsideRefusals ==
  ASSUME TokensInv, RefusalInv, Steady, Outside \/ UNCHANGED vars
  PROVE  LocksRight' /\ Recalls' /\ Blameless'
<1>1. /\ pc' = pc /\ job' = job /\ lock' = lock /\ astray' = astray
      /\ signs \in Nat /\ signs <= signs'
      /\ \A s \in SignIns : s <= signs => issued'[s] = issued[s]
  BY OutsideLeaves
<1>2. LocksRight'
  BY <1>1 DEF RefusalInv, LocksRight, Placed, Locking
<1>3. signs' \in Nat
  BY TokensStep, SMT DEF Next, Outside, TokensInv, Types, SignTypes, SignIns
<1>4. ASSUME NEW t \in Rows, Recalled(t)
      PROVE  Recalled(t)' /\ (t # NoToken => issued'[t.sign] = issued[t.sign])
  <2>1. t # NoToken => t.sign \in SignIns /\ t.sign \in Nat /\ t.sign <= signs
    BY <1>4, RowFields, SMT DEF Recalled, WasIssued, SignIns
  <2>2. t # NoToken => t.sign <= signs'
    BY <1>1, <1>3, <2>1, SMT
  <2> QED BY <1>1, <1>4, <2>1, <2>2 DEF Recalled, WasIssued
<1>5. ASSUME NEW i \in Jobs
      PROVE  /\ job[i] \in JobRecords
             /\ \A t \in Memory(job[i]) : t \in Rows /\ Recalled(t)
  BY JobFields DEF Memory, TokensInv, Types, JobTypes, RefusalInv, Recalls
<1>6. Recalls'
  BY <1>1, <1>4, <1>5 DEF Recalls, Memory
<1>7. ASSUME ~astray, NEW i \in Jobs PROVE Knows(pc[i], job[i])'
  <2>1. PICK p, r : p = pc[i] /\ r = job[i]
    OBVIOUS
  <2>2. /\ r \in JobRecords /\ Knows(p, r) /\ \A t \in Memory(r) : t \in Rows /\ Recalled(t)
        /\ p = "present" => r.held \in Tokens
    BY <1>5, <1>7, <2>1 DEF TokensInv, HandsRight, Hands, RefusalInv, Blameless
  <2>3. p = "present" => issued'[r.held.sign] = issued[r.held.sign]
    <3>1. SUFFICES ASSUME p = "present" PROVE issued'[r.held.sign] = issued[r.held.sign]
      OBVIOUS
    <3>2. r.held \in Tokens /\ r.held \in Memory(r) /\ NoToken \notin Tokens
      BY <2>2, <3>1, SMT DEF Memory, Tokens, NoToken, SignIns
    <3> QED BY <1>4, <2>2, <3>2
  <2>4. Knows(p, r)'
    BY <2>2, <2>3, KnowledgeStays
  <2> QED BY <1>1, <2>1, <2>4 DEF Knows, PeriodicOf, PresentsOf, RefusalOf, Guilty, StillDue
<1>8. ~astray => Registered'
  BY OutsideRegistered DEF RefusalInv, Blameless
<1>9. Blameless'
  BY <1>1, <1>7, <1>8 DEF RefusalInv, Blameless
<1> QED BY <1>2, <1>6, <1>9

LEMMA RefusalInit == Init => RefusalInv
<1> SUFFICES ASSUME Init PROVE RefusalInv
  OBVIOUS
<1> USE DEF Init
<1>1. ASSUME NEW j \in Jobs
      PROVE  /\ pc[j] = "idle" /\ job[j].kind = "none" /\ job[j].next = "idle"
             /\ job[j].code = "none" /\ ~job[j].forced /\ Memory(job[j]) = {NoToken}
  BY SMT DEF NewJob, Memory
<1>2. LocksRight
  BY <1>1, NotAJob DEF LocksRight, Placed, Locking, Periodic, Reconnecting, CleaningUp, Requesting
<1>3. ClientsKnown
  BY SMT DEF ClientsKnown, NoClient, SignIns
<1>4. Recalls
  BY <1>1 DEF Recalls, Recalled, WasIssued
<1>5. client # NoClient
  BY SMT DEF NoClient
<1>6. Blameless
  BY <1>1, <1>5 DEF Blameless, Registered, Knows, PeriodicOf, PresentsOf, RefusalOf
<1> QED BY <1>2, <1>3, <1>4, <1>6 DEF RefusalInv

LEMMA RefusalStep == TokensInv /\ RefusalInv /\ [Next]_vars => RefusalInv'
<1> SUFFICES ASSUME TokensInv, RefusalInv, [Next]_vars PROVE RefusalInv'
  OBVIOUS
<1>1. Steady /\ TokensInv' /\ ClientsKnown'
  BY AllSteady, TokensStep, ClientsStep DEF RefusalInv
<1>2. ASSUME NEW j \in Jobs, JobStep(j) PROVE RefusalInv'
  <2>1. Effect(j)
    BY <1>2, JobEffects DEF TokensInv, HandsRight
  <2>2. Fine(j)
    BY <1>1, <1>2, AllFine
  <2> QED BY <1>1, <1>2, <2>1, <2>2, LocksStep, RecallsStep, BlamelessStep DEF RefusalInv
<1>3. Outside \/ UNCHANGED vars => RefusalInv'
  BY <1>1, OutsideRefusals DEF RefusalInv
<1> QED BY <1>2, <1>3 DEF Next, Outside

\* The invariant of the refusals: the refresh lock is with whoever is at a place
\* that needs it; what a job remembers is never stored anew; and as long as every
\* refresh had the lock, a stored sign-in has its registration, what is presented
\* is the newest of its sign-in, and a refusal a job blames on tokens is theirs.
THEOREM RefusalInvHolds == Spec => [](TokensInv /\ RefusalInv)
<1>1. Init => TokensInv /\ RefusalInv
  BY TokensInit, RefusalInit
<1>2. TokensInv /\ RefusalInv /\ [Next]_vars => (TokensInv /\ RefusalInv)'
  BY TokensStep, RefusalStep
<1> QED BY <1>1, <1>2, PTL DEF Spec

\* A clean-up after a refusal (purge_user_oauth_state) deletes no sign-in that works
\* as long as every refresh held the lock: what it deletes was revoked, or nobody
\* could save its newest tokens, or it was tried with another registration.
THEOREM WorkingSignInsAreKept == Spec => WorkingSignInKept
<1> DEFINE Kept ==
      \A j \in Jobs :
        /\ pc[j] = "purge" /\ pc'[j] = "purgeClient"
        /\ job[j].code = "terminal"
        /\ ~astray
        => \/ row.sign \in revoked \cup lost
           \/ job[j].with # uses[row.sign]
<1>1. TokensInv /\ RefusalInv /\ [Next]_vars => [Kept]_vars
  <2> SUFFICES ASSUME TokensInv, RefusalInv, [Next]_vars, NEW j \in Jobs,
                      pc[j] = "purge", pc'[j] = "purgeClient",
                      job[j].code = "terminal", ~astray
               PROVE  \/ row.sign \in revoked \cup lost
                      \/ job[j].with # uses[row.sign]
    OBVIOUS
  <2>1. Guilty(job[j].blamed, job[j].with)
    BY DEF RefusalInv, Blameless, Knows, RefusalOf
  <2>2. ASSUME NEW i \in Jobs, JobStep(i) PROVE i = j /\ Purge(j)
    <3>1. i = j
      BY <2>2, OthersStay, JobEffects DEF TokensInv, HandsRight
    <3>2. JobStep(j)
      BY <2>2, <3>1
    <3> QED BY <3>1, <3>2
            DEF JobStep, StartPeriodic, StartReconnect, StartSession, Start, Load, Present,
                PresentFails, Save, SaveTimesOut, Bearer, ReadRow, Check, LetGo, Still, Record,
                PurgeClient, ResetFailures, ReadSaved, Wait, StepOneDone, Peek, Connected,
                BeforeForce, ForceWait, ForceRead, Forced, Retried, Aborted
  <2>3. ~(Outside \/ UNCHANGED vars)
    BY OutsideLeaves
  <2>4. Purge(j)
    BY <2>2, <2>3 DEF Next, Outside
  <2>5. StillStored(j)
    <3>1. ~End(j)
      BY DEF End, Closes, Ends, Go, TokensInv, Types, JobTypes
    <3> QED BY <2>4, <3>1 DEF Purge
  <2> QED BY <2>1, <2>5 DEF StillStored, Guilty
<1> QED BY <1>1, RefusalInvHolds, PTL DEF Spec, WorkingSignInKept
=============================================================================
