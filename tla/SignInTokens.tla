---------------------------- MODULE SignInTokens ----------------------------
(***************************************************************************)
(* The stored tokens of one user's sign-in to one upstream, and everybody  *)
(* who reads, refreshes, replaces or deletes them.                         *)
(*                                                                         *)
(* Translated from adapters/auth/mcp_token_storage.py, the stored-token    *)
(* reconnect and the clean-up of refused sign-ins in domain/services/      *)
(* upstream_connection_service.py, and domain/services/oauth_refresh.py.   *)
(*                                                                         *)
(* A token is named by its sign-in and by its place among the tokens the   *)
(* upstream issued for it; as every issued token is saved at most once,    *)
(* that names the saved revision too.  The upstream accepts each refresh   *)
(* token once, and only from the client it was issued to.  The refresh     *)
(* lock is what RefreshLock shows it to be: held by one job at a time.     *)
(***************************************************************************)
EXTENDS Naturals, FiniteSets

CONSTANTS Jobs,       \* refreshes, reconnects and live sessions
          NoJob,
          Kinds,      \* the kinds of job each may be
          MaxSignIns, \* bounds: sign-ins ...
          MaxTokens,  \* ... tokens issued for each ...
          MaxClients, \* ... app registrations ...
          MaxTrouble, \* ... and troubles
          Tries,      \* TOKEN_REFRESH_MAX_RETRIES
          Threshold   \* MAX_CONSECUTIVE_TRANSIENT_FAILURES

ASSUME JobsAssumption ==
  /\ NoJob \notin Jobs
  /\ Kinds \in [Jobs -> SUBSET {"periodic", "reconnect", "session"}]
ASSUME BoundsAssumption ==
  /\ {MaxSignIns, MaxTokens, MaxClients, Tries, Threshold} \subseteq Nat \ {0}
  /\ MaxTrouble \in Nat

SignIns == 1..MaxSignIns

\* A row of the store, and an app registration with the upstream.
NoToken == [sign |-> 0, k |-> 0]
Tokens == [sign : SignIns, k : 1..MaxTokens]
NoClient == 0
Clients == 1..MaxClients

VARIABLES
  row,      \* the stored tokens, NoToken without any
  client,   \* the stored app registration
  failures, \* the consecutive failed refreshes on record
  issued,   \* the upstream: how many tokens it issued for a sign-in
  uses,     \* the client a sign-in was made with
  revoked,  \* sign-ins it accepts no more
  clients,  \* how many registrations it made
  due,      \* the stored tokens are due for a refresh
  lock,     \* the job that holds the sign-in's refresh lock
  pc,       \* where a job is
  job,      \* its own variables
  signs,    \* sign-ins made so far
  signing,  \* where the user's next sign-in is
  ctx,      \* the client it uses
  astray,   \* a refresh was sent without the lock, or a registration deleted
            \* under another sign-in (read by no action)
  lost,     \* sign-ins whose newest tokens nobody saved (idem)
  trouble

storeVars == <<row, client, failures, due>>
upstreamVars == <<issued, uses, revoked, clients>>
signVars == <<signs, signing, ctx>>
ghostVars == <<astray, lost>>
vars == <<storeVars, upstreamVars, lock, pc, job, signVars, ghostVars, trouble>>

\* A job's McpTokenStorage, its sign-in library and its local variables.
NewJob ==
  [kind |-> "none",
   next |-> "idle",       \* where it goes when the library's request is over
   first |-> NoToken,     \* the row it started from
   held |-> NoToken,      \* the row the library loaded: loaded_revision
   with |-> NoClient,     \* the client it loaded
   fresh |-> FALSE,       \* the library's copy has not expired
   got |-> NoToken,       \* tokens issued to it and not saved yet
   saved |-> FALSE,       \* tokens_saved
   result |-> "none",     \* how the request ended
   code |-> "none",       \* last_refresh_failure
   blamed |-> NoToken,    \* last_refresh_failure_revision
   forced |-> FALSE,      \* force_refresh
   tried |-> FALSE,       \* refresh_tried
   left |-> 0]            \* attempts left

Steps == {"idle", "read", "load", "present", "save", "bearer", "check",
          "good", "still", "record", "purge", "purgeClient", "purgeCount", "letGo",
          "readSaved", "wait", "stepOne", "peek", "connected", "force",
          "forceWait", "forceRead", "forced", "retried"}

\* Where a request of the library may be sent from.
Askers == {"idle", "check", "stepOne", "peek", "connected", "forced", "retried"}

Rows == Tokens \cup {NoToken}

JobRecords ==
  [kind : {"none", "periodic", "reconnect", "session"}, next : Askers,
   first : Rows, held : Rows, with : Clients \cup {NoClient}, fresh : BOOLEAN,
   got : Rows, saved : BOOLEAN, result : {"none", "ok", "unauth", "lost"},
   code : {"none", "terminal", "other"}, blamed : Rows,
   forced : BOOLEAN, tried : BOOLEAN, left : 0..Tries]

TypeOK ==
  /\ row \in Rows
  /\ client \in Clients \cup {NoClient}
  /\ failures \in 0..Threshold
  /\ issued \in [SignIns -> 0..MaxTokens]
  /\ uses \in [SignIns -> Clients \cup {NoClient}]
  /\ revoked \subseteq SignIns
  /\ clients \in Clients
  /\ due \in BOOLEAN
  /\ lock \in Jobs \cup {NoJob}
  /\ pc \in [Jobs -> Steps]
  /\ job \in [Jobs -> JobRecords]
  /\ signs \in SignIns
  /\ signing \in {"none", "consent", "settle", "count"}
  /\ ctx \in Clients \cup {NoClient}
  /\ astray \in BOOLEAN
  /\ lost \subseteq SignIns
  /\ trouble \in 0..MaxTrouble

\* The user has signed in once.
Init ==
  /\ row = [sign |-> 1, k |-> 1]
  /\ client = 1
  /\ failures = 0
  /\ issued = [s \in SignIns |-> IF s = 1 THEN 1 ELSE 0]
  /\ uses = [s \in SignIns |-> IF s = 1 THEN 1 ELSE NoClient]
  /\ revoked = {}
  /\ clients = 1
  /\ due = FALSE
  /\ lock = NoJob
  /\ pc = [j \in Jobs |-> "idle"]
  /\ job = [j \in Jobs |-> NewJob]
  /\ signs = 1
  /\ signing = "none"
  /\ ctx = NoClient
  /\ astray = FALSE
  /\ lost = {}
  /\ trouble = 0

Trouble == trouble < MaxTrouble /\ trouble' = trouble + 1

Go(j, where, r) ==
  /\ pc' = [pc EXCEPT ![j] = where]
  /\ job' = [job EXCEPT ![j] = r]

Goto(j, where) == Go(j, where, job[j])

\* The job is over, or has only its lock to let go or its books to keep.
Ends(j) == Go(j, "idle", NewJob)
Closes(j, where) == Go(j, where, [NewJob EXCEPT !.kind = job[j].kind])

-----------------------------------------------------------------------------
(* One request of the sign-in library: it loads what is stored when its own *)
(* copy has expired, refreshes it when it is due, then sends the request    *)

Answered(j, r, result) ==
  IF r.next = "idle" THEN Ends(j) ELSE Go(j, r.next, [r EXCEPT !.result = result])

\* A 401: the library starts a new sign-in, and registers the app before it finds
\* out that no user is there (_noop_callback).
Refused(j, r) ==
  IF r.with # NoClient
  THEN Answered(j, r, "unauth") /\ UNCHANGED <<client, clients>>
  ELSE /\ clients < MaxClients
       /\ clients' = clients + 1
       /\ client' = clients'
       /\ Answered(j, [r EXCEPT !.with = clients'], "unauth")

\* _initialize, get_tokens and get_client_info
Load(j) ==
  LET r == [job[j] EXCEPT !.held = row, !.with = client,
                          !.fresh = FALSE, !.result = "none"]
      expired == due \/ r.forced
  IN /\ pc[j] = "load"
     /\ \/ /\ row # NoToken /\ expired /\ client # NoClient
           /\ Go(j, "present", r)
           /\ astray' = (astray \/ lock # j)
           /\ UNCHANGED <<client, clients>>
        \/ /\ row # NoToken /\ ~expired
           /\ Go(j, "bearer", [r EXCEPT !.fresh = TRUE])
           /\ UNCHANGED <<client, clients, astray>>
        \/ /\ row = NoToken \/ (expired /\ client = NoClient)
           /\ Refused(j, r)
           /\ UNCHANGED astray
     /\ UNCHANGED <<row, failures, due, issued, uses, revoked, lock, signVars, lost, trouble>>

Accepts(t, c) == /\ t.sign \notin revoked
                 /\ t.k = issued[t.sign]
                 /\ c = uses[t.sign]

\* The refresh request is answered: new tokens, or invalid_grant.
Present(j) ==
  LET r == job[j]
      s == r.held.sign
  IN /\ pc[j] = "present"
     /\ \/ /\ Accepts(r.held, r.with)
           /\ issued[s] < MaxTokens
           /\ issued' = [issued EXCEPT ![s] = @ + 1]
           /\ Go(j, "save", [r EXCEPT !.got = [sign |-> s, k |-> issued[s] + 1]])
        \/ /\ ~Accepts(r.held, r.with)
           /\ Answered(j, [r EXCEPT !.code = "terminal", !.blamed = r.held], "unauth")
           /\ UNCHANGED issued
     /\ UNCHANGED <<storeVars, uses, revoked, clients, lock, signVars, ghostVars, trouble>>

\* The request or its answer gets lost, or the upstream answers with a 5xx.
PresentFails(j) ==
  LET r == job[j]
      s == r.held.sign
  IN /\ pc[j] = "present"
     /\ Trouble
     /\ \/ Answered(j, r, "lost") /\ UNCHANGED <<issued, lost>>
        \/ /\ Accepts(r.held, r.with)
           /\ issued[s] < MaxTokens
           /\ issued' = [issued EXCEPT ![s] = @ + 1]
           /\ lost' = lost \cup {s}
           /\ Answered(j, r, "lost")
        \/ /\ Answered(j, [r EXCEPT !.code = "other", !.blamed = r.held], "unauth")
           /\ UNCHANGED <<issued, lost>>
     /\ UNCHANGED <<storeVars, uses, revoked, clients, lock, signVars, astray>>

\* Mutants: saved whatever is stored now; over any sign-in that is stored; only
\* over the row the job started from.
SavesOverAnything(r) == TRUE
SavesOverAnySignIn(r) == row # NoToken
SavesOverTheFirst(r) == row # NoToken /\ row = r.first

\* put_user_token_if_same_sign_in
SavesOver(r) == row # NoToken /\ row.sign = r.held.sign

\* set_tokens
Save(j) ==
  LET r == [job[j] EXCEPT !.got = NoToken, !.fresh = TRUE]
  IN /\ pc[j] = "save"
     /\ IF SavesOver(r)
        THEN /\ row' = job[j].got
             /\ due' = FALSE
             /\ Go(j, "bearer", [r EXCEPT !.held = job[j].got, !.saved = TRUE])
        ELSE /\ UNCHANGED <<row, due>>
             /\ Go(j, "bearer", r)
     /\ UNCHANGED <<client, failures, upstreamVars, lock, signVars, ghostVars, trouble>>

\* The request's timeout fires while the new tokens are being saved; the store may
\* have them all the same.
SaveTimesOut(j) ==
  LET r == job[j]
  IN /\ pc[j] = "save"
     /\ Trouble
     /\ \/ /\ lost' = lost \cup {r.got.sign}
           /\ UNCHANGED <<row, due>>
        \/ /\ SavesOver(r)
           /\ row' = r.got
           /\ due' = FALSE
           /\ UNCHANGED lost
     /\ Answered(j, [r EXCEPT !.got = NoToken], "lost")
     /\ UNCHANGED <<client, failures, upstreamVars, lock, signVars, astray>>

\* The request itself.  A short burst of 401s looks like a dead bearer.
Bearer(j) ==
  LET r == job[j]
  IN /\ pc[j] = "bearer"
     /\ \/ /\ r.held.sign \notin revoked
           /\ Answered(j, r, "ok")
           /\ UNCHANGED <<client, clients, trouble>>
        \/ /\ r.held.sign \in revoked
           /\ Refused(j, r)
           /\ UNCHANGED trouble
        \/ Trouble /\ Refused(j, r)
        \/ Trouble /\ Answered(j, r, "lost") /\ UNCHANGED <<client, clients>>
     /\ UNCHANGED <<row, failures, due, issued, uses, revoked, lock, signVars, ghostVars>>

-----------------------------------------------------------------------------
(* The clean-up after a refusal, shared by periodic refresh and reconnect *)

\* What the failure says about the sign-in: a 401 that made the library start a
\* new sign-in counts as invalid_grant, unless the refresh token was just tried.
Verdict(r) ==
  IF r.code = "none" /\ r.result = "unauth" /\ ~r.saved /\ ~r.tried
  THEN "terminal" ELSE r.code

\* failure_revision
About(r) == IF r.code = "none" THEN r.held ELSE r.blamed

\* From here on the job only knows which tokens failed, and how.
Blames(j, r) ==
  Go(j, "still", [NewJob EXCEPT !.kind = r.kind, !.blamed = About(r),
                                !.code = Verdict(r), !.with = r.with])

\* Mutant: whatever is stored now is taken for the tokens that failed.
AnythingStored(j) == row # NoToken

StillStored(j) == row # NoToken /\ row = job[j].blamed

\* A periodic refresh lets the lock go, a reconnect holds none.
End(j) == IF job[j].kind = "periodic" THEN Closes(j, "letGo") ELSE Ends(j)

\* tokens_are_still_stored
Still(j) ==
  /\ pc[j] = "still"
  /\ IF StillStored(j) THEN Goto(j, "record") ELSE End(j)
  /\ UNCHANGED <<storeVars, upstreamVars, lock, signVars, ghostVars, trouble>>

\* record_refresh_failure and _should_delete_on_refresh_failure; whether the
\* failures span half an hour is open.
Record(j) ==
  LET count == IF failures < Threshold THEN failures + 1 ELSE failures
      refused == job[j].code = "terminal"
      worn == job[j].kind = "reconnect" /\ count = Threshold
  IN /\ pc[j] = "record"
     /\ failures' = count
     /\ \/ (refused \/ worn) /\ Goto(j, "purge")
        \/ ~refused /\ End(j)
     /\ UNCHANGED <<row, client, due, upstreamVars, lock, signVars, ghostVars, trouble>>

\* purge_user_oauth_state: delete_user_token_if_current ...
Purge(j) ==
  /\ pc[j] = "purge"
  /\ IF StillStored(j)
     THEN row' = NoToken /\ due' = FALSE /\ Closes(j, "purgeClient")
     ELSE UNCHANGED <<row, due>> /\ End(j)
  /\ UNCHANGED <<client, failures, upstreamVars, lock, signVars, ghostVars, trouble>>

\* ... delete_client_info ...
PurgeClient(j) ==
  /\ pc[j] = "purgeClient"
  /\ client' = NoClient
  /\ astray' = (astray \/ row # NoToken \/ signing # "none")
  /\ Goto(j, "purgeCount")
  /\ UNCHANGED <<row, failures, due, upstreamVars, lock, signVars, lost, trouble>>

\* ... and reset_refresh_failures, as a success does.
ResetFailures(j) ==
  /\ pc[j] \in {"purgeCount", "good"}
  /\ failures' = 0
  /\ End(j)
  /\ UNCHANGED <<row, client, due, upstreamVars, lock, signVars, ghostVars, trouble>>

-----------------------------------------------------------------------------
(* The periodic refresh, which holds the lock from beginning to end *)

Start(j, kind, where) ==
  /\ pc[j] = "idle"
  /\ kind \in Kinds[j]
  /\ Go(j, where, [NewJob EXCEPT !.kind = kind])

\* get_all_stored_tokens lists the sign-in, hold_if_free takes its lock.
StartPeriodic(j) ==
  /\ row # NoToken
  /\ lock = NoJob
  /\ lock' = j
  /\ Start(j, "periodic", "read")
  /\ UNCHANGED <<storeVars, upstreamVars, signVars, ghostVars, trouble>>

\* _token_needs_refresh, start_from
ReadRow(j) ==
  /\ pc[j] = "read"
  /\ IF due
     THEN Go(j, "load", [job[j] EXCEPT !.first = row, !.held = row,
                                       !.next = "check", !.left = Tries])
     ELSE Closes(j, "letGo")
  /\ UNCHANGED <<storeVars, upstreamVars, lock, signVars, ghostVars, trouble>>

\* attempt < TOKEN_REFRESH_MAX_RETRIES
TriesAgain(r) == r.left > 1

\* A network error is tried again; otherwise what is stored now decides.
Check(j) ==
  LET r == job[j]
  IN /\ pc[j] = "check"
     /\ \/ /\ r.result = "lost" /\ TriesAgain(r)
           /\ Go(j, "load", [r EXCEPT !.left = @ - 1])
        \/ /\ r.result # "lost" \/ ~TriesAgain(r)
           /\ \/ row # NoToken /\ (r.saved \/ row # r.first) /\ Closes(j, "good")
              \/ row = r.first /\ ~r.saved /\ Verdict(r) # "none" /\ Blames(j, r)
              \/ row = r.first /\ ~r.saved /\ Verdict(r) = "none" /\ Closes(j, "letGo")
              \/ row = NoToken /\ Closes(j, "letGo")
     /\ UNCHANGED <<storeVars, upstreamVars, lock, signVars, ghostVars, trouble>>

LetGo(j) ==
  /\ pc[j] = "letGo"
  /\ lock' = NoJob
  /\ Ends(j)
  /\ UNCHANGED <<storeVars, upstreamVars, signVars, ghostVars, trouble>>

-----------------------------------------------------------------------------
(* A reconnect from the stored tokens *)

StartReconnect(j) ==
  /\ Start(j, "reconnect", "readSaved")
  /\ UNCHANGED <<storeVars, upstreamVars, lock, signVars, ghostVars, trouble>>

\* Step 1 refreshes what is due, once it has the lock; else it only probes.
ReadSaved(j) ==
  LET r == [job[j] EXCEPT !.held = row]
  IN /\ pc[j] = "readSaved"
     /\ \/ row = NoToken /\ Ends(j)
        \/ due /\ Go(j, "wait", r)
        \/ row # NoToken /\ ~due /\ Go(j, "load", [r EXCEPT !.next = "peek"])
     /\ UNCHANGED <<storeVars, upstreamVars, lock, signVars, ghostVars, trouble>>

\* _silent_refresh_after_others: hold, or give up when its wait is over.
Wait(j) ==
  /\ pc[j] = "wait"
  /\ \/ /\ lock = NoJob
        /\ lock' = j
        /\ Go(j, "load", [job[j] EXCEPT !.next = "stepOne"])
     \/ /\ lock # NoJob
        /\ UNCHANGED lock
        /\ Ends(j)
  /\ UNCHANGED <<storeVars, upstreamVars, signVars, ghostVars, trouble>>

StepOneDone(j) ==
  /\ pc[j] = "stepOne"
  /\ lock' = NoJob
  /\ Goto(j, "peek")
  /\ UNCHANGED <<storeVars, upstreamVars, signVars, ghostVars, trouble>>

\* Step 2, and step 3's connect: the library loads again unless its copy is good.
Peek(j) ==
  /\ pc[j] = "peek"
  /\ IF row = NoToken
     THEN Ends(j)
     ELSE Go(j, IF job[j].fresh THEN "bearer" ELSE "load", [job[j] EXCEPT !.next = "connected"])
  /\ UNCHANGED <<storeVars, upstreamVars, lock, signVars, ghostVars, trouble>>

\* A timeout ends the reconnect; a bearer refused though its refresh token was
\* never tried (_refused_without_trying_refresh) has it tried.
Connected(j) ==
  LET r == job[j]
      untried == r.result = "unauth" /\ r.code = "none" /\ ~r.saved
  IN /\ pc[j] = "connected"
     /\ \/ r.result = "ok" /\ Closes(j, "good")
        \/ r.result = "lost" /\ (Ends(j) \/ Blames(j, r))
        \/ untried /\ Goto(j, "force")
        \/ r.result = "unauth" /\ ~untried /\ Blames(j, r)
     /\ UNCHANGED <<storeVars, upstreamVars, lock, signVars, ghostVars, trouble>>

Tried(j) == [job[j] EXCEPT !.tried = TRUE]

\* A new McpTokenStorage and library for the same reconnect.
NewStorage(j, next) == [NewJob EXCEPT !.kind = "reconnect", !.tried = TRUE, !.next = next]

\* _reconnect_after_forced_refresh: nothing to refresh with, or the lock first.
BeforeForce(j) ==
  /\ pc[j] = "force"
  /\ \/ client = NoClient /\ Blames(j, job[j])
     \/ client # NoClient /\ Goto(j, "forceWait")
  /\ UNCHANGED <<storeVars, upstreamVars, lock, signVars, ghostVars, trouble>>

ForceWait(j) ==
  /\ pc[j] = "forceWait"
  /\ \/ lock = NoJob /\ lock' = j /\ Goto(j, "forceRead")
     \/ lock # NoJob /\ UNCHANGED lock /\ Blames(j, Tried(j))
  /\ UNCHANGED <<storeVars, upstreamVars, signVars, ghostVars, trouble>>

\* _forced_refresh_holding_the_lock: nothing to try, replaced, backed off, tried.
ForceRead(j) ==
  /\ pc[j] = "forceRead"
  /\ \/ row = NoToken /\ lock' = NoJob /\ Blames(j, job[j])
     \/ /\ row \notin {NoToken, job[j].held}
        /\ lock' = NoJob
        /\ Go(j, "load", NewStorage(j, "retried"))
     \/ /\ row # NoToken /\ row = job[j].held
        /\ lock' = NoJob
        /\ Blames(j, Tried(j))
     \/ /\ row # NoToken /\ row = job[j].held
        /\ UNCHANGED lock
        /\ Go(j, "load", [NewStorage(j, "forced") EXCEPT !.forced = TRUE])
  /\ UNCHANGED <<storeVars, upstreamVars, signVars, ghostVars, trouble>>

\* Refused or unanswered: classified.  New tokens: one more connect.
Forced(j) ==
  /\ pc[j] = "forced"
  /\ lock' = NoJob
  /\ IF job[j].code = "none" /\ job[j].saved
     THEN Go(j, "load", NewStorage(j, "retried"))
     ELSE Blames(j, job[j])
  /\ UNCHANGED <<storeVars, upstreamVars, signVars, ghostVars, trouble>>

Retried(j) ==
  /\ pc[j] = "retried"
  /\ \/ job[j].result = "ok" /\ Closes(j, "good")
     \/ job[j].result = "unauth" /\ Blames(j, job[j])
     \/ job[j].result = "lost" /\ (Ends(j) \/ Blames(j, job[j]))
  /\ UNCHANGED <<storeVars, upstreamVars, lock, signVars, ghostVars, trouble>>

\* A Stop or a Disconnect cancels the reconnect; its refreshes that hold the
\* lock go on to their end (_refresh_to_completion), its connect does not.
Aborted(j) ==
  LET r == job[j]
  IN /\ r.kind = "reconnect"
     /\ \/ pc[j] \in {"readSaved", "peek", "connected", "force", "retried", "still"}
        \/ pc[j] \in {"load", "present", "save", "bearer"} /\ r.next \in {"connected", "retried"}
     /\ Trouble
     /\ lost' = IF r.got = NoToken THEN lost ELSE lost \cup {r.got.sign}
     /\ Ends(j)
     /\ UNCHANGED <<storeVars, upstreamVars, lock, signVars, astray>>

-----------------------------------------------------------------------------
(* A live session, whose library refreshes on its own; the user; the upstream *)

StartSession(j) ==
  /\ row # NoToken
  /\ Start(j, "session", "load")
  /\ UNCHANGED <<storeVars, upstreamVars, lock, signVars, ghostVars, trouble>>

\* The consent registers the app anew unless a stored sign-in uses it
\* (_refresh_stale_client_info_for_consent).
Consent ==
  /\ signing = "none"
  /\ signs < MaxSignIns
  /\ signing' = "consent"
  /\ \/ /\ row # NoToken /\ client # NoClient
        /\ ctx' = client
        /\ UNCHANGED <<client, clients>>
     \/ /\ row = NoToken \/ client = NoClient
        /\ clients < MaxClients
        /\ clients' = clients + 1
        /\ ctx' = clients'
        /\ client' = clients'
  /\ UNCHANGED <<row, failures, due, issued, uses, revoked, lock, pc, job, signs, ghostVars, trouble>>

\* set_tokens after mark_fresh_sign_in: put_user_token, whatever is stored.
SignIn ==
  LET s == signs + 1
  IN /\ signing = "consent"
     /\ signs' = s
     /\ row' = [sign |-> s, k |-> 1]
     /\ due' = FALSE
     /\ issued' = [issued EXCEPT ![s] = 1]
     /\ uses' = [uses EXCEPT ![s] = ctx]
     /\ signing' = "settle"
     /\ UNCHANGED <<client, failures, revoked, clients, lock, pc, job, ctx, ghostVars, trouble>>

\* _settle_fresh_sign_in: its registration again, then the failures forgotten.
SettleClient ==
  /\ signing = "settle"
  /\ client' = ctx
  /\ signing' = "count"
  /\ UNCHANGED <<row, failures, due, upstreamVars, lock, pc, job, signs, ctx, ghostVars, trouble>>

SettleFailures ==
  /\ signing = "count"
  /\ failures' = 0
  /\ signing' = "none"
  /\ ctx' = NoClient
  /\ UNCHANGED <<row, client, due, upstreamVars, lock, pc, job, signs, ghostVars, trouble>>

\* sign_out_of_upstream: delete_user_token.
Disconnect ==
  /\ row # NoToken
  /\ row' = NoToken
  /\ due' = FALSE
  /\ UNCHANGED <<client, failures, upstreamVars, lock, pc, job, signVars, ghostVars, trouble>>

Revoke(s) ==
  /\ s <= signs
  /\ s \notin revoked
  /\ Trouble
  /\ revoked' = revoked \cup {s}
  /\ UNCHANGED <<storeVars, issued, uses, clients, lock, pc, job, signVars, ghostVars>>

Age ==
  /\ row # NoToken
  /\ ~due
  /\ due' = TRUE
  /\ UNCHANGED <<row, client, failures, upstreamVars, lock, pc, job, signVars, ghostVars, trouble>>

JobStep(j) ==
  \/ StartPeriodic(j) \/ StartReconnect(j) \/ StartSession(j)
  \/ Load(j) \/ Present(j) \/ PresentFails(j) \/ Save(j) \/ SaveTimesOut(j) \/ Bearer(j)
  \/ ReadRow(j) \/ Check(j) \/ LetGo(j)
  \/ Still(j) \/ Record(j) \/ Purge(j) \/ PurgeClient(j) \/ ResetFailures(j)
  \/ ReadSaved(j) \/ Wait(j) \/ StepOneDone(j) \/ Peek(j) \/ Connected(j)
  \/ BeforeForce(j) \/ ForceWait(j) \/ ForceRead(j) \/ Forced(j) \/ Retried(j) \/ Aborted(j)

UserStep == Consent \/ SignIn \/ SettleClient \/ SettleFailures \/ Disconnect

Next ==
  \/ \E j \in Jobs : JobStep(j)
  \/ UserStep
  \/ \E s \in SignIns : Revoke(s)
  \/ Age

Spec == Init /\ [][Next]_vars

-----------------------------------------------------------------------------
(* What must hold *)

InHand(t) == \E j \in Jobs : job[j].got = t

\* A sign-in that was deleted comes back only with a fresh sign-in: no refresh
\* under way writes it back.
NothingComesBack ==
  [][row = NoToken /\ row' # NoToken => signs' = signs + 1 /\ row'.sign = signs']_vars

\* Neither a newer sign-in nor newer tokens of one are written over with older.
NewerTokensKept ==
  [][row # NoToken /\ row' # NoToken /\ row' # row
     => \/ row'.sign > row.sign
        \/ row'.sign = row.sign /\ row'.k > row.k]_vars

\* No rotation gets lost between the upstream and the store: the refresh token
\* that is stored is the newest of its sign-in, or the newest is about to be.
StoredTokensWork ==
  row # NoToken /\ row.sign \notin lost =>
    \/ row.k = issued[row.sign]
    \/ InHand([sign |-> row.sign, k |-> issued[row.sign]])

\* As long as every refresh held the lock, a clean-up after a refusal deletes only
\* a dead sign-in: one the upstream revoked, one whose newest tokens nobody could
\* save, or one that was tried with another app registration.
WorkingSignInKept ==
  [][\A j \in Jobs :
       /\ pc[j] = "purge" /\ pc'[j] = "purgeClient"
       /\ job[j].code = "terminal"
       /\ ~astray
       => \/ row.sign \in revoked \cup lost
          \/ job[j].with # uses[row.sign]]_vars

=============================================================================
