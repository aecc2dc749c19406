--------------------------- MODULE ConnectionRows ---------------------------
(***************************************************************************)
(* What is kept of the connections of an organization: the saved sign-ins, *)
(* app registrations, failures, marks and codes, as rows of a key.  There  *)
(* are two stores, one in MongoDB that many organizations share and one in *)
(* a file, and each call of either is one step.                            *)
(*                                                                         *)
(* Translated from adapters/repositories/mongo_connection_repository.py,   *)
(* mongo_client.py, file_connection_store.py, connection_store.py,         *)
(* adapters/auth/mcp_token_storage.py (the conversions),                   *)
(* domain/services/data_pruner.py, upstream_health_check.py (the decision) *)
(* and entrypoints/routes/superadmin_routes.py (auth_health).              *)
(*                                                                         *)
(* A key is the sequence of what stands between its colons.  A field a row *)
(* lacks is None.  Encryption, and rows someone damaged, are left out.     *)
(***************************************************************************)
EXTENDS Naturals, SequencesExt

CONSTANTS None,        \* no row, no value
          Upstreams, People, \* upstream ids and user ids, as parts of a key
          EmailKey,    \* of each user id, the address however it is spelled
          Kept,        \* the rows the stores may start with: see Old
          Calls,       \* the calls that may be made ...
          Depth        \* ... and how many of them, one after the other

VARIABLES mongo,       \* the documents of each organization
          file,        \* the rows of the organization at hand in a file
          made         \* how many calls were made, which is also the time

rowVars == <<mongo, file, made>>

Org == "org"           \* the organization at hand; Mongo holds another's
AdminUser == <<"__admin__">>

-----------------------------------------------------------------------------
(* Keys and rows                                                           *)

Key(kind, up) == <<kind>> \o up
KeyOf(kind, up, user) == <<kind>> \o up \o user

UserKinds == {"user", "client_info", "oauth_metadata", "pending_code", "failures", "notified"}
UpstreamKinds == {"admin", "error", "enabled", "started_config_hash"}

\* replace_one with upsert, or an assignment.
Put(rows, key, row) == (key :> row) @@ rows
Drop(rows, Gone(_)) == Restrict(rows, {k \in DOMAIN rows : ~Gone(k)})
DropOne(rows, key) == Restrict(rows, DOMAIN rows \ {key})
Row(rows, key) == IF key \in DOMAIN rows THEN rows[key] ELSE None

\* _scope: what a collection holds of one organization.
Scope(db, org) == db[org]

\* What the store has of a sign-in once it is read.
Token(t, revision, sign_in, signed_in_at) ==
  [access |-> t.access, refresh |-> t.refresh, expires_at |-> t.expires_at,
   refreshed_at |-> t.refreshed_at, updated_at |-> t.updated_at,
   revision |-> revision, sign_in |-> sign_in, signed_in_at |-> signed_in_at]

\* sign_in_time: a row from before there was one has its last save.
SignInTime(t) == IF t.signed_in_at # None THEN t.signed_in_at ELSE t.updated_at

\* _sdk_to_internal_token.
SdkToInternal(t, now) ==
  [access |-> t.access, refresh |-> t.refresh,
   expires_at |-> IF t.expires_in = None THEN None ELSE now + t.expires_in,
   refreshed_at |-> IF t.refresh = None THEN None ELSE now]

-----------------------------------------------------------------------------
(* The store in MongoDB                                                    *)

\* _serialize_token.
MongoSerialized(t, now) ==
  [access |-> t.access, refresh |-> t.refresh, expires_at |-> t.expires_at,
   refreshed_at |-> t.refreshed_at, updated_at |-> now]

\* _user_token_doc and back.
MongoTokenDoc(t, revision, sign_in, signed_in_at, now) ==
  [token |-> MongoSerialized(t, now), revision |-> revision, sign_in |-> sign_in,
   signed_in_at |-> signed_in_at]
MongoUserToken(rows, user, up) ==
  LET doc == Row(rows, KeyOf("user", up, user))
  IN IF doc = None THEN None ELSE Token(doc.token, doc.revision, doc.sign_in, doc.signed_in_at)

MongoAdminToken(rows, up) ==
  LET doc == Row(rows, Key("admin", up))
  IN IF doc = None THEN None ELSE Token(doc.token, None, None, None)

MongoPutUserToken(rows, user, up, t, id, now) ==
  Put(rows, KeyOf("user", up, user), MongoTokenDoc(t, id, id, now, now))

\* Mutant: a refresh keeps the time the row has, not the one it stands for.
TimeOfRow(old) == old.signed_in_at

\* A refresh saves the time the sign-in was made, or what stood in for it.
TimeKept(old) == SignInTime(old)

MongoPutIfSame(rows, user, up, t, expected, id, now) ==
  LET old == MongoUserToken(rows, user, up)
  IN IF old = None \/ old.sign_in # expected THEN rows
     ELSE Put(rows, KeyOf("user", up, user),
              MongoTokenDoc(t, id, expected, TimeKept(old), now))

MongoDeleteIfCurrent(rows, user, up, expected) ==
  LET old == MongoUserToken(rows, user, up)
  IN IF old # None /\ old.revision = expected THEN DropOne(rows, KeyOf("user", up, user)) ELSE rows

\* ^user:[^:]+:id$, and the tokens of one upstream.
MongoDeleteUserTokens(rows, user) ==
  Drop(rows, LAMBDA k : \E x \in {k[i] : i \in DOMAIN k} : k = KeyOf("user", <<x>>, user))
MongoDeleteUpstreamTokens(rows, up) ==
  Drop(rows, LAMBDA k : k = Key("admin", up) \/ IsStrictPrefix(Key("user", up), k))

\* ^[^:]+:id(?::|$).
MongoDeleteAllForUpstream(rows, up) ==
  Drop(rows, LAMBDA k : IsPrefix(up, Tail(k)))

\* ^[^:]+:[^:]+:id$.
MongoDeleteAllForUser(rows, user) ==
  Drop(rows, LAMBDA k : Len(k) > 2 /\ SubSeq(k, 3, Len(k)) = user)

\* get_all_stored_tokens and get_connected_users.
MongoStored(rows) ==
  {<<<<k[2]>>, SubSeq(k, 3, Len(k))>> : k \in {k \in DOMAIN rows : k[1] = "user" /\ Len(k) > 2}}
MongoConnected(rows, up) ==
  {p[2] : p \in {p \in MongoStored(rows) : p[1] = up}} \ {AdminUser}

\* A registration, metadata, a hash: a field of a document.
MongoField(rows, key) == LET doc == Row(rows, key) IN IF doc = None THEN None ELSE doc.value
MongoPutField(rows, key, x) == Put(rows, key, [value |-> x])

\* set_connection_error and its two readers.
MongoError(rows, up) ==
  LET doc == Row(rows, Key("error", up))
  IN IF doc = None THEN <<None, None>> ELSE <<doc.error, doc.signature>>

\* record_refresh_failure: the count goes up, the first failure's time and,
\* without a newer one, the signature stay.
MongoRecordFailure(rows, user, up, signature, now) ==
  LET key == KeyOf("failures", up, user)
      old == Row(rows, key)
  IN Put(rows, key,
       [count |-> IF old = None THEN 1 ELSE old.count + 1,
        first |-> IF old = None THEN now ELSE old.first,
        signature |-> IF signature # None \/ old = None THEN signature ELSE old.signature])
MongoFailures(rows, user, up) ==
  LET old == Row(rows, KeyOf("failures", up, user))
  IN IF old = None THEN <<None, None>> ELSE <<old.count, old.first>>
MongoFailureSignature(rows, user, up) ==
  LET old == Row(rows, KeyOf("failures", up, user))
  IN IF old = None THEN None ELSE old.signature

MongoWasNotified(rows, user, up) == Row(rows, KeyOf("notified", up, user)) # None

\* set_disabled writes a mark, set_enabled takes it away.
MongoEnabled(rows, up) ==
  LET doc == Row(rows, Key("enabled", up)) IN doc = None \/ doc.enabled
MongoDisabledIds(rows) ==
  {Tail(k) : k \in {k \in DOMAIN rows : k[1] = "enabled" /\ ~rows[k].enabled}}

MongoPendingCode(rows, user, up) ==
  LET doc == Row(rows, KeyOf("pending_code", up, user)) IN IF doc = None THEN None ELSE doc.code

-----------------------------------------------------------------------------
(* The store in a file                                                     *)

FileSerialized(t, revision, sign_in, signed_in_at, now) ==
  [access |-> t.access, refresh |-> t.refresh, expires_at |-> t.expires_at,
   refreshed_at |-> IF t.refresh = None THEN None
                    ELSE IF t.refreshed_at # None THEN t.refreshed_at ELSE now,
   updated_at |-> now, revision |-> revision, sign_in |-> sign_in,
   signed_in_at |-> signed_in_at]

FileUserToken(rows, user, up) ==
  LET row == Row(rows, KeyOf("user", up, user))
  IN IF row = None THEN None ELSE Token(row, row.revision, row.sign_in, row.signed_in_at)
FileAdminToken(rows, up) ==
  LET row == Row(rows, Key("admin", up))
  IN IF row = None THEN None ELSE Token(row, row.revision, row.sign_in, row.signed_in_at)

FilePutUserToken(rows, user, up, t, id, now) ==
  Put(rows, KeyOf("user", up, user), FileSerialized(t, id, id, now, now))
FilePutIfSame(rows, user, up, t, expected, id, now) ==
  LET old == FileUserToken(rows, user, up)
  IN IF old = None \/ old.sign_in # expected THEN rows
     ELSE Put(rows, KeyOf("user", up, user), FileSerialized(t, id, expected, TimeKept(old), now))
FileDeleteIfCurrent(rows, user, up, expected) ==
  LET old == FileUserToken(rows, user, up)
  IN IF old # None /\ old.revision = expected THEN DropOne(rows, KeyOf("user", up, user)) ELSE rows

\* startswith "user:" and endswith ":id".
FileDeleteUserTokens(rows, user) ==
  Drop(rows, LAMBDA k : k[1] = "user" /\ IsSuffix(user, Tail(k)))
FileDeleteUpstreamTokens(rows, up) ==
  Drop(rows, LAMBDA k : k = Key("admin", up) \/ IsStrictPrefix(Key("user", up), k))

\* _key_upstream_id and _key_user_id.
KeyUpstream(k) == IF Len(k) >= 2 THEN <<k[2]>> ELSE None
KeyUser(k) == IF Len(k) = 3 THEN <<k[3]>> ELSE None

\* Mutant: the cascade drops the person's sign-ins only.
FileTokensOfUser(rows, user) == FileDeleteUserTokens(rows, user)

FileDeleteAllForUpstream(rows, up) == Drop(rows, LAMBDA k : KeyUpstream(k) = up)
FileDeleteAllForUser(rows, user) == Drop(rows, LAMBDA k : KeyUser(k) = user)

FileStored(rows) ==
  {<<<<k[2]>>, SubSeq(k, 3, Len(k))>> : k \in {k \in DOMAIN rows : k[1] = "user" /\ Len(k) > 2}}
FileConnected(rows, up) ==
  {SubSeq(k, 3, Len(k)) : k \in {k \in DOMAIN rows : IsStrictPrefix(Key("user", up), k)}}
    \ {AdminUser}

\* Mutant: a failure without a signature forgets the one before.
FileLastSignature(signature, old) == signature

\* A failure keeps the signature there is when it brings none.
FileSignature(signature, old) ==
  IF signature # None \/ old = None THEN signature ELSE old.signature

FileRecordFailure(rows, user, up, signature, now) ==
  LET key == KeyOf("failures", up, user)
      old == Row(rows, key)
  IN Put(rows, key,
       [count |-> (IF old = None THEN 0 ELSE old.count) + 1,
        first |-> IF old = None THEN now ELSE old.first,
        signature |-> FileSignature(signature, old)])

\* Its mark is the value False, and only that.
FileEnabled(rows, up) == Row(rows, Key("enabled", up)) # "False"
FileDisabledIds(rows) ==
  {Tail(k) : k \in {k \in DOMAIN rows : k[1] = "enabled" /\ rows[k] = "False"}}

FileError(rows, up) ==
  LET row == Row(rows, Key("error", up))
  IN IF row = None THEN <<None, None>> ELSE <<row.error, row.signature>>
FilePendingCode(rows, user, up) ==
  LET row == Row(rows, KeyOf("pending_code", up, user)) IN IF row = None THEN None ELSE row.code
FileFailures(rows, user, up) ==
  LET old == Row(rows, KeyOf("failures", up, user))
  IN IF old = None THEN <<None, None>> ELSE <<old.count, old.first>>
FileFailureSignature(rows, user, up) ==
  LET old == Row(rows, KeyOf("failures", up, user))
  IN IF old = None THEN None ELSE old.signature
FileWasNotified(rows, user, up) == KeyOf("notified", up, user) \in DOMAIN rows

-----------------------------------------------------------------------------
(* Calls of a store, one after the other                                   *)

\* What a call does to the documents of its organization, at time now; a
\* "drop" is of one row (delete_client_info, clear_connection_error,
\* set_enabled, pop_pending_code ...), a "field" puts one.
MongoAfter(rows, c, now) ==
  CASE c.op = "sign_in" -> MongoPutUserToken(rows, c.user, c.up, SdkToInternal(c.x, now), now, now)
    [] c.op = "refresh" -> MongoPutIfSame(rows, c.user, c.up, SdkToInternal(c.x, now), c.expected, now, now)
    [] c.op = "drop_if_current" -> MongoDeleteIfCurrent(rows, c.user, c.up, c.expected)
    [] c.op = "user_tokens" -> MongoDeleteUserTokens(rows, c.user)
    [] c.op = "upstream_tokens" -> MongoDeleteUpstreamTokens(rows, c.up)
    [] c.op = "all_for_upstream" -> MongoDeleteAllForUpstream(rows, c.up)
    [] c.op = "all_for_user" -> MongoDeleteAllForUser(rows, c.user)
    [] c.op = "drop" -> DropOne(rows, c.key)
    [] c.op = "field" -> MongoPutField(rows, c.key, c.x)
    [] c.op = "error" -> Put(rows, Key("error", c.up), [error |-> c.x, signature |-> c.expected])
    [] c.op = "failure" -> MongoRecordFailure(rows, c.user, c.up, c.expected, now)
    [] c.op = "notified" -> Put(rows, KeyOf("notified", c.up, c.user), [at |-> now])
    [] c.op = "disable" -> Put(rows, Key("enabled", c.up), [enabled |-> FALSE])
    [] c.op = "code" -> Put(rows, KeyOf("pending_code", c.up, c.user), [code |-> c.x])
    [] c.op = "all" -> <<>>

FileAfter(rows, c, now) ==
  CASE c.op = "sign_in" -> FilePutUserToken(rows, c.user, c.up, SdkToInternal(c.x, now), now, now)
    [] c.op = "refresh" -> FilePutIfSame(rows, c.user, c.up, SdkToInternal(c.x, now), c.expected, now, now)
    [] c.op = "drop_if_current" -> FileDeleteIfCurrent(rows, c.user, c.up, c.expected)
    [] c.op = "user_tokens" -> FileDeleteUserTokens(rows, c.user)
    [] c.op = "upstream_tokens" -> FileDeleteUpstreamTokens(rows, c.up)
    [] c.op = "all_for_upstream" -> FileDeleteAllForUpstream(rows, c.up)
    [] c.op = "all_for_user" -> FileDeleteAllForUser(rows, c.user)
    [] c.op = "drop" -> DropOne(rows, c.key)
    [] c.op = "field" -> Put(rows, c.key, c.x)
    [] c.op = "error" -> Put(rows, Key("error", c.up), [error |-> c.x, signature |-> c.expected])
    [] c.op = "failure" -> FileRecordFailure(rows, c.user, c.up, c.expected, now)
    [] c.op = "notified" -> Put(rows, KeyOf("notified", c.up, c.user), [at |-> now])
    [] c.op = "disable" -> Put(rows, Key("enabled", c.up), "False")
    [] c.op = "code" -> Put(rows, KeyOf("pending_code", c.up, c.user), [code |-> c.x])
    [] c.op = "all" -> <<>>

\* Rows from before there were revisions and sign-in ids, and one of those,
\* refreshed or not, from before a save had a time.
OldRow(t) == Token(t, None, None, None)
OldDoc(t) == [token |-> t, revision |-> None, sign_in |-> None, signed_in_at |-> None]

RowsInit ==
  /\ made = 0
  /\ \E kept \in Kept :
       /\ file = [key \in DOMAIN kept |-> OldRow(kept[key])]
       /\ mongo = [o \in {Org, "other"} |-> [key \in DOMAIN kept |-> OldDoc(kept[key])]]

\* A call, of the one store or of the other.
Called(c) ==
  /\ made < Depth /\ made' = made + 1
  /\ mongo' = [mongo EXCEPT ![Org] = MongoAfter(@, c, made')]
  /\ file' = FileAfter(file, c, made')

RowsNext == \E c \in Calls : Called(c)

Pairs == {<<up, user>> : up \in Upstreams, user \in People}

\* All that can be read of one person's connection to one upstream ...
MongoReads(rows, p) ==
  <<MongoUserToken(rows, p[2], p[1]),
    [kind \in {"client_info", "oauth_metadata"} |-> MongoField(rows, KeyOf(kind, p[1], p[2]))],
    MongoFailures(rows, p[2], p[1]), MongoFailureSignature(rows, p[2], p[1]),
    MongoWasNotified(rows, p[2], p[1]), MongoPendingCode(rows, p[2], p[1])>>
FileReads(rows, p) ==
  <<FileUserToken(rows, p[2], p[1]),
    [kind \in {"client_info", "oauth_metadata"} |-> Row(rows, KeyOf(kind, p[1], p[2]))],
    FileFailures(rows, p[2], p[1]), FileFailureSignature(rows, p[2], p[1]),
    FileWasNotified(rows, p[2], p[1]), FilePendingCode(rows, p[2], p[1])>>

\* ... and of an upstream.
MongoReadsOf(rows, up) ==
  <<MongoAdminToken(rows, up), MongoError(rows, up), MongoEnabled(rows, up),
    MongoField(rows, Key("started_config_hash", up)), MongoConnected(rows, up)>>
FileReadsOf(rows, up) ==
  <<FileAdminToken(rows, up), FileError(rows, up), FileEnabled(rows, up),
    Row(rows, Key("started_config_hash", up)), FileConnected(rows, up)>>

-----------------------------------------------------------------------------
(* Who walks the rows                                                      *)

\* _prune_connections_file: what belongs to no upstream and no member goes.
Prune(rows, upstreams, emails) ==
  Drop(rows, LAMBDA k :
    \/ k[1] \in UserKinds /\ Len(k) > 2
       /\ LET user == SubSeq(k, 3, Len(k))
          IN \/ <<k[2]>> \notin upstreams
             \/ user # AdminUser /\ EmailKey[user] \notin {EmailKey[e] : e \in emails}
    \/ k[1] \in UpstreamKinds /\ Tail(k) \notin upstreams)

\* auth_health takes the pairs of get_all_stored_tokens apart.
HealthPair(p) == [up |-> p[2], user |-> p[1]]

\* The rows of auth_health whose sign-in has expired.
HealthExpired(rows, now) ==
  {p \in MongoStored(rows) :
     LET h == HealthPair(p)
         token == IF h.user = AdminUser THEN MongoAdminToken(rows, h.up)
                  ELSE MongoUserToken(rows, h.user, h.up)
     IN token # None /\ token.expires_at # None /\ token.expires_at <= now}

-----------------------------------------------------------------------------
(* Properties                                                              *)

Documents == Scope(mongo, Org)

\* An organization finds the same in either store, whatever was called
\* before and however old its rows are
\* (MongoConnectionRepository, FileConnectionStore).
StoresAnswerAlike ==
  /\ DOMAIN file = DOMAIN Documents
  /\ file # <<>> => \A p \in Pairs : MongoReads(Documents, p) = FileReads(file, p)
  /\ file # <<>> => \A up \in Upstreams : MongoReadsOf(Documents, up) = FileReadsOf(file, up)
  /\ MongoStored(Documents) = FileStored(file)
  /\ MongoDisabledIds(Documents) = FileDisabledIds(file)

\* The cascade of an upstream's or a person's removal leaves no row that the
\* next start would prune, and takes nothing of anybody else's
\* (delete_all_for_upstream, delete_all_for_user).
RemovalIsComplete ==
  file # <<>> => \A up \in Upstreams, user \in People :
    LET ofUp == FileDeleteAllForUpstream(file, up)
        ofUser == FileDeleteAllForUser(file, user)
    IN /\ Prune(ofUp, Upstreams \ {up}, People) = ofUp
       /\ DOMAIN MongoDeleteAllForUpstream(Documents, up) = DOMAIN ofUp
       /\ \A p \in Pairs : p[1] # up => FileReads(ofUp, p) = FileReads(file, p)
       /\ (\A other \in People \ {user} : EmailKey[other] # EmailKey[user])
          => Prune(ofUser, Upstreams, People \ {user}) = ofUser
       /\ DOMAIN MongoDeleteAllForUser(Documents, user) = DOMAIN ofUser
       /\ \A p \in Pairs : p[2] # user => FileReads(ofUser, p) = FileReads(file, p)

\* A save that is not a sign-in does not move it in the order of the admins'
\* sign-ins, also when its row is from before that order was saved
\* (put_user_token_if_same_sign_in, sign_in_time).
RefreshKeepsOrder ==
  [][\A p \in Pairs :
       LET old == FileUserToken(file, p[2], p[1])
           new == FileUserToken(file', p[2], p[1])
       IN old # None /\ new # None /\ old.sign_in = new.sign_in /\ SignInTime(old) # None
          => SignInTime(new) = SignInTime(old)]_rowVars

\* The two stores are one to their callers: they answer alike, a removal is
\* complete in both, and both keep the order of the sign-ins.
StoresKeepTheirWord == [](StoresAnswerAlike /\ RemovalIsComplete) /\ RefreshKeepsOrder

\* What auth_health says has expired is what has
\* ("classifies each (user, upstream) row as expired").
HealthCountsExpired ==
  HealthExpired(Documents, made) =
    {p \in MongoStored(Documents) :
       LET t == MongoUserToken(Documents, p[2], p[1])
       IN t.expires_at # None /\ t.expires_at <= made}
=============================================================================
