------------------------------- MODULE ApiKeys -------------------------------
(***************************************************************************)
(* The life of Brij API keys: the api_keys table, the Redis entry that     *)
(* POST /verify reads and fills, the management handlers of apiKey.service *)
(* and the first half of verify.service (record, validateRecord).          *)
(*                                                                         *)
(* A handler is a process that runs from one await to the next; between    *)
(* two awaits any other handler may run.  A transaction or a single SQL    *)
(* statement is one step, and so is a Redis command.                       *)
(*                                                                         *)
(* Time is a discrete clock.  MaxStall bounds how long a handler may be    *)
(* in flight: it is a parameter of the environment, no code enforces it,   *)
(* and every bound on a stale answer is stated in terms of it.             *)
(***************************************************************************)
EXTENDS Naturals

CONSTANTS
  Keys,          \* keyPrefix values; randomBytes(3) never hands one out twice
  Verifiers,     \* concurrent POST /verify requests
  Admins,        \* concurrent management requests
  Grants,        \* what a key allows: its permission list and its policy
  Expiries,      \* dates a caller may send as expiresAt
  GracePeriods,  \* gracePeriods of rotateApiKey, in ticks
  TTL,           \* lifetime of a cached record, 60 s in the code
  MaxStall,      \* longest time a handler stays in flight
  MaxTime,       \* bound of the clock
  None           \* SQL NULL

ASSUME TimesAssumption ==
  /\ TTL \in Nat \ {0}
  /\ MaxStall \in Nat
  /\ MaxTime \in Nat
  /\ Expiries \subseteq Nat
  /\ GracePeriods \subseteq Nat

ASSUME NoneAssumption == None \notin Nat \cup Grants \cup Keys

VARIABLES
  now,         \* Date.now()
  db,          \* db[k]: the row of key k
  cache,       \* cache[k]: the Redis entry under k
  verifier,    \* verifier[v]: where a verify request stands
  admin,       \* admin[a]: where a management request stands
  issued,      \* keys handed out so far
  (* History variables: no action reads them. *)
  writtenAt,   \* writtenAt[k]: when the row last changed
  lastUsable,  \* lastUsable[k]: last instant at which the row was usable
  closed,      \* keys whose revoke, disable or delete request has returned
  parent       \* parent[k]: the key that k replaced

history == <<writtenAt, lastUsable, closed, parent>>
vars == <<now, db, cache, verifier, admin, issued, history>>

Statuses == {"active", "disabled", "revoked", "rotate"}
Deadlines == Nat \cup {None}
Rows == [status : Statuses \cup {"absent"}, expiresAt : Deadlines,
         rotateAt : Deadlines, grant : Grants \cup {None}]

\* No row: never created, or deleted.
Absent == [status |-> "absent", expiresAt |-> None, rotateAt |-> None, grant |-> None]

Live(r) == r.status \in {"active", "rotate"}
Passed(deadline, t) == deadline # None /\ t > deadline

\* Mutant: the rotation deadline is not looked at.
UsableIgnoringRotation(r, t) == Live(r) /\ ~Passed(r.expiresAt, t)

\* validateRecord without the comparison of hashes.
Usable(r, t) == Live(r) /\ ~Passed(r.expiresAt, t) /\ ~Passed(r.rotateAt, t)

\* A Redis entry is there until its expiry; overtaken (history) says that the row
\* had already changed when the entry was set.
Entries == [rec : Rows, until : Nat, overtaken : BOOLEAN]
NoEntry == [rec |-> Absent, until |-> 0, overtaken |-> FALSE]
Present(e, t) == t < e.until

VerifierStates == [pc : {"idle", "lookup", "fill", "validate", "accepted"},
                   key : Keys \cup {None}, rec : Rows, started : Nat]
AdminStates == [pc : {"idle", "rotate", "bust"}, key : Keys \cup {None}, rec : Rows,
                revokeAt : Nat, started : Nat, closes : BOOLEAN]

NoRequest == [pc |-> "idle", key |-> None, rec |-> Absent, started |-> 0]
Allowed == [pc |-> "accepted", key |-> None, rec |-> Absent, started |-> 0]
NoCall == [pc |-> "idle", key |-> None, rec |-> Absent, revokeAt |-> 0, started |-> 0,
           closes |-> FALSE]

Init ==
  /\ now = 0
  /\ db = [k \in Keys |-> Absent]
  /\ cache = [k \in Keys |-> NoEntry]
  /\ verifier = [v \in Verifiers |-> NoRequest]
  /\ admin = [a \in Admins |-> NoCall]
  /\ issued = {}
  /\ writtenAt = [k \in Keys |-> 0]
  /\ lastUsable = [k \in Keys |-> 0]
  /\ closed = {}
  /\ parent = [k \in Keys |-> None]

-----------------------------------------------------------------------------
(* Management handlers. *)

\* lastUsable once the rows are "rows" and the clock shows t.
UsableAt(rows, t) == [k \in Keys |-> IF Usable(rows[k], t) THEN t ELSE lastUsable[k]]

\* One UPDATE, INSERT or DELETE, with what the history variables record of it.
Write(k, row) ==
  /\ db' = [db EXCEPT ![k] = row]
  /\ lastUsable' = UsableAt(db', now)
  /\ writtenAt' = IF row = db[k] THEN writtenAt ELSE [writtenAt EXCEPT ![k] = now]
  /\ closed' = IF Live(row) THEN closed \ {k} ELSE closed

\* The handler of a has updated the row of k and still has to await redisService.del.
OwesBust(a, k, closes) ==
  admin' = [admin EXCEPT ![a] = [pc |-> "bust", key |-> k, rec |-> Absent, revokeAt |-> 0,
                                 started |-> now, closes |-> closes]]

Return(a) == admin' = [admin EXCEPT ![a] = NoCall]

\* The handler finds the key, and its API in the caller's workspace: 404 otherwise.
Found(k) == db[k] # Absent

\* Mutant: a keyPrefix may be drawn again once its key is deleted.
ReissueApiKey(k, e, g) ==
  /\ ~Found(k)
  /\ issued' = issued \cup {k}
  /\ Write(k, [status |-> "active", expiresAt |-> e, rotateAt |-> None, grant |-> g])
  /\ UNCHANGED <<now, cache, verifier, admin, parent>>

createApiKey(k, e, g) ==
  /\ k \notin issued
  /\ issued' = issued \cup {k}
  /\ Write(k, [status |-> "active", expiresAt |-> e, rotateAt |-> None, grant |-> g])
  /\ UNCHANGED <<now, cache, verifier, admin, parent>>

\* PATCH of a key: no cache entry is touched.
updateApikey(k, e, g) ==
  /\ Found(k)
  /\ Write(k, [db[k] EXCEPT !.expiresAt = e, !.grant = g])
  /\ UNCHANGED <<now, cache, verifier, admin, issued, parent>>

\* Mutant: a status change starts the row's life afresh.
ResetStatus(a, k, s) ==
  /\ admin[a].pc = "idle"
  /\ Found(k)
  /\ Write(k, [db[k] EXCEPT !.status = s, !.rotateAt = None])
  /\ IF s = "disabled" THEN OwesBust(a, k, TRUE) ELSE UNCHANGED admin
  /\ UNCHANGED <<now, cache, verifier, issued, parent>>

\* Any ApiKeyStatus is accepted from any other; only "disabled" busts the cache.
updateApiKeyStatus(a, k, s) ==
  /\ admin[a].pc = "idle"
  /\ Found(k)
  /\ Write(k, [db[k] EXCEPT !.status = s])
  /\ IF s = "disabled" THEN OwesBust(a, k, TRUE) ELSE UNCHANGED admin
  /\ UNCHANGED <<now, cache, verifier, issued, parent>>

rovokeApikey(a, k) ==
  /\ admin[a].pc = "idle"
  /\ Found(k)
  /\ Write(k, [db[k] EXCEPT !.status = "revoked"])
  /\ OwesBust(a, k, TRUE)
  /\ UNCHANGED <<now, cache, verifier, issued, parent>>

\* Mutant: a soft delete with a status the enum does not have.
SoftDelete(a, k) ==
  /\ admin[a].pc = "idle"
  /\ Found(k)
  /\ Write(k, [db[k] EXCEPT !.status = "deleted"])
  /\ OwesBust(a, k, TRUE)
  /\ UNCHANGED <<now, cache, verifier, issued, parent>>

deleteApiKey(a, k) ==
  /\ admin[a].pc = "idle"
  /\ Found(k)
  /\ Write(k, Absent)
  /\ OwesBust(a, k, TRUE)
  /\ UNCHANGED <<now, cache, verifier, issued, parent>>

\* Mutant: the del names another entry than the one verify fills.
BustElsewhere(a) ==
  LET k == admin[a].key IN
  /\ admin[a].pc = "bust"
  /\ closed' = IF admin[a].closes /\ ~Live(db[k]) THEN closed \cup {k} ELSE closed
  /\ Return(a)
  /\ UNCHANGED <<now, db, cache, verifier, issued, writtenAt, lastUsable, parent>>

\* redisService.del: the last await of revoke, disable, delete and rotate.
Bust(a) ==
  LET k == admin[a].key IN
  /\ admin[a].pc = "bust"
  /\ cache' = [cache EXCEPT ![k] = NoEntry]
  /\ closed' = IF admin[a].closes /\ ~Live(db[k]) THEN closed \cup {k} ELSE closed
  /\ Return(a)
  /\ UNCHANGED <<now, db, verifier, issued, writtenAt, lastUsable, parent>>

\* rotateApiKey up to its transaction: the row is read and checked, revokeAt computed.
RotateRead(a, k, grace) ==
  /\ admin[a].pc = "idle"
  /\ db[k].status = "active"
  /\ ~Passed(db[k].expiresAt, now)
  /\ admin' = [admin EXCEPT ![a] = [pc |-> "rotate", key |-> k, rec |-> db[k],
                 revokeAt |-> now + grace, started |-> now, closes |-> FALSE]]
  /\ UNCHANGED <<now, db, cache, verifier, issued, history>>

\* Mutant: the transaction updates the row by its id alone.
AnyStatus(k) == TRUE

\* The row is still active when the transaction's updateMany reaches it.
StillActive(k) == db[k].status = "active"

\* Mutant: the permissions were left out of the select, and the new row gets a default.
RotateToDefault(a, new) ==
  LET k == admin[a].key IN
  /\ admin[a].pc = "rotate"
  /\ StillActive(k)
  /\ new \notin issued
  /\ issued' = issued \cup {new}
  /\ db' = [db EXCEPT ![k] = [@ EXCEPT !.status = "rotate", !.rotateAt = admin[a].revokeAt],
                      ![new] = [admin[a].rec EXCEPT !.status = "active",
                                                    !.grant = CHOOSE g \in Grants : TRUE]]
  /\ lastUsable' = UsableAt(db', now)
  /\ writtenAt' = [writtenAt EXCEPT ![k] = now, ![new] = now]
  /\ closed' = closed \ {k}
  /\ parent' = [parent EXCEPT ![new] = k]
  /\ OwesBust(a, k, FALSE)
  /\ UNCHANGED <<now, cache, verifier>>

\* The transaction: updateMany on {id, status: active}, then the new key, which gets
\* what was read before the transaction.
RotateCommit(a, new) ==
  LET k == admin[a].key IN
  /\ admin[a].pc = "rotate"
  /\ StillActive(k)
  /\ new \notin issued
  /\ issued' = issued \cup {new}
  /\ db' = [db EXCEPT ![k] = [@ EXCEPT !.status = "rotate", !.rotateAt = admin[a].revokeAt],
                      ![new] = [admin[a].rec EXCEPT !.status = "active", !.rotateAt = None]]
  /\ lastUsable' = UsableAt(db', now)
  /\ writtenAt' = [writtenAt EXCEPT ![k] = now, ![new] = now]
  /\ closed' = closed \ {k}
  /\ parent' = [parent EXCEPT ![new] = k]
  /\ OwesBust(a, k, FALSE)
  /\ UNCHANGED <<now, cache, verifier>>

\* updateMany matched no row: ConflictException.
RotateConflict(a) ==
  /\ admin[a].pc = "rotate"
  /\ ~StillActive(admin[a].key)
  /\ Return(a)
  /\ UNCHANGED <<now, db, cache, verifier, issued, history>>

\* The pending call fails or its process dies: a transaction rolls back, a del is
\* never made, and what was committed before stays.
HandlerFails(a) ==
  /\ admin[a].pc # "idle"
  /\ Return(a)
  /\ UNCHANGED <<now, db, cache, verifier, issued, history>>

\* Mutants: the deadline of the cron's where clause is dropped, or compared the wrong way.
RotationStarted(r) == r.status = "rotate" /\ r.rotateAt # None
RotationPending(r) == r.status = "rotate" /\ r.rotateAt # None /\ r.rotateAt > now

RotationExpired(r) == r.status = "rotate" /\ r.rotateAt # None /\ r.rotateAt < now

\* The ten-minute cron: one updateMany over the table, no cache entry is touched.
removeExpiredRotation ==
  /\ \E k \in Keys : RotationExpired(db[k])
  /\ db' = [k \in Keys |-> IF RotationExpired(db[k])
                           THEN [db[k] EXCEPT !.status = "revoked"] ELSE db[k]]
  /\ writtenAt' = [k \in Keys |-> IF RotationExpired(db[k]) THEN now ELSE writtenAt[k]]
  /\ UNCHANGED <<now, cache, verifier, admin, issued, lastUsable, closed, parent>>

-----------------------------------------------------------------------------
(* POST /verify, up to the end of validateRecord. *)

\* The header parses to k.  Redis GET: a hit goes on to validateRecord, a miss to the database.
Get(v, k) ==
  /\ verifier[v].pc \in {"idle", "accepted"}
  /\ LET hit == Present(cache[k], now) IN
     verifier' = [verifier EXCEPT ![v] =
       [pc |-> IF hit THEN "validate" ELSE "lookup", key |-> k,
        rec |-> IF hit THEN cache[k].rec ELSE Absent,
        started |-> now]]
  /\ UNCHANGED <<now, db, cache, admin, issued, history>>

Reject(v) == verifier' = [verifier EXCEPT ![v] = NoRequest]

\* prisma.apiKey.findUnique: 401 if there is no row.
Lookup(v) ==
  LET k == verifier[v].key IN
  /\ verifier[v].pc = "lookup"
  /\ IF db[k] = Absent
     THEN Reject(v)
     ELSE verifier' = [verifier EXCEPT ![v].pc = "fill", ![v].rec = db[k]]
  /\ UNCHANGED <<now, db, cache, admin, issued, history>>

\* Mutant: SET without EX.
FillForGood(v) ==
  LET k == verifier[v].key IN
  /\ verifier[v].pc = "fill"
  /\ cache' = [cache EXCEPT ![k] = [rec |-> verifier[v].rec, until |-> MaxTime + 1,
                                    overtaken |-> verifier[v].rec # db[k]]]
  /\ verifier' = [verifier EXCEPT ![v].pc = "validate"]
  /\ UNCHANGED <<now, db, admin, issued, history>>

\* Redis SET ... EX 60 of the row as it was read.
Fill(v) ==
  LET k == verifier[v].key IN
  /\ verifier[v].pc = "fill"
  /\ cache' = [cache EXCEPT ![k] = [rec |-> verifier[v].rec, until |-> now + TTL,
                                    overtaken |-> verifier[v].rec # db[k]]]
  /\ verifier' = [verifier EXCEPT ![v].pc = "validate"]
  /\ UNCHANGED <<now, db, admin, issued, history>>

\* Mutant: the status of the record is not checked.
ValidateDatesOnly(v) ==
  LET r == verifier[v].rec IN
  /\ verifier[v].pc = "validate"
  /\ ~Passed(r.expiresAt, now) /\ ~Passed(r.rotateAt, now)
  /\ verifier' = [verifier EXCEPT ![v] = Allowed]
  /\ UNCHANGED <<now, db, cache, admin, issued, history>>

validateRecord(v) ==
  /\ verifier[v].pc = "validate"
  /\ Usable(verifier[v].rec, now)
  /\ verifier' = [verifier EXCEPT ![v] = Allowed]
  /\ UNCHANGED <<now, db, cache, admin, issued, history>>

\* The record is refused, the secret does not match its hash, or an await threw.
VerifyRejects(v) ==
  /\ verifier[v].pc \in {"lookup", "fill", "validate"}
  /\ Reject(v)
  /\ UNCHANGED <<now, db, cache, admin, issued, history>>

-----------------------------------------------------------------------------
(* Redis and time. *)

\* Redis restarts empty, or evicts the entry.
Evict(k) ==
  /\ cache[k] # NoEntry
  /\ cache' = [cache EXCEPT ![k] = NoEntry]
  /\ UNCHANGED <<now, db, verifier, admin, issued, history>>

InFlight ==
  {verifier[v].started : v \in {u \in Verifiers : verifier[u].pc \notin {"idle", "accepted"}}}
    \cup {admin[a].started : a \in {b \in Admins : admin[b].pc # "idle"}}

Tick ==
  /\ now < MaxTime
  /\ \A t \in InFlight : now < t + MaxStall
  /\ now' = now + 1
  /\ cache' = [k \in Keys |-> IF Present(cache[k], now + 1) THEN cache[k] ELSE NoEntry]
  /\ lastUsable' = UsableAt(db, now + 1)
  /\ UNCHANGED <<db, verifier, admin, issued, writtenAt, closed, parent>>

-----------------------------------------------------------------------------
(* The specification. *)

AdminStep(a) == Bust(a) \/ RotateConflict(a) \/ (\E new \in Keys : RotateCommit(a, new))
VerifierStep(v) == Lookup(v) \/ Fill(v) \/ validateRecord(v)

Next ==
  \/ \E k \in Keys, e \in Expiries \cup {None}, g \in Grants : createApiKey(k, e, g)
  \/ \E k \in Keys, g \in Grants : \E e \in Expiries \cup {db[k].expiresAt} :
       updateApikey(k, e, g)
  \/ \E a \in Admins, k \in Keys, s \in Statuses : updateApiKeyStatus(a, k, s)
  \/ \E a \in Admins, k \in Keys : rovokeApikey(a, k) \/ deleteApiKey(a, k)
  \/ \E a \in Admins, k \in Keys, grace \in GracePeriods : RotateRead(a, k, grace)
  \/ \E a \in Admins : AdminStep(a) \/ HandlerFails(a)
  \/ \E v \in Verifiers, k \in Keys : Get(v, k)
  \/ \E v \in Verifiers : VerifierStep(v) \/ VerifyRejects(v)
  \/ removeExpiredRotation
  \/ \E k \in Keys : Evict(k)
  \/ Tick

Spec == Init /\ [][Next]_vars

\* The scheduler keeps running the cron, the clock does not stop before MaxTime, and a
\* handler that has been started goes on until it returns or fails.
Fairness ==
  /\ WF_vars(removeExpiredRotation)
  /\ WF_vars(Tick)
  /\ \A a \in Admins : WF_vars(AdminStep(a) \/ HandlerFails(a))
  /\ \A v \in Verifiers : WF_vars(VerifierStep(v) \/ VerifyRejects(v))

FairSpec == Spec /\ Fairness

-----------------------------------------------------------------------------
(* Properties. *)

\* What each variable may hold; the rest of the properties rely on it.
TypeOK ==
  /\ now \in Nat
  /\ db \in [Keys -> Rows]
  /\ cache \in [Keys -> Entries]
  /\ verifier \in [Verifiers -> VerifierStates]
  /\ admin \in [Admins -> AdminStates]
  /\ issued \in SUBSET Keys
  /\ writtenAt \in [Keys -> Nat]
  /\ lastUsable \in [Keys -> Nat]
  /\ closed \in SUBSET Keys
  /\ parent \in [Keys -> Keys \cup {None}]

Accepts(v) == verifier[v].pc = "validate" /\ verifier'[v].pc = "accepted"

\* How far an answer may lag behind the database: a fill in flight, the life of the
\* entry it sets, and the request that hits this entry.
MaxLag == TTL + 2 * MaxStall

\* A key that has stopped being usable, for whichever reason and whether or not its
\* cache entry was busted, is accepted for less than MaxLag after that.
BoundedExposure ==
  [][\A v \in Verifiers : Accepts(v) => now < lastUsable[verifier[v].key] + MaxLag]_vars

\* validateRecord judges the row of the key, or a row that was overwritten less than
\* MaxLag ago: neither a grant nor a refusal outlives a change of the key for longer.
BoundedStaleness ==
  \A v \in Verifiers :
    LET k == verifier[v].key IN
    verifier[v].pc = "validate" /\ verifier[v].rec # db[k] => now < writtenAt[k] + MaxLag

\* A rotated key is never accepted after its grace period, not even from an entry cached
\* before the rotation and never busted (holds when every grace period is at least
\* MaxLag + MaxStall).
GraceHonoured ==
  [][\A v \in Verifiers : Accepts(v) => ~Passed(db[verifier[v].key].rotateAt, now)]_vars

\* The cron finalises a rotation only after its grace period: it never ends the life of
\* a key that verify would accept.
CronSparesUsable ==
  [][removeExpiredRotation => \A k \in Keys : db'[k] # db[k] => ~Usable(db[k], now)]_vars

\* After a revoke, disable or delete request has returned, a live record of the key is in
\* the cache only if a verify request in flight read the row before the change and set
\* its entry after the bust.
ClosedCacheClean ==
  \A k \in closed : Present(cache[k], now) /\ Live(cache[k].rec) => cache[k].overtaken

\* Rotations of one key that run at once: a key gets an heir only in the step that takes
\* it out of "active", so one activation has one heir, and a key that was revoked,
\* disabled or deleted while it was being rotated has none.
OneHeirPerActivation ==
  [][\A k \in Keys :
       parent'[k] # parent[k] => /\ parent[k] = None
                                 /\ db[parent'[k]].status = "active"
                                 /\ db'[parent'[k]].status = "rotate"]_vars

\* rotateApiKey copies what it read before its transaction: an heir may miss an update of
\* the old key, but only one made while the rotation was in flight.
HeirMissesOnlyRecentUpdates ==
  [][\A k \in Keys :
       parent'[k] # parent[k] /\ db'[k].grant # db[parent'[k]].grant
         => now <= writtenAt[parent'[k]] + MaxStall]_vars

\* A rotation whose grace period ends before the horizon does not stay in status
\* "rotate" for ever.
RotationFinalised ==
  \A k \in Keys :
    (db[k].status = "rotate" /\ db[k].rotateAt # None /\ db[k].rotateAt < MaxTime)
      ~> (db[k].status # "rotate")

\* A key whose rotation date has passed is usable again only in a step that rotates it
\* once more: to set it back to active, or to give it another expiry, does not do it.
DeadlineIsFinal ==
  [][\A k \in Keys :
       Passed(db[k].rotateAt, now) /\ Usable(db'[k], now')
         => \E new \in Keys : parent[new] # k /\ parent'[new] = k]_vars

\* The life of a key as KeyLife sees it: table, cache, handlers and cron are hidden.
LifeOf(row, t) ==
  CASE row = Absent    -> "gone"
    [] Usable(row, t)  -> "good"
    [] OTHER           -> "bad"
KeyLives == [k \in Keys |-> IF k \in issued THEN LifeOf(db[k], now) ELSE "unborn"]

\* The key a verify request is about until it is answered, and whether it passed.
Answers == [v \in Verifiers |-> verifier[v].pc = "accepted"]
Questions ==
  [v \in Verifiers |-> IF verifier[v].pc \in {"idle", "accepted"} THEN None ELSE verifier[v].key]

Abstract == INSTANCE KeyLife WITH Clients <- Verifiers, life <- KeyLives,
                                  lastGood <- lastUsable, asked <- Questions,
                                  passed <- Answers

\* Every run of the handlers is a run of KeyLife: no race of requests, busts, rotations
\* and cron issues a key twice, brings a deleted key back, ends or revives a key without
\* its owner, or lets a client in later than KeyLife does.
ImplementsKeyLife == Abstract!Spec

=============================================================================
