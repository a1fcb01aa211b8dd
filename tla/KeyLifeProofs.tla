---------------------------- MODULE KeyLifeProofs ----------------------------
(***************************************************************************)
(* What becomes of a key, for every value of the constants: what rotations *)
(* and the cron may do to its row, that a rotated key is good for the      *)
(* whole of its grace period, and that ApiKeys implements KeyLife.  There, *)
(* a step of the handlers is a step of KeyLife or changes nothing that     *)
(* KeyLife sees; ApiKeysProofs has shown how late an answer may be.        *)
(***************************************************************************)
EXTENDS ApiKeysProofs

\* A key that was not issued has no row and no record anywhere, and a row is there whole.
Born ==
  /\ \A k \in Keys : k \notin issued => db[k] = Absent /\ cache[k].rec = Absent
  /\ \A k \in Keys : db[k] = Absent \/ db[k].status \in Statuses
  /\ \A v \in Verifiers : verifier[v].rec # Absent => verifier[v].key \in issued

LifeInv == LagInv /\ Born

-----------------------------------------------------------------------------
(* Born is inductive. *)

\* At first no key is issued.
LEMMA BornInit == Init => Born
BY DEF Init, Born, NoEntry, NoRequest

\* A row of an issued key is written, whole or Absent.
LEMMA WriteBorn ==
  ASSUME Born, TypeOK, NEW k \in Keys, NEW row \in Rows, Write(k, row),
         row = Absent \/ row.status \in Statuses,
         issued' = issued \cup {k}, UNCHANGED <<cache, verifier>>
  PROVE  Born'
<1>1. \A j \in Keys : db'[j] = IF j = k THEN row ELSE db[j]
  BY DEF Write, TypeOK
<1> QED
  BY <1>1 DEF Born

\* A verify request gets a record of the key that it is about.
LEMMA RequestBorn ==
  ASSUME Born, TypeOK, NEW v \in Verifiers, NEW req,
         verifier' = [verifier EXCEPT ![v] = req],
         req.rec # Absent => req.key \in issued,
         UNCHANGED <<db, cache, issued>>
  PROVE  Born'
<1>1. \A u \in Verifiers : verifier'[u] = IF u = v THEN req ELSE verifier[u]
  BY DEF TypeOK
<1> QED
  BY <1>1 DEF Born

\* The status that a rotation gives to either row.
LEMMA RotatedRows ==
  ASSUME NEW r \in Rows, NEW d
  PROVE  /\ [r EXCEPT !.status = "rotate", !.rotateAt = d].status = "rotate"
         /\ [r EXCEPT !.status = "active", !.rotateAt = d].status = "active"
BY DEF Rows

\* Every action keeps Born.
LEMMA BornStep == TypeInv /\ Born /\ [Next]_vars => Born'
<1> SUFFICES ASSUME TypeInv, Born, [Next]_vars
             PROVE  Born'
  OBVIOUS
<1>type. TypeOK /\ Located
  BY DEF TypeInv
<1>rows. /\ Absent \in Rows /\ \A k \in Keys : db[k] \in Rows
         /\ Absent.status \notin Statuses
  BY <1>type DEF TypeOK, Absent, Rows, Deadlines, Statuses
<1>found. ASSUME NEW k \in Keys, Found(k)
          PROVE  db[k].status \in Statuses /\ issued \cup {k} = issued
  BY <1>found DEF Found, Born
<1>1. ASSUME NEW k \in Keys, NEW e \in Expiries \cup {None}, NEW g \in Grants, createApiKey(k, e, g)
      PROVE  Born'
  <2> DEFINE row == [status |-> "active", expiresAt |-> e, rotateAt |-> None, grant |-> g]
  <2>1. row \in Rows /\ row.status \in Statuses
    BY TimesAssumption DEF Rows, Deadlines, Statuses
  <2>2. Write(k, row) /\ issued' = issued \cup {k} /\ UNCHANGED <<cache, verifier>>
    BY <1>1 DEF createApiKey
  <2> HIDE DEF row
  <2> QED
    BY <1>type, <2>1, <2>2, WriteBorn
<1>2. ASSUME NEW k \in Keys, NEW g \in Grants, NEW e \in Expiries \cup {db[k].expiresAt},
             updateApikey(k, e, g)
      PROVE  Born'
  <2> DEFINE row == [db[k] EXCEPT !.expiresAt = e, !.grant = g]
  <2>1. row \in Rows /\ row.status = db[k].status
    BY <1>rows, TimesAssumption DEF Rows, Deadlines
  <2>2. Write(k, row) /\ Found(k) /\ issued' = issued /\ UNCHANGED <<cache, verifier>>
    BY <1>2 DEF updateApikey
  <2> HIDE DEF row
  <2> QED
    BY <1>type, <1>found, <2>1, <2>2, WriteBorn
<1>3. ASSUME NEW k \in Keys, Found(k), NEW s \in Statuses, Write(k, [db[k] EXCEPT !.status = s]),
             UNCHANGED <<cache, verifier, issued>>
      PROVE  Born'
  <2> DEFINE row == [db[k] EXCEPT !.status = s]
  <2>1. row \in Rows /\ row.status \in Statuses
    BY <1>rows DEF Rows
  <2>2. Write(k, row)
    BY <1>3
  <2> HIDE DEF row
  <2> QED
    BY <1>type, <1>3, <1>found, <2>1, <2>2, WriteBorn
<1>4. ASSUME NEW a \in Admins, NEW k \in Keys, NEW s \in Statuses, updateApiKeyStatus(a, k, s)
      PROVE  Born'
  BY <1>3, <1>4 DEF updateApiKeyStatus
<1>5. ASSUME NEW a \in Admins, NEW k \in Keys, rovokeApikey(a, k)
      PROVE  Born'
  BY <1>3, <1>5 DEF rovokeApikey, Statuses
<1>6. ASSUME NEW a \in Admins, NEW k \in Keys, deleteApiKey(a, k)
      PROVE  Born'
  BY <1>type, <1>rows, <1>found, <1>6, WriteBorn DEF deleteApiKey
<1>7. ASSUME NEW a \in Admins, NEW new \in Keys, RotateCommit(a, new)
      PROVE  Born'
  <2> DEFINE k == admin[a].key
  <2>1. k \in Keys /\ db[k].status = "active" /\ new # k
    BY <1>7, <1>type, <1>rows DEF RotateCommit, StillActive, Located, Born, Absent
  <2>2. /\ \A j \in Keys \ {k, new} : db'[j] = db[j]
        /\ db'[k].status = "rotate"
        /\ db'[new].status = "active"
    <3>1. db' = [db EXCEPT ![k] = [db[k] EXCEPT !.status = "rotate", !.rotateAt = admin[a].revokeAt],
                           ![new] = [admin[a].rec EXCEPT !.status = "active", !.rotateAt = None]]
      BY <1>7 DEF RotateCommit
    <3>2. db \in [Keys -> Rows] /\ admin[a].rec \in Rows /\ db[k] \in Rows
      BY <1>type, <2>1 DEF TypeOK, AdminStates
    <3> HIDE DEF k
    <3> QED
      BY <2>1, <3>1, <3>2, RotatedRows
  <2>3. k \in issued /\ issued' = issued \cup {new} /\ cache' = cache /\ verifier' = verifier
    BY <1>7, <2>1 DEF RotateCommit, Born, Absent
  <2> QED
    BY <2>1, <2>2, <2>3 DEF Born, Statuses
<1>8. ASSUME removeExpiredRotation
      PROVE  Born'
  <2>1. \A k \in Keys : \/ db'[k] = db[k]
                        \/ db[k].status = "rotate" /\ db'[k].status = "revoked"
    BY <1>8, <1>rows DEF removeExpiredRotation, RotationExpired, Rows
  <2>2. UNCHANGED <<cache, verifier, issued>>
    BY <1>8 DEF removeExpiredRotation
  <2> QED
    BY <2>1, <2>2 DEF Born, Statuses, Absent
<1>9. ASSUME NEW v \in Verifiers, NEW k \in Keys, Get(v, k)
      PROVE  Born'
  <2> DEFINE req == [pc |-> IF Present(cache[k], now) THEN "validate" ELSE "lookup", key |-> k,
                     rec |-> IF Present(cache[k], now) THEN cache[k].rec ELSE Absent,
                     started |-> now]
  <2>1. verifier' = [verifier EXCEPT ![v] = req] /\ UNCHANGED <<db, cache, issued>>
    BY <1>9 DEF Get
  <2>2. req.rec # Absent => req.key \in issued
    BY DEF Born
  <2> HIDE DEF req
  <2> QED
    BY <1>type, <2>1, <2>2, RequestBorn
<1>10. ASSUME NEW v \in Verifiers, Reject(v), UNCHANGED <<db, cache, issued>>
       PROVE  Born'
  BY <1>type, <1>10, RequestBorn DEF Reject, NoRequest
<1>11. ASSUME NEW v \in Verifiers, Lookup(v)
       PROVE  Born'
  <2> DEFINE k == verifier[v].key
             req == [verifier[v] EXCEPT !.pc = "fill", !.rec = db[k]]
  <2>1. UNCHANGED <<db, cache, issued>> /\ k \in Keys
    BY <1>11, <1>type DEF Lookup, Located
  <2>2. CASE db[k] = Absent
    BY <1>10, <1>11, <2>1, <2>2 DEF Lookup
  <2>3. CASE db[k] # Absent
    <3>1. verifier' = [verifier EXCEPT ![v] = req]
      BY <1>11, <2>3 DEF Lookup
    <3>2. req.key = k /\ k \in issued
      BY <1>type, <2>1, <2>3 DEF TypeOK, VerifierStates, Born
    <3> HIDE DEF req
    <3> QED
      BY <1>type, <2>1, <3>1, <3>2, RequestBorn
  <2> QED
    BY <2>2, <2>3
<1>12. ASSUME NEW v \in Verifiers, Fill(v)
       PROVE  Born'
  <2> DEFINE k == verifier[v].key
  <2>1. /\ \A u \in Verifiers : verifier'[u].rec = verifier[u].rec /\ verifier'[u].key = verifier[u].key
        /\ \A j \in Keys : cache'[j].rec = cache[j].rec \/ (j = k /\ cache'[j].rec = verifier[v].rec)
        /\ UNCHANGED <<db, issued>>
    BY <1>12, <1>type DEF Fill, TypeOK, VerifierStates, Entries
  <2> QED
    BY <2>1 DEF Born
<1>13. ASSUME NEW v \in Verifiers, validateRecord(v)
       PROVE  Born'
  BY <1>type, <1>13, RequestBorn DEF validateRecord, Allowed
<1>14. ASSUME \/ \E a \in Admins, k \in Keys, grace \in GracePeriods : RotateRead(a, k, grace)
              \/ \E a \in Admins : Bust(a) \/ RotateConflict(a) \/ HandlerFails(a)
              \/ \E k \in Keys : Evict(k)
              \/ Tick
              \/ UNCHANGED vars
       PROVE  Born'
  <2>1. /\ UNCHANGED <<db, verifier, issued>>
        /\ \A k \in Keys : cache'[k] \in {cache[k], NoEntry}
    BY <1>14, <1>type DEF RotateRead, Bust, RotateConflict, HandlerFails, Evict, Tick, vars, TypeOK
  <2> QED
    BY <2>1 DEF Born, NoEntry
<1> QED
  BY <1>1, <1>2, <1>4, <1>5, <1>6, <1>7, <1>8, <1>9, <1>10, <1>11, <1>12, <1>13, <1>14
     DEF Next, AdminStep, VerifierStep, VerifyRejects

\* What the refinement rests on holds in every reachable state.
LEMMA LifeInvariant == Spec => []LifeInv
<1>1. Init => Born
  BY BornInit
<1>2. LagInv /\ Born /\ [Next]_vars => Born'
  BY BornStep DEF LagInv
<1> QED
  BY <1>1, <1>2, LagInvariant, PTL DEF Spec, LifeInv

-----------------------------------------------------------------------------
(* What a step may do to the rows. *)

\* A handler of the owner writes the row of one key: a new one without a rotation date, or
\* one that is there, whose rotation date it leaves alone unless it deletes the row.
OwnerWrite(k, row) ==
  /\ Write(k, row)
  /\ \/ k \notin issued /\ row.rotateAt = None
     \/ Found(k) /\ (row = Absent \/ row.rotateAt = db[k].rotateAt)
  /\ issued' = issued \cup {k}
  /\ admin' = admin \/ \E a \in Admins : OwesBust(a, k, TRUE)
  /\ UNCHANGED <<now, cache, verifier, parent>>

\* The steps that write no row.
Bystander ==
  \/ \E a \in Admins, k \in Keys, grace \in GracePeriods : RotateRead(a, k, grace)
  \/ \E a \in Admins : Bust(a) \/ RotateConflict(a) \/ HandlerFails(a)
  \/ \E v \in Verifiers, k \in Keys : Get(v, k)
  \/ \E v \in Verifiers : VerifierStep(v) \/ VerifyRejects(v)
  \/ \E k \in Keys : Evict(k)
  \/ Tick
  \/ UNCHANGED vars

RowsStay == UNCHANGED <<db, issued, writtenAt, parent>>

\* A bystander leaves the rows and their history alone.
LEMMA BystanderStays == Bystander => RowsStay
BY DEF Bystander, RowsStay, RotateRead, Bust, RotateConflict, HandlerFails, Get, VerifierStep,
       Lookup, Fill, validateRecord, VerifyRejects, Evict, Tick, vars, history

\* Rows are written by the owner's handlers, by rotations and by the cron.
LEMMA RowKinds ==
  ASSUME TypeInv, Born, [Next]_vars
  PROVE  \/ \E k \in Keys, row \in Rows : OwnerWrite(k, row)
         \/ \E a \in Admins, new \in Keys : RotateCommit(a, new)
         \/ removeExpiredRotation
         \/ Bystander
<1>rows. \A k \in Keys : db[k] \in Rows
  BY DEF TypeInv, TypeOK
<1>found. \A k \in Keys : Found(k) => issued \cup {k} = issued
  BY DEF Found, Born
<1>1. ASSUME NEW k \in Keys, NEW e \in Expiries \cup {None}, NEW g \in Grants, createApiKey(k, e, g)
      PROVE  \E j \in Keys, row \in Rows : OwnerWrite(j, row)
  <2> DEFINE row == [status |-> "active", expiresAt |-> e, rotateAt |-> None, grant |-> g]
  <2>1. row \in Rows /\ row.rotateAt = None
    BY TimesAssumption DEF Rows, Deadlines, Statuses
  <2>2. /\ Write(k, row) /\ k \notin issued /\ issued' = issued \cup {k}
        /\ UNCHANGED <<now, cache, verifier, admin, parent>>
    BY <1>1 DEF createApiKey
  <2> HIDE DEF row
  <2> QED
    BY <2>1, <2>2 DEF OwnerWrite
<1>2. ASSUME NEW k \in Keys, NEW g \in Grants, NEW e \in Expiries \cup {db[k].expiresAt},
             updateApikey(k, e, g)
      PROVE  \E j \in Keys, row \in Rows : OwnerWrite(j, row)
  <2> DEFINE row == [db[k] EXCEPT !.expiresAt = e, !.grant = g]
  <2>1. row \in Rows /\ row.rotateAt = db[k].rotateAt
    BY <1>rows, TimesAssumption DEF Rows, Deadlines
  <2>2. /\ Write(k, row) /\ Found(k) /\ issued' = issued
        /\ UNCHANGED <<now, cache, verifier, admin, parent>>
    BY <1>2 DEF updateApikey
  <2> HIDE DEF row
  <2> QED
    BY <1>found, <2>1, <2>2 DEF OwnerWrite
<1>3. ASSUME NEW k \in Keys, Found(k), NEW s \in Statuses, Write(k, [db[k] EXCEPT !.status = s]),
             admin' = admin \/ \E a \in Admins : OwesBust(a, k, TRUE),
             UNCHANGED <<now, cache, verifier, issued, parent>>
      PROVE  \E j \in Keys, row \in Rows : OwnerWrite(j, row)
  <2> DEFINE row == [db[k] EXCEPT !.status = s]
  <2>1. row \in Rows /\ row.rotateAt = db[k].rotateAt
    BY <1>rows DEF Rows
  <2>2. Write(k, row)
    BY <1>3
  <2> HIDE DEF row
  <2> QED
    BY <1>found, <1>3, <2>1, <2>2 DEF OwnerWrite
<1>4. ASSUME NEW a \in Admins, NEW k \in Keys, NEW s \in Statuses, updateApiKeyStatus(a, k, s)
      PROVE  \E j \in Keys, row \in Rows : OwnerWrite(j, row)
  BY <1>3, <1>4 DEF updateApiKeyStatus
<1>5. ASSUME NEW a \in Admins, NEW k \in Keys, rovokeApikey(a, k)
      PROVE  \E j \in Keys, row \in Rows : OwnerWrite(j, row)
  BY <1>3, <1>5 DEF rovokeApikey, Statuses
<1>6. ASSUME NEW a \in Admins, NEW k \in Keys, deleteApiKey(a, k)
      PROVE  \E j \in Keys, row \in Rows : OwnerWrite(j, row)
  <2>1. Absent \in Rows
    BY DEF Absent, Rows, Deadlines
  <2> QED
    BY <1>found, <1>6, <2>1 DEF deleteApiKey, OwnerWrite
<1> QED
  BY <1>1, <1>2, <1>4, <1>5, <1>6 DEF Next, AdminStep, Bystander

\* What a rotation does: the old row keeps all but its status and date, the new one is
\* of a key that was never issued.
Replaced(a, k, new) ==
  /\ k \in Keys /\ k \in issued /\ new \notin issued /\ k # new
  /\ db[k].status = "active" /\ db[new] = Absent
  /\ \A j \in Keys \ {k, new} : db'[j] = db[j]
  /\ db'[k].status = "rotate" /\ db'[k].rotateAt = admin[a].revokeAt
  /\ db'[k].grant = db[k].grant
  /\ db'[new].grant = admin[a].rec.grant /\ db'[new].rotateAt = None
  /\ \A j \in Keys : parent'[j] = IF j = new THEN k ELSE parent[j]

\* A rotation that commits writes the rows of two keys, and no other.
LEMMA RotateRows ==
  ASSUME TypeInv, Born, NEW a \in Admins, NEW new \in Keys, RotateCommit(a, new)
  PROVE  Replaced(a, admin[a].key, new)
<1> DEFINE k == admin[a].key
           old == [db[k] EXCEPT !.status = "rotate", !.rotateAt = admin[a].revokeAt]
           heir == [admin[a].rec EXCEPT !.status = "active", !.rotateAt = None]
<1>1. TypeOK /\ k \in Keys /\ db[k].status = "active" /\ new \notin issued
  BY DEF TypeInv, Located, RotateCommit, StillActive
<1>2. k \in issued /\ db[new] = Absent /\ k # new
  BY <1>1 DEF Born, Absent
<1>3. db[k] \in Rows /\ admin[a].rec \in Rows
  BY <1>1 DEF TypeOK, AdminStates
<1>4. db' = [db EXCEPT ![k] = old, ![new] = heir] /\ parent' = [parent EXCEPT ![new] = k]
  BY DEF RotateCommit
<1>5. /\ old.status = "rotate" /\ old.rotateAt = admin[a].revokeAt /\ old.grant = db[k].grant
      /\ heir.grant = admin[a].rec.grant /\ heir.rotateAt = None
  BY <1>3 DEF Rows
<1>6. db \in [Keys -> Rows] /\ parent \in [Keys -> Keys \cup {None}]
  BY <1>1 DEF TypeOK
<1> HIDE DEF old, heir, k
<1>8. /\ \A j \in Keys \ {k, new} : db'[j] = db[j]
      /\ db'[k] = old /\ db'[new] = heir
      /\ \A j \in Keys : parent'[j] = IF j = new THEN k ELSE parent[j]
  BY <1>1, <1>2, <1>4, <1>6
<1> QED
  BY <1>1, <1>2, <1>5, <1>8 DEF k, Replaced

\* What the cron does: rows in rotation whose date has passed are revoked.
LEMMA CronRows ==
  ASSUME TypeInv, removeExpiredRotation, NEW k \in Keys
  PROVE  /\ db'[k].rotateAt = db[k].rotateAt /\ db'[k].grant = db[k].grant
         /\ \/ db'[k] = db[k] /\ writtenAt'[k] = writtenAt[k]
            \/ /\ RotationExpired(db[k]) /\ writtenAt'[k] = now
               /\ ~Usable(db[k], now) /\ ~Live(db'[k])
<1>1. db[k] \in Rows /\ now \in Nat
  BY DEF TypeInv, TypeOK
<1>2. CASE RotationExpired(db[k])
  <2>1. db'[k] = [db[k] EXCEPT !.status = "revoked"] /\ writtenAt'[k] = now
    BY <1>2 DEF removeExpiredRotation
  <2>2. Passed(db[k].rotateAt, now)
    BY <1>1, <1>2, NoneAssumption DEF RotationExpired, Passed, Rows, Deadlines
  <2> QED
    BY <1>1, <1>2, <2>1, <2>2 DEF Usable, Live, Rows
<1>3. CASE ~RotationExpired(db[k])
  BY <1>3 DEF removeExpiredRotation
<1> QED
  BY <1>2, <1>3

\* What the owner's handlers do.
LEMMA OwnerRows ==
  ASSUME TypeInv, NEW k \in Keys, NEW row \in Rows, OwnerWrite(k, row)
  PROVE  /\ db' = [db EXCEPT ![k] = row]
         /\ \A j \in Keys : db'[j] = IF j = k THEN row ELSE db[j]
         /\ \A j \in Keys : writtenAt'[j] = IF j = k /\ row # db[k] THEN now ELSE writtenAt[j]
BY DEF OwnerWrite, Write, TypeInv, TypeOK

\* The cron ends no key that verify would accept.
THEOREM CronSpares == Spec => CronSparesUsable
<1>1. TypeInv /\ [Next]_vars
        => [removeExpiredRotation => \A k \in Keys : db'[k] # db[k] => ~Usable(db[k], now)]_vars
  BY CronRows
<1> QED
  BY TypeInit, TypeStep, <1>1, PTL DEF Spec, CronSparesUsable

-----------------------------------------------------------------------------
(* Who knows which key. *)

\* Handlers, parents and closed keys are about keys that were issued, and a closed key has
\* not been opened again.
Known ==
  /\ closed \subseteq issued
  /\ \A a \in Admins : admin[a].pc # "idle" => admin[a].key \in issued
  /\ \A k \in Keys : k \notin issued => parent[k] = None
  /\ \A k \in closed : ~Live(db[k])

RowInv == LifeInv /\ Known

\* Every action keeps Known.
LEMMA KnownStep == LifeInv /\ Known /\ [Next]_vars => Known'
<1> SUFFICES ASSUME LifeInv, Known, [Next]_vars
             PROVE  Known'
  OBVIOUS
<1>inv. TypeInv /\ TypeOK /\ Located /\ Born
  BY DEF LifeInv, LagInv, TypeInv
<1>found. \A k \in Keys : Live(db[k]) \/ Found(k) => k \in issued
  BY <1>inv DEF Born, Found, Live, Absent
<1>admin. ASSUME NEW a \in Admins, NEW call, admin' = [admin EXCEPT ![a] = call]
          PROVE  \A b \in Admins : admin'[b] = IF b = a THEN call ELSE admin[b]
  BY <1>inv, <1>admin DEF TypeOK
<1>1. ASSUME NEW k \in Keys, NEW row \in Rows, OwnerWrite(k, row)
      PROVE  Known'
  <2>1. \A a \in Admins : admin'[a] = admin[a] \/ admin'[a].key = k
    BY <1>1, <1>admin DEF OwnerWrite, OwesBust
  <2>2. closed' = (IF Live(row) THEN closed \ {k} ELSE closed) /\ parent' = parent
        /\ issued' = issued \cup {k}
    BY <1>1 DEF OwnerWrite, Write
  <2>3. \A j \in Keys : db'[j] = IF j = k THEN row ELSE db[j]
    BY <1>1, <1>inv, OwnerRows
  <2>4. closed \in SUBSET Keys
    BY <1>inv DEF TypeOK
  <2> QED
    BY <2>1, <2>2, <2>3, <2>4 DEF Known
<1>2. ASSUME NEW a \in Admins, NEW new \in Keys, RotateCommit(a, new)
      PROVE  Known'
  <2> DEFINE k == admin[a].key
  <2>1. Replaced(a, k, new)
    BY <1>2, <1>inv, RotateRows
  <2>2. closed' = closed \ {k} /\ issued' = issued \cup {new} /\ OwesBust(a, k, FALSE)
    BY <1>2 DEF RotateCommit
  <2>3. \A b \in Admins : admin'[b] = admin[b] \/ admin'[b].key = k
    BY <2>2, <1>admin DEF OwesBust
  <2>4. closed \in SUBSET Keys
    BY <1>inv DEF TypeOK
  <2> QED
    BY <2>1, <2>2, <2>3, <2>4 DEF Known, Replaced
<1>3. ASSUME removeExpiredRotation
      PROVE  Known'
  <2>1. \A k \in Keys : Live(db'[k]) => Live(db[k])
    BY <1>3, <1>inv, CronRows
  <2>2. closed \in SUBSET Keys
    BY <1>inv DEF TypeOK
  <2> QED
    BY <1>3, <2>1, <2>2 DEF Known, removeExpiredRotation
<1>4. ASSUME NEW a \in Admins, NEW k \in Keys, NEW grace \in GracePeriods, RotateRead(a, k, grace)
      PROVE  Known'
  <2>1. \A b \in Admins : admin'[b] = admin[b] \/ admin'[b].key = k
    BY <1>4, <1>admin DEF RotateRead
  <2>2. k \in issued
    BY <1>4, <1>found DEF RotateRead, Live
  <2> QED
    BY <1>4, <2>1, <2>2 DEF Known, RotateRead, history
<1>5. ASSUME NEW a \in Admins, Bust(a)
      PROVE  Known'
  <2>1. \A b \in Admins : admin'[b] = admin[b] \/ admin'[b].pc = "idle"
    BY <1>5, <1>admin DEF Bust, Return, NoCall
  <2> QED
    BY <1>5, <2>1 DEF Known, Bust
<1>6. ASSUME NEW a \in Admins, RotateConflict(a) \/ HandlerFails(a)
      PROVE  Known'
  <2>1. \A b \in Admins : admin'[b] = admin[b] \/ admin'[b].pc = "idle"
    BY <1>6, <1>admin DEF RotateConflict, HandlerFails, Return, NoCall
  <2> QED
    BY <1>6, <2>1 DEF Known, RotateConflict, HandlerFails, history
<1>7. ASSUME UNCHANGED <<db, admin, issued, closed, parent>>
      PROVE  Known'
  BY <1>7 DEF Known
<1>8. ASSUME \/ \E v \in Verifiers, k \in Keys : Get(v, k)
             \/ \E v \in Verifiers : VerifierStep(v) \/ VerifyRejects(v)
             \/ \E k \in Keys : Evict(k)
             \/ Tick
             \/ UNCHANGED vars
      PROVE  Known'
  BY <1>7, <1>8 DEF Get, VerifierStep, Lookup, Fill, validateRecord, VerifyRejects, Evict, Tick,
                    vars, history
<1> QED
  BY <1>1, <1>2, <1>3, <1>4, <1>5, <1>6, <1>8, <1>inv, RowKinds DEF Bystander

\* What a row may be, in every reachable state.
LEMMA RowInvariant == Spec => []RowInv
<1>1. Init => Known
  BY DEF Init, Known, NoCall
<1>2. LifeInv /\ Known /\ [Next]_vars => Known'
  BY KnownStep
<1> QED
  BY <1>1, <1>2, LifeInvariant, PTL DEF Spec, RowInv

\* One heir for each time a key is activated, however many rotations race.
THEOREM OneHeir == Spec => OneHeirPerActivation
<1>1. RowInv /\ [Next]_vars
        => [\A k \in Keys :
              parent'[k] # parent[k] => /\ parent[k] = None
                                        /\ db[parent'[k]].status = "active"
                                        /\ db'[parent'[k]].status = "rotate"]_vars
  <2> SUFFICES ASSUME RowInv, [Next]_vars, NEW k \in Keys, parent'[k] # parent[k]
               PROVE  /\ parent[k] = None
                      /\ db[parent'[k]].status = "active"
                      /\ db'[parent'[k]].status = "rotate"
    OBVIOUS
  <2>1. TypeInv /\ Born /\ Known
    BY DEF RowInv, LifeInv, LagInv
  <2>2. PICK a \in Admins, new \in Keys : RotateCommit(a, new)
    BY <2>1, RowKinds, BystanderStays DEF OwnerWrite, RowsStay, removeExpiredRotation
  <2>3. Replaced(a, admin[a].key, new)
    BY <2>1, <2>2, RotateRows
  <2> QED
    BY <2>1, <2>3 DEF Replaced, Known
<1> QED
  BY RowInvariant, <1>1, PTL DEF Spec, OneHeirPerActivation

\* Only another rotation gives a key back the time that an earlier one has taken from it.
THEOREM DeadlineFinal == Spec => DeadlineIsFinal
<1>1. RowInv /\ [Next]_vars
        => [\A k \in Keys :
              Passed(db[k].rotateAt, now) /\ Usable(db'[k], now')
                => \E new \in Keys : parent[new] # k /\ parent'[new] = k]_vars
  <2> SUFFICES ASSUME RowInv, [Next]_vars, NEW k \in Keys,
                      Passed(db[k].rotateAt, now), Usable(db'[k], now')
               PROVE  \E new \in Keys : parent[new] # k /\ parent'[new] = k
    OBVIOUS
  <2>1. TypeInv /\ TypeOK /\ Born /\ Known
    BY DEF RowInv, LifeInv, LagInv, TypeInv
  <2>2. now \in Nat /\ db[k].rotateAt \in Nat /\ k \in issued /\ k # None
    BY <2>1, NoneAssumption DEF TypeOK, Rows, Deadlines, Passed, Born, Absent
  <2>3. ASSUME now' \in {now, now + 1}, db'[k].rotateAt = db[k].rotateAt
        PROVE  FALSE
    BY <2>2, <2>3 DEF Usable, Passed
  <2>4. CASE \E a \in Admins, new \in Keys : RotateCommit(a, new)
    <3>1. PICK a \in Admins, new \in Keys : RotateCommit(a, new)
      BY <2>4
    <3>2. Replaced(a, admin[a].key, new) /\ now' = now
      BY <2>1, <3>1, RotateRows DEF RotateCommit
    <3>3. k = admin[a].key
      BY <2>2, <2>3, <3>2 DEF Replaced
    <3> QED
      BY <2>1, <2>2, <3>2, <3>3 DEF Replaced, Known
  <2>5. CASE \E j \in Keys, row \in Rows : OwnerWrite(j, row)
    <3>1. PICK j \in Keys, row \in Rows : OwnerWrite(j, row)
      BY <2>5
    <3>2. db'[k] = (IF k = j THEN row ELSE db[k]) /\ now' = now
      BY <2>1, <3>1, OwnerRows DEF OwnerWrite
    <3>3. k = j /\ row = Absent
      BY <2>2, <2>3, <3>1, <3>2 DEF OwnerWrite
    <3> QED
      BY <3>2, <3>3 DEF Usable, Live, Absent
  <2>6. CASE removeExpiredRotation
    BY <2>1, <2>3, <2>6, CronRows DEF removeExpiredRotation
  <2>7. CASE Bystander
    <3>1. db' = db
      BY <2>7, BystanderStays DEF RowsStay
    <3>2. now' \in {now, now + 1}
      BY <2>7 DEF Bystander, RotateRead, Bust, RotateConflict, HandlerFails, Get, VerifierStep,
                  Lookup, Fill, validateRecord, VerifyRejects, Evict, Tick, vars
    <3> QED
      BY <2>3, <3>1, <3>2
  <2> QED
    BY <2>1, <2>4, <2>5, <2>6, <2>7, RowKinds
<1> QED
  BY RowInvariant, <1>1, PTL DEF Spec, DeadlineIsFinal

-----------------------------------------------------------------------------
(* The cache of a closed key. *)

\* A live record of a closed key was not the key's row any more when its entry was set.
THEOREM ClosedClean == Spec => []ClosedCacheClean
<1>1. Init => ClosedCacheClean
  BY DEF Init, ClosedCacheClean
<1>2. RowInv /\ ClosedCacheClean /\ [Next]_vars => ClosedCacheClean'
  <2> SUFFICES ASSUME RowInv, ClosedCacheClean, [Next]_vars,
                      NEW k \in closed', Present(cache'[k], now'), Live(cache'[k].rec)
               PROVE  cache'[k].overtaken
    BY DEF ClosedCacheClean
  <2>1. TypeInv /\ TypeOK /\ Located /\ Born /\ Known
    BY DEF RowInv, LifeInv, LagInv, TypeInv
  <2>2. now \in Nat /\ closed \subseteq Keys /\ ~Live(NoEntry.rec)
    BY <2>1 DEF TypeOK, NoEntry, Absent, Live
  <2>3. ASSUME closed' \subseteq closed, cache'[k] \in {cache[k], NoEntry}, now' \in {now, now + 1}
        PROVE  cache'[k].overtaken
    <3>1. cache'[k] = cache[k] /\ cache[k] \in Entries /\ k \in closed
      BY <2>1, <2>2, <2>3 DEF TypeOK
    <3>2. Present(cache[k], now)
      BY <2>2, <2>3, <3>1 DEF Present, Entries
    <3> QED
      BY <3>1, <3>2 DEF ClosedCacheClean
  <2>4. ASSUME NEW a \in Admins, Bust(a)
        PROVE  cache'[k].overtaken
    <3>1. admin[a].key \in Keys /\ cache' = [cache EXCEPT ![admin[a].key] = NoEntry] /\ now' = now
      BY <2>1, <2>4 DEF Bust, Located
    <3>2. k # admin[a].key
      BY <2>1, <2>2, <3>1 DEF TypeOK
    <3>3. k \in closed
      BY <2>4, <3>2 DEF Bust
    <3>4. cache'[k] = cache[k]
      BY <2>1, <2>2, <3>1, <3>2, <3>3 DEF TypeOK
    <3> QED
      BY <3>1, <3>3, <3>4 DEF ClosedCacheClean
  <2>5. ASSUME NEW v \in Verifiers, Fill(v)
        PROVE  cache'[k].overtaken
    <3> DEFINE j == verifier[v].key
               entry == [rec |-> verifier[v].rec, until |-> now + TTL,
                         overtaken |-> verifier[v].rec # db[j]]
    <3>1. /\ j \in Keys /\ cache' = [cache EXCEPT ![j] = entry] /\ now' = now /\ closed' = closed
      BY <2>1, <2>5 DEF Fill, Located, history
    <3>2. CASE k = j
      <4>1. /\ cache'[k].rec = verifier[v].rec
            /\ cache'[k].overtaken = (verifier[v].rec # db[j])
        BY <2>1, <3>1, <3>2 DEF TypeOK
      <4>2. ~Live(db[j])
        BY <2>1, <3>1, <3>2 DEF Known
      <4> QED
        BY <4>1, <4>2, Zenon
    <3>3. CASE k # j
      <4>1. cache'[k] = cache[k]
        BY <2>1, <2>2, <3>1, <3>3 DEF TypeOK
      <4> QED
        BY <2>3, <3>1, <4>1
    <3> QED
      BY <3>2, <3>3
  <2>6. CASE Tick
    BY <2>2, <2>3, <2>6 DEF Tick
  <2>7. ASSUME UNCHANGED <<now, cache>>, closed' \subseteq closed
        PROVE  cache'[k].overtaken
    BY <2>3, <2>7
  <2>8. CASE \E j \in Keys : Evict(j)
    BY <2>1, <2>2, <2>3, <2>8 DEF Evict, history, TypeOK
  <2>9. CASE \/ \E j \in Keys, row \in Rows : OwnerWrite(j, row)
             \/ \E a \in Admins, new \in Keys : RotateCommit(a, new)
             \/ removeExpiredRotation
    BY <2>7, <2>9 DEF OwnerWrite, Write, RotateCommit, removeExpiredRotation
  <2>10. CASE \/ \E a \in Admins, j \in Keys, grace \in GracePeriods : RotateRead(a, j, grace)
              \/ \E a \in Admins : RotateConflict(a) \/ HandlerFails(a)
              \/ \E v \in Verifiers, j \in Keys : Get(v, j)
              \/ \E v \in Verifiers : Lookup(v) \/ validateRecord(v) \/ VerifyRejects(v)
              \/ UNCHANGED vars
    BY <2>7, <2>10 DEF RotateRead, RotateConflict, HandlerFails, Get, Lookup, validateRecord,
                       VerifyRejects, vars, history
  <2> QED
    BY <2>1, <2>4, <2>5, <2>6, <2>8, <2>9, <2>10, RowKinds DEF Bystander, VerifierStep
<1> QED
  BY RowInvariant, <1>1, <1>2, PTL DEF Spec

-----------------------------------------------------------------------------
(* Rotations in flight. *)

\* A rotation that is waiting for its transaction is young, and what it has read is the
\* row's, or the row was written since.
Rotating ==
  \A a \in Admins :
    admin[a].pc = "rotate" =>
      /\ admin[a].started <= now /\ now <= admin[a].started + MaxStall
      /\ admin[a].rec.grant # db[admin[a].key].grant
           => admin[a].started <= writtenAt[admin[a].key]

\* Who enters, stays in or leaves a rotation.
LEMMA AdminKinds ==
  ASSUME TypeOK, [Next]_vars, NEW a \in Admins, admin'[a].pc = "rotate"
  PROVE  \/ admin'[a] = admin[a]
         \/ \E k \in Keys, grace \in GracePeriods : RotateRead(a, k, grace)
<1>1. ASSUME NEW b \in Admins, NEW call, admin' = [admin EXCEPT ![b] = call], call.pc # "rotate"
      PROVE  admin'[a] = admin[a]
  BY <1>1 DEF TypeOK
<1>2. ASSUME NEW b \in Admins, NEW k, NEW c, OwesBust(b, k, c)
      PROVE  admin'[a] = admin[a]
  BY <1>1, <1>2 DEF OwesBust
<1>3. ASSUME NEW b \in Admins, Return(b)
      PROVE  admin'[a] = admin[a]
  BY <1>1, <1>3 DEF Return, NoCall
<1>4. ASSUME NEW b \in Admins, NEW k \in Keys, NEW grace \in GracePeriods, RotateRead(b, k, grace)
      PROVE  \/ admin'[a] = admin[a]
             \/ RotateRead(a, k, grace)
  BY <1>4 DEF RotateRead, TypeOK
<1>5. ASSUME \/ \E b \in Admins, k \in Keys, s \in Statuses : updateApiKeyStatus(b, k, s)
             \/ \E b \in Admins, k \in Keys : rovokeApikey(b, k) \/ deleteApiKey(b, k)
             \/ \E b \in Admins, new \in Keys : RotateCommit(b, new)
      PROVE  admin'[a] = admin[a]
  BY <1>2, <1>5 DEF updateApiKeyStatus, rovokeApikey, deleteApiKey, RotateCommit
<1>6. ASSUME NEW b \in Admins, Bust(b) \/ RotateConflict(b) \/ HandlerFails(b)
      PROVE  admin'[a] = admin[a]
  BY <1>3, <1>6 DEF Bust, RotateConflict, HandlerFails
<1>7. ASSUME \/ \E k \in Keys, e \in Expiries \cup {None}, g \in Grants : createApiKey(k, e, g)
             \/ \E k \in Keys, g \in Grants : \E e \in Expiries \cup {db[k].expiresAt} :
                  updateApikey(k, e, g)
             \/ \E v \in Verifiers, k \in Keys : Get(v, k)
             \/ \E v \in Verifiers : VerifierStep(v) \/ VerifyRejects(v)
             \/ removeExpiredRotation
             \/ \E k \in Keys : Evict(k)
             \/ Tick
             \/ UNCHANGED vars
      PROVE  admin'[a] = admin[a]
  BY <1>7 DEF createApiKey, updateApikey, Get, VerifierStep, Lookup, Fill, validateRecord,
              VerifyRejects, removeExpiredRotation, Evict, Tick, vars
<1> QED
  BY <1>4, <1>5, <1>6, <1>7 DEF Next, AdminStep

\* The clock moves in Tick only, and not while it would make a handler too old.
LEMMA ClockKinds ==
  ASSUME [Next]_vars
  PROVE  \/ now' = now
         \/ Tick
BY DEF Next, createApiKey, updateApikey, updateApiKeyStatus, rovokeApikey, deleteApiKey,
       RotateRead, AdminStep, Bust, RotateCommit, RotateConflict, HandlerFails, Get, VerifierStep,
       Lookup, Fill, validateRecord, VerifyRejects, removeExpiredRotation, Evict, vars

\* A row keeps its grant, or it is written now.
LEMMA GrantStamped ==
  ASSUME LagInv, Born, [Next]_vars, NEW k \in Keys
  PROVE  /\ writtenAt[k] \in Nat /\ writtenAt[k] <= now /\ now \in Nat
         /\ \/ db'[k].grant = db[k].grant /\ writtenAt'[k] = writtenAt[k]
            \/ writtenAt'[k] = now
<1>1. TypeInv /\ TypeOK /\ Clocks
  BY DEF LagInv, TypeInv, AgeInv
<1>2. writtenAt[k] \in Nat /\ writtenAt[k] <= now /\ now \in Nat
  BY <1>1 DEF TypeOK, Clocks
<1>3. ASSUME NEW j \in Keys, NEW row \in Rows, OwnerWrite(j, row)
      PROVE  \/ db'[k].grant = db[k].grant /\ writtenAt'[k] = writtenAt[k]
             \/ writtenAt'[k] = now
  BY <1>1, <1>3, OwnerRows
<1>4. ASSUME NEW a \in Admins, NEW new \in Keys, RotateCommit(a, new)
      PROVE  \/ db'[k].grant = db[k].grant /\ writtenAt'[k] = writtenAt[k]
             \/ writtenAt'[k] = now
  <2>1. Replaced(a, admin[a].key, new)
    BY <1>1, <1>4, RotateRows
  <2>2. writtenAt' = [writtenAt EXCEPT ![admin[a].key] = now, ![new] = now]
    BY <1>4 DEF RotateCommit
  <2>3. writtenAt'[k] = IF k \in {admin[a].key, new} THEN now ELSE writtenAt[k]
    BY <1>1, <2>2 DEF TypeOK
  <2> QED
    BY <2>1, <2>3 DEF Replaced
<1> QED
  BY <1>1, <1>2, <1>3, <1>4, RowKinds, CronRows, BystanderStays DEF RowsStay

\* Every action keeps Rotating.
LEMMA RotatingStep == LifeInv /\ Rotating /\ [Next]_vars => Rotating'
<1> SUFFICES ASSUME LifeInv, Rotating, [Next]_vars, NEW a \in Admins, admin'[a].pc = "rotate"
             PROVE  /\ admin'[a].started <= now' /\ now' <= admin'[a].started + MaxStall
                    /\ admin'[a].rec.grant # db'[admin'[a].key].grant
                         => admin'[a].started <= writtenAt'[admin'[a].key]
  BY DEF Rotating
<1>1. LagInv /\ TypeOK /\ Located /\ Born /\ now \in Nat
  BY DEF LifeInv, LagInv, TypeInv, TypeOK
<1>2. CASE admin'[a] = admin[a]
  <2>1. /\ admin[a].pc = "rotate" /\ admin[a].key \in Keys /\ admin[a].started \in Nat
        /\ admin[a].started <= now
    BY <1>1, <1>2 DEF Located, TypeOK, AdminStates, Rotating
  <2>2. now <= now' /\ now' <= admin[a].started + MaxStall
    <3>1. CASE now' = now
      BY <1>1, <2>1, <3>1 DEF Rotating
    <3>2. CASE Tick
      <4>1. admin[a].started \in InFlight
        BY <2>1 DEF InFlight
      <4> QED
        BY <1>1, <2>1, <3>2, <4>1, TimesAssumption DEF Tick
    <3> QED
      BY <3>1, <3>2, ClockKinds
  <2>3. admin[a].rec.grant # db'[admin[a].key].grant => admin[a].started <= writtenAt'[admin[a].key]
    <3> DEFINE k == admin[a].key
    <3>1. \/ db'[k].grant = db[k].grant /\ writtenAt'[k] = writtenAt[k]
          \/ writtenAt'[k] = now
      BY <1>1, <2>1, GrantStamped
    <3> QED
      BY <1>1, <2>1, <3>1 DEF Rotating
  <2>4. now' \in Nat
    BY <1>1, ClockKinds DEF Tick
  <2> QED
    BY <1>1, <1>2, <2>1, <2>2, <2>3, <2>4
<1>3. CASE \E k \in Keys, grace \in GracePeriods : RotateRead(a, k, grace)
  <2>1. PICK k \in Keys, grace \in GracePeriods : RotateRead(a, k, grace)
    BY <1>3
  <2>2. /\ admin'[a].started = now /\ admin'[a].rec = db[k] /\ admin'[a].key = k
        /\ now' = now /\ db' = db
    BY <1>1, <2>1 DEF RotateRead, TypeOK
  <2> QED
    BY <1>1, <2>2, TimesAssumption
<1> QED
  BY <1>1, <1>2, <1>3, AdminKinds

\* A rotation under way finds its key as it must, in every reachable state.
LEMMA RotatingInvariant == Spec => []Rotating
<1>1. Init => Rotating
  BY DEF Init, Rotating, NoCall
<1> QED
  BY <1>1, RotatingStep, LifeInvariant, PTL DEF Spec

\* A new key differs from the old one by updates that were made while it was rotated.
THEOREM HeirIsRecent == Spec => HeirMissesOnlyRecentUpdates
<1>1. LifeInv /\ Rotating /\ [Next]_vars
        => [\A k \in Keys :
              parent'[k] # parent[k] /\ db'[k].grant # db[parent'[k]].grant
                => now <= writtenAt[parent'[k]] + MaxStall]_vars
  <2> SUFFICES ASSUME LifeInv, Rotating, [Next]_vars, NEW k \in Keys, parent'[k] # parent[k],
                      db'[k].grant # db[parent'[k]].grant
               PROVE  now <= writtenAt[parent'[k]] + MaxStall
    OBVIOUS
  <2>1. TypeInv /\ TypeOK /\ Born
    BY DEF LifeInv, LagInv, TypeInv
  <2>2. PICK a \in Admins, new \in Keys : RotateCommit(a, new)
    BY <2>1, RowKinds, BystanderStays DEF OwnerWrite, RowsStay, removeExpiredRotation
  <2>3. Replaced(a, admin[a].key, new) /\ admin[a].pc = "rotate"
    BY <2>1, <2>2, RotateRows DEF RotateCommit
  <2>4. /\ parent'[k] = admin[a].key /\ admin[a].key \in Keys
        /\ admin[a].rec.grant # db[admin[a].key].grant
    BY <2>3 DEF Replaced
  <2>5. /\ admin[a].started <= writtenAt[admin[a].key]
        /\ now <= admin[a].started + MaxStall
    BY <2>3, <2>4 DEF Rotating
  <2>6. now \in Nat /\ admin[a].started \in Nat /\ writtenAt[admin[a].key] \in Nat
    BY <2>1, <2>4 DEF TypeOK, AdminStates
  <2> QED
    BY <2>4, <2>5, <2>6, TimesAssumption
<1> QED
  BY LifeInvariant, RotatingInvariant, <1>1, PTL DEF Spec, HeirMissesOnlyRecentUpdates

-----------------------------------------------------------------------------
(* Grace periods. *)

\* A grace period is longer than a rotation may wait for its transaction and a record may
\* lag behind.
LongGrace == \A grace \in GracePeriods : MaxLag + MaxStall <= grace

\* A record without its key's rotation date is of before the rotation, and gone before that
\* date: the request that has it read or will end by then.
GraceInv ==
  /\ \A a \in Admins :
       admin[a].pc = "rotate" => admin[a].started + MaxLag + MaxStall <= admin[a].revokeAt
  /\ \A k \in Keys :
       Present(cache[k], now) /\ db[k].rotateAt # None /\ cache[k].rec.rotateAt # db[k].rotateAt
         => cache[k].until + MaxStall <= db[k].rotateAt
  /\ \A v \in Verifiers :
       verifier[v].pc \in {"fill", "validate"} =>
         LET k == verifier[v].key IN
         db[k].rotateAt # None /\ verifier[v].rec.rotateAt # db[k].rotateAt
           => /\ verifier[v].pc = "fill" => verifier[v].started + MaxLag <= db[k].rotateAt
              /\ verifier[v].pc = "validate" => verifier[v].started + MaxStall <= db[k].rotateAt

\* A rotation whose transaction commits now ends when every present record is gone.
LEMMA RevokesLate ==
  ASSUME LongGrace, LifeInv, Rotating, GraceInv, [Next]_vars,
         NEW a \in Admins, admin'[a].pc = "rotate"
  PROVE  admin'[a].started + MaxLag + MaxStall <= admin'[a].revokeAt
<1>1. TypeOK /\ now \in Nat
  BY DEF LifeInv, LagInv, TypeInv, TypeOK
<1>2. CASE admin'[a] = admin[a]
  BY <1>2 DEF GraceInv
<1>3. CASE \E k \in Keys, grace \in GracePeriods : RotateRead(a, k, grace)
  <2>1. PICK k \in Keys, grace \in GracePeriods : RotateRead(a, k, grace)
    BY <1>3
  <2>2. admin'[a].started = now /\ admin'[a].revokeAt = now + grace
    BY <1>1, <2>1 DEF RotateRead, TypeOK
  <2>3. grace \in Nat /\ MaxLag \in Nat /\ MaxLag + MaxStall <= grace
    BY TimesAssumption DEF LongGrace, MaxLag
  <2> QED
    BY <1>1, <2>2, <2>3, TimesAssumption
<1> QED
  BY <1>1, <1>2, <1>3, AdminKinds

\* A rotation date moves only by a rotation, and then to one that no lagging record reaches.
LEMMA DatesMove ==
  ASSUME LifeInv, Rotating, GraceInv, [Next]_vars, NEW k \in Keys
  PROVE  \/ db'[k].rotateAt \in {db[k].rotateAt, None}
         \/ now + MaxLag <= db'[k].rotateAt
<1>1. TypeInv /\ TypeOK /\ Born
  BY DEF LifeInv, LagInv, TypeInv
<1>2. ASSUME NEW a \in Admins, NEW new \in Keys, RotateCommit(a, new)
      PROVE  \/ db'[k].rotateAt \in {db[k].rotateAt, None}
             \/ now + MaxLag <= db'[k].rotateAt
  <2>1. Replaced(a, admin[a].key, new) /\ admin[a].pc = "rotate"
    BY <1>1, <1>2, RotateRows DEF RotateCommit
  <2>2. /\ admin[a].started + MaxLag + MaxStall <= admin[a].revokeAt
        /\ now <= admin[a].started + MaxStall
    BY <2>1 DEF GraceInv, Rotating
  <2>3. /\ admin[a].started \in Nat /\ admin[a].revokeAt \in Nat /\ now \in Nat /\ MaxLag \in Nat
    BY <1>1, TimesAssumption DEF TypeOK, AdminStates, MaxLag
  <2>4. now + MaxLag <= admin[a].revokeAt
    BY <2>2, <2>3, TimesAssumption
  <2> QED
    BY <2>1, <2>4 DEF Replaced
<1>3. ASSUME NEW j \in Keys, NEW row \in Rows, OwnerWrite(j, row)
      PROVE  db'[k].rotateAt \in {db[k].rotateAt, None}
  <2>1. db'[k] = (IF k = j THEN row ELSE db[k])
    BY <1>1, <1>3, OwnerRows
  <2>2. Absent.rotateAt = None
    BY DEF Absent
  <2> QED
    BY <1>3, <2>1, <2>2 DEF OwnerWrite
<1> QED
  BY <1>1, <1>2, <1>3, RowKinds, CronRows, BystanderStays DEF RowsStay

\* With grace periods longer than the lag, every action keeps the grace of a rotated key.
LEMMA GraceStep ==
  ASSUME LongGrace, LifeInv, Rotating, GraceInv, [Next]_vars
  PROVE  GraceInv'
<1> USE TimesAssumption
<1>1. LagInv /\ TypeInv /\ TypeOK /\ Located /\ Born /\ now \in Nat /\ MaxLag \in Nat
  BY DEF LifeInv, LagInv, TypeInv, TypeOK, MaxLag
<1>dates. \A k \in Keys : db[k].rotateAt \in Nat \cup {None} /\ db'[k].rotateAt \in Nat \cup {None}
  <2>1. TypeOK'
    BY <1>1, TypeStep DEF TypeInv
  <2> QED
    BY <1>1, <2>1 DEF TypeOK, Rows, Deadlines
<1>cache. \A k \in Keys : /\ cache[k] \in Entries /\ cache[k].until \in Nat
                          /\ cache[k].until <= now + TTL
  BY <1>1 DEF LagInv, AgeInv, EntryTTL, TypeOK, Entries
<1>ver. \A v \in Verifiers : /\ verifier[v] \in VerifierStates /\ verifier[v].started \in Nat
                             /\ verifier[v].pc \in {"lookup", "fill", "validate"}
                                  => /\ verifier[v].key \in Keys
                                     /\ verifier[v].started <= now
                                     /\ now <= verifier[v].started + MaxStall
  BY <1>1 DEF LagInv, AgeInv, Clocks, InFlightAt, TypeOK, VerifierStates, Located
<1>2. \A a \in Admins :
        admin'[a].pc = "rotate" => admin'[a].started + MaxLag + MaxStall <= admin'[a].revokeAt
  BY RevokesLate
<1>3. ASSUME NEW k \in Keys, Present(cache'[k], now'), db'[k].rotateAt # None,
             cache'[k].rec.rotateAt # db'[k].rotateAt
      PROVE  cache'[k].until + MaxStall <= db'[k].rotateAt
  <2>1. ASSUME UNCHANGED <<now, cache>>
        PROVE  cache'[k].until + MaxStall <= db'[k].rotateAt
    <3>1. CASE db'[k].rotateAt = db[k].rotateAt
      BY <1>3, <2>1, <3>1 DEF GraceInv
    <3>2. CASE now + MaxLag <= db'[k].rotateAt
      BY <1>1, <1>3, <1>cache, <1>dates, <2>1, <3>2 DEF MaxLag
    <3> QED
      BY <1>3, <3>1, <3>2, DatesMove
  <2>2. ASSUME db' = db, cache'[k] = cache[k], now' \in {now, now + 1}
        PROVE  cache'[k].until + MaxStall <= db'[k].rotateAt
    <3>1. Present(cache[k], now)
      BY <1>1, <1>3, <1>cache, <2>2 DEF Present
    <3> QED
      BY <1>3, <2>2, <3>1 DEF GraceInv
  <2>3. cache'[k] # NoEntry
    BY <1>1, <1>3, ClockKinds DEF Present, NoEntry, Tick
  <2>4. ASSUME NEW v \in Verifiers, Fill(v)
        PROVE  cache'[k].until + MaxStall <= db'[k].rotateAt
    <3> DEFINE j == verifier[v].key
    <3>1. /\ j \in Keys /\ verifier[v].pc = "fill" /\ db' = db /\ now' = now
          /\ verifier[v].started <= now /\ now <= verifier[v].started + MaxStall
      BY <1>ver, <2>4 DEF Fill, history
    <3>2. CASE k = j
      <4>1. cache'[k].rec = verifier[v].rec /\ cache'[k].until = now + TTL
        BY <1>1, <2>4, <3>2 DEF Fill, TypeOK
      <4>2. verifier[v].started + MaxLag <= db[k].rotateAt
        BY <1>3, <3>1, <3>2, <4>1 DEF GraceInv
      <4> QED
        BY <1>1, <1>3, <1>dates, <1>ver, <3>1, <4>1, <4>2 DEF MaxLag
    <3>3. CASE k # j
      BY <1>1, <2>2, <2>4, <3>1, <3>3 DEF Fill, TypeOK
    <3> QED
      BY <3>2, <3>3
  <2>5. CASE Tick \/ (\E a \in Admins : Bust(a)) \/ (\E j \in Keys : Evict(j))
    <3>1. cache'[k] = cache[k] /\ db' = db /\ now' \in {now, now + 1}
      BY <1>1, <2>3, <2>5 DEF Tick, Bust, Evict, history, TypeOK
    <3> QED
      BY <2>2, <3>1
  <2>6. CASE \/ \E j \in Keys, row \in Rows : OwnerWrite(j, row)
             \/ \E a \in Admins, new \in Keys : RotateCommit(a, new)
             \/ removeExpiredRotation
    BY <2>1, <2>6 DEF OwnerWrite, RotateCommit, removeExpiredRotation
  <2>7. CASE \/ \E a \in Admins, j \in Keys, grace \in GracePeriods : RotateRead(a, j, grace)
             \/ \E a \in Admins : RotateConflict(a) \/ HandlerFails(a)
             \/ \E v \in Verifiers, j \in Keys : Get(v, j)
             \/ \E v \in Verifiers : Lookup(v) \/ validateRecord(v) \/ VerifyRejects(v)
             \/ UNCHANGED vars
    BY <2>1, <2>7 DEF RotateRead, RotateConflict, HandlerFails, Get, Lookup, validateRecord,
                      VerifyRejects, vars
  <2> QED
    BY <1>1, <2>4, <2>5, <2>6, <2>7, RowKinds DEF Bystander, VerifierStep
<1>4. ASSUME NEW v \in Verifiers, verifier'[v].pc \in {"fill", "validate"}, NEW k \in Keys,
             k = verifier'[v].key,
             db'[k].rotateAt # None, verifier'[v].rec.rotateAt # db'[k].rotateAt
      PROVE  /\ verifier'[v].pc = "fill" => verifier'[v].started + MaxLag <= db'[k].rotateAt
             /\ verifier'[v].pc = "validate" => verifier'[v].started + MaxStall <= db'[k].rotateAt
  <2>1. ASSUME verifier'[v] = verifier[v]
        PROVE  /\ verifier[v].pc = "fill" => verifier[v].started + MaxLag <= db'[k].rotateAt
               /\ verifier[v].pc = "validate" => verifier[v].started + MaxStall <= db'[k].rotateAt
    <3>1. CASE db'[k].rotateAt = db[k].rotateAt
      BY <1>4, <2>1, <3>1 DEF GraceInv
    <3>2. CASE now + MaxLag <= db'[k].rotateAt
      BY <1>1, <1>4, <1>ver, <1>dates, <2>1, <3>2 DEF MaxLag
    <3> QED
      BY <1>4, <3>1, <3>2, DatesMove
  <2>2. ASSUME NEW j \in Keys, Get(v, j)
        PROVE  verifier'[v].pc = "validate" /\ verifier'[v].started + MaxStall <= db'[k].rotateAt
    <3>1. /\ verifier'[v].pc = "validate" /\ Present(cache[k], now) /\ j = k
          /\ verifier'[v].rec = cache[k].rec /\ verifier'[v].started = now
      BY <1>1, <1>4, <2>2 DEF Get, TypeOK
    <3>2. db' = db /\ now < cache[k].until
      BY <2>2, <3>1 DEF Get, Present
    <3>3. cache[k].until + MaxStall <= db[k].rotateAt
      BY <1>4, <3>1, <3>2 DEF GraceInv
    <3> QED
      BY <1>1, <1>4, <1>cache, <1>dates, <3>1, <3>2, <3>3
  <2>3. ASSUME Lookup(v)
        PROVE  FALSE
    <3>1. CASE db[verifier[v].key] = Absent
      BY <1>1, <1>4, <2>3, <3>1 DEF Lookup, Reject, NoRequest, TypeOK
    <3>2. CASE db[verifier[v].key] # Absent
      <4>1. verifier'[v].key = verifier[v].key /\ verifier'[v].rec = db[verifier[v].key] /\ db' = db
        BY <1>1, <2>3, <3>2 DEF Lookup, TypeOK, VerifierStates
      <4> QED
        BY <1>4, <4>1
    <3> QED
      BY <3>1, <3>2
  <2>4. ASSUME Fill(v)
        PROVE  verifier'[v].pc = "validate" /\ verifier'[v].started + MaxStall <= db'[k].rotateAt
    <3>1. /\ verifier[v].pc = "fill" /\ verifier'[v].pc = "validate" /\ db' = db
          /\ verifier'[v].key = verifier[v].key /\ verifier'[v].rec = verifier[v].rec
          /\ verifier'[v].started = verifier[v].started
      BY <1>1, <2>4 DEF Fill, TypeOK, VerifierStates
    <3>2. verifier[v].started + MaxLag <= db[k].rotateAt
      BY <1>4, <3>1 DEF GraceInv
    <3> QED
      BY <1>4, <1>ver, <1>dates, <3>1, <3>2 DEF MaxLag
  <2>5. ASSUME validateRecord(v) \/ VerifyRejects(v)
        PROVE  FALSE
    BY <1>1, <1>4, <2>5 DEF validateRecord, VerifyRejects, Reject, NoRequest, Allowed, TypeOK
  <2>6. CASE \E u \in Verifiers \ {v} :
               (\E j \in Keys : Get(u, j)) \/ VerifierStep(u) \/ VerifyRejects(u)
    <3>1. verifier'[v] = verifier[v]
      BY <1>1, <2>6 DEF Get, VerifierStep, Lookup, Fill, validateRecord, VerifyRejects, Reject, TypeOK
    <3> QED
      BY <2>1, <3>1
  <2>7. CASE \/ \E j \in Keys, row \in Rows : OwnerWrite(j, row)
             \/ \E a \in Admins, new \in Keys : RotateCommit(a, new)
             \/ removeExpiredRotation
             \/ \E a \in Admins, j \in Keys, grace \in GracePeriods : RotateRead(a, j, grace)
             \/ \E a \in Admins : Bust(a) \/ RotateConflict(a) \/ HandlerFails(a)
             \/ \E j \in Keys : Evict(j)
             \/ Tick
             \/ UNCHANGED vars
    <3>1. verifier' = verifier
      BY <2>7 DEF OwnerWrite, RotateCommit, removeExpiredRotation, RotateRead, Bust,
                  RotateConflict, HandlerFails, Evict, Tick, vars
    <3> QED
      BY <2>1, <3>1
  <2> QED
    BY <1>1, <2>2, <2>3, <2>4, <2>5, <2>6, <2>7, RowKinds DEF Bystander, VerifierStep
<1>5. \A v \in Verifiers : verifier'[v].pc \in {"fill", "validate"} => verifier'[v].key \in Keys
  BY <1>1, TypeStep DEF TypeInv, Located
<1> QED
  BY <1>2, <1>3, <1>4, <1>5 DEF GraceInv

\* When every grace period is long enough, a rotated key is not accepted after its own.
THEOREM GracePeriodHonoured == ASSUME LongGrace PROVE Spec => GraceHonoured
<1>1. Init => GraceInv
  BY DEF Init, GraceInv, NoCall, NoRequest, NoEntry, Present, Absent
<1>2. LifeInv /\ Rotating /\ GraceInv /\ [Next]_vars => GraceInv'
  BY GraceStep
<1>3. LifeInv /\ GraceInv /\ [Next]_vars
        => [\A v \in Verifiers : Accepts(v) => ~Passed(db[verifier[v].key].rotateAt, now)]_vars
  <2> SUFFICES ASSUME LifeInv, GraceInv, [Next]_vars, NEW v \in Verifiers, Accepts(v),
                      Passed(db[verifier[v].key].rotateAt, now)
               PROVE  FALSE
    OBVIOUS
  <2> DEFINE k == verifier[v].key
  <2>1. LagInv /\ TypeInv /\ TypeOK /\ Located /\ now \in Nat
    BY DEF LifeInv, LagInv, TypeInv, TypeOK
  <2>2. Usable(verifier[v].rec, now) /\ verifier[v].pc = "validate"
    BY <2>1, OnlyValidated DEF Accepts
  <2>3. /\ verifier[v].pc = "validate" /\ k \in Keys
        /\ ~Passed(verifier[v].rec.rotateAt, now)
    BY <2>1, <2>2 DEF Usable, Located
  <2>4. db[k].rotateAt \in Nat /\ db[k].rotateAt # None /\ now > db[k].rotateAt
    BY <2>1, <2>3 DEF Passed, TypeOK, Rows, Deadlines
  <2>5. verifier[v].started + MaxStall <= db[k].rotateAt
    BY <2>3, <2>4 DEF GraceInv, Passed
  <2>6. verifier[v].started \in Nat /\ now <= verifier[v].started + MaxStall
    BY <2>1, <2>3 DEF LagInv, AgeInv, Clocks, InFlightAt, TypeOK, VerifierStates
  <2> QED
    BY <2>1, <2>4, <2>5, <2>6, TimesAssumption
<1> QED
  BY LifeInvariant, RotatingInvariant, <1>1, <1>2, <1>3, PTL DEF Spec, GraceHonoured

-----------------------------------------------------------------------------
(* What KeyLife sees of a step. *)

\* The three lives of a row.
LEMMA LifeKinds ==
  ASSUME NEW row, NEW t
  PROVE  /\ LifeOf(row, t) \in {"gone", "good", "bad"}
         /\ LifeOf(row, t) = "gone" <=> row = Absent
         /\ LifeOf(row, t) = "good" <=> Usable(row, t)
<1>1. ~Usable(Absent, t)
  BY DEF Usable, Live, Absent
<1> QED
  BY <1>1 DEF LifeOf

\* The life of a key, read off its row and whether it was issued.
LEMMA LifeOfKey ==
  ASSUME Born, NEW k \in Keys
  PROVE  /\ KeyLives[k] = "unborn" <=> k \notin issued
         /\ KeyLives[k] = "gone" <=> k \in issued /\ db[k] = Absent
         /\ KeyLives[k] = "good" <=> Usable(db[k], now)
         /\ KeyLives[k] \in Abstract!Lives
<1>1. k \notin issued => ~Usable(db[k], now)
  BY DEF Born, Usable, Live, Absent
<1> QED
  BY <1>1, LifeKinds DEF KeyLives, Abstract!Lives

\* The same for the next state: a key is good just when its new row can be used.
LEMMA LivesNext == Born' => \A k \in Keys : KeyLives'[k] = "good" <=> Usable(db'[k], now')
<1> SUFFICES ASSUME Born', NEW k \in Keys
             PROVE  KeyLives'[k] = "good" <=> Usable(db'[k], now')
  OBVIOUS
<1>1. k \notin issued' => ~Usable(db'[k], now')
  BY DEF Born, Usable, Live, Absent
<1> QED
  BY <1>1, LifeKinds DEF KeyLives

\* Steps that set lastUsable by UsableAt are remembered.
LEMMA Remembered ==
  ASSUME Born', lastUsable' = UsableAt(db', now')
  PROVE  Abstract!Remember
BY LivesNext DEF UsableAt, Abstract!Remember

\* One row of an issued key is written.
LEMMA WriteLife ==
  ASSUME TypeOK, Born', NEW k \in Keys, NEW row \in Rows, Write(k, row),
         issued' = issued \cup {k}, UNCHANGED <<now, verifier>>
  PROVE  /\ KeyLives' = [KeyLives EXCEPT ![k] = LifeOf(row, now)]
         /\ Abstract!Remember
         /\ UNCHANGED <<now, Questions, Answers>>
<1>1. \A j \in Keys : db'[j] = IF j = k THEN row ELSE db[j]
  BY DEF Write, TypeOK
<1>2. KeyLives' = [KeyLives EXCEPT ![k] = LifeOf(row, now)]
  BY <1>1 DEF KeyLives
<1>3. lastUsable' = UsableAt(db', now')
  BY DEF Write
<1>4. Abstract!Remember
  BY <1>3, Remembered
<1> QED
  BY <1>2, <1>4 DEF Questions, Answers

\* A write to a row that is there is the owner's.
LEMMA ManageLife ==
  ASSUME TypeOK, Born, Born', NEW k \in Keys, NEW row \in Rows, Write(k, row), Found(k),
         UNCHANGED <<now, verifier, issued>>
  PROVE  Abstract!Next
<1> DEFINE l == LifeOf(row, now)
<1>1. k \in issued /\ issued' = issued \cup {k}
  BY DEF Found, Born
<1>2. /\ KeyLives' = [KeyLives EXCEPT ![k] = l]
      /\ Abstract!Remember /\ UNCHANGED <<now, Questions, Answers>>
  BY <1>1, WriteLife
<1>3. Abstract!Held(k)
  BY <1>1, LifeOfKey DEF Found, Abstract!Held, Abstract!Lives
<1>4. l \in {"good", "bad", "gone"} /\ l \in Abstract!Lives
  BY LifeKinds DEF Abstract!Lives
<1> HIDE DEF l
<1>5. Abstract!Manage(k, l)
  BY <1>2, <1>3, <1>4 DEF Abstract!Manage
<1> QED
  BY <1>4, <1>5 DEF Abstract!Next

\* A request is answered with no.
LEMMA RefuseLife ==
  ASSUME TypeInv, NEW v \in Verifiers, verifier[v].pc \in {"lookup", "fill", "validate"},
         Reject(v), UNCHANGED <<now, db, issued, lastUsable>>
  PROVE  Abstract!Next
<1>1. verifier[v].key \in Keys /\ verifier[v].key # None
  BY NoneAssumption DEF TypeInv, Located
<1>2. \A u \in Verifiers : verifier'[u] = IF u = v THEN NoRequest ELSE verifier[u]
  BY DEF Reject, TypeInv, TypeOK
<1>3. Questions[v] # None
  BY <1>1 DEF Questions
<1>4. Questions' = [Questions EXCEPT ![v] = None]
  <2>1. NoRequest.pc = "idle"
    BY DEF NoRequest
  <2>2. Questions' = [u \in Verifiers |-> IF u = v THEN None ELSE Questions[u]]
    BY <1>2, <2>1 DEF Questions
  <2> QED
    BY <2>2 DEF Questions
<1>5. Answers' = Answers
  BY <1>2 DEF Answers, NoRequest
<1>6. KeyLives' = KeyLives
  BY DEF KeyLives
<1>7. Abstract!Refuse(v)
  BY <1>3, <1>4, <1>5, <1>6 DEF Abstract!Refuse
<1> QED
  BY <1>7 DEF Abstract!Next

-----------------------------------------------------------------------------
(* Every step is one of KeyLife. *)

\* Nothing that KeyLife sees has changed.
LEMMA Unseen ==
  ASSUME UNCHANGED <<now, db, issued, lastUsable>>,
         \A v \in Verifiers :
           \/ verifier'[v] = verifier[v]
           \/ /\ verifier[v].pc \in {"lookup", "fill"} /\ verifier'[v].pc \in {"fill", "validate"}
              /\ verifier'[v].key = verifier[v].key
  PROVE  UNCHANGED Abstract!vars
<1>1. KeyLives' = KeyLives
  BY DEF KeyLives
<1>2. Questions' = Questions
  BY DEF Questions
<1>3. Answers' = Answers
  BY DEF Answers
<1> QED
  BY <1>1, <1>2, <1>3 DEF Abstract!vars

\* The cron changes rows, and no key's life: what it ends was over.
LEMMA CronLife ==
  ASSUME TypeOK, removeExpiredRotation
  PROVE  UNCHANGED Abstract!vars
<1>1. ASSUME NEW k \in Keys
      PROVE  LifeOf(db'[k], now) = LifeOf(db[k], now)
  <2>1. CASE ~RotationExpired(db[k])
    BY <2>1 DEF removeExpiredRotation
  <2>2. CASE RotationExpired(db[k])
    <3>1. db[k] \in Rows /\ db'[k] = [db[k] EXCEPT !.status = "revoked"]
      BY <2>2 DEF removeExpiredRotation, TypeOK
    <3>2. db'[k].status = "revoked" /\ db[k].status = "rotate"
      BY <2>2, <3>1 DEF RotationExpired, Rows
    <3>3. db'[k] # Absent /\ db[k] # Absent
      BY <3>2 DEF Absent
    <3>4. db[k].rotateAt # None /\ db[k].rotateAt \in Nat /\ now \in Nat /\ db[k].rotateAt < now
      BY <2>2, <3>1 DEF RotationExpired, Rows, Deadlines, TypeOK
    <3>5. ~Usable(db[k], now)
      BY <3>4 DEF Usable, Passed
    <3>6. ~Usable(db'[k], now)
      BY <3>2 DEF Usable, Live
    <3> QED
      BY <3>3, <3>5, <3>6 DEF LifeOf
  <2> QED
    BY <2>1, <2>2
<1>2. UNCHANGED <<now, issued, lastUsable, verifier>>
  BY DEF removeExpiredRotation
<1>3. KeyLives' = KeyLives
  BY <1>1, <1>2 DEF KeyLives
<1> QED
  BY <1>2, <1>3 DEF Abstract!vars, Questions, Answers

\* The two rows of a rotation.
LEMMA RotateLife ==
  ASSUME TypeInv, Born, Born', NEW a \in Admins, NEW new \in Keys, RotateCommit(a, new)
  PROVE  Abstract!Next
<1> DEFINE k == admin[a].key
           l == LifeOf(db'[k], now)
           m == LifeOf(db'[new], now)
<1>1. k \in Keys /\ db[k].status = "active"
  BY DEF RotateCommit, StillActive, TypeInv, Located
<1>2. k \in issued /\ new \notin issued /\ issued' = issued \cup {new} /\ now' = now
  BY <1>1 DEF RotateCommit, Born, Absent
<1>3. db'[k].status = "rotate" /\ db'[new].status = "active"
      /\ \A j \in Keys \ {k, new} : db'[j] = db[j]
  <2>1. db' = [db EXCEPT ![k] = [db[k] EXCEPT !.status = "rotate", !.rotateAt = admin[a].revokeAt],
                         ![new] = [admin[a].rec EXCEPT !.status = "active", !.rotateAt = None]]
    BY DEF RotateCommit
  <2>2. db \in [Keys -> Rows] /\ admin[a].rec \in Rows /\ db[k] \in Rows
    BY <1>1 DEF TypeInv, TypeOK, AdminStates
  <2>3. \A r \in Rows : \A d :
          /\ [r EXCEPT !.status = "rotate", !.rotateAt = d].status = "rotate"
          /\ [r EXCEPT !.status = "active", !.rotateAt = d].status = "active"
    BY RotatedRows
  <2>4. k # new
    BY <1>2
  <2> HIDE DEF k
  <2> QED
    BY <1>1, <2>1, <2>2, <2>3, <2>4
<1>4. l \in {"good", "bad"} /\ m \in {"good", "bad"}
  <2>1. db'[k] # Absent /\ db'[new] # Absent
    BY <1>3 DEF Absent
  <2> QED
    BY <2>1, LifeKinds
<1>5. /\ Abstract!Held(k) /\ KeyLives[new] = "unborn"
  BY <1>1, <1>2, LifeOfKey DEF Abstract!Held, Abstract!Lives, Absent
<1>6. KeyLives' = [KeyLives EXCEPT ![k] = l, ![new] = m]
  <2> HIDE DEF k
  <2> QED
    BY <1>1, <1>2, <1>3 DEF KeyLives
<1>7. Abstract!Remember
  BY <1>2, Remembered DEF RotateCommit
<1>8. UNCHANGED <<now, Questions, Answers>>
  BY DEF RotateCommit, Questions, Answers
<1> HIDE DEF k, l, m
<1>9. Abstract!Rotate(k, new, l, m)
  BY <1>4, <1>5, <1>6, <1>7, <1>8 DEF Abstract!Rotate
<1> QED
  BY <1>1, <1>4, <1>9 DEF Abstract!Next, Abstract!Lives

\* Deadlines only pass.
LEMMA TickLife ==
  ASSUME TypeOK, Born, Born', Tick
  PROVE  Abstract!Next
<1>1. now \in Nat /\ now' = now + 1 /\ UNCHANGED <<db, verifier, issued>>
  BY DEF Tick, TypeOK
<1>2. ASSUME NEW k \in Keys
      PROVE  KeyLives'[k] = KeyLives[k] \/ (KeyLives[k] = "good" /\ KeyLives'[k] = "bad")
  <2>1. db[k] \in Rows
    BY DEF TypeOK
  <2>2. Usable(db[k], now + 1) => Usable(db[k], now)
    BY <1>1, <2>1, UsableBefore
  <2>3. KeyLives[k] = IF k \in issued THEN LifeOf(db[k], now) ELSE "unborn"
    BY DEF KeyLives
  <2>4. KeyLives'[k] = IF k \in issued THEN LifeOf(db[k], now + 1) ELSE "unborn"
    BY <1>1 DEF KeyLives
  <2> QED
    BY <2>2, <2>3, <2>4 DEF LifeOf
<1>3. KeyLives' \in [Keys -> Abstract!Lives]
  BY LifeKinds DEF KeyLives, Abstract!Lives
<1>4. Abstract!Remember
  BY <1>1, Remembered DEF Tick
<1>5. UNCHANGED <<Questions, Answers>>
  BY <1>1 DEF Questions, Answers
<1>6. Abstract!Pass
  BY <1>1, <1>2, <1>3, <1>4, <1>5 DEF Abstract!Pass
<1> QED
  BY <1>6 DEF Abstract!Next

\* Who is let in was asking about a key that was good less than MaxLag ago.
LEMMA AcceptLife ==
  ASSUME LifeInv, NEW v \in Verifiers, validateRecord(v)
  PROVE  Abstract!Next
<1> DEFINE k == verifier[v].key
<1>1. TypeOK /\ Located /\ Born
  BY DEF LifeInv, LagInv, TypeInv
<1>2. verifier[v].pc = "validate" /\ k \in Keys /\ k # None
  BY <1>1, NoneAssumption DEF validateRecord, Located
<1>3. \A u \in Verifiers : verifier'[u] = IF u = v THEN Allowed ELSE verifier[u]
  BY <1>1 DEF validateRecord, TypeOK
<1>4. now < lastUsable[k] + MaxLag
  <2>1. Accepts(v)
    BY <1>2, <1>3 DEF Accepts, Allowed
  <2>2. [Next]_vars
    BY DEF Next, VerifierStep
  <2> QED
    BY <2>1, <2>2, ExposureStep DEF LifeInv
<1>5. k \in issued
  <2>1. verifier[v].rec # Absent
    <3>1. Usable(verifier[v].rec, now)
      BY Zenon DEF validateRecord
    <3> QED
      BY <3>1 DEF Usable, Live, Absent
  <2> QED
    BY <1>1, <2>1 DEF Born
<1>6. Questions[v] = k
  BY <1>2 DEF Questions
<1>7. Questions' = [Questions EXCEPT ![v] = None]
  <2>1. Allowed.pc = "accepted"
    BY DEF Allowed
  <2>2. Questions' = [u \in Verifiers |-> IF u = v THEN None ELSE Questions[u]]
    BY <1>3, <2>1 DEF Questions
  <2> QED
    BY <2>2 DEF Questions
<1>8. Answers' = [Answers EXCEPT ![v] = TRUE]
  <2>1. Allowed.pc = "accepted"
    BY DEF Allowed
  <2>2. Answers' = [u \in Verifiers |-> IF u = v THEN TRUE ELSE Answers[u]]
    BY <1>3, <2>1 DEF Answers
  <2> QED
    BY <2>2 DEF Answers
<1>9. UNCHANGED <<now, KeyLives, lastUsable>>
  BY DEF validateRecord, KeyLives, history
<1>10. KeyLives[k] # "unborn"
  BY <1>1, <1>2, <1>5, LifeOfKey
<1> HIDE DEF k
<1>11. Abstract!Accept(v)
  BY <1>2, <1>4, <1>6, <1>7, <1>8, <1>9, <1>10 DEF Abstract!Accept
<1> QED
  BY <1>11 DEF Abstract!Next

\* Every step of ApiKeys is a step of KeyLife, or one it does not see.
LEMMA LifeStep == LifeInv /\ Born' /\ [Next]_vars => [Abstract!Next]_(Abstract!vars)
<1> SUFFICES ASSUME LifeInv, Born', [Next]_vars
             PROVE  Abstract!Next \/ UNCHANGED Abstract!vars
  OBVIOUS
<1>inv. TypeInv /\ TypeOK /\ Located /\ Born
  BY DEF LifeInv, LagInv, TypeInv
<1>rows. Absent \in Rows /\ \A k \in Keys : db[k] \in Rows
  BY <1>inv DEF TypeOK, Absent, Rows, Deadlines
<1>1. ASSUME NEW k \in Keys, NEW e \in Expiries \cup {None}, NEW g \in Grants, createApiKey(k, e, g)
      PROVE  Abstract!Next
  <2> DEFINE row == [status |-> "active", expiresAt |-> e, rotateAt |-> None, grant |-> g]
             l == LifeOf(row, now)
  <2>1. row \in Rows /\ row # Absent
    BY TimesAssumption DEF Rows, Deadlines, Statuses, Absent
  <2>2. /\ Write(k, row) /\ issued' = issued \cup {k} /\ k \notin issued
        /\ UNCHANGED <<now, verifier>>
    BY <1>1 DEF createApiKey
  <2> HIDE DEF row
  <2>3. /\ KeyLives' = [KeyLives EXCEPT ![k] = l]
        /\ Abstract!Remember /\ UNCHANGED <<now, Questions, Answers>>
    BY <1>inv, <2>1, <2>2, WriteLife
  <2>4. l \in {"good", "bad"} /\ l \in Abstract!Lives
    BY <2>1, LifeKinds DEF Abstract!Lives
  <2>5. KeyLives[k] = "unborn"
    BY <1>inv, <2>2, LifeOfKey
  <2> HIDE DEF l
  <2>6. Abstract!Issue(k, l)
    BY <2>3, <2>4, <2>5 DEF Abstract!Issue
  <2> QED
    BY <2>4, <2>6 DEF Abstract!Next
<1>2. ASSUME NEW k \in Keys, NEW g \in Grants, NEW e \in Expiries \cup {db[k].expiresAt},
             updateApikey(k, e, g)
      PROVE  Abstract!Next
  <2>1. [db[k] EXCEPT !.expiresAt = e, !.grant = g] \in Rows
    BY <1>rows, TimesAssumption DEF Rows, Deadlines
  <2> QED
    BY <1>2, <1>inv, <2>1, ManageLife DEF updateApikey
<1>3. ASSUME NEW k \in Keys, NEW s \in Statuses, Write(k, [db[k] EXCEPT !.status = s]), Found(k),
             UNCHANGED <<now, verifier, issued>>
      PROVE  Abstract!Next
  <2>1. [db[k] EXCEPT !.status = s] \in Rows
    BY <1>rows DEF Rows
  <2> QED
    BY <1>3, <1>inv, <2>1, ManageLife
<1>4. ASSUME NEW a \in Admins, NEW k \in Keys, NEW s \in Statuses, updateApiKeyStatus(a, k, s)
      PROVE  Abstract!Next
  BY <1>3, <1>4 DEF updateApiKeyStatus
<1>5. ASSUME NEW a \in Admins, NEW k \in Keys, rovokeApikey(a, k)
      PROVE  Abstract!Next
  BY <1>3, <1>5 DEF rovokeApikey, Statuses
<1>6. ASSUME NEW a \in Admins, NEW k \in Keys, deleteApiKey(a, k)
      PROVE  Abstract!Next
  BY <1>inv, <1>rows, <1>6, ManageLife DEF deleteApiKey
<1>7. ASSUME NEW v \in Verifiers, NEW k \in Keys, Get(v, k)
      PROVE  Abstract!Next
  <2>1. /\ verifier[v].pc \in {"idle", "accepted"}
        /\ verifier'[v].key = k /\ verifier'[v].pc \in {"validate", "lookup"}
        /\ \A u \in Verifiers \ {v} : verifier'[u] = verifier[u]
    BY <1>inv, <1>7 DEF Get, TypeOK
  <2>2. Questions[v] = None /\ Questions' = [Questions EXCEPT ![v] = k]
    <3>1. Questions' = [u \in Verifiers |-> IF u = v THEN k ELSE Questions[u]]
      BY <2>1 DEF Questions
    <3> QED
      BY <2>1, <3>1 DEF Questions
  <2>3. Answers' = [Answers EXCEPT ![v] = FALSE]
    <3>1. Answers' = [u \in Verifiers |-> IF u = v THEN FALSE ELSE Answers[u]]
      BY <2>1 DEF Answers
    <3> QED
      BY <3>1 DEF Answers
  <2>4. UNCHANGED <<now, KeyLives, lastUsable>>
    BY <1>7 DEF Get, KeyLives, history
  <2>5. Abstract!Ask(v, k)
    BY <2>2, <2>3, <2>4 DEF Abstract!Ask
  <2> QED
    BY <2>5 DEF Abstract!Next
<1>8. ASSUME NEW v \in Verifiers, VerifyRejects(v)
      PROVE  Abstract!Next
  BY <1>inv, <1>8, RefuseLife DEF VerifyRejects, history
<1>9. ASSUME NEW v \in Verifiers, Lookup(v)
      PROVE  Abstract!Next \/ UNCHANGED Abstract!vars
  <2>1. verifier[v].pc = "lookup" /\ UNCHANGED <<now, db, issued, lastUsable>>
    BY <1>9 DEF Lookup, history
  <2>2. CASE db[verifier[v].key] = Absent
    BY <1>inv, <1>9, <2>1, <2>2, RefuseLife DEF Lookup
  <2>3. CASE db[verifier[v].key] # Absent
    <3>1. /\ verifier'[v].pc = "fill" /\ verifier'[v].key = verifier[v].key
          /\ \A u \in Verifiers \ {v} : verifier'[u] = verifier[u]
      BY <1>inv, <1>9, <2>3 DEF Lookup, TypeOK, VerifierStates
    <3> QED
      BY <2>1, <3>1, Unseen
  <2> QED
    BY <2>2, <2>3
<1>10. ASSUME NEW v \in Verifiers, Fill(v)
       PROVE  UNCHANGED Abstract!vars
  <2>1. /\ verifier[v].pc = "fill" /\ UNCHANGED <<now, db, issued, lastUsable>>
        /\ verifier'[v].pc = "validate" /\ verifier'[v].key = verifier[v].key
        /\ \A u \in Verifiers \ {v} : verifier'[u] = verifier[u]
    BY <1>inv, <1>10 DEF Fill, TypeOK, VerifierStates, history
  <2> QED
    BY <2>1, Unseen
<1>11. ASSUME \/ \E a \in Admins, k \in Keys, grace \in GracePeriods : RotateRead(a, k, grace)
              \/ \E a \in Admins : Bust(a) \/ RotateConflict(a) \/ HandlerFails(a)
              \/ \E k \in Keys : Evict(k)
              \/ UNCHANGED vars
       PROVE  UNCHANGED Abstract!vars
  <2>1. UNCHANGED <<now, db, issued, lastUsable, verifier>>
    BY <1>11 DEF RotateRead, Bust, RotateConflict, HandlerFails, Evict, vars, history
  <2> QED
    BY <2>1, Unseen
<1>12. ASSUME NEW a \in Admins, NEW new \in Keys, RotateCommit(a, new)
       PROVE  Abstract!Next
  BY <1>inv, <1>12, RotateLife
<1>13. ASSUME NEW v \in Verifiers, validateRecord(v)
       PROVE  Abstract!Next
  BY <1>13, AcceptLife
<1>14. ASSUME Tick
       PROVE  Abstract!Next
  BY <1>inv, <1>14, TickLife
<1>15. ASSUME removeExpiredRotation
       PROVE  UNCHANGED Abstract!vars
  BY <1>inv, <1>15, CronLife
<1> QED
  BY <1>1, <1>2, <1>4, <1>5, <1>6, <1>7, <1>8, <1>9, <1>10, <1>11, <1>12, <1>13, <1>14, <1>15
     DEF Next, AdminStep, VerifierStep

\* Every run of the handlers is a run of KeyLife, for any keys, requests, grants and times.
THEOREM Refines == Spec => ImplementsKeyLife
<1>1. Init => Abstract!Init
  <2> SUFFICES ASSUME Init PROVE Abstract!Init
    OBVIOUS
  <2>1. NoRequest.pc = "idle"
    BY DEF NoRequest
  <2> QED
    BY <2>1 DEF Init, Abstract!Init, KeyLives, Questions, Answers
<1>2. LifeInv /\ Born' /\ [Next]_vars => [Abstract!Next]_(Abstract!vars)
  BY LifeStep
<1>3. LifeInv => Born
  BY DEF LifeInv
<1> QED
  BY <1>1, <1>2, <1>3, LifeInvariant, PTL DEF Spec, ImplementsKeyLife, Abstract!Spec

=============================================================================
