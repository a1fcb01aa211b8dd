---------------------------- MODULE ApiKeysProofs ----------------------------
(***************************************************************************)
(* Proofs about ApiKeys, for any number of keys, requests and dates: the   *)
(* types, and the bound on how long verify may act on what is no longer in *)
(* the database.                                                           *)
(***************************************************************************)
EXTENDS ApiKeys, TLAPS

\* A request in flight knows its key.
Located ==
  /\ \A v \in Verifiers : verifier[v].pc \in {"lookup", "fill", "validate"}
                            => verifier[v].key \in Keys
  /\ \A a \in Admins : admin[a].pc # "idle" => admin[a].key \in Keys

TypeInv == TypeOK /\ Located

-----------------------------------------------------------------------------
(* What the shared parts of the handlers do. *)

\* Writing a row keeps the types of all that Write assigns.
LEMMA WriteTyped ==
  ASSUME TypeOK, NEW k \in Keys, NEW row \in Rows, Write(k, row)
  PROVE  /\ db' \in [Keys -> Rows]
         /\ writtenAt' \in [Keys -> Nat]
         /\ lastUsable' \in [Keys -> Nat]
         /\ closed' \in SUBSET Keys
<1>1. db' \in [Keys -> Rows]
  BY DEF TypeOK, Write
<1>2. lastUsable' \in [Keys -> Nat]
  BY DEF TypeOK, Write, UsableAt
<1>3. writtenAt' \in [Keys -> Nat]
  BY DEF TypeOK, Write
<1>4. closed' \in SUBSET Keys
  BY DEF TypeOK, Write
<1> QED
  BY <1>1, <1>2, <1>3, <1>4

\* A handler that has only its bust left to do is well typed and knows its key.
LEMMA OwesBustTyped ==
  ASSUME TypeInv, NEW a \in Admins, NEW k \in Keys, NEW c \in BOOLEAN, OwesBust(a, k, c)
  PROVE  /\ admin' \in [Admins -> AdminStates]
         /\ \A b \in Admins : admin'[b].pc # "idle" => admin'[b].key \in Keys
<1> DEFINE call == [pc |-> "bust", key |-> k, rec |-> Absent, revokeAt |-> 0,
                    started |-> now, closes |-> c]
<1>2. Absent \in Rows
  BY DEF Absent, Rows, Deadlines
<1>3. call \in AdminStates
  BY <1>2 DEF TypeInv, TypeOK, AdminStates
<1>4. admin' = [admin EXCEPT ![a] = call]
  BY DEF OwesBust
<1>5. admin' \in [Admins -> AdminStates]
  BY <1>3, <1>4 DEF TypeInv, TypeOK
<1>6. ASSUME NEW b \in Admins, admin'[b].pc # "idle"
      PROVE  admin'[b].key \in Keys
  BY <1>4, <1>6 DEF TypeInv, TypeOK, Located
<1> QED
  BY <1>5, <1>6

\* A handler that is done is back in its initial state.
LEMMA ReturnTyped ==
  ASSUME TypeInv, NEW a \in Admins, Return(a)
  PROVE  /\ admin' \in [Admins -> AdminStates]
         /\ \A b \in Admins : admin'[b].pc # "idle" => admin'[b].key \in Keys
<1>1. NoCall \in AdminStates /\ NoCall.pc = "idle"
  BY DEF NoCall, AdminStates, Absent, Rows, Deadlines
<1>2. admin' = [admin EXCEPT ![a] = NoCall]
  BY DEF Return
<1> QED
  BY <1>1, <1>2 DEF TypeInv, TypeOK, Located

\* So is a verify request that was refused.
LEMMA RejectTyped ==
  ASSUME TypeInv, NEW v \in Verifiers, Reject(v)
  PROVE  /\ verifier' \in [Verifiers -> VerifierStates]
         /\ \A u \in Verifiers : verifier'[u].pc \in {"lookup", "fill", "validate"}
                                   => verifier'[u].key \in Keys
<1>1. NoRequest \in VerifierStates /\ NoRequest.pc = "idle"
  BY DEF NoRequest, VerifierStates, Absent, Rows, Deadlines
<1>2. verifier' = [verifier EXCEPT ![v] = NoRequest]
  BY DEF Reject
<1> QED
  BY <1>1, <1>2 DEF TypeInv, TypeOK, Located

-----------------------------------------------------------------------------
(* Types. *)

\* The empty database is well typed.
LEMMA TypeInit == Init => TypeInv
<1>1. Absent \in Rows
  BY DEF Absent, Rows, Deadlines
<1>2. NoEntry \in Entries
  BY <1>1 DEF NoEntry, Entries
<1>3. NoRequest \in VerifierStates /\ NoRequest.pc = "idle"
  BY <1>1 DEF NoRequest, VerifierStates
<1>4. NoCall \in AdminStates /\ NoCall.pc = "idle"
  BY <1>1 DEF NoCall, AdminStates
<1> QED
  BY <1>1, <1>2, <1>3, <1>4 DEF Init, TypeInv, TypeOK, Located

\* No handler, cron run or tick breaks the types, or makes a request forget its key.
LEMMA TypeStep == TypeInv /\ [Next]_vars => TypeInv'
<1> SUFFICES ASSUME TypeInv, [Next]_vars
             PROVE  TypeInv'
  OBVIOUS
<1> USE TimesAssumption
<1>absent. Absent \in Rows /\ NoEntry \in Entries
  BY DEF Absent, NoEntry, Rows, Deadlines, Entries
<1>types. /\ TypeOK /\ Located
          /\ \A k \in Keys : db[k] \in Rows
  BY DEF TypeInv, TypeOK
<1>1. ASSUME NEW k \in Keys, NEW e \in Expiries \cup {None}, NEW g \in Grants,
             createApiKey(k, e, g)
      PROVE  TypeInv'
  <2>1. [status |-> "active", expiresAt |-> e, rotateAt |-> None, grant |-> g] \in Rows
    BY DEF Rows, Statuses, Deadlines
  <2> QED
    BY <1>1, <1>types, <2>1, WriteTyped DEF createApiKey, TypeInv, TypeOK, Located
<1>2. ASSUME NEW k \in Keys, NEW g \in Grants, NEW e \in Expiries \cup {db[k].expiresAt},
             updateApikey(k, e, g)
      PROVE  TypeInv'
  <2>1. [db[k] EXCEPT !.expiresAt = e, !.grant = g] \in Rows
    BY <1>types DEF Rows, Deadlines
  <2> QED
    BY <1>2, <1>types, <2>1, WriteTyped DEF updateApikey, TypeInv, TypeOK, Located
<1>3. ASSUME NEW a \in Admins, NEW k \in Keys, NEW s \in Statuses, updateApiKeyStatus(a, k, s)
      PROVE  TypeInv'
  <2>1. [db[k] EXCEPT !.status = s] \in Rows
    BY <1>types DEF Rows
  <2>2. /\ admin' \in [Admins -> AdminStates]
        /\ \A b \in Admins : admin'[b].pc # "idle" => admin'[b].key \in Keys
    <3>1. CASE s = "disabled"
      BY <1>3, <3>1, OwesBustTyped DEF updateApiKeyStatus
    <3>2. CASE s # "disabled"
      BY <1>3, <1>types, <3>2 DEF updateApiKeyStatus, TypeOK, Located
    <3> QED
      BY <3>1, <3>2
  <2> QED
    BY <1>3, <1>types, <2>1, <2>2, WriteTyped DEF updateApiKeyStatus, TypeInv, TypeOK, Located
<1>4. ASSUME NEW a \in Admins, NEW k \in Keys, rovokeApikey(a, k)
      PROVE  TypeInv'
  <2>1. [db[k] EXCEPT !.status = "revoked"] \in Rows
    BY <1>types DEF Rows, Statuses
  <2> QED
    BY <1>4, <1>types, <2>1, WriteTyped, OwesBustTyped
       DEF rovokeApikey, TypeInv, TypeOK, Located
<1>5. ASSUME NEW a \in Admins, NEW k \in Keys, deleteApiKey(a, k)
      PROVE  TypeInv'
  BY <1>5, <1>types, <1>absent, WriteTyped, OwesBustTyped
     DEF deleteApiKey, TypeInv, TypeOK, Located
<1>6. ASSUME NEW a \in Admins, NEW k \in Keys, NEW grace \in GracePeriods,
             RotateRead(a, k, grace)
      PROVE  TypeInv'
  <2>1. [pc |-> "rotate", key |-> k, rec |-> db[k], revokeAt |-> now + grace,
         started |-> now, closes |-> FALSE] \in AdminStates
    BY <1>types DEF AdminStates, TypeOK
  <2> QED
    BY <1>6, <1>types, <2>1 DEF RotateRead, history, TypeInv, TypeOK, Located
<1>7. ASSUME NEW a \in Admins, NEW new \in Keys, RotateCommit(a, new)
      PROVE  TypeInv'
  <2> DEFINE k == admin[a].key
             old == [db[k] EXCEPT !.status = "rotate", !.rotateAt = admin[a].revokeAt]
             heir == [admin[a].rec EXCEPT !.status = "active", !.rotateAt = None]
  <2>1. k \in Keys /\ admin[a] \in AdminStates
    BY <1>7, <1>types DEF RotateCommit, TypeOK, Located
  <2>2. old \in Rows
    BY <1>types, <2>1 DEF Rows, Statuses, Deadlines, AdminStates
  <2>3. heir \in Rows
    BY <2>1 DEF Rows, Statuses, Deadlines, AdminStates
  <2>4. db' = [db EXCEPT ![k] = old, ![new] = heir]
    BY <1>7, <1>types, <2>1 DEF RotateCommit, TypeOK
  <2>5. db' \in [Keys -> Rows]
    BY <1>types, <2>2, <2>3, <2>4 DEF TypeOK
  <2>6. lastUsable' \in [Keys -> Nat] /\ writtenAt' \in [Keys -> Nat]
    BY <1>7, <1>types DEF RotateCommit, UsableAt, TypeOK
  <2>7. /\ admin' \in [Admins -> AdminStates]
        /\ \A b \in Admins : admin'[b].pc # "idle" => admin'[b].key \in Keys
    BY <1>7, <2>1, OwesBustTyped DEF RotateCommit
  <2>8. /\ issued' \in SUBSET Keys /\ closed' \in SUBSET Keys
        /\ parent' \in [Keys -> Keys \cup {None}]
    BY <1>7, <1>types, <2>1 DEF RotateCommit, TypeOK
  <2> QED
    BY <1>7, <1>types, <2>5, <2>6, <2>7, <2>8 DEF RotateCommit, TypeInv, TypeOK, Located
<1>8. ASSUME NEW a \in Admins, RotateConflict(a) \/ HandlerFails(a)
      PROVE  TypeInv'
  BY <1>8, <1>types, ReturnTyped
     DEF RotateConflict, HandlerFails, history, TypeInv, TypeOK, Located
<1>9. ASSUME NEW a \in Admins, Bust(a)
      PROVE  TypeInv'
  BY <1>9, <1>types, <1>absent, ReturnTyped DEF Bust, TypeInv, TypeOK, Located
<1>10. ASSUME removeExpiredRotation
       PROVE  TypeInv'
  <2>1. \A k \in Keys : [db[k] EXCEPT !.status = "revoked"] \in Rows
    BY <1>types DEF Rows, Statuses
  <2> QED
    BY <1>10, <1>types, <2>1 DEF removeExpiredRotation, TypeInv, TypeOK, Located
<1>11. ASSUME NEW v \in Verifiers, NEW k \in Keys, Get(v, k)
       PROVE  TypeInv'
  <2> DEFINE hit == Present(cache[k], now)
             req == [pc |-> IF hit THEN "validate" ELSE "lookup", key |-> k,
                     rec |-> IF hit THEN cache[k].rec ELSE Absent,
                     started |-> now]
  <2>1. cache[k].rec \in Rows
    BY <1>types DEF TypeOK, Entries
  <2>2. req \in VerifierStates
    BY <1>types, <1>absent, <2>1 DEF VerifierStates, TypeOK
  <2>3. verifier' = [verifier EXCEPT ![v] = req]
    BY <1>11 DEF Get
  <2> HIDE DEF req
  <2>4. req.key \in Keys
    BY DEF req
  <2> QED
    BY <1>11, <1>types, <2>2, <2>3, <2>4 DEF Get, history, TypeInv, TypeOK, Located
<1>12. ASSUME NEW v \in Verifiers, Lookup(v)
       PROVE  TypeInv'
  <2>1. verifier[v].key \in Keys
    BY <1>12, <1>types DEF Lookup, Located
  <2>2. CASE db[verifier[v].key] = Absent
    BY <1>12, <1>types, <2>2, RejectTyped DEF Lookup, history, TypeInv, TypeOK, Located
  <2>3. CASE db[verifier[v].key] # Absent
    <3>1. verifier' = [verifier EXCEPT ![v] = [verifier[v] EXCEPT !.pc = "fill",
                                                  !.rec = db[verifier[v].key]]]
      BY <1>12, <1>types, <2>3 DEF Lookup, TypeOK
    <3>2. [verifier[v] EXCEPT !.pc = "fill", !.rec = db[verifier[v].key]] \in VerifierStates
      BY <1>types, <2>1 DEF TypeOK, VerifierStates
    <3> QED
      BY <1>12, <1>types, <2>1, <3>1, <3>2
         DEF Lookup, history, TypeInv, TypeOK, Located, VerifierStates
  <2> QED
    BY <2>2, <2>3
<1>13. ASSUME NEW v \in Verifiers, Fill(v)
       PROVE  TypeInv'
  <2>1. verifier[v] \in VerifierStates /\ verifier[v].key \in Keys
    BY <1>13, <1>types DEF Fill, TypeOK, Located
  <2>2. [rec |-> verifier[v].rec, until |-> now + TTL,
         overtaken |-> verifier[v].rec # db[verifier[v].key]] \in Entries
    BY <1>types, <2>1 DEF Entries, VerifierStates, TypeOK
  <2>3. cache' \in [Keys -> Entries]
    BY <1>13, <1>types, <2>2 DEF Fill, TypeOK
  <2>4. verifier' = [verifier EXCEPT ![v] = [verifier[v] EXCEPT !.pc = "validate"]]
    BY <1>13 DEF Fill
  <2>5. [verifier[v] EXCEPT !.pc = "validate"] \in VerifierStates
    BY <2>1 DEF VerifierStates
  <2> QED
    BY <1>13, <1>types, <2>1, <2>3, <2>4, <2>5
       DEF Fill, history, TypeInv, TypeOK, Located, VerifierStates
<1>14. ASSUME NEW v \in Verifiers, validateRecord(v)
       PROVE  TypeInv'
  <2>1. Allowed \in VerifierStates /\ Allowed.pc = "accepted"
    BY <1>absent DEF Allowed, VerifierStates
  <2> QED
    BY <1>14, <1>types, <2>1 DEF validateRecord, history, TypeInv, TypeOK, Located
<1>15. ASSUME NEW v \in Verifiers, VerifyRejects(v)
       PROVE  TypeInv'
  BY <1>15, <1>types, RejectTyped DEF VerifyRejects, history, TypeInv, TypeOK, Located
<1>16. ASSUME NEW k \in Keys, Evict(k)
       PROVE  TypeInv'
  BY <1>16, <1>types, <1>absent DEF Evict, history, TypeInv, TypeOK, Located
<1>17. ASSUME Tick
       PROVE  TypeInv'
  BY <1>17, <1>types, <1>absent DEF Tick, UsableAt, TypeInv, TypeOK, Located
<1>18. ASSUME UNCHANGED vars
       PROVE  TypeInv'
  BY <1>18, <1>types DEF vars, history, TypeInv, TypeOK, Located
<1> QED
  BY <1>1, <1>2, <1>3, <1>4, <1>5, <1>6, <1>7, <1>8, <1>9, <1>10, <1>11, <1>12, <1>13,
     <1>14, <1>15, <1>16, <1>17, <1>18
     DEF Next, AdminStep, VerifierStep

\* Every variable keeps its type.
THEOREM TypeCorrect == Spec => []TypeOK
<1>1. TypeInv => TypeOK
  BY DEF TypeInv
<1> QED
  BY TypeInit, TypeStep, <1>1, PTL DEF Spec

-----------------------------------------------------------------------------
(* How old an answer may be.                                               *)

InFlightAt(v) == verifier[v].pc \in {"lookup", "fill", "validate"}

\* No request is in flight for longer than MaxStall; the stamps lie in the past, and
\* lastUsable is the present of a key that is usable.
Clocks ==
  /\ \A v \in Verifiers :
       InFlightAt(v) => verifier[v].started <= now /\ now <= verifier[v].started + MaxStall
  /\ \A k \in Keys : /\ lastUsable[k] <= now
                     /\ writtenAt[k] <= now
                     /\ Usable(db[k], now) => lastUsable[k] = now

\* A record in the cache, or in the hands of a request, that would be accepted now was
\* read from the database not long before its key stopped being usable.
ExposureInv ==
  /\ \A k \in Keys :
       Present(cache[k], now) /\ Usable(cache[k].rec, now)
         => cache[k].until <= lastUsable[k] + MaxStall + TTL
  /\ \A v \in Verifiers :
       verifier[v].pc = "fill" /\ Usable(verifier[v].rec, now)
         => verifier[v].started <= lastUsable[verifier[v].key]
  /\ \A v \in Verifiers :
       verifier[v].pc = "validate" /\ Usable(verifier[v].rec, now)
         => verifier[v].started < lastUsable[verifier[v].key] + MaxStall + TTL

\* The same for a record that is not the row of its key any more.
StalenessInv ==
  /\ \A k \in Keys :
       Present(cache[k], now) /\ cache[k].rec # db[k]
         => cache[k].until <= writtenAt[k] + MaxStall + TTL
  /\ \A v \in Verifiers :
       verifier[v].pc = "fill" /\ verifier[v].rec # db[verifier[v].key]
         => verifier[v].started <= writtenAt[verifier[v].key]
  /\ \A v \in Verifiers :
       verifier[v].pc = "validate" /\ verifier[v].rec # db[verifier[v].key]
         => verifier[v].started < writtenAt[verifier[v].key] + MaxStall + TTL

\* No entry outlives its TTL.
EntryTTL == \A k \in Keys : cache[k].until <= now + TTL

AgeInv == Clocks /\ EntryTTL /\ ExposureInv /\ StalenessInv

LagInv == TypeInv /\ AgeInv

\* Deadlines only ever pass: a record that will be usable is usable.
LEMMA UsableBefore ==
  ASSUME NEW r \in Rows, NEW t \in Nat, Usable(r, t + 1)
  PROVE  Usable(r, t)
BY NoneAssumption DEF Usable, Passed, Rows, Deadlines

\* A step of a handler, seen from the rows and their stamps.
Stamped ==
  /\ now' = now
  /\ \A k \in Keys : /\ lastUsable'[k] \in {lastUsable[k], now}
                     /\ Usable(db'[k], now) => lastUsable'[k] = now
                     /\ \/ db'[k] = db[k] /\ writtenAt'[k] = writtenAt[k]
                        \/ writtenAt'[k] = now

\* A written row that differs from the one before is stamped with the present time.
LEMMA WriteStamped ==
  ASSUME TypeOK, NEW k \in Keys, NEW row \in Rows, Write(k, row), now' = now
  PROVE  Stamped
<1>1. ASSUME NEW j \in Keys
      PROVE  /\ lastUsable'[j] \in {lastUsable[j], now}
             /\ Usable(db'[j], now) => lastUsable'[j] = now
  BY DEF Write, UsableAt, TypeOK
<1>2. ASSUME NEW j \in Keys
      PROVE  \/ db'[j] = db[j] /\ writtenAt'[j] = writtenAt[j]
             \/ writtenAt'[j] = now
  BY DEF Write, TypeOK
<1>3. now' = now
  OBVIOUS
<1> QED
  BY <1>1, <1>2, <1>3, Zenon DEF Stamped

\* A step that leaves cache and requests alone makes no record older than it is allowed:
\* what it overwrites is overwritten now.
LEMMA StampedAge ==
  ASSUME LagInv, Stamped, UNCHANGED <<cache, verifier>>
  PROVE  AgeInv'
<1> USE TimesAssumption
<1>1. /\ TypeOK /\ Located /\ Clocks /\ EntryTTL /\ ExposureInv /\ StalenessInv
      /\ now \in Nat /\ now' = now /\ cache' = cache /\ verifier' = verifier
      /\ \A k \in Keys : /\ writtenAt[k] \in Nat /\ writtenAt[k] <= now
                         /\ lastUsable[k] \in Nat /\ lastUsable[k] <= now
                         /\ cache[k].until \in Nat
      /\ \A v \in Verifiers : verifier[v].started \in Nat
  BY DEF LagInv, AgeInv, TypeInv, TypeOK, Clocks, Stamped, Entries, VerifierStates
<1>2. \A k \in Keys : lastUsable[k] <= lastUsable'[k] /\ lastUsable'[k] <= now
  BY <1>1 DEF Stamped
<1>3. \A k \in Keys : /\ lastUsable'[k] \in Nat
                     /\ writtenAt'[k] \in Nat /\ writtenAt'[k] <= now
                     /\ \/ db'[k] = db[k] /\ writtenAt'[k] = writtenAt[k]
                        \/ writtenAt'[k] = now
  BY <1>1 DEF Stamped
<1>4. Clocks'
  BY <1>1, <1>2, <1>3 DEF Clocks, Stamped, InFlightAt
<1>5. EntryTTL'
  BY <1>1 DEF EntryTTL
<1>6. ExposureInv'
  <2>1. ASSUME NEW k \in Keys, Present(cache[k], now), Usable(cache[k].rec, now)
        PROVE  cache[k].until <= lastUsable'[k] + MaxStall + TTL
    <3>1. cache[k].until <= lastUsable[k] + MaxStall + TTL
      BY <1>1, <2>1, Zenon DEF ExposureInv
    <3> QED
      BY <1>1, <1>2, <1>3, <3>1
  <2>2. ASSUME NEW v \in Verifiers, verifier[v].pc = "fill", Usable(verifier[v].rec, now)
        PROVE  verifier[v].started <= lastUsable'[verifier[v].key]
    <3>1. verifier[v].key \in Keys
      BY <1>1, <2>2 DEF Located
    <3>2. verifier[v].started <= lastUsable[verifier[v].key]
      BY <1>1, <2>2, Zenon DEF ExposureInv
    <3> QED
      BY <1>1, <1>2, <1>3, <3>1, <3>2
  <2>3. ASSUME NEW v \in Verifiers, verifier[v].pc = "validate", Usable(verifier[v].rec, now)
        PROVE  verifier[v].started < lastUsable'[verifier[v].key] + MaxStall + TTL
    <3>1. verifier[v].key \in Keys
      BY <1>1, <2>3 DEF Located
    <3>2. verifier[v].started < lastUsable[verifier[v].key] + MaxStall + TTL
      BY <1>1, <2>3, Zenon DEF ExposureInv
    <3> QED
      BY <1>1, <1>2, <1>3, <3>1, <3>2
  <2> QED
    BY <1>1, <2>1, <2>2, <2>3 DEF ExposureInv
<1>7. StalenessInv'
  <2>1. ASSUME NEW k \in Keys, Present(cache[k], now), cache[k].rec # db'[k]
        PROVE  cache[k].until <= writtenAt'[k] + MaxStall + TTL
    BY <1>1, <1>3, <2>1 DEF StalenessInv, EntryTTL
  <2>2. ASSUME NEW v \in Verifiers, verifier[v].pc = "fill",
               verifier[v].rec # db'[verifier[v].key]
        PROVE  verifier[v].started <= writtenAt'[verifier[v].key]
    BY <1>1, <1>3, <2>2 DEF StalenessInv, Located, Clocks, InFlightAt
  <2>3. ASSUME NEW v \in Verifiers, verifier[v].pc = "validate",
               verifier[v].rec # db'[verifier[v].key]
        PROVE  verifier[v].started < writtenAt'[verifier[v].key] + MaxStall + TTL
    BY <1>1, <1>3, <2>3 DEF StalenessInv, Located, Clocks, InFlightAt
  <2> QED
    BY <1>1, <2>1, <2>2, <2>3 DEF StalenessInv
<1> QED
  BY <1>4, <1>5, <1>6, <1>7 DEF AgeInv

\* A step that leaves rows, clock and requests alone and at most drops the entry of k.
LEMMA DropAge ==
  ASSUME LagInv, NEW k, cache' = [cache EXCEPT ![k] = NoEntry],
         UNCHANGED <<now, db, verifier, writtenAt, lastUsable>>
  PROVE  AgeInv'
<1> USE TimesAssumption
<1>1. /\ TypeOK /\ Clocks /\ EntryTTL /\ ExposureInv /\ StalenessInv /\ now \in Nat
      /\ now' = now /\ db' = db /\ verifier' = verifier
      /\ writtenAt' = writtenAt /\ lastUsable' = lastUsable
  BY DEF LagInv, AgeInv, TypeInv, TypeOK
<1>2. NoEntry.until = 0 /\ ~Present(NoEntry, now)
  BY <1>1 DEF NoEntry, Present
<1>3. \A j \in Keys : cache'[j] = cache[j] \/ cache'[j] = NoEntry
  BY <1>1 DEF TypeOK
<1>4. Clocks'
  BY <1>1 DEF Clocks, InFlightAt
<1>5. EntryTTL'
  BY <1>1, <1>2, <1>3 DEF EntryTTL
<1>6. ExposureInv'
  BY <1>1, <1>2, <1>3 DEF ExposureInv
<1>7. StalenessInv'
  BY <1>1, <1>2, <1>3 DEF StalenessInv
<1> QED
  BY <1>4, <1>5, <1>6, <1>7 DEF AgeInv

\* A step in which v moves on and nothing else changes.
LEMMA RequestAge ==
  ASSUME LagInv, NEW v \in Verifiers, NEW req \in VerifierStates,
         verifier' = [verifier EXCEPT ![v] = req],
         UNCHANGED <<now, db, cache, writtenAt, lastUsable>>,
         req.pc \in {"lookup", "fill", "validate"}
           => req.started <= now /\ now <= req.started + MaxStall,
         req.pc = "fill"
           => /\ Usable(req.rec, now) => req.started <= lastUsable[req.key]
              /\ req.rec # db[req.key] => req.started <= writtenAt[req.key],
         req.pc = "validate"
           => /\ Usable(req.rec, now) => req.started < lastUsable[req.key] + MaxStall + TTL
              /\ req.rec # db[req.key] => req.started < writtenAt[req.key] + MaxStall + TTL
  PROVE  AgeInv'
<1>1. /\ TypeOK /\ Clocks /\ EntryTTL /\ ExposureInv /\ StalenessInv
      /\ now' = now /\ db' = db /\ cache' = cache
      /\ writtenAt' = writtenAt /\ lastUsable' = lastUsable
  BY DEF LagInv, AgeInv, TypeInv
<1>2. \A u \in Verifiers : verifier'[u] = IF u = v THEN req ELSE verifier[u]
  BY <1>1 DEF TypeOK
<1>3. Clocks'
  BY <1>1, <1>2, Zenon DEF Clocks, InFlightAt
<1>4. EntryTTL'
  BY <1>1 DEF EntryTTL
<1>5. ExposureInv'
  <2>1. ASSUME NEW u \in Verifiers, verifier'[u].pc = "fill", Usable(verifier'[u].rec, now)
        PROVE  verifier'[u].started <= lastUsable[verifier'[u].key]
    <3>1. CASE u = v
      BY <1>2, <2>1, <3>1, Zenon
    <3>2. CASE u # v
      BY <1>1, <1>2, <2>1, <3>2, Zenon DEF ExposureInv
    <3> QED
      BY <3>1, <3>2
  <2>2. ASSUME NEW u \in Verifiers, verifier'[u].pc = "validate", Usable(verifier'[u].rec, now)
        PROVE  verifier'[u].started < lastUsable[verifier'[u].key] + MaxStall + TTL
    <3>1. CASE u = v
      BY <1>2, <2>2, <3>1, Zenon
    <3>2. CASE u # v
      BY <1>1, <1>2, <2>2, <3>2, Zenon DEF ExposureInv
    <3> QED
      BY <3>1, <3>2
  <2> QED
    BY <1>1, <2>1, <2>2, Zenon DEF ExposureInv
<1>6. StalenessInv'
  <2>1. ASSUME NEW u \in Verifiers, verifier'[u].pc = "fill",
               verifier'[u].rec # db[verifier'[u].key]
        PROVE  verifier'[u].started <= writtenAt[verifier'[u].key]
    <3>1. CASE u = v
      BY <1>2, <2>1, <3>1, Zenon
    <3>2. CASE u # v
      BY <1>1, <1>2, <2>1, <3>2, Zenon DEF StalenessInv
    <3> QED
      BY <3>1, <3>2
  <2>2. ASSUME NEW u \in Verifiers, verifier'[u].pc = "validate",
               verifier'[u].rec # db[verifier'[u].key]
        PROVE  verifier'[u].started < writtenAt[verifier'[u].key] + MaxStall + TTL
    <3>1. CASE u = v
      BY <1>2, <2>2, <3>1, Zenon
    <3>2. CASE u # v
      BY <1>1, <1>2, <2>2, <3>2, Zenon DEF StalenessInv
    <3> QED
      BY <3>1, <3>2
  <2> QED
    BY <1>1, <2>1, <2>2, Zenon DEF StalenessInv
<1> QED
  BY <1>3, <1>4, <1>5, <1>6 DEF AgeInv

\* A request that leaves the pipeline, accepted or refused, holds no record.
LEMMA LeaveAge ==
  ASSUME LagInv, NEW v \in Verifiers, NEW req \in {NoRequest, Allowed},
         verifier' = [verifier EXCEPT ![v] = req],
         UNCHANGED <<now, db, cache, writtenAt, lastUsable>>
  PROVE  AgeInv'
<1>1. Absent \in Rows
  BY DEF Absent, Rows, Deadlines
<1>2. req \in VerifierStates /\ req.pc \in {"idle", "accepted"}
  <2>1. NoRequest \in VerifierStates /\ NoRequest.pc = "idle"
    BY <1>1 DEF NoRequest, VerifierStates
  <2>2. Allowed \in VerifierStates /\ Allowed.pc = "accepted"
    BY <1>1 DEF Allowed, VerifierStates
  <2> QED
    BY <2>1, <2>2
<1> QED
  BY <1>2, RequestAge

\* A hit hands the request a record that is as old as its entry.
LEMMA GetAge ==
  ASSUME LagInv, NEW v \in Verifiers, NEW k \in Keys, Get(v, k)
  PROVE  AgeInv'
<1> USE TimesAssumption
<1> DEFINE hit == Present(cache[k], now)
           req == [pc |-> IF hit THEN "validate" ELSE "lookup", key |-> k,
                   rec |-> IF hit THEN cache[k].rec ELSE Absent,
                   started |-> now]
<1>1. TypeOK /\ ExposureInv /\ StalenessInv /\ now \in Nat
  BY DEF LagInv, AgeInv, TypeInv, TypeOK
<1>2. /\ cache[k].rec \in Rows /\ cache[k].until \in Nat
      /\ lastUsable[k] \in Nat /\ writtenAt[k] \in Nat
  BY <1>1 DEF TypeOK, Entries
<1>3. req \in VerifierStates
  <2>1. Absent \in Rows
    BY DEF Absent, Rows, Deadlines
  <2> QED
    BY <1>1, <1>2, <2>1 DEF VerifierStates
<1>4. /\ verifier' = [verifier EXCEPT ![v] = req]
      /\ UNCHANGED <<now, db, cache, writtenAt, lastUsable>>
  BY DEF Get, history
<1>5. /\ req.started = now /\ req.key = k
      /\ req.pc = "validate" => hit /\ req.rec = cache[k].rec
      /\ req.pc # "fill"
  OBVIOUS
<1> HIDE DEF req
<1>6. req.started <= now /\ now <= req.started + MaxStall
  BY <1>1, <1>5
<1>7. ASSUME req.pc = "validate"
      PROVE  /\ Usable(req.rec, now) => req.started < lastUsable[req.key] + MaxStall + TTL
             /\ req.rec # db[req.key] => req.started < writtenAt[req.key] + MaxStall + TTL
  <2>1. req.rec = cache[k].rec /\ now < cache[k].until /\ Present(cache[k], now)
    BY <1>5, <1>7 DEF Present
  <2>2. ASSUME Usable(req.rec, now)
        PROVE  req.started < lastUsable[req.key] + MaxStall + TTL
    <3>1. cache[k].until <= lastUsable[k] + MaxStall + TTL
      BY <1>1, <2>1, <2>2, Zenon DEF ExposureInv
    <3> QED
      BY <1>1, <1>2, <1>5, <2>1, <3>1
  <2>3. ASSUME req.rec # db[req.key]
        PROVE  req.started < writtenAt[req.key] + MaxStall + TTL
    <3>1. cache[k].until <= writtenAt[k] + MaxStall + TTL
      BY <1>1, <1>5, <2>1, <2>3, Zenon DEF StalenessInv
    <3> QED
      BY <1>1, <1>2, <1>5, <2>1, <3>1
  <2> QED
    BY <2>2, <2>3, Zenon
<1> QED
  BY <1>3, <1>4, <1>5, <1>6, <1>7, RequestAge, Zenon

\* A row that has just been read is the present one.
LEMMA LookupAge ==
  ASSUME LagInv, NEW v \in Verifiers, Lookup(v)
  PROVE  AgeInv'
<1> DEFINE k == verifier[v].key
<1>1. TypeOK /\ Located /\ Clocks
  BY DEF LagInv, AgeInv, TypeInv
<1>2. CASE db[k] = Absent
  BY <1>2, LeaveAge DEF Lookup, Reject, history
<1>3. CASE db[k] # Absent
  <2> DEFINE req == [verifier[v] EXCEPT !.pc = "fill", !.rec = db[k]]
  <2>1. verifier[v].pc = "lookup" /\ k \in Keys
    BY <1>1 DEF Lookup, Located
  <2>2. verifier' = [verifier EXCEPT ![v] = req]
    BY <1>1, <1>3 DEF Lookup, TypeOK
  <2>3. /\ req \in VerifierStates
        /\ req.pc = "fill" /\ req.key = k /\ req.rec = db[k]
        /\ req.started = verifier[v].started
    BY <1>1, <2>1 DEF TypeOK, VerifierStates
  <2> HIDE DEF req
  <2>4. UNCHANGED <<now, db, cache, writtenAt, lastUsable>>
    BY DEF Lookup, history
  <2>5. req.started <= now /\ now <= req.started + MaxStall
    BY <1>1, <2>1, <2>3 DEF Clocks, InFlightAt
  <2>6. Usable(req.rec, now) => req.started <= lastUsable[req.key]
    <3>1. Usable(req.rec, now) => lastUsable[k] = now
      BY <1>1, <2>1, <2>3, Zenon DEF Clocks
    <3> QED
      BY <2>3, <2>5, <3>1, Zenon
  <2> QED
    BY <2>2, <2>3, <2>4, <2>5, <2>6, RequestAge, Zenon
<1> QED
  BY <1>2, <1>3

\* The step in which a record becomes visible to others: it is as old as its request.
LEMMA FillAge ==
  ASSUME LagInv, NEW v \in Verifiers, Fill(v)
  PROVE  AgeInv'
<1> USE TimesAssumption
<1> DEFINE k == verifier[v].key
           r == verifier[v].rec
<1>1. TypeOK /\ Located /\ Clocks /\ EntryTTL /\ ExposureInv /\ StalenessInv
  BY DEF LagInv, AgeInv, TypeInv
<1>2. /\ verifier[v].pc = "fill" /\ k \in Keys /\ now \in Nat
      /\ verifier[v].started \in Nat /\ lastUsable[k] \in Nat /\ writtenAt[k] \in Nat
  BY <1>1 DEF Fill, TypeOK, Located, VerifierStates
<1>3. verifier[v].started <= now /\ now <= verifier[v].started + MaxStall
  BY <1>1, <1>2 DEF Clocks, InFlightAt
<1>4. /\ UNCHANGED <<now, db, writtenAt, lastUsable>>
      /\ \A j \in Keys : j # k => cache'[j] = cache[j]
      /\ cache'[k].rec = r /\ cache'[k].until = now + TTL
      /\ \A u \in Verifiers : u # v => verifier'[u] = verifier[u]
      /\ verifier'[v].pc = "validate" /\ verifier'[v].key = k
      /\ verifier'[v].rec = r /\ verifier'[v].started = verifier[v].started
  BY <1>1, <1>2 DEF Fill, history, TypeOK, VerifierStates
<1>5. Usable(r, now) => verifier[v].started <= lastUsable[k]
  BY <1>1, <1>2, Zenon DEF ExposureInv
<1>6. r # db[k] => verifier[v].started <= writtenAt[k]
  BY <1>1, <1>2, Zenon DEF StalenessInv
<1>7. Clocks'
  <2>1. \A u \in Verifiers : InFlightAt(u)' => InFlightAt(u) /\ verifier'[u].started = verifier[u].started
    BY <1>2, <1>4 DEF InFlightAt
  <2> QED
    BY <1>1, <1>4, <2>1, Zenon DEF Clocks
<1>8. EntryTTL'
  <2>1. now + TTL <= now + TTL
    BY <1>2
  <2> QED
    BY <1>1, <1>4, <2>1, Zenon DEF EntryTTL
<1>9. ExposureInv'
  <2>1. Usable(r, now) => /\ now + TTL <= lastUsable[k] + MaxStall + TTL
                          /\ verifier[v].started < lastUsable[k] + MaxStall + TTL
    <3>1. verifier[v].started <= lastUsable[k]
            => /\ now + TTL <= lastUsable[k] + MaxStall + TTL
               /\ verifier[v].started < lastUsable[k] + MaxStall + TTL
      BY <1>2, <1>3
    <3> QED
      BY <1>5, <3>1, Zenon
  <2>2. ASSUME NEW j \in Keys, Present(cache'[j], now), Usable(cache'[j].rec, now)
        PROVE  cache'[j].until <= lastUsable[j] + MaxStall + TTL
    BY <1>1, <1>4, <2>1, <2>2, Zenon DEF ExposureInv
  <2>3. ASSUME NEW u \in Verifiers, verifier'[u].pc = "fill", Usable(verifier'[u].rec, now)
        PROVE  verifier'[u].started <= lastUsable[verifier'[u].key]
    <3>1. u # v
      BY <1>4, <2>3
    <3> QED
      BY <1>1, <1>4, <2>3, <3>1, Zenon DEF ExposureInv
  <2>4. ASSUME NEW u \in Verifiers, verifier'[u].pc = "validate", Usable(verifier'[u].rec, now)
        PROVE  verifier'[u].started < lastUsable[verifier'[u].key] + MaxStall + TTL
    BY <1>1, <1>4, <2>1, <2>4, Zenon DEF ExposureInv
  <2> QED
    BY <1>4, <2>2, <2>3, <2>4, Zenon DEF ExposureInv
<1>10. StalenessInv'
  <2>1. r # db[k] => /\ now + TTL <= writtenAt[k] + MaxStall + TTL
                     /\ verifier[v].started < writtenAt[k] + MaxStall + TTL
    BY <1>2, <1>3, <1>6
  <2>2. ASSUME NEW j \in Keys, Present(cache'[j], now), cache'[j].rec # db[j]
        PROVE  cache'[j].until <= writtenAt[j] + MaxStall + TTL
    BY <1>1, <1>4, <2>1, <2>2, Zenon DEF StalenessInv
  <2>3. ASSUME NEW u \in Verifiers, verifier'[u].pc = "fill",
               verifier'[u].rec # db[verifier'[u].key]
        PROVE  verifier'[u].started <= writtenAt[verifier'[u].key]
    <3>1. u # v
      BY <1>4, <2>3
    <3> QED
      BY <1>1, <1>4, <2>3, <3>1, Zenon DEF StalenessInv
  <2>4. ASSUME NEW u \in Verifiers, verifier'[u].pc = "validate",
               verifier'[u].rec # db[verifier'[u].key]
        PROVE  verifier'[u].started < writtenAt[verifier'[u].key] + MaxStall + TTL
    BY <1>1, <1>4, <2>1, <2>4, Zenon DEF StalenessInv
  <2> QED
    BY <1>4, <2>2, <2>3, <2>4, Zenon DEF StalenessInv
<1> QED
  BY <1>7, <1>8, <1>9, <1>10 DEF AgeInv

\* The clock: what is accepted a tick later is accepted now, and no request is kept past
\* MaxStall.
LEMMA TickAge ==
  ASSUME LagInv, Tick
  PROVE  AgeInv'
<1> USE TimesAssumption
<1>1. /\ TypeOK /\ Clocks /\ EntryTTL /\ ExposureInv /\ StalenessInv /\ Located
      /\ now \in Nat /\ now' = now + 1
      /\ db' = db /\ verifier' = verifier /\ writtenAt' = writtenAt
  BY DEF LagInv, AgeInv, TypeInv, TypeOK, Tick
<1>2. /\ \A k \in Keys : /\ db[k] \in Rows /\ cache[k].rec \in Rows /\ cache[k].until \in Nat
                         /\ lastUsable[k] \in Nat /\ writtenAt[k] \in Nat
      /\ \A v \in Verifiers : verifier[v].rec \in Rows /\ verifier[v].started \in Nat
  BY <1>1 DEF TypeOK, Entries, VerifierStates
<1>3. \A k \in Keys : cache'[k] = cache[k] \/ cache'[k] = NoEntry
  BY DEF Tick
<1>4. NoEntry.until = 0 /\ ~Present(NoEntry, now + 1)
  BY <1>1 DEF NoEntry, Present
<1>5. \A k \in Keys : Present(cache[k], now + 1) => Present(cache[k], now)
  BY <1>1, <1>2 DEF Present
<1>6. \A k \in Keys : lastUsable'[k] = IF Usable(db[k], now + 1) THEN now + 1 ELSE lastUsable[k]
  BY DEF Tick, UsableAt
<1>7. \A k \in Keys : /\ lastUsable'[k] \in Nat /\ lastUsable[k] <= lastUsable'[k]
                     /\ lastUsable'[k] <= now + 1 /\ writtenAt[k] <= now + 1
  <2> TAKE k \in Keys
  <2>1. lastUsable[k] <= now /\ writtenAt[k] <= now
    BY <1>1 DEF Clocks
  <2>2. lastUsable'[k] = now + 1 \/ lastUsable'[k] = lastUsable[k]
    BY <1>6, Zenon
  <2> QED
    BY <1>1, <1>2, <2>1, <2>2
<1>8. Clocks'
  <2>1. ASSUME NEW v \in Verifiers, InFlightAt(v)
        PROVE  verifier[v].started <= now + 1 /\ now + 1 <= verifier[v].started + MaxStall
    <3>1. verifier[v].started \in InFlight
      BY <2>1 DEF InFlight, InFlightAt
    <3>2. now < verifier[v].started + MaxStall /\ verifier[v].started <= now
      BY <1>1, <2>1, <3>1 DEF Tick, Clocks
    <3> QED
      BY <1>1, <1>2, <3>2
  <2>2. \A k \in Keys : Usable(db[k], now + 1) => lastUsable'[k] = now + 1
    BY <1>6, Zenon
  <2> QED
    BY <1>1, <1>7, <2>1, <2>2, Zenon DEF Clocks, InFlightAt
<1>9. EntryTTL'
  BY <1>1, <1>2, <1>3, <1>4 DEF EntryTTL
<1>10. ExposureInv'
  <2>1. ASSUME NEW k \in Keys, Present(cache'[k], now + 1), Usable(cache'[k].rec, now + 1)
        PROVE  cache'[k].until <= lastUsable'[k] + MaxStall + TTL
    <3>1. cache'[k] = cache[k] /\ Present(cache[k], now) /\ Usable(cache[k].rec, now + 1)
      BY <1>3, <1>4, <1>5, <2>1, Zenon
    <3>2. Usable(cache[k].rec, now)
      BY <1>1, <1>2, <3>1, UsableBefore
    <3>3. cache[k].until <= lastUsable[k] + MaxStall + TTL
      BY <1>1, <3>1, <3>2, Zenon DEF ExposureInv
    <3> QED
      BY <1>2, <1>7, <3>1, <3>3
  <2>2. ASSUME NEW v \in Verifiers, verifier[v].pc = "fill", Usable(verifier[v].rec, now + 1)
        PROVE  verifier[v].started <= lastUsable'[verifier[v].key]
    <3>1. Usable(verifier[v].rec, now)
      BY <1>1, <1>2, <2>2, UsableBefore
    <3>2. verifier[v].key \in Keys
      BY <1>1, <2>2 DEF Located
    <3>3. verifier[v].started <= lastUsable[verifier[v].key]
      BY <1>1, <2>2, <3>1, Zenon DEF ExposureInv
    <3> QED
      BY <1>2, <1>7, <3>2, <3>3
  <2>3. ASSUME NEW v \in Verifiers, verifier[v].pc = "validate", Usable(verifier[v].rec, now + 1)
        PROVE  verifier[v].started < lastUsable'[verifier[v].key] + MaxStall + TTL
    <3>1. Usable(verifier[v].rec, now)
      BY <1>1, <1>2, <2>3, UsableBefore
    <3>2. verifier[v].key \in Keys
      BY <1>1, <2>3 DEF Located
    <3>3. verifier[v].started < lastUsable[verifier[v].key] + MaxStall + TTL
      BY <1>1, <2>3, <3>1, Zenon DEF ExposureInv
    <3> QED
      BY <1>2, <1>7, <3>2, <3>3
  <2> QED
    BY <1>1, <2>1, <2>2, <2>3, Zenon DEF ExposureInv
<1>11. StalenessInv'
  <2>1. ASSUME NEW k \in Keys, Present(cache'[k], now + 1), cache'[k].rec # db[k]
        PROVE  cache'[k].until <= writtenAt[k] + MaxStall + TTL
    <3>1. cache'[k] = cache[k] /\ Present(cache[k], now)
      BY <1>3, <1>4, <1>5, <2>1, Zenon
    <3> QED
      BY <1>1, <2>1, <3>1, Zenon DEF StalenessInv
  <2> QED
    BY <1>1, <2>1, Zenon DEF StalenessInv
<1> QED
  BY <1>8, <1>9, <1>10, <1>11 DEF AgeInv

\* With no entry and no request there is no record to be old.
LEMMA AgeInit == Init => AgeInv
<1> SUFFICES ASSUME Init PROVE AgeInv
  OBVIOUS
<1> USE TimesAssumption
<1>1. NoEntry.until = 0 /\ ~Present(NoEntry, 0)
  BY DEF NoEntry, Present
<1>2. NoRequest.pc = "idle"
  BY DEF NoRequest
<1>3. ~Usable(Absent, 0)
  BY DEF Usable, Live, Absent
<1>4. Clocks
  BY <1>2, <1>3 DEF Init, Clocks, InFlightAt
<1>5. EntryTTL
  <2>1. \A k \in Keys : cache[k].until = 0
    BY DEF Init, NoEntry
  <2>2. now = 0 /\ 0 <= 0 + TTL
    BY DEF Init
  <2> QED
    BY <2>1, <2>2 DEF EntryTTL
<1>6. ExposureInv
  BY <1>1, <1>2 DEF Init, ExposureInv
<1>7. StalenessInv
  BY <1>1, <1>2 DEF Init, StalenessInv
<1> QED
  BY <1>4, <1>5, <1>6, <1>7 DEF AgeInv

\* Every step keeps each copy of a row within the age its place allows.
LEMMA AgeStep == LagInv /\ [Next]_vars => AgeInv'
<1> SUFFICES ASSUME LagInv, [Next]_vars
             PROVE  AgeInv'
  OBVIOUS
<1>inv. TypeInv /\ TypeOK /\ Located /\ Clocks /\ now \in Nat
  BY DEF LagInv, AgeInv, TypeInv, TypeOK
<1>rows. \A k \in Keys : db[k] \in Rows
  BY <1>inv DEF TypeOK
<1>stamps. ASSUME NEW k \in Keys, Usable(db[k], now)
           PROVE  lastUsable[k] = now
  <2>1. Clocks
    BY <1>inv
  <2> QED
    BY <1>stamps, <2>1, Zenon DEF Clocks
<1>1. ASSUME NEW k \in Keys, NEW e \in Expiries \cup {None}, NEW g \in Grants,
             createApiKey(k, e, g)
      PROVE  AgeInv'
  <2>1. [status |-> "active", expiresAt |-> e, rotateAt |-> None, grant |-> g] \in Rows
    BY TimesAssumption DEF Rows, Statuses, Deadlines
  <2>2. Stamped
    BY <1>1, <1>inv, <2>1, WriteStamped DEF createApiKey
  <2> QED
    BY <1>1, <2>2, StampedAge DEF createApiKey
<1>2. ASSUME NEW k \in Keys, NEW g \in Grants, NEW e \in Expiries \cup {db[k].expiresAt},
             updateApikey(k, e, g)
      PROVE  AgeInv'
  <2>1. [db[k] EXCEPT !.expiresAt = e, !.grant = g] \in Rows
    BY <1>rows, TimesAssumption DEF Rows, Deadlines
  <2>2. Stamped
    BY <1>2, <1>inv, <2>1, WriteStamped DEF updateApikey
  <2> QED
    BY <1>2, <2>2, StampedAge DEF updateApikey
<1>3. ASSUME NEW a \in Admins, NEW k \in Keys, NEW s \in Statuses, updateApiKeyStatus(a, k, s)
      PROVE  AgeInv'
  <2>1. [db[k] EXCEPT !.status = s] \in Rows
    BY <1>rows DEF Rows
  <2>2. Stamped
    BY <1>3, <1>inv, <2>1, WriteStamped DEF updateApiKeyStatus
  <2> QED
    BY <1>3, <2>2, StampedAge DEF updateApiKeyStatus
<1>4. ASSUME NEW a \in Admins, NEW k \in Keys, rovokeApikey(a, k)
      PROVE  AgeInv'
  <2>1. [db[k] EXCEPT !.status = "revoked"] \in Rows
    BY <1>rows DEF Rows, Statuses
  <2>2. Stamped
    BY <1>4, <1>inv, <2>1, WriteStamped DEF rovokeApikey
  <2> QED
    BY <1>4, <2>2, StampedAge DEF rovokeApikey
<1>5. ASSUME NEW a \in Admins, NEW k \in Keys, deleteApiKey(a, k)
      PROVE  AgeInv'
  <2>1. Absent \in Rows
    BY DEF Absent, Rows, Deadlines
  <2>2. Stamped
    BY <1>5, <1>inv, <2>1, WriteStamped DEF deleteApiKey
  <2> QED
    BY <1>5, <2>2, StampedAge DEF deleteApiKey
<1>6. ASSUME \/ \E a \in Admins : RotateConflict(a) \/ HandlerFails(a)
             \/ \E a \in Admins, k \in Keys, grace \in GracePeriods : RotateRead(a, k, grace)
             \/ UNCHANGED vars
      PROVE  AgeInv'
  <2>1. UNCHANGED <<now, db, cache, verifier, writtenAt, lastUsable>>
    BY <1>6 DEF RotateConflict, HandlerFails, RotateRead, vars, history
  <2>2. Stamped
    BY <1>stamps, <2>1, Zenon DEF Stamped
  <2> QED
    BY <2>1, <2>2, StampedAge
<1>7. ASSUME NEW a \in Admins, NEW new \in Keys, RotateCommit(a, new)
      PROVE  AgeInv'
  <2>1. now' = now /\ UNCHANGED <<cache, verifier>>
    BY <1>7 DEF RotateCommit
  <2>2. \A j \in Keys : lastUsable'[j] = IF Usable(db'[j], now) THEN now ELSE lastUsable[j]
    BY <1>7 DEF RotateCommit, UsableAt
  <2>3. ASSUME NEW j \in Keys
        PROVE  \/ db'[j] = db[j] /\ writtenAt'[j] = writtenAt[j]
               \/ writtenAt'[j] = now
    BY <1>7, <1>inv DEF RotateCommit, TypeOK
  <2>4. Stamped
    BY <2>1, <2>2, <2>3, Zenon DEF Stamped
  <2> QED
    BY <2>1, <2>4, StampedAge
<1>8. ASSUME NEW a \in Admins, Bust(a)
      PROVE  AgeInv'
  BY <1>8, DropAge DEF Bust
<1>9. ASSUME removeExpiredRotation
      PROVE  AgeInv'
  <2>1. now' = now /\ UNCHANGED <<cache, verifier>> /\ lastUsable' = lastUsable
    BY <1>9 DEF removeExpiredRotation
  <2>2. ASSUME NEW j \in Keys
        PROVE  \/ db'[j] = db[j] /\ writtenAt'[j] = writtenAt[j]
               \/ writtenAt'[j] = now /\ db'[j] = [db[j] EXCEPT !.status = "revoked"]
    BY <1>9 DEF removeExpiredRotation
  <2>3. ASSUME NEW j \in Keys
        PROVE  ~Usable([db[j] EXCEPT !.status = "revoked"], now)
    BY <1>rows DEF Usable, Live, Rows
  <2>4. Stamped
    BY <1>stamps, <2>1, <2>2, <2>3, Zenon DEF Stamped
  <2> QED
    BY <2>1, <2>4, StampedAge
<1>10. ASSUME NEW v \in Verifiers, NEW k \in Keys, Get(v, k)
       PROVE  AgeInv'
  BY <1>10, GetAge
<1>11. ASSUME NEW v \in Verifiers, Lookup(v) \/ Fill(v)
       PROVE  AgeInv'
  BY <1>11, LookupAge, FillAge
<1>12. ASSUME NEW v \in Verifiers, validateRecord(v) \/ VerifyRejects(v)
       PROVE  AgeInv'
  BY <1>12, LeaveAge DEF validateRecord, VerifyRejects, Reject, history
<1>13. ASSUME NEW k \in Keys, Evict(k)
       PROVE  AgeInv'
  BY <1>13, DropAge DEF Evict, history
<1>14. ASSUME Tick
       PROVE  AgeInv'
  BY <1>14, TickAge
<1> QED
  BY <1>1, <1>2, <1>3, <1>4, <1>5, <1>6, <1>7, <1>8, <1>9, <1>10, <1>11, <1>12, <1>13, <1>14
     DEF Next, AdminStep, VerifierStep

\* The ages and the types together are inductive.
LEMMA LagInvariant == Spec => []LagInv
<1>1. Init => LagInv
  BY TypeInit, AgeInit DEF LagInv
<1>2. LagInv /\ [Next]_vars => LagInv'
  BY TypeStep, AgeStep DEF LagInv
<1> QED
  BY <1>1, <1>2, PTL DEF Spec

\* A decision is never based on a row that was replaced MaxLag ago or earlier.
THEOREM StalenessBounded == Spec => []BoundedStaleness
<1>1. LagInv => BoundedStaleness
  <2> SUFFICES ASSUME LagInv, NEW v \in Verifiers, verifier[v].pc = "validate",
                      verifier[v].rec # db[verifier[v].key]
               PROVE  now < writtenAt[verifier[v].key] + MaxLag
    BY DEF BoundedStaleness
  <2>1. /\ now <= verifier[v].started + MaxStall
        /\ verifier[v].started < writtenAt[verifier[v].key] + MaxStall + TTL
    BY Zenon DEF LagInv, AgeInv, Clocks, InFlightAt, StalenessInv
  <2>2. /\ now \in Nat /\ verifier[v].started \in Nat
        /\ writtenAt[verifier[v].key] \in Nat
    BY DEF LagInv, TypeInv, TypeOK, Located, VerifierStates
  <2> QED
    BY <2>1, <2>2, TimesAssumption DEF MaxLag
<1> QED
  BY LagInvariant, <1>1, PTL

\* Only validateRecord lets a request through.
LEMMA OnlyValidated ==
  ASSUME TypeOK, NEW v \in Verifiers, Accepts(v), [Next]_vars
  PROVE  Usable(verifier[v].rec, now)
<1>1. verifier[v].pc = "validate" /\ verifier'[v].pc = "accepted"
  BY DEF Accepts
<1>2. /\ NoRequest.pc = "idle"
      /\ \A u \in Verifiers : \A req :
           verifier' = [verifier EXCEPT ![u] = req]
             => verifier'[v] = IF u = v THEN req ELSE verifier[v]
  BY DEF NoRequest, TypeOK
<1>3. ASSUME UNCHANGED verifier
      PROVE  FALSE
  BY <1>1, <1>3
<1>4. ASSUME NEW u \in Verifiers, Reject(u)
      PROVE  FALSE
  BY <1>1, <1>2, <1>4 DEF Reject
<1>5. ASSUME NEW u \in Verifiers, NEW k \in Keys, Get(u, k)
      PROVE  FALSE
  BY <1>1, <1>5 DEF Get, TypeOK
<1>6. ASSUME NEW u \in Verifiers, Lookup(u)
      PROVE  FALSE
  BY <1>1, <1>4, <1>6 DEF Lookup, TypeOK
<1>7. ASSUME NEW u \in Verifiers, Fill(u)
      PROVE  FALSE
  BY <1>1, <1>7 DEF Fill, TypeOK
<1>8. ASSUME NEW u \in Verifiers, validateRecord(u)
      PROVE  Usable(verifier[v].rec, now)
  <2>1. u = v
    BY <1>1, <1>8 DEF validateRecord, TypeOK
  <2> QED
    BY <1>8, <2>1, Zenon DEF validateRecord
<1>9. ASSUME \/ \E k \in Keys, e \in Expiries \cup {None}, g \in Grants : createApiKey(k, e, g)
             \/ \E k \in Keys, g \in Grants : \E e \in Expiries \cup {db[k].expiresAt} :
                  updateApikey(k, e, g)
             \/ \E a \in Admins, k \in Keys, s \in Statuses : updateApiKeyStatus(a, k, s)
             \/ \E a \in Admins, k \in Keys : rovokeApikey(a, k) \/ deleteApiKey(a, k)
             \/ \E a \in Admins, k \in Keys, grace \in GracePeriods : RotateRead(a, k, grace)
             \/ \E a \in Admins : AdminStep(a) \/ HandlerFails(a)
             \/ removeExpiredRotation
             \/ \E k \in Keys : Evict(k)
             \/ Tick
             \/ UNCHANGED vars
      PROVE  FALSE
  <2>1. UNCHANGED verifier
    BY <1>9 DEF createApiKey, updateApikey, updateApiKeyStatus, rovokeApikey, deleteApiKey,
       RotateRead, AdminStep, Bust, RotateCommit, RotateConflict, HandlerFails,
       removeExpiredRotation, Evict, Tick, vars
  <2> QED
    BY <1>3, <2>1
<1> QED
  BY <1>4, <1>5, <1>6, <1>7, <1>8, <1>9 DEF Next, VerifierStep, VerifyRejects

\* The exposure of one decision.
LEMMA ExposureStep ==
  ASSUME LagInv, NEW v \in Verifiers, Accepts(v), [Next]_vars
  PROVE  now < lastUsable[verifier[v].key] + MaxLag
<1>1. verifier[v].pc = "validate" /\ verifier[v].key \in Keys
  BY DEF Accepts, LagInv, TypeInv, Located
<1>2. Usable(verifier[v].rec, now)
  <2>1. TypeOK
    BY DEF LagInv, TypeInv
  <2> QED
    BY <2>1, OnlyValidated
<1>3. /\ now <= verifier[v].started + MaxStall
      /\ verifier[v].started < lastUsable[verifier[v].key] + MaxStall + TTL
  BY <1>1, <1>2, Zenon DEF LagInv, AgeInv, Clocks, InFlightAt, ExposureInv
<1>4. /\ now \in Nat /\ verifier[v].started \in Nat
      /\ lastUsable[verifier[v].key] \in Nat
  BY <1>1 DEF LagInv, TypeInv, TypeOK, VerifierStates
<1> QED
  BY <1>3, <1>4, TimesAssumption DEF MaxLag

\* A key that is no longer usable is accepted for less than MaxLag after that, on any
\* interleaving of requests, busts, evictions and handlers that die half-way.
THEOREM ExposureBounded == Spec => BoundedExposure
<1>1. LagInv /\ [Next]_vars
        => [\A v \in Verifiers : Accepts(v) => now < lastUsable[verifier[v].key] + MaxLag]_vars
  BY ExposureStep
<1> QED
  BY LagInvariant, <1>1, PTL DEF Spec, BoundedExposure

=============================================================================
