----------------------------- MODULE VerifyProofs -----------------------------
(***************************************************************************)
(* Proofs about Verify and the Quota in it, for any plans, requests and    *)
(* changes of plan: what the counter of the quota owes to the calls that   *)
(* were let through, and that no call gets past it.                        *)
(***************************************************************************)
EXTENDS Verify, TLAPS, FiniteSetTheorems

-----------------------------------------------------------------------------
(* The invariant of Quota. *)

\* What each variable may hold; a change under way knows its plan.
QuotaTypes ==
  /\ userPlan \in [plan : Plans \cup {None}, lapsed : BOOLEAN]
  /\ hash \in [monthlyQuota : Nat \cup {None}, usedQuota : Int \cup {None}]
  /\ request \in [Requests -> [pc : {"idle", "restore", "store", "incr", "refund"},
                               limit : Nat \cup {None}]]
  /\ changer \in [Changers -> [pc : {"idle", "write", "store"}, plan : Plans \cup {None},
                               how : {"none", "create", "assign", "change"}]]
  /\ \A c \in Changers : changer[c].pc # "idle" => changer[c].plan \in Plans
  /\ granted \in Nat /\ leaked \in Nat /\ repaid \in Nat
  /\ restores \in Nat /\ resent \in Nat
  /\ owing \in SUBSET Requests
  /\ overlapped \in BOOLEAN

\* What the counter shows, and what it should show.
Used == Plus(hash.usedQuota, 0)
Claims == granted + leaked + Cardinality(owing) - repaid

\* Refunds to come of what the counter has forgotten.
Late == {r \in Requests : request[r].pc = "refund"} \ owing

\* The counter shows no more than there are claims, and less only by the late refunds that
\* it has had since it was set back: one per request, with those that are still to come.  (A
\* refund whose reply was lost is no claim any more, and will be one less when it is resent.)
Balance ==
  /\ \A r \in owing : request[r].pc = "refund"
  /\ Used <= Claims
  /\ Claims + Cardinality(Late) <= Used + Cardinality(Requests)

\* Requests that have found the hash missing.
Restoring == {r \in Requests : request[r].pc \in {"restore", "store"}}

Restored ==
  /\ hash = NoHash => restores = 0 /\ resent = 0
  /\ restores + Cardinality(Restoring) <= Cardinality(Requests) + resent

\* As long as writers have not overlapped, whoever is about to write the limit knows it.
LimitKnown ==
  ~overlapped =>
    /\ \A r \in Requests : request[r].pc = "store" => request[r].limit = QuotaOf(userPlan)
    /\ \A c \in Changers : changer[c].pc = "store" => changer[c].plan = userPlan.plan
    /\ (\A c \in Changers : changer[c].pc # "store") /\ QuotaOf(userPlan) # None
         => hash.monthlyQuota \in {None, QuotaOf(userPlan)}

QuotaInv == QuotaTypes /\ Balance /\ Restored /\ LimitKnown

-----------------------------------------------------------------------------
(* Counting. *)

\* Sets of requests are counted by naturals, and by fewer the smaller they are.
LEMMA Counts ==
  /\ Cardinality(Requests) \in Nat
  /\ \A S \in SUBSET Requests : /\ IsFiniteSet(S) /\ Cardinality(S) \in Nat
                                /\ Cardinality(S) <= Cardinality(Requests)
  /\ \A S, T \in SUBSET Requests : S \subseteq T => Cardinality(S) <= Cardinality(T)
  /\ \A S \in SUBSET Requests, r \in Requests :
       /\ r \notin S => Cardinality(S \cup {r}) = Cardinality(S) + 1
       /\ r \in S => Cardinality(S \ {r}) = Cardinality(S) - 1
       /\ r \notin S => S \ {r} = S
<1>1. IsFiniteSet(Requests) /\ Cardinality(Requests) \in Nat
  BY QuotaAssumption, FS_CardinalityType
<1>2. ASSUME NEW S \in SUBSET Requests
      PROVE  IsFiniteSet(S) /\ Cardinality(S) \in Nat /\ Cardinality(S) <= Cardinality(Requests)
  BY <1>1, FS_Subset, FS_CardinalityType
<1>3. ASSUME NEW S \in SUBSET Requests, NEW T \in SUBSET Requests, S \subseteq T
      PROVE  Cardinality(S) <= Cardinality(T)
  BY <1>2, <1>3, FS_Subset
<1>4. ASSUME NEW S \in SUBSET Requests, NEW r \in Requests, r \notin S
      PROVE  Cardinality(S \cup {r}) = Cardinality(S) + 1 /\ S \ {r} = S
  BY <1>2, <1>4, FS_AddElement
<1>5. ASSUME NEW S \in SUBSET Requests, NEW r \in Requests, r \in S
      PROVE  Cardinality(S \ {r}) = Cardinality(S) - 1
  BY <1>2, <1>5, FS_RemoveElement
<1> QED
  BY <1>1, <1>2, <1>3, <1>4, <1>5

\* None is no number.
LEMMA UsedTyped ==
  ASSUME QuotaTypes
  PROVE  /\ Used \in Int /\ None \notin Int
         /\ \A n \in Int : Plus(hash.usedQuota, n) = Used + n
<1>1. hash.usedQuota \in Int \cup {None} /\ None \notin Int
  BY QuotaAssumption DEF QuotaTypes
<1> QED
  BY <1>1 DEF Used, Plus

\* The state of one request changes.
LEMMA RequestMoves ==
  ASSUME QuotaTypes, NEW r \in Requests, NEW pc \in {"idle", "restore", "store", "incr", "refund"},
         NEW limit \in Nat \cup {None}, Enter(r, pc, limit) \/ (Leave(r) /\ pc = "idle")
  PROVE  /\ request' \in [Requests -> [pc : {"idle", "restore", "store", "incr", "refund"},
                                       limit : Nat \cup {None}]]
         /\ request'[r].pc = pc /\ (Enter(r, pc, limit) => request'[r].limit = limit)
         /\ \A q \in Requests : q # r => request'[q] = request[q]
BY DEF QuotaTypes, Enter, Leave, NoCall

\* The counter is set back.
LEMMA RecountBalance ==
  ASSUME QuotaTypes, Recount, hash'.usedQuota \in {0, None}
  PROVE  Balance'
<1>1. Used' = 0
  BY DEF Used, Plus
<1>2. owing' = {} /\ Cardinality(owing') = 0 /\ Claims' = 0
  BY FS_EmptySet DEF Recount, Claims
<1>3. Late' \in SUBSET Requests
  BY DEF Late
<1> QED
  BY <1>1, <1>2, <1>3, Counts DEF Balance

\* A request moves on, and neither comes to a refund nor leaves one.
LEMMA MoveBalance ==
  ASSUME QuotaTypes, Balance, NEW r \in Requests,
         request[r].pc # "refund", request'[r].pc # "refund",
         \A q \in Requests : q # r => request'[q] = request[q],
         UNCHANGED owing, Used' - Used = Claims' - Claims, Used' \in Int, Claims' \in Int
  PROVE  Balance'
<1>1. Late' = Late /\ \A q \in owing' : request'[q].pc = "refund"
  BY DEF Balance, Late, QuotaTypes
<1>2. Cardinality(Late) \in Nat /\ Cardinality(Requests) \in Nat /\ Used \in Int /\ Claims \in Int
  <2>1. Late \in SUBSET Requests /\ owing \in SUBSET Requests
    BY DEF Late, QuotaTypes
  <2> QED
    BY <2>1, Counts, UsedTyped DEF Claims, QuotaTypes
<1> QED
  BY <1>1, <1>2 DEF Balance

\* A request that owes nothing yet is refused.
LEMMA RefusedBalance ==
  ASSUME QuotaTypes, Balance, NEW r \in Requests,
         request[r].pc # "refund", request'[r].pc = "refund",
         \A q \in Requests : q # r => request'[q] = request[q],
         owing' = owing \cup {r}, UNCHANGED <<granted, leaked, repaid>>, Used' = Used + 1
  PROVE  Balance'
<1>1. r \notin owing /\ owing \in SUBSET Requests
  BY DEF Balance, QuotaTypes
<1>2. Late' = Late /\ \A q \in owing' : request'[q].pc = "refund"
  BY <1>1 DEF Balance, Late
<1>3. Claims' = Claims + 1 /\ Claims \in Int /\ Used \in Int
  <2>1. Cardinality(owing \cup {r}) = Cardinality(owing) + 1 /\ Cardinality(owing) \in Nat
    BY <1>1, Counts
  <2>2. Cardinality(owing') = Cardinality(owing) + 1
    BY <2>1, Zenon
  <2> QED
    BY <2>1, <2>2, UsedTyped DEF Claims, QuotaTypes
<1>4. Cardinality(Late) \in Nat /\ Cardinality(Requests) \in Nat
  BY Counts DEF Late
<1> QED
  BY <1>2, <1>3, <1>4 DEF Balance

\* A request gives back what it owes, or its refund comes late or fails.
LEMMA RefundBalance ==
  ASSUME QuotaTypes, Balance, NEW r \in Requests,
         request[r].pc = "refund", request'[r].pc # "refund",
         \A q \in Requests : q # r => request'[q] = request[q],
         owing' = owing \ {r}, UNCHANGED <<granted, repaid>>,
         \/ Used' = Used - 1 /\ leaked' = leaked
         \/ Used' = Used /\ leaked' = leaked + Cardinality(owing \cap {r})
  PROVE  Balance'
<1>1. owing \in SUBSET Requests /\ granted \in Nat /\ leaked \in Nat /\ repaid \in Nat
  BY DEF QuotaTypes
<1>2. Late' = Late \ {r} /\ \A q \in owing' : request'[q].pc = "refund"
  <2>1. \A q \in owing' : request'[q].pc = "refund"
    BY <1>1 DEF Balance
  <2>2. \A q : q \in Late' <=> q \in Late \ {r}
    BY <1>1 DEF Late
  <2> QED
    BY <2>1, <2>2
<1>3. /\ Used \in Int /\ Claims \in Int /\ Late \in SUBSET Requests
      /\ Cardinality(Late) \in Nat /\ Cardinality(Requests) \in Nat
      /\ Cardinality(owing) \in Nat
  <2>1. Late \in SUBSET Requests
    BY DEF Late
  <2> QED
    BY <1>1, <2>1, Counts, UsedTyped DEF Claims
<1>4. CASE r \in owing
  <2>1. owing \cap {r} = {r} /\ Late' = Late /\ Cardinality(owing') = Cardinality(owing) - 1
    BY <1>1, <1>2, <1>4, Counts DEF Late
  <2>2. Cardinality(owing \cap {r}) = 1
    BY <2>1, FS_Singleton
  <2>3. Used' - Used = Claims' - Claims /\ Used' \in Int /\ Claims' \in Int
    BY <1>1, <1>3, <2>1, <2>2 DEF Claims
  <2>4. Cardinality(Late') = Cardinality(Late)
    BY <2>1, Zenon
  <2> QED
    BY <1>2, <1>3, <2>3, <2>4 DEF Balance
<1>5. CASE r \notin owing
  <2>1. owing \cap {r} = {} /\ owing' = owing /\ r \in Late
    BY <1>1, <1>5 DEF Late
  <2>2. Cardinality(owing \cap {r}) = 0
    BY <2>1, FS_EmptySet
  <2>3. Cardinality(Late') = Cardinality(Late) - 1
    BY <1>2, <1>3, <2>1, Counts
  <2>4. Claims' = Claims
    <3>1. Cardinality(owing') = Cardinality(owing)
      BY <2>1, Zenon
    <3>2. leaked' = leaked
      BY <1>1, <2>2
    <3> QED
      BY <3>1, <3>2 DEF Claims
  <2> QED
    BY <1>2, <1>3, <2>3, <2>4 DEF Balance
<1> QED
  BY <1>4, <1>5

\* A reply is lost: the counter has moved, the request has not.
LEMMA UnansweredBalance ==
  ASSUME QuotaTypes, Balance, UNCHANGED <<request, owing>>,
         Used' - Used = Claims' - Claims, Used' \in Int, Claims' \in Int
  PROVE  Balance'
<1>1. Late' = Late /\ \A q \in owing' : request'[q].pc = "refund"
  BY DEF Balance, Late
<1>2. Cardinality(Late) \in Nat /\ Cardinality(Requests) \in Nat /\ Used \in Int /\ Claims \in Int
  <2>1. Late \in SUBSET Requests /\ owing \in SUBSET Requests
    BY DEF Late, QuotaTypes
  <2> QED
    BY <2>1, Counts, UsedTyped DEF Claims, QuotaTypes
<1> QED
  BY <1>1, <1>2 DEF Balance

\* Who is restoring, after a move of one request.
LEMMA RestoringMoves ==
  ASSUME QuotaTypes, Restored, NEW r \in Requests,
         \A q \in Requests : q # r => request'[q] = request[q],
         hash' = NoHash => hash = NoHash, resent' = resent,
         \/ restores' = restores /\ (request'[r].pc \in {"restore", "store"}
                                       => request[r].pc \in {"restore", "store"})
         \/ /\ restores' = restores + 1 /\ hash' # NoHash
            /\ request[r].pc = "store" /\ request'[r].pc = "incr"
  PROVE  Restored'
<1>1. Restoring \in SUBSET Requests /\ Restoring' \in SUBSET Requests
      /\ restores \in Nat /\ resent \in Nat
  BY DEF Restoring, QuotaTypes
<1>2. Cardinality(Restoring) \in Nat /\ Cardinality(Restoring') \in Nat
      /\ Cardinality(Requests) \in Nat
  BY <1>1, Counts
<1>3. CASE restores' = restores /\ (request'[r].pc \in {"restore", "store"}
                                       => request[r].pc \in {"restore", "store"})
  <2>1. Restoring' \subseteq Restoring
    BY <1>3 DEF Restoring
  <2>2. Cardinality(Restoring') <= Cardinality(Restoring)
    BY <1>1, <2>1, Counts
  <2> QED
    BY <1>1, <1>2, <1>3, <2>2 DEF Restored
<1>4. CASE /\ restores' = restores + 1 /\ hash' # NoHash
           /\ request[r].pc = "store" /\ request'[r].pc = "incr"
  <2>1. \A q : q \in Restoring' <=> q \in Restoring \ {r}
    BY <1>4 DEF Restoring
  <2>2. Restoring' = Restoring \ {r} /\ r \in Restoring
    BY <1>4, <2>1 DEF Restoring
  <2>3. Cardinality(Restoring \ {r}) = Cardinality(Restoring) - 1
    BY <1>1, <2>2, Counts
  <2>4. Cardinality(Restoring') = Cardinality(Restoring) - 1
    BY <2>2, <2>3, Zenon
  <2> QED
    BY <1>1, <1>2, <1>4, <2>4 DEF Restored
<1> QED
  BY <1>3, <1>4

\* Nobody has restored the hash since it was lost.
LEMMA RestoredAfresh ==
  ASSUME QuotaTypes, restores' = 0, resent' = 0
  PROVE  Restored'
<1>1. Restoring' \in SUBSET Requests
  BY DEF Restoring
<1> QED
  BY <1>1, Counts DEF Restored

\* The hash keeps its count, whatever becomes of its limit.
LEMMA CountStays ==
  ASSUME QuotaTypes, Balance, UNCHANGED <<request, granted, owing, leaked, repaid>>,
         hash'.usedQuota = hash.usedQuota
  PROVE  Balance'
BY DEF Balance, Used, Claims, Late

\* The hash is not lost.
LEMMA RestoredStays ==
  ASSUME Restored, UNCHANGED <<request, restores, resent>>, hash' = NoHash => hash = NoHash
  PROVE  Restored'
BY DEF Restored, Restoring

-----------------------------------------------------------------------------
(* The steps of a request. *)

\* What is not the request's.
LEMMA LimitStays ==
  ASSUME QuotaTypes, LimitKnown, NEW r \in Requests, UNCHANGED <<userPlan, changer, overlapped>>,
         \A q \in Requests : q # r => request'[q] = request[q],
         request'[r].pc = "store" => request'[r].limit = QuotaOf(userPlan),
         \/ hash'.monthlyQuota = hash.monthlyQuota
         \/ request[r].pc = "store" /\ hash'.monthlyQuota = request[r].limit
  PROVE  LimitKnown'
BY DEF LimitKnown, QuotaOf

\* The limit of a plan.
LEMMA QuotaTyped ==
  ASSUME QuotaTypes
  PROVE  /\ QuotaOf(userPlan) \in Nat \cup {None}
         /\ \A p \in Plans : MonthlyQuota[p] \in Nat \cup {None}
BY QuotaAssumption DEF QuotaTypes, QuotaOf

\* Reading the quota hash changes nothing that is counted.
LEMMA HgetallStep ==
  ASSUME QuotaInv, NEW r \in Requests, Hgetall(r)
  PROVE  QuotaInv'
<1>1. QuotaTypes /\ Balance /\ Restored /\ LimitKnown
  BY DEF QuotaInv
<1>2. UNCHANGED <<userPlan, hash, changer, counts, overlapped>> /\ request[r].pc = "idle"
  BY DEF Hgetall
<1>3. hash.monthlyQuota \in Nat \cup {None}
  BY <1>1 DEF QuotaTypes
<1>4. /\ request' \in [Requests -> [pc : {"idle", "restore", "store", "incr", "refund"},
                                    limit : Nat \cup {None}]]
      /\ request'[r].pc \in {"restore", "incr"}
      /\ request'[r].pc = "restore" => hash = NoHash
      /\ \A q \in Requests : q # r => request'[q] = request[q]
  <2>1. CASE hash = NoHash
    BY <1>1, <2>1, RequestMoves DEF Hgetall
  <2>2. CASE hash # NoHash
    BY <1>1, <1>3, <2>2, RequestMoves DEF Hgetall
  <2> QED
    BY <2>1, <2>2
<1>5. QuotaTypes'
  BY <1>1, <1>2, <1>4 DEF QuotaTypes, counts
<1>6. Balance'
  <2>1. Used' = Used /\ Claims' = Claims /\ Used \in Int /\ Claims \in Int
    BY <1>1, <1>2, UsedTyped, Counts DEF Used, Claims, counts, QuotaTypes
  <2> QED
    BY <1>1, <1>2, <1>4, <2>1, MoveBalance DEF counts
<1>7. Restored'
  <2>1. CASE hash = NoHash
    BY <1>1, <1>2, <2>1, RestoredAfresh DEF Restored, counts
  <2>2. CASE hash # NoHash
    BY <1>1, <1>2, <1>4, <2>2, RestoringMoves DEF counts
  <2> QED
    BY <2>1, <2>2
<1>8. LimitKnown'
  BY <1>1, <1>2, <1>4, LimitStays
<1> QED
  BY <1>5, <1>6, <1>7, <1>8 DEF QuotaInv

\* Reading the plan for a restore changes nothing that is counted.
LEMMA RestoreReadStep ==
  ASSUME QuotaInv, NEW r \in Requests, RestoreRead(r)
  PROVE  QuotaInv'
<1>1. QuotaTypes /\ Balance /\ Restored /\ LimitKnown
  BY DEF QuotaInv
<1>2. UNCHANGED <<userPlan, hash, changer, counts, overlapped>> /\ request[r].pc = "restore"
  BY DEF RestoreRead
<1>3. /\ request' \in [Requests -> [pc : {"idle", "restore", "store", "incr", "refund"},
                                    limit : Nat \cup {None}]]
      /\ request'[r].pc \in {"idle", "store"}
      /\ request'[r].pc = "store" => request'[r].limit = QuotaOf(userPlan)
      /\ \A q \in Requests : q # r => request'[q] = request[q]
  <2>1. CASE QuotaOf(userPlan) = None
    BY <1>1, <2>1, RequestMoves DEF RestoreRead
  <2>2. CASE QuotaOf(userPlan) # None
    BY <1>1, <2>2, QuotaTyped, RequestMoves DEF RestoreRead
  <2> QED
    BY <2>1, <2>2
<1>4. QuotaTypes'
  BY <1>1, <1>2, <1>3 DEF QuotaTypes, counts
<1>5. Balance'
  <2>1. Used' = Used /\ Claims' = Claims /\ Used \in Int /\ Claims \in Int
    BY <1>1, <1>2, UsedTyped, Counts DEF Used, Claims, counts, QuotaTypes
  <2> QED
    BY <1>1, <1>2, <1>3, <2>1, MoveBalance DEF counts
<1>6. Restored'
  BY <1>1, <1>2, <1>3, RestoringMoves DEF counts
<1>7. LimitKnown'
  BY <1>1, <1>2, <1>3, LimitStays
<1> QED
  BY <1>4, <1>5, <1>6, <1>7 DEF QuotaInv

\* A restore stores the limit that it read, and the count starts anew.
LEMMA RestoreStoreStep ==
  ASSUME QuotaInv, NEW r \in Requests, RestoreStore(r)
  PROVE  QuotaInv'
<1>1. QuotaTypes /\ Balance /\ Restored /\ LimitKnown
  BY DEF QuotaInv
<1>2. /\ UNCHANGED <<userPlan, changer, overlapped>> /\ request[r].pc = "store"
      /\ hash' = [monthlyQuota |-> request[r].limit, usedQuota |-> 0]
      /\ Recount /\ restores' = restores + 1 /\ resent' = resent
  BY DEF RestoreStore
<1>3. request[r].limit \in Nat \cup {None} /\ None \notin Int
  BY <1>1, QuotaAssumption DEF QuotaTypes
<1>4. /\ request' \in [Requests -> [pc : {"idle", "restore", "store", "incr", "refund"},
                                    limit : Nat \cup {None}]]
      /\ request'[r].pc = "incr"
      /\ \A q \in Requests : q # r => request'[q] = request[q]
  BY <1>1, <1>3, RequestMoves DEF RestoreStore
<1>5. hash' # NoHash /\ hash'.monthlyQuota = request[r].limit /\ hash'.usedQuota = 0
  BY <1>2, <1>3 DEF NoHash
<1>6. QuotaTypes'
  BY <1>1, <1>2, <1>3, <1>4 DEF QuotaTypes, Recount
<1>7. Balance'
  BY <1>1, <1>2, <1>5, RecountBalance
<1>8. Restored'
  BY <1>1, <1>2, <1>4, <1>5, RestoringMoves
<1>9. LimitKnown'
  BY <1>1, <1>2, <1>4, <1>5, LimitStays
<1> QED
  BY <1>6, <1>7, <1>8, <1>9 DEF QuotaInv

\* HINCRBY moves the count and leaves the limit alone.
LEMMA HashCounts ==
  ASSUME QuotaTypes, NEW n \in Int, hash' = [hash EXCEPT !.usedQuota = Plus(hash.usedQuota, n)]
  PROVE  /\ hash' \in [monthlyQuota : Nat \cup {None}, usedQuota : Int \cup {None}]
         /\ hash'.monthlyQuota = hash.monthlyQuota
         /\ hash'.usedQuota = Used + n /\ Used' = Used + n /\ Used' \in Int /\ hash' # NoHash
<1>1. /\ Used \in Int /\ None \notin Int /\ Plus(hash.usedQuota, n) = Used + n
      /\ hash.monthlyQuota \in Nat \cup {None}
  BY UsedTyped DEF QuotaTypes
<1>2. /\ hash'.usedQuota = Used + n /\ hash'.monthlyQuota = hash.monthlyQuota
      /\ hash' = [monthlyQuota |-> hash.monthlyQuota, usedQuota |-> Used + n]
  BY <1>1 DEF QuotaTypes
<1>3. Used' = Used + n
  BY <1>1, <1>2 DEF Plus, Used
<1>4. Used + n \in Int /\ NoHash.usedQuota = None
  BY <1>1 DEF NoHash
<1>5. hash' # NoHash
  BY <1>1, <1>2, <1>4
<1>6. hash' \in [monthlyQuota : Nat \cup {None}, usedQuota : Int \cup {None}]
  BY <1>1, <1>2, <1>4
<1> QED
  BY <1>2, <1>3, <1>4, <1>5, <1>6

\* A request that increments the counter is owed for exactly once.
LEMMA IncrementStep ==
  ASSUME QuotaInv, NEW r \in Requests, Increment(r)
  PROVE  QuotaInv'
<1>1. QuotaTypes /\ Balance /\ Restored /\ LimitKnown
  BY DEF QuotaInv
<1>2. /\ UNCHANGED <<userPlan, changer, leaked, repaid, restores, resent, overlapped>> /\ request[r].pc = "incr"
      /\ hash' = [hash EXCEPT !.usedQuota = Plus(hash.usedQuota, 1)]
  BY DEF Increment
<1>3. /\ hash' \in [monthlyQuota : Nat \cup {None}, usedQuota : Int \cup {None}]
      /\ hash'.monthlyQuota = hash.monthlyQuota
      /\ Used' = Used + 1 /\ Used' \in Int /\ hash' # NoHash
  BY <1>1, <1>2, HashCounts
<1>4. request[r].limit \in Nat \cup {None}
  BY <1>1 DEF QuotaTypes
<1>5. ASSUME /\ request' \in [Requests -> [pc : {"idle", "restore", "store", "incr", "refund"},
                                           limit : Nat \cup {None}]]
             /\ request'[r].pc \in {"idle", "refund"}
             /\ \A q \in Requests : q # r => request'[q] = request[q],
             Balance', granted' \in Nat, owing' \in SUBSET Requests
      PROVE  QuotaInv'
  <2>1. QuotaTypes'
    BY <1>1, <1>2, <1>3, <1>5 DEF QuotaTypes
  <2>2. Restored'
    BY <1>1, <1>2, <1>3, <1>5, RestoringMoves
  <2>3. LimitKnown'
    BY <1>1, <1>2, <1>3, <1>5, LimitStays
  <2> QED
    BY <1>5, <2>1, <2>2, <2>3 DEF QuotaInv
<1>6. CASE Enter(r, "refund", request[r].limit) /\ owing' = owing \cup {r} /\ UNCHANGED granted
  <2>1. /\ request' \in [Requests -> [pc : {"idle", "restore", "store", "incr", "refund"},
                                      limit : Nat \cup {None}]]
        /\ request'[r].pc = "refund"
        /\ \A q \in Requests : q # r => request'[q] = request[q]
    BY <1>1, <1>4, <1>6, RequestMoves
  <2>2. Balance'
    BY <1>1, <1>2, <1>3, <1>6, <2>1, RefusedBalance
  <2> QED
    BY <1>1, <1>5, <1>6, <2>1, <2>2 DEF QuotaTypes
<1>7. CASE Leave(r) /\ granted' = granted + 1 /\ UNCHANGED owing
  <2>1. /\ request' \in [Requests -> [pc : {"idle", "restore", "store", "incr", "refund"},
                                      limit : Nat \cup {None}]]
        /\ request'[r].pc = "idle"
        /\ \A q \in Requests : q # r => request'[q] = request[q]
    BY <1>1, <1>7, RequestMoves, QuotaAssumption DEF Leave
  <2>2. Used' - Used = Claims' - Claims /\ Claims' \in Int
    BY <1>1, <1>2, <1>3, <1>7, UsedTyped, Counts DEF Claims, QuotaTypes
  <2>3. Balance'
    BY <1>1, <1>2, <1>3, <1>7, <2>1, <2>2, MoveBalance
  <2> QED
    BY <1>1, <1>5, <1>7, <2>1, <2>3 DEF QuotaTypes
<1> QED
  BY <1>6, <1>7 DEF Increment

\* A refund pays back the increment of its own request.
LEMMA RefundStep ==
  ASSUME QuotaInv, NEW r \in Requests, Refund(r)
  PROVE  QuotaInv'
<1>1. QuotaTypes /\ Balance /\ Restored /\ LimitKnown
  BY DEF QuotaInv
<1>2. /\ UNCHANGED <<userPlan, changer, granted, leaked, repaid, restores, resent, overlapped>>
      /\ request[r].pc = "refund" /\ owing' = owing \ {r} /\ Leave(r)
      /\ hash' = [hash EXCEPT !.usedQuota = Plus(hash.usedQuota, -1)]
  BY DEF Refund
<1>3. /\ hash' \in [monthlyQuota : Nat \cup {None}, usedQuota : Int \cup {None}]
      /\ hash'.monthlyQuota = hash.monthlyQuota
      /\ Used' = Used + (-1) /\ Used' \in Int /\ hash' # NoHash
  BY <1>1, <1>2, HashCounts
<1>4. /\ request' \in [Requests -> [pc : {"idle", "restore", "store", "incr", "refund"},
                                    limit : Nat \cup {None}]]
      /\ request'[r].pc = "idle"
      /\ \A q \in Requests : q # r => request'[q] = request[q]
  BY <1>1, <1>2, RequestMoves, QuotaAssumption
<1>5. QuotaTypes'
  BY <1>1, <1>2, <1>3, <1>4 DEF QuotaTypes
<1>6. Used' = Used - 1
  BY <1>1, <1>3, UsedTyped
<1>7. Balance'
  BY <1>1, <1>2, <1>4, <1>6, RefundBalance
<1>8. Restored'
  BY <1>1, <1>2, <1>3, <1>4, RestoringMoves
<1>9. LimitKnown'
  BY <1>1, <1>2, <1>3, <1>4, LimitStays
<1> QED
  BY <1>5, <1>7, <1>8, <1>9 DEF QuotaInv

\* An increment whose reply is lost is one that nobody gives back.
LEMMA IncrementUnansweredStep ==
  ASSUME QuotaInv, NEW r \in Requests, IncrementUnanswered(r)
  PROVE  QuotaInv'
<1>1. QuotaTypes /\ Balance /\ Restored /\ LimitKnown
  BY DEF QuotaInv
<1>2. /\ UNCHANGED <<userPlan, request, changer, granted, owing, repaid>>
      /\ UNCHANGED <<restores, resent, overlapped>>
      /\ leaked' = leaked + 1
      /\ hash' = [hash EXCEPT !.usedQuota = Plus(hash.usedQuota, 1)]
  BY DEF IncrementUnanswered
<1>3. /\ hash' \in [monthlyQuota : Nat \cup {None}, usedQuota : Int \cup {None}]
      /\ hash'.monthlyQuota = hash.monthlyQuota
      /\ Used' = Used + 1 /\ Used' \in Int /\ hash' # NoHash
  BY <1>1, <1>2, HashCounts
<1>4. QuotaTypes'
  BY <1>1, <1>2, <1>3 DEF QuotaTypes
<1>5. Used' - Used = Claims' - Claims /\ Claims' \in Int
  BY <1>1, <1>2, <1>3, UsedTyped, Counts DEF Claims, QuotaTypes
<1>6. Balance'
  BY <1>1, <1>2, <1>3, <1>5, UnansweredBalance
<1>7. Restored'
  BY <1>1, <1>2, <1>3, RestoredStays
<1>8. LimitKnown'
  BY <1>1, <1>2, <1>3 DEF LimitKnown, QuotaOf
<1> QED
  BY <1>4, <1>6, <1>7, <1>8 DEF QuotaInv

\* A refund whose reply is lost has been made, and may be made again.
LEMMA RefundUnansweredStep ==
  ASSUME QuotaInv, NEW r \in Requests, RefundUnanswered(r)
  PROVE  QuotaInv'
<1>1. QuotaTypes /\ Balance /\ Restored /\ LimitKnown
  BY DEF QuotaInv
<1>2. /\ UNCHANGED <<userPlan, request, changer, granted, owing, leaked>>
      /\ UNCHANGED <<restores, resent, overlapped>>
      /\ repaid' = repaid + 1
      /\ hash' = [hash EXCEPT !.usedQuota = Plus(hash.usedQuota, -1)]
  BY DEF RefundUnanswered
<1>3. /\ hash' \in [monthlyQuota : Nat \cup {None}, usedQuota : Int \cup {None}]
      /\ hash'.monthlyQuota = hash.monthlyQuota
      /\ Used' = Used + (-1) /\ Used' \in Int /\ hash' # NoHash
  BY <1>1, <1>2, HashCounts
<1>4. QuotaTypes'
  BY <1>1, <1>2, <1>3 DEF QuotaTypes
<1>5. Used' - Used = Claims' - Claims /\ Claims' \in Int
  BY <1>1, <1>2, <1>3, UsedTyped, Counts DEF Claims, QuotaTypes
<1>6. Balance'
  BY <1>1, <1>2, <1>3, <1>5, UnansweredBalance
<1>7. Restored'
  BY <1>1, <1>2, <1>3, RestoredStays
<1>8. LimitKnown'
  BY <1>1, <1>2, <1>3 DEF LimitKnown, QuotaOf
<1> QED
  BY <1>4, <1>6, <1>7, <1>8 DEF QuotaInv

\* A restore whose reply is lost has set the count back, and may do so again.
LEMMA RestoreUnansweredStep ==
  ASSUME QuotaInv, NEW r \in Requests, RestoreUnanswered(r)
  PROVE  QuotaInv'
<1>1. QuotaTypes /\ Balance /\ Restored /\ LimitKnown
  BY DEF QuotaInv
<1>2. /\ UNCHANGED <<userPlan, request, changer, overlapped>> /\ request[r].pc = "store"
      /\ hash' = [monthlyQuota |-> request[r].limit, usedQuota |-> 0]
      /\ Recount /\ restores' = restores + 1 /\ resent' = resent + 1
  BY DEF RestoreUnanswered
<1>3. request[r].limit \in Nat \cup {None} /\ None \notin Int
  BY <1>1, QuotaAssumption DEF QuotaTypes
<1>4. hash' # NoHash /\ hash'.monthlyQuota = request[r].limit /\ hash'.usedQuota = 0
  BY <1>2, <1>3 DEF NoHash
<1>5. QuotaTypes'
  BY <1>1, <1>2, <1>3 DEF QuotaTypes, Recount
<1>6. Balance'
  BY <1>1, <1>2, <1>4, RecountBalance
<1>7. Restored'
  <2>1. Restoring' = Restoring /\ Restoring \in SUBSET Requests
    BY <1>2 DEF Restoring
  <2>2. Cardinality(Restoring') = Cardinality(Restoring)
    BY <2>1, Zenon
  <2>3. Cardinality(Restoring) \in Nat /\ Cardinality(Requests) \in Nat
    BY <2>1, Counts
  <2>4. restores \in Nat /\ resent \in Nat
    BY <1>1 DEF QuotaTypes
  <2> QED
    BY <1>1, <1>2, <1>4, <2>2, <2>3, <2>4 DEF Restored
<1>8. LimitKnown'
  BY <1>1, <1>2, <1>4 DEF LimitKnown, QuotaOf
<1> QED
  BY <1>5, <1>6, <1>7, <1>8 DEF QuotaInv

\* A request that fails leaves its increment behind, if it made one.
LEMMA RequestFailsStep ==
  ASSUME QuotaInv, NEW r \in Requests, RequestFails(r)
  PROVE  QuotaInv'
<1>1. QuotaTypes /\ Balance /\ Restored /\ LimitKnown
  BY DEF QuotaInv
<1>2. /\ UNCHANGED <<userPlan, hash, changer, granted, repaid, restores, resent, overlapped>>
      /\ owing' = owing \ {r} /\ Leave(r)
      /\ leaked' = leaked + Cardinality(owing \cap {r})
  BY DEF RequestFails
<1>3. /\ request' \in [Requests -> [pc : {"idle", "restore", "store", "incr", "refund"},
                                    limit : Nat \cup {None}]]
      /\ request'[r].pc = "idle"
      /\ \A q \in Requests : q # r => request'[q] = request[q]
  BY <1>1, <1>2, RequestMoves, QuotaAssumption
<1>4. Cardinality(owing \cap {r}) \in Nat
  BY Counts DEF QuotaTypes
<1>5. QuotaTypes'
  BY <1>1, <1>2, <1>3, <1>4 DEF QuotaTypes
<1>6. Used' = Used /\ Used \in Int
  BY <1>1, <1>2, UsedTyped DEF Used
<1>7. Balance'
  <2>1. CASE request[r].pc = "refund"
    BY <1>1, <1>2, <1>3, <1>6, <2>1, RefundBalance
  <2>2. CASE request[r].pc # "refund"
    <3>1. owing' = owing /\ owing \cap {r} = {}
      BY <1>1, <1>2, <2>2 DEF Balance
    <3>2. Cardinality(owing \cap {r}) = 0 /\ Cardinality(owing') = Cardinality(owing)
      BY <3>1, FS_EmptySet, Zenon
    <3>3. Claims' = Claims /\ Claims \in Int
      BY <1>1, <1>2, <3>2, Counts DEF Claims, QuotaTypes
    <3> QED
      BY <1>1, <1>3, <1>6, <2>2, <3>1, <3>3, MoveBalance
  <2> QED
    BY <2>1, <2>2
<1>8. Restored'
  BY <1>1, <1>2, <1>3, RestoringMoves
<1>9. LimitKnown'
  BY <1>1, <1>2, <1>3, LimitStays
<1> QED
  BY <1>5, <1>7, <1>8, <1>9 DEF QuotaInv

-----------------------------------------------------------------------------
(* The steps of a change of plan, and of the world. *)

\* The state of one change of plan moves.
LEMMA ChangerMoves ==
  ASSUME QuotaTypes, NEW c \in Changers,
         NEW d \in [pc : {"idle", "write", "store"}, plan : Plans \cup {None},
                    how : {"none", "create", "assign", "change"}],
         d.pc # "idle" => d.plan \in Plans, changer' = [changer EXCEPT ![c] = d]
  PROVE  /\ changer' \in [Changers -> [pc : {"idle", "write", "store"}, plan : Plans \cup {None},
                                       how : {"none", "create", "assign", "change"}]]
         /\ \A e \in Changers : changer'[e] = IF e = c THEN d ELSE changer[e]
         /\ \A e \in Changers : changer'[e].pc # "idle" => changer'[e].plan \in Plans
BY DEF QuotaTypes

\* It ends.
LEMMA StopMoves ==
  ASSUME QuotaTypes, NEW c \in Changers, Stop(c)
  PROVE  /\ changer' \in [Changers -> [pc : {"idle", "write", "store"}, plan : Plans \cup {None},
                                       how : {"none", "create", "assign", "change"}]]
         /\ changer'[c].pc = "idle"
         /\ \A e \in Changers : e # c => changer'[e] = changer[e]
         /\ \A e \in Changers : changer'[e].pc # "idle" => changer'[e].plan \in Plans
<1>1. /\ NoChange \in [pc : {"idle", "write", "store"}, plan : Plans \cup {None},
                       how : {"none", "create", "assign", "change"}]
      /\ NoChange.pc = "idle"
  BY DEF NoChange
<1> QED
  BY <1>1, ChangerMoves DEF Stop

\* It ends, or waits for a reply that was lost.
LEMMA StoredMoves ==
  ASSUME QuotaTypes, NEW c \in Changers, Stored(c)
  PROVE  /\ changer' \in [Changers -> [pc : {"idle", "write", "store"}, plan : Plans \cup {None},
                                       how : {"none", "create", "assign", "change"}]]
         /\ changer'[c].pc = "idle" \/ changer'[c] = changer[c]
         /\ \A e \in Changers : e # c => changer'[e] = changer[e]
         /\ \A e \in Changers : changer'[e].pc # "idle" => changer'[e].plan \in Plans
<1>1. CASE Stop(c)
  BY <1>1, StopMoves
<1>2. CASE UNCHANGED changer
  BY <1>2 DEF QuotaTypes
<1> QED
  BY <1>1, <1>2 DEF Stored

\* selectPlan has read the row, and written nothing yet.
LEMMA SelectPlanStep ==
  ASSUME QuotaInv, NEW c \in Changers, NEW p \in Plans, SelectPlan(c, p)
  PROVE  QuotaInv'
<1> DEFINE how == CASE userPlan = NoPlan -> "create"
                    [] userPlan.lapsed   -> "assign"
                    [] OTHER             -> "change"
           d == [pc |-> "write", plan |-> p, how |-> how]
<1>1. QuotaTypes /\ Balance /\ Restored /\ LimitKnown
  BY DEF QuotaInv
<1>2. how \in {"none", "create", "assign", "change"}
  OBVIOUS
<1>3. changer' = [changer EXCEPT ![c] = d]
  BY DEF SelectPlan
<1> HIDE DEF how
<1>4. /\ changer' \in [Changers -> [pc : {"idle", "write", "store"}, plan : Plans \cup {None},
                                    how : {"none", "create", "assign", "change"}]]
      /\ \A e \in Changers : changer'[e] = IF e = c THEN d ELSE changer[e]
      /\ \A e \in Changers : changer'[e].pc # "idle" => changer'[e].plan \in Plans
  BY <1>1, <1>2, <1>3, ChangerMoves
<1>5. UNCHANGED <<userPlan, hash, request, granted, owing, leaked, repaid, restores, resent, overlapped>>
      /\ changer[c].pc = "idle"
  BY DEF SelectPlan, counts
<1>6. QuotaTypes'
  BY <1>1, <1>4, <1>5 DEF QuotaTypes
<1>7. Balance' /\ Restored'
  BY <1>1, <1>5, CountStays, RestoredStays
<1>8. \A e \in Changers : /\ changer'[e].pc = "store" => changer[e].pc = "store" /\ changer'[e] = changer[e]
                          /\ changer[e].pc = "store" => changer'[e] = changer[e]
  BY <1>4, <1>5
<1>9. LimitKnown'
  BY <1>1, <1>5, <1>8 DEF LimitKnown, QuotaOf
<1> QED
  BY <1>6, <1>7, <1>9 DEF QuotaInv

\* The plan is written first, and the hash is then behind it.
LEMMA WritePlanStep ==
  ASSUME QuotaInv, NEW c \in Changers, WritePlan(c)
  PROVE  QuotaInv'
<1> DEFINE d == [changer[c] EXCEPT !.pc = "store"]
<1>1. QuotaTypes /\ Balance /\ Restored /\ LimitKnown
  BY DEF QuotaInv
<1>2. /\ changer[c].pc = "write" /\ userPlan' = [plan |-> changer[c].plan, lapsed |-> FALSE]
      /\ changer' = [changer EXCEPT ![c] = d] /\ overlapped' = (overlapped \/ WritePending(c))
      /\ UNCHANGED <<hash, request, granted, owing, leaked, repaid, restores, resent>>
  BY DEF WritePlan, counts
<1>3. /\ d \in [pc : {"idle", "write", "store"}, plan : Plans \cup {None},
                how : {"none", "create", "assign", "change"}]
      /\ d.plan = changer[c].plan /\ changer[c].plan \in Plans /\ d.pc = "store"
  BY <1>1, <1>2 DEF QuotaTypes
<1> HIDE DEF d
<1>4. /\ changer' \in [Changers -> [pc : {"idle", "write", "store"}, plan : Plans \cup {None},
                                    how : {"none", "create", "assign", "change"}]]
      /\ \A e \in Changers : changer'[e] = IF e = c THEN d ELSE changer[e]
      /\ \A e \in Changers : changer'[e].pc # "idle" => changer'[e].plan \in Plans
  BY <1>1, <1>2, <1>3, ChangerMoves
<1>5. QuotaTypes'
  <2>1. overlapped' \in BOOLEAN
    BY <1>1, <1>2 DEF QuotaTypes, WritePending
  <2> QED
    BY <1>1, <1>2, <1>3, <1>4, <2>1 DEF QuotaTypes
<1>6. Balance' /\ Restored'
  BY <1>1, <1>2, CountStays, RestoredStays
<1>7. LimitKnown'
  <2> SUFFICES ASSUME ~overlapped' PROVE LimitKnown'
    BY DEF LimitKnown
  <2>1. /\ \A r \in Requests : request'[r].pc # "store"
        /\ \A e \in Changers : e # c => changer[e].pc # "store"
    BY <1>2 DEF WritePending
  <2>2. \A e \in Changers : changer'[e].pc = "store" => changer'[e].plan = userPlan'.plan
    BY <1>2, <1>3, <1>4, <2>1
  <2>3. changer'[c].pc = "store"
    BY <1>3, <1>4
  <2> QED
    BY <2>1, <2>2, <2>3 DEF LimitKnown
<1> QED
  BY <1>5, <1>6, <1>7 DEF QuotaInv

\* Once a change has written the limit of its plan, that is the limit.
LEMMA LimitWritten ==
  ASSUME QuotaTypes, LimitKnown, NEW c \in Changers, changer[c].pc = "store",
         changer'[c].pc = "idle" \/ changer'[c] = changer[c],
         \A e \in Changers : e # c => changer'[e] = changer[e],
         UNCHANGED <<userPlan, request, overlapped>>,
         MonthlyQuota[changer[c].plan] # None
           => hash'.monthlyQuota = MonthlyQuota[changer[c].plan]
  PROVE  LimitKnown'
BY DEF LimitKnown, QuotaOf

\* storeQuota writes the limit of the plan, if it has one, and the count starts anew.
LEMMA StoreQuotaStep ==
  ASSUME QuotaInv, NEW c \in Changers, StoreQuota(c)
  PROVE  QuotaInv'
<1> DEFINE quota == MonthlyQuota[changer[c].plan]
<1>1. QuotaTypes /\ Balance /\ Restored /\ LimitKnown
  BY DEF QuotaInv
<1>2. changer[c].pc = "store" /\ Stored(c) /\ UNCHANGED <<userPlan, request, restores, resent, overlapped>>
  BY DEF StoreQuota, counts
<1>3. quota \in Nat \cup {None} /\ None \notin Int
  BY <1>1, <1>2, QuotaTyped, QuotaAssumption DEF QuotaTypes
<1>4. /\ changer' \in [Changers -> [pc : {"idle", "write", "store"}, plan : Plans \cup {None},
                                    how : {"none", "create", "assign", "change"}]]
      /\ changer'[c].pc = "idle" \/ changer'[c] = changer[c]
      /\ \A e \in Changers : e # c => changer'[e] = changer[e]
      /\ \A e \in Changers : changer'[e].pc # "idle" => changer'[e].plan \in Plans
  BY <1>1, <1>2, StoredMoves
<1>5. CASE quota = None
  <2>1. UNCHANGED <<hash, granted, owing, leaked, repaid>>
    BY <1>5 DEF StoreQuota, counts
  <2>2. QuotaTypes'
    BY <1>1, <1>2, <1>4, <2>1 DEF QuotaTypes
  <2>3. Balance' /\ Restored'
    BY <1>1, <1>2, <2>1, CountStays, RestoredStays
  <2>4. LimitKnown'
    BY <1>1, <1>2, <1>4, <1>5, LimitWritten
  <2> QED
    BY <2>2, <2>3, <2>4 DEF QuotaInv
<1>6. CASE quota # None
  <2>1. hash' = [monthlyQuota |-> quota, usedQuota |-> 0] /\ Recount
    BY <1>6 DEF StoreQuota
  <2> HIDE DEF quota
  <2>2. hash'.monthlyQuota = quota /\ hash'.usedQuota = 0 /\ hash' # NoHash
    BY <1>3, <2>1 DEF NoHash
  <2>3. QuotaTypes'
    BY <1>1, <1>2, <1>3, <1>4, <2>1 DEF QuotaTypes, Recount
  <2>4. Balance'
    BY <1>1, <2>1, <2>2, RecountBalance
  <2>5. Restored'
    BY <1>1, <1>2, <2>2, RestoredStays
  <2>6. LimitKnown'
    BY <1>1, <1>2, <1>4, <2>2, LimitWritten DEF quota
  <2> QED
    BY <2>3, <2>4, <2>5, <2>6 DEF QuotaInv
<1> QED
  BY <1>5, <1>6

\* updateQuotaLimit replaces the limit and keeps the count, or deletes the hash.
LEMMA UpdateQuotaLimitStep ==
  ASSUME QuotaInv, NEW c \in Changers, UpdateQuotaLimit(c)
  PROVE  QuotaInv'
<1> DEFINE quota == MonthlyQuota[changer[c].plan]
<1>1. QuotaTypes /\ Balance /\ Restored /\ LimitKnown
  BY DEF QuotaInv
<1>2. changer[c].pc = "store" /\ Stored(c) /\ UNCHANGED <<userPlan, request, overlapped>>
  BY DEF UpdateQuotaLimit
<1>3. quota \in Nat \cup {None} /\ None \notin Int
  BY <1>1, <1>2, QuotaTyped, QuotaAssumption DEF QuotaTypes
<1>4. /\ changer' \in [Changers -> [pc : {"idle", "write", "store"}, plan : Plans \cup {None},
                                    how : {"none", "create", "assign", "change"}]]
      /\ changer'[c].pc = "idle" \/ changer'[c] = changer[c]
      /\ \A e \in Changers : e # c => changer'[e] = changer[e]
      /\ \A e \in Changers : changer'[e].pc # "idle" => changer'[e].plan \in Plans
  BY <1>1, <1>2, StoredMoves
<1>5. CASE quota = None
  <2>1. hash' = NoHash /\ Recount /\ restores' = 0 /\ resent' = 0
    BY <1>5 DEF UpdateQuotaLimit, Lose
  <2>2. NoHash.usedQuota = None /\ NoHash \in [monthlyQuota : Nat \cup {None}, usedQuota : Int \cup {None}]
    BY DEF NoHash
  <2>3. QuotaTypes'
    BY <1>1, <1>2, <1>4, <2>1, <2>2 DEF QuotaTypes, Recount
  <2>4. Balance' /\ Restored'
    BY <1>1, <2>1, <2>2, RecountBalance, RestoredAfresh
  <2>5. LimitKnown'
    BY <1>1, <1>2, <1>4, <1>5, LimitWritten
  <2> QED
    BY <2>3, <2>4, <2>5 DEF QuotaInv
<1>6. CASE quota # None
  <2>1. /\ hash' = [hash EXCEPT !.monthlyQuota = quota]
        /\ UNCHANGED <<granted, owing, leaked, repaid, restores, resent>>
    BY <1>6 DEF UpdateQuotaLimit, counts
  <2> HIDE DEF quota
  <2>2. /\ hash' \in [monthlyQuota : Nat \cup {None}, usedQuota : Int \cup {None}]
        /\ hash'.monthlyQuota = quota /\ hash'.usedQuota = hash.usedQuota
    BY <1>1, <1>3, <2>1 DEF QuotaTypes
  <2>3. hash' # NoHash
    BY <1>6, <2>2 DEF NoHash
  <2>4. QuotaTypes'
    BY <1>1, <1>2, <1>4, <2>1, <2>2 DEF QuotaTypes
  <2>5. Balance' /\ Restored'
    BY <1>1, <1>2, <2>1, <2>2, <2>3, CountStays, RestoredStays
  <2>6. LimitKnown'
    BY <1>1, <1>2, <1>4, <2>2, LimitWritten DEF quota
  <2> QED
    BY <2>4, <2>5, <2>6 DEF QuotaInv
<1> QED
  BY <1>5, <1>6

\* A change may stop between two writes.
LEMMA ChangeFailsStep ==
  ASSUME QuotaInv, NEW c \in Changers, ChangeFails(c)
  PROVE  QuotaInv'
<1>1. QuotaTypes /\ Balance /\ Restored /\ LimitKnown
  BY DEF QuotaInv
<1>2. /\ Stop(c) /\ overlapped' = (overlapped \/ changer[c].pc = "store")
      /\ UNCHANGED <<userPlan, hash, request, granted, owing, leaked, repaid, restores, resent>>
  BY DEF ChangeFails, counts
<1>3. /\ changer' \in [Changers -> [pc : {"idle", "write", "store"}, plan : Plans \cup {None},
                                    how : {"none", "create", "assign", "change"}]]
      /\ changer'[c].pc = "idle"
      /\ \A e \in Changers : e # c => changer'[e] = changer[e]
      /\ \A e \in Changers : changer'[e].pc # "idle" => changer'[e].plan \in Plans
  BY <1>1, <1>2, StopMoves
<1>4. QuotaTypes'
  BY <1>1, <1>2, <1>3 DEF QuotaTypes
<1>5. Balance' /\ Restored'
  BY <1>1, <1>2, CountStays, RestoredStays
<1>6. LimitKnown'
  BY <1>1, <1>2, <1>3 DEF LimitKnown, QuotaOf
<1> QED
  BY <1>4, <1>5, <1>6 DEF QuotaInv

\* Redis may drop the hash.
LEMMA EvictStep ==
  ASSUME QuotaInv, Evict
  PROVE  QuotaInv'
<1>1. QuotaTypes /\ Balance /\ Restored /\ LimitKnown
  BY DEF QuotaInv
<1>2. /\ hash' = NoHash /\ Recount /\ restores' = 0 /\ resent' = 0
      /\ UNCHANGED <<userPlan, request, changer, overlapped>>
  BY DEF Evict, Lose
<1>3. /\ NoHash.usedQuota = None /\ NoHash.monthlyQuota = None
      /\ NoHash \in [monthlyQuota : Nat \cup {None}, usedQuota : Int \cup {None}]
  BY DEF NoHash
<1>4. QuotaTypes'
  BY <1>1, <1>2, <1>3 DEF QuotaTypes, Recount
<1>5. Balance' /\ Restored'
  BY <1>1, <1>2, <1>3, RecountBalance, RestoredAfresh
<1>6. LimitKnown'
  BY <1>1, <1>2, <1>3 DEF LimitKnown, QuotaOf
<1> QED
  BY <1>4, <1>5, <1>6 DEF QuotaInv

\* A subscription may end.
LEMMA LapseStep ==
  ASSUME QuotaInv, Lapse
  PROVE  QuotaInv'
<1>1. QuotaTypes /\ Balance /\ Restored /\ LimitKnown
  BY DEF QuotaInv
<1>2. UNCHANGED <<hash, request, changer, granted, owing, leaked, repaid, restores, resent, overlapped>>
  BY DEF Lapse, counts
<1>3. userPlan' \in [plan : Plans \cup {None}, lapsed : BOOLEAN] /\ userPlan'.plan = userPlan.plan
  BY <1>1 DEF QuotaTypes, Lapse
<1>4. QuotaTypes'
  BY <1>1, <1>2, <1>3 DEF QuotaTypes
<1>5. Balance' /\ Restored'
  BY <1>1, <1>2, CountStays, RestoredStays
<1>6. LimitKnown'
  BY <1>1, <1>2, <1>3 DEF LimitKnown, QuotaOf
<1> QED
  BY <1>4, <1>5, <1>6 DEF QuotaInv

\* A step that leaves the variables alone keeps the invariant.
LEMMA QuotaStays == QuotaInv /\ UNCHANGED vars => QuotaInv'
<1> SUFFICES ASSUME QuotaInv, UNCHANGED vars PROVE QuotaInv'
  OBVIOUS
<1>1. QuotaTypes' /\ LimitKnown'
  BY DEF QuotaInv, QuotaTypes, LimitKnown, QuotaOf, vars, counts
<1>2. Balance' /\ Restored'
  BY CountStays, RestoredStays DEF QuotaInv, vars, counts
<1> QED
  BY <1>1, <1>2 DEF QuotaInv

\* Every action of Quota keeps the invariant.
LEMMA QuotaStep == QuotaInv /\ [Next]_vars => QuotaInv'
BY QuotaStays, HgetallStep, RestoreReadStep, RestoreStoreStep, IncrementStep, RefundStep,
   IncrementUnansweredStep, RefundUnansweredStep, RestoreUnansweredStep,
   RequestFailsStep, SelectPlanStep, WritePlanStep, StoreQuotaStep, UpdateQuotaLimitStep,
   ChangeFailsStep, EvictStep, LapseStep
   DEF Next, RequestStep, Unanswered, ChangerStep

\* At first nothing is counted.
LEMMA QuotaInit == Init => QuotaInv
<1> SUFFICES ASSUME Init PROVE QuotaInv
  OBVIOUS
<1>1. QuotaTypes
  BY DEF Init, QuotaTypes, NoPlan, NoHash, NoCall, NoChange
<1>2. owing = {} /\ \A r \in Requests : request[r].pc = "idle"
  BY DEF Init, NoCall
<1>3. Used = 0 /\ Claims = 0
  BY <1>2, FS_EmptySet DEF Init, Used, Claims, Plus, NoHash
<1>4. Late = {} /\ Restoring = {}
  BY <1>2 DEF Late, Restoring
<1>5. Cardinality(Late) = 0 /\ Cardinality(Restoring) = 0
  BY <1>4, FS_EmptySet
<1>6. Balance
  BY <1>2, <1>3, <1>5, Counts DEF Balance
<1>7. Restored
  BY <1>5, Counts DEF Init, Restored
<1>8. LimitKnown
  BY <1>2 DEF Init, LimitKnown, QuotaOf, NoPlan, NoChange
<1> QED
  BY <1>1, <1>6, <1>7, <1>8 DEF QuotaInv

-----------------------------------------------------------------------------
(* Verify runs Quota. *)

\* Every step of Verify is a step of Quota, or one that Quota does not see.
LEMMA VerifyIsQuota == [NextVerify]_verifyVars => [Next]_vars
<1>1. ASSUME NEW r \in Requests, VerifyStep(r)
      PROVE  RequestStep(r) \/ UNCHANGED vars
  BY <1>1 DEF VerifyStep, Validated, NotValidated, Begin, Charge, ChargeUnanswered, OverQuota,
              ChargeFails, Allowed, Throttled, InvalidPolicy, Dies, Limited, RequestStep
<1> QED
  BY <1>1 DEF NextVerify, verifyVars, Next

\* Whatever the verify pipeline does with the quota, the invariant holds.
LEMMA QuotaInvariant == SpecVerify => []QuotaInv
<1>1. InitVerify => QuotaInv
  BY QuotaInit DEF InitVerify
<1>2. QuotaInv /\ [NextVerify]_verifyVars => QuotaInv'
  BY QuotaStep, VerifyIsQuota
<1> QED
  BY <1>1, <1>2, PTL DEF SpecVerify

\* What the quota is owed for each call.
Ledger(r) ==
  /\ request[r].pc # "idle" => call[r] = "charge"
  /\ call[r] = "charge" => paid[r] = IF request[r].pc = "refund" THEN 1 ELSE 0
  /\ call[r] = "limit" => paid[r] = 1 \/ exempt[r]
  /\ call[r] \in Stages => ~token[r]

CallTypes ==
  /\ call \in [Requests -> Stages \cup Answers]
  /\ paid \in [Requests -> {0, 1}]
  /\ exempt \in [Requests -> BOOLEAN] /\ token \in [Requests -> BOOLEAN]

StageInv == CallTypes /\ \A r \in Requests : Ledger(r)

\* What a step of a call does: it begins, is charged, or is answered.
Begins(r) ==
  /\ call[r] \notin Stages /\ request'[r].pc = "idle"
  /\ call'[r] \in {"charge", "badRequest", "unauthorized", "failed"}
  /\ paid'[r] = 0 /\ token'[r] = FALSE /\ exempt'[r] = FALSE

IsCharged(r) ==
  /\ call[r] = "charge" /\ token'[r] = token[r] /\ exempt'[r] \in BOOLEAN /\ paid'[r] \in {0, 1}
  /\ \/ /\ request'[r].pc # "idle" /\ call'[r] = "charge"
        /\ paid'[r] = IF request'[r].pc = "refund" THEN 1 ELSE 0
     \/ request'[r].pc = "idle" /\ call'[r] = "limit" /\ (paid'[r] = 1 \/ exempt'[r])
     \/ request'[r].pc = "idle" /\ call'[r] = "forbidden" /\ paid'[r] = 0
     \/ request'[r].pc = "idle" /\ call'[r] = "failed"

IsAnswered(r) ==
  /\ call[r] = "limit" /\ request'[r].pc = "idle" /\ paid'[r] = paid[r] /\ exempt'[r] = exempt[r]
  /\ token'[r] \in BOOLEAN
  /\ call'[r] \in {"ok", "tooMany", "badRequest", "failed"}
  /\ call'[r] = "ok" => token'[r]

\* Or it waits on, its reply being lost.
IsUnanswered(r) ==
  /\ call[r] = "charge"
  /\ UNCHANGED <<request, call, ledger>>

Alone(r) ==
  \A q \in Requests : q # r => /\ request'[q] = request[q] /\ call'[q] = call[q]
                               /\ paid'[q] = paid[q] /\ exempt'[q] = exempt[q]
                               /\ token'[q] = token[q]

\* What an await of the quota adds to the counter for the call.
LEMMA CountedBy ==
  ASSUME QuotaTypes, NEW r \in Requests, request[r].pc \in {"incr", "refund"}
  PROVE  Counted(r) = Used' - Used
BY DEF Counted, Used

\* A charge moves its own request only, to the end of the charging stage.
LEMMA ChargeMoves ==
  ASSUME QuotaInv, StageInv, NEW r \in Requests, Charge(r)
  PROVE  IsCharged(r) /\ \A q \in Requests : q # r => request'[q] = request[q]
<1>1. QuotaTypes /\ CallTypes /\ Ledger(r)
  BY DEF QuotaInv, StageInv
<1>2. /\ call[r] = "charge" /\ token' = token /\ paid[r] \in {0, 1} /\ exempt[r] \in BOOLEAN
      /\ paid'[r] = paid[r] + Counted(r)
      /\ exempt'[r] = (exempt[r] \/ (request[r].pc = "restore" /\ QuotaOf(userPlan) = None))
      /\ call'[r] = IF request'[r].pc = "idle" THEN "limit" ELSE "charge"
  BY <1>1 DEF Charge, Charging, To, CallTypes
<1>3. exempt'[r] \in BOOLEAN
  BY <1>2
<1>4. CASE Hgetall(r)
  <2>1. request[r].pc = "idle" /\ request'[r].pc \in {"restore", "incr"}
        /\ \A q \in Requests : q # r => request'[q] = request[q]
    BY <1>1, <1>4 DEF Hgetall, Enter, QuotaTypes
  <2>2. paid'[r] = 0
    BY <1>1, <1>2, <2>1 DEF Counted, Ledger
  <2> QED
    BY <1>2, <1>3, <2>1, <2>2 DEF IsCharged
<1>5. CASE RestoreRead(r)
  <2>1. /\ request[r].pc = "restore"
        /\ request'[r].pc = IF QuotaOf(userPlan) = None THEN "idle" ELSE "store"
        /\ \A q \in Requests : q # r => request'[q] = request[q]
    BY <1>1, <1>5 DEF RestoreRead, Enter, Leave, NoCall, QuotaTypes
  <2>2. paid'[r] = 0
    BY <1>1, <1>2, <2>1 DEF Counted, Ledger
  <2> QED
    BY <1>2, <1>3, <2>1, <2>2 DEF IsCharged
<1>6. CASE RestoreStore(r)
  <2>1. request[r].pc = "store" /\ request'[r].pc = "incr"
        /\ \A q \in Requests : q # r => request'[q] = request[q]
    BY <1>1, <1>6 DEF RestoreStore, Enter, QuotaTypes
  <2>2. paid'[r] = 0
    BY <1>1, <1>2, <2>1 DEF Counted, Ledger
  <2> QED
    BY <1>2, <1>3, <2>1, <2>2 DEF IsCharged
<1>7. CASE Increment(r)
  <2>1. request[r].pc = "incr" /\ request'[r].pc \in {"idle", "refund"}
        /\ \A q \in Requests : q # r => request'[q] = request[q]
    BY <1>1, <1>7 DEF Increment, Enter, Leave, NoCall, QuotaTypes
  <2>2. Used' = Used + 1 /\ Used \in Int
    BY <1>1, <1>7, HashCounts, UsedTyped DEF Increment
  <2>3. Counted(r) = 1
    BY <1>1, <2>1, <2>2, CountedBy
  <2>4. paid'[r] = 1
    BY <1>1, <1>2, <2>1, <2>3 DEF Ledger
  <2> QED
    BY <1>2, <1>3, <2>1, <2>4 DEF IsCharged
<1> QED
  BY <1>4, <1>5, <1>6, <1>7 DEF Charge

\* So does the refusal of a request over quota.
LEMMA OverQuotaMoves ==
  ASSUME QuotaInv, StageInv, NEW r \in Requests, OverQuota(r)
  PROVE  IsCharged(r) /\ \A q \in Requests : q # r => request'[q] = request[q]
<1>1. QuotaTypes /\ CallTypes /\ Ledger(r)
  BY DEF QuotaInv, StageInv
<1>2. /\ call[r] = "charge" /\ token' = token /\ paid[r] \in {0, 1} /\ exempt[r] \in BOOLEAN
      /\ paid'[r] = paid[r] + Counted(r) /\ call'[r] = "forbidden"
      /\ exempt'[r] = (exempt[r] \/ (request[r].pc = "restore" /\ QuotaOf(userPlan) = None))
  BY <1>1 DEF OverQuota, Charging, To, CallTypes
<1>3. request[r].pc = "refund" /\ request'[r].pc = "idle"
      /\ \A q \in Requests : q # r => request'[q] = request[q]
  BY <1>1 DEF OverQuota, Refund, Leave, NoCall, QuotaTypes
<1>4. Used' = Used + (-1) /\ Used \in Int
  BY <1>1, HashCounts, UsedTyped DEF OverQuota, Refund
<1>5. Counted(r) = -1
  BY <1>1, <1>3, <1>4, CountedBy
<1>6. paid'[r] = 0
  BY <1>1, <1>2, <1>3, <1>5 DEF Ledger
<1>7. exempt'[r] \in BOOLEAN
  BY <1>2
<1> QED
  BY <1>2, <1>3, <1>6, <1>7 DEF IsCharged

\* So does an error of the quota service.
LEMMA ChargeFailsMoves ==
  ASSUME QuotaInv, StageInv, NEW r \in Requests, ChargeFails(r)
  PROVE  IsCharged(r) /\ \A q \in Requests : q # r => request'[q] = request[q]
<1>1. QuotaTypes /\ CallTypes /\ Ledger(r)
  BY DEF QuotaInv, StageInv
<1>2. /\ call[r] = "charge" /\ token' = token /\ paid[r] \in {0, 1} /\ exempt[r] \in BOOLEAN
      /\ paid'[r] = paid[r] + Counted(r) /\ call'[r] = "failed"
      /\ exempt'[r] = (exempt[r] \/ (request[r].pc = "restore" /\ QuotaOf(userPlan) = None))
  BY <1>1 DEF ChargeFails, Charging, To, CallTypes
<1>3. /\ request'[r].pc = "idle" /\ hash' = hash
      /\ \A q \in Requests : q # r => request'[q] = request[q]
  BY <1>1 DEF ChargeFails, RequestFails, Leave, NoCall, QuotaTypes, vars
<1>4. Counted(r) = 0
  <2>1. Plus(hash.usedQuota, 0) \in Int
    BY <1>1, UsedTyped DEF Used
  <2> QED
    BY <1>3, <2>1 DEF Counted
<1>5. exempt'[r] \in BOOLEAN /\ paid'[r] \in {0, 1}
  BY <1>2, <1>4
<1> QED
  BY <1>2, <1>3, <1>5 DEF IsCharged

\* A lost reply changes the counter only.
LEMMA UnansweredMoves ==
  ASSUME NEW r \in Requests, ChargeUnanswered(r)
  PROVE  IsUnanswered(r) /\ UNCHANGED <<userPlan, changer>>
BY DEF ChargeUnanswered, Unanswered, IncrementUnanswered, RefundUnanswered, RestoreUnanswered,
       IsUnanswered

\* Every step of a call is of one of the four kinds, and of no other call.
LEMMA CallMoves ==
  ASSUME QuotaInv, StageInv, NEW r \in Requests, VerifyStep(r)
  PROVE  /\ Begins(r) \/ IsCharged(r) \/ IsUnanswered(r) \/ IsAnswered(r)
         /\ Alone(r)
         /\ DOMAIN call' = Requests /\ DOMAIN paid' = Requests
         /\ DOMAIN exempt' = Requests /\ DOMAIN token' = Requests
<1>1. QuotaTypes /\ CallTypes /\ Ledger(r)
  BY DEF QuotaInv, StageInv
<1>2. CASE Validated(r) \/ NotValidated(r)
  <2>1. Begins(r)
    BY <1>1, <1>2 DEF Validated, NotValidated, Begin, Begins, To, vars, CallTypes, Ledger, Stages
  <2> QED
    BY <1>1, <1>2, <2>1 DEF Validated, NotValidated, Begin, To, vars, Alone, CallTypes
<1>3. CASE Charge(r)
  BY <1>1, <1>3, ChargeMoves DEF Charge, Charging, To, Alone, CallTypes
<1>8. CASE ChargeUnanswered(r)
  BY <1>1, <1>8, UnansweredMoves DEF IsUnanswered, Alone, CallTypes, ledger
<1>4. CASE OverQuota(r)
  BY <1>1, <1>4, OverQuotaMoves DEF OverQuota, Charging, To, Alone, CallTypes
<1>5. CASE ChargeFails(r)
  BY <1>1, <1>5, ChargeFailsMoves DEF ChargeFails, Charging, To, Alone, CallTypes
<1>6. ASSUME NEW taken \in BOOLEAN, NEW answer \in {"ok", "tooMany", "badRequest", "failed"},
             answer = "ok" => taken, Limited(r, taken, answer)
      PROVE  /\ IsAnswered(r) /\ Alone(r)
             /\ DOMAIN call' = Requests /\ DOMAIN paid' = Requests
             /\ DOMAIN exempt' = Requests /\ DOMAIN token' = Requests
  <2>1. IsAnswered(r)
    BY <1>1, <1>6 DEF Limited, IsAnswered, To, vars, CallTypes, Ledger
  <2> QED
    BY <1>1, <1>6, <2>1 DEF Limited, To, vars, Alone, CallTypes
<1>7. CASE Allowed(r) \/ Throttled(r) \/ InvalidPolicy(r) \/ Dies(r)
  BY <1>6, <1>7 DEF Allowed, Throttled, InvalidPolicy, Dies
<1> QED
  BY <1>2, <1>3, <1>4, <1>5, <1>7, <1>8 DEF VerifyStep

\* A step of someone else changes no call.
LEMMA CallsStay ==
  ASSUME [NextVerify]_verifyVars
  PROVE  \/ \E r \in Requests : VerifyStep(r)
         \/ UNCHANGED <<request, call, paid, exempt, token>>
BY DEF NextVerify, verifyVars, vars, ledger, ChangerStep, SelectPlan, WritePlan, StoreQuota,
       UpdateQuotaLimit, ChangeFails, Evict, Lapse

\* Every step of the pipeline keeps the order of the stages.
LEMMA StageStep == QuotaInv /\ StageInv /\ [NextVerify]_verifyVars => StageInv'
<1> SUFFICES ASSUME QuotaInv, StageInv, [NextVerify]_verifyVars PROVE StageInv'
  OBVIOUS
<1>1. ASSUME NEW r \in Requests, VerifyStep(r)
      PROVE  StageInv'
  <2>1. /\ Begins(r) \/ IsCharged(r) \/ IsUnanswered(r) \/ IsAnswered(r)
        /\ Alone(r)
        /\ DOMAIN call' = Requests /\ DOMAIN paid' = Requests
        /\ DOMAIN exempt' = Requests /\ DOMAIN token' = Requests
    BY <1>1, CallMoves
  <2>2. CallTypes /\ Ledger(r)
    BY DEF StageInv
  <2>3. /\ call'[r] \in Stages \cup Answers /\ paid'[r] \in {0, 1}
        /\ exempt'[r] \in BOOLEAN /\ token'[r] \in BOOLEAN
        /\ Ledger(r)'
    BY <2>1, <2>2 DEF Begins, IsCharged, IsUnanswered, IsAnswered, CallTypes, Ledger, ledger,
                      Stages, Answers
  <2>4. ASSUME NEW q \in Requests
        PROVE  /\ call'[q] \in Stages \cup Answers /\ paid'[q] \in {0, 1}
               /\ exempt'[q] \in BOOLEAN /\ token'[q] \in BOOLEAN
               /\ Ledger(q)'
    <3>1. CASE q = r
      BY <2>3, <3>1
    <3>2. CASE q # r
      BY <2>1, <3>2 DEF Alone, StageInv, CallTypes, Ledger
    <3> QED
      BY <3>1, <3>2
  <2>5. /\ call' = [q \in Requests |-> call'[q]] /\ paid' = [q \in Requests |-> paid'[q]]
        /\ exempt' = [q \in Requests |-> exempt'[q]] /\ token' = [q \in Requests |-> token'[q]]
    BY <1>1, <2>2 DEF CallTypes, VerifyStep, Validated, NotValidated, Begin, Charge,
                      ChargeUnanswered, OverQuota, ChargeFails, Charging, Allowed, Throttled,
                      InvalidPolicy, Dies, Limited, To, ledger
  <2>6. CallTypes'
    BY <2>4, <2>5 DEF CallTypes
  <2> QED
    BY <2>4, <2>6 DEF StageInv
<1>2. CASE UNCHANGED <<request, call, paid, exempt, token>>
  BY <1>2 DEF StageInv, CallTypes, Ledger
<1> QED
  BY <1>1, <1>2, CallsStay

\* So the order of the stages always holds.
LEMMA StageInvariant == SpecVerify => []StageInv
<1>1. InitVerify => StageInv
  BY DEF InitVerify, Init, NoCall, StageInv, CallTypes, Ledger, Stages, Answers
<1> QED
  BY <1>1, StageStep, QuotaInvariant, PTL DEF SpecVerify

-----------------------------------------------------------------------------
(* Theorems. *)

\* Every variable keeps its type, and the counter is below zero by no more than one for
\* each request and one for each refund that may be sent twice.
THEOREM StagesCorrect == SpecVerify => []StagesOK
<1>1. QuotaInv => TypeOK
  <2> SUFFICES ASSUME QuotaInv PROVE TypeOK
    OBVIOUS
  <2>1. QuotaTypes /\ Balance
    BY DEF QuotaInv
  <2>2. /\ Claims \in Int /\ -repaid <= Claims /\ repaid \in Nat
        /\ Cardinality(Late) \in Nat /\ Cardinality(Requests) \in Nat
    <3>1. owing \in SUBSET Requests /\ Late \in SUBSET Requests
      BY <2>1 DEF QuotaTypes, Late
    <3> QED
      BY <2>1, <3>1, Counts DEF QuotaTypes, Claims
  <2>3. hash.usedQuota \in Int => Used = hash.usedQuota
    BY QuotaAssumption DEF Used, Plus
  <2>4. hash.usedQuota \in {n \in Int : -Cardinality(Requests) - repaid <= n} \cup {None}
    <3>1. hash.usedQuota \in Int => -Cardinality(Requests) - repaid <= hash.usedQuota
      BY <2>1, <2>2, <2>3 DEF Balance
    <3> QED
      BY <2>1, <3>1 DEF QuotaTypes
  <2>5. hash \in [monthlyQuota : Nat \cup {None},
                  usedQuota : {n \in Int : -Cardinality(Requests) - repaid <= n} \cup {None}]
    BY <2>1, <2>4 DEF QuotaTypes
  <2> QED
    BY <2>1, <2>5 DEF TypeOK, QuotaTypes
<1>2. StageInv /\ TypeOK => StagesOK
  BY DEF StageInv, CallTypes, Ledger, StagesOK
<1> QED
  BY QuotaInvariant, StageInvariant, <1>1, <1>2, PTL

\* Each request writes the hash back once at most between two losses of it, and once more for
\* every write that is sent again.
THEOREM RestoresBounded == SpecVerify => []OneRestorePerRequest
<1>1. QuotaInv => OneRestorePerRequest
  <2> SUFFICES ASSUME QuotaInv PROVE OneRestorePerRequest
    OBVIOUS
  <2>1. Restoring \in SUBSET Requests /\ restores \in Nat /\ resent \in Nat
    BY DEF Restoring, QuotaInv, QuotaTypes
  <2>2. restores + Cardinality(Restoring) <= Cardinality(Requests) + resent
    BY DEF QuotaInv, Restored
  <2> QED
    BY <2>1, <2>2, Counts DEF OneRestorePerRequest
<1> QED
  BY QuotaInvariant, <1>1, PTL

\* The limit that counts is that of the plan.
THEOREM LimitIsThePlans == SpecVerify => []LimitFollowsPlan
<1>1. QuotaInv => LimitFollowsPlan
  BY DEF QuotaInv, LimitKnown, LimitFollowsPlan
<1> QED
  BY QuotaInvariant, <1>1, PTL

\* Who counts a call.
LEMMA Grants ==
  ASSUME QuotaInv, [Next]_vars, NEW r \in Requests, request'[r] # request[r],
         granted' > granted \/ (request[r].pc = "incr" /\ request'[r].pc = "refund")
  PROVE  Increment(r)
<1>1. QuotaTypes /\ granted \in Nat
  BY DEF QuotaInv, QuotaTypes
<1>2. \A q \in Requests : RequestStep(q) => q = r /\ ~Unanswered(q)
  BY <1>1 DEF RequestStep, Hgetall, RestoreRead, RestoreStore, Increment, Refund, RequestFails,
              Unanswered, IncrementUnanswered, RefundUnanswered, RestoreUnanswered,
              Enter, Leave, QuotaTypes
<1>3. RequestStep(r) /\ ~Unanswered(r)
  BY <1>2 DEF Next, vars, ChangerStep, SelectPlan, WritePlan, StoreQuota, UpdateQuotaLimit,
              ChangeFails, Evict, Lapse
<1>4. NoCall.pc = "idle"
  BY DEF NoCall
<1> QED
  BY <1>1, <1>3, <1>4 DEF RequestStep, Hgetall, RestoreRead, RestoreStore, Refund, RequestFails,
              Enter, Leave, Recount, counts, QuotaTypes

\* What the counter shows, the claims, and the room between them.
LEMMA Room ==
  ASSUME QuotaInv
  PROVE  /\ Used \in Int /\ Claims \in Int /\ granted \in Nat /\ leaked \in Nat /\ repaid \in Nat
         /\ granted + leaked <= Claims + repaid
         /\ Used <= Claims /\ Claims <= Used + Cardinality(Requests)
         /\ Cardinality(Requests) \in Nat
<1>1. QuotaTypes /\ Balance
  BY DEF QuotaInv
<1>2. /\ Cardinality(owing) \in Nat /\ Cardinality(Late) \in Nat /\ Cardinality(Requests) \in Nat
  <2>1. owing \in SUBSET Requests /\ Late \in SUBSET Requests
    BY <1>1 DEF QuotaTypes, Late
  <2> QED
    BY <2>1, Counts
<1>3. Used \in Int /\ granted \in Nat /\ leaked \in Nat /\ repaid \in Nat
  BY <1>1, UsedTyped DEF QuotaTypes
<1>4. Claims \in Int /\ granted + leaked <= Claims + repaid
  BY <1>2, <1>3 DEF Claims
<1> QED
  BY <1>1, <1>2, <1>3, <1>4 DEF Balance

\* A metered call is let through while the limit is not used up, but for one per request and
\* one per refund that may be sent twice.
THEOREM GrantsBounded == SpecVerify => GrantsWithinQuota
<1>1. QuotaInv /\ [Next]_vars
        => [\A r \in Requests :
              request[r].limit # None /\ granted' > granted /\ request'[r] # request[r]
                => granted' + leaked <= request[r].limit + Cardinality(Requests) + repaid]_vars
  <2> SUFFICES ASSUME QuotaInv, [Next]_vars, NEW r \in Requests, request[r].limit # None,
                      granted' > granted, request'[r] # request[r]
               PROVE  granted' + leaked <= request[r].limit + Cardinality(Requests) + repaid
    OBVIOUS
  <2>1. Increment(r)
    BY Grants
  <2>2. QuotaTypes /\ request[r].limit \in Nat
    BY DEF QuotaInv, QuotaTypes
  <2>3. Plus(hash.usedQuota, 1) = Used + 1
    BY <2>2, UsedTyped
  <2>4. ~(Used + 1 > request[r].limit) /\ granted' = granted + 1
    BY <2>1, <2>2, <2>3, Room DEF Increment
  <2> QED
    BY <2>2, <2>4, Room
<1> QED
  BY QuotaInvariant, VerifyIsQuota, <1>1, PTL DEF SpecVerify, GrantsWithinQuota

\* A call is refused only if its limit is used up.
THEOREM RefusalsEarned == SpecVerify => RefusedOnlyWhenUsedUp
<1>1. QuotaInv /\ [Next]_vars
        => [\A r \in Requests :
              request[r].pc = "incr" /\ request'[r].pc = "refund"
                => request[r].limit <= granted + leaked + Cardinality(owing) - repaid]_vars
  <2> SUFFICES ASSUME QuotaInv, [Next]_vars, NEW r \in Requests, request[r].pc = "incr",
                      request'[r].pc = "refund"
               PROVE  request[r].limit <= Claims
    BY DEF Claims
  <2>1. Increment(r)
    BY Grants
  <2>2. QuotaTypes /\ request[r].limit \in Nat \cup {None}
    BY DEF QuotaInv, QuotaTypes
  <2>3. Plus(hash.usedQuota, 1) = Used + 1
    BY <2>2, UsedTyped
  <2>4. request[r].limit # None /\ Used + 1 > request[r].limit
    BY <2>1, <2>2, <2>3 DEF Increment, Leave, NoCall, QuotaTypes
  <2> QED
    BY <2>2, <2>4, Room
<1> QED
  BY QuotaInvariant, VerifyIsQuota, <1>1, PTL DEF SpecVerify, RefusedOnlyWhenUsedUp

\* Nobody gets past the quota, and who is refused for the key or the quota pays nothing.
THEOREM NoWayPast == SpecVerify => ChargedIfPassed
<1>1. QuotaInv /\ StageInv /\ [NextVerify]_verifyVars
        => [\A r \in Requests :
              /\ Answered(r, {"ok", "tooMany"})
                   => /\ paid'[r] = 1 \/ exempt'[r]
                      /\ call'[r] = "ok" => token'[r]
              /\ Answered(r, {"unauthorized", "forbidden"}) => paid'[r] = 0 /\ ~token'[r]]_verifyVars
  <2> SUFFICES ASSUME QuotaInv, StageInv, [NextVerify]_verifyVars, NEW r \in Requests,
                      call'[r] # call[r]
               PROVE  /\ call'[r] \in {"ok", "tooMany"}
                           => /\ paid'[r] = 1 \/ exempt'[r]
                              /\ call'[r] = "ok" => token'[r]
                      /\ call'[r] \in {"unauthorized", "forbidden"} => paid'[r] = 0 /\ ~token'[r]
    BY DEF Answered
  <2>1. PICK q \in Requests : VerifyStep(q)
    BY CallsStay
  <2>2. q = r /\ (Begins(r) \/ IsCharged(r) \/ IsAnswered(r)) /\ Ledger(r)
    BY <2>1, CallMoves DEF Alone, IsUnanswered, StageInv
  <2> QED
    BY <2>2 DEF Begins, IsCharged, IsAnswered, Ledger, Stages
<1> QED
  BY QuotaInvariant, StageInvariant, <1>1, PTL DEF SpecVerify, ChargedIfPassed

=============================================================================
