-------------------------------- MODULE Quota --------------------------------
(***************************************************************************)
(* The monthly quota of one user: the user_plans row, the hash             *)
(* quota:<userId> in Redis that counts for it, checkandIncrementQuota,     *)
(* which every POST /verify runs, and selectPlan, which changes the plan.  *)
(*                                                                         *)
(* Both are chains of awaits over two stores that nothing keeps in step,   *)
(* so each await is a step of its own.  A command to Redis may take effect *)
(* and its reply be lost with the connection: the driver sends it again,   *)
(* or gives up and the await throws.  The row's quotaUsed is 0 for ever:   *)
(* assignPlan writes 0 and the job that would copy the count back is not   *)
(* scheduled.  It is not a variable here.                                  *)
(***************************************************************************)
EXTENDS Integers, FiniteSets

CONSTANTS
  Plans,
  MonthlyQuota,  \* MonthlyQuota[p]: calls per month, None if p has no limit
  Requests,      \* concurrent verify requests of the user's keys
  Changers,      \* concurrent POST /billing requests of the user
  MaxCount,      \* bound of the counter
  MaxLost,       \* bound of Lost
  None           \* SQL NULL, a missing field of a hash, NaN

ASSUME QuotaAssumption ==
  /\ MonthlyQuota \in [Plans -> Nat \cup {None}]
  /\ MaxCount \in Nat /\ MaxLost \in Nat
  /\ None \notin Int /\ None \notin Plans
  /\ IsFiniteSet(Requests) /\ IsFiniteSet(Changers)

VARIABLES
  userPlan,    \* the row: the plan, and whether the subscription has lapsed
  hash,        \* the fields of quota:<userId>
  request,     \* request[r]: where checkandIncrementQuota stands
  changer,     \* changer[c]: where selectPlan stands
  (* History variables: no action reads them. *)
  granted,     \* calls let through since usedQuota was last written or lost
  owing,       \* refused calls that the counter still counts, their refund to come
  leaked,      \* increments it keeps though they let no call through: the reply was lost, or
               \* the refund failed
  repaid,      \* refunds it has seen whose reply was lost
  restores,    \* times the count was set back since the hash was last lost
  resent,      \* those of them whose reply was lost
  overlapped   \* a plan was changed while a write to the hash was pending, or a plan
               \* change died between its two writes

counts == <<granted, owing, leaked, repaid, restores, resent>>
vars == <<userPlan, hash, request, changer, counts, overlapped>>

NoPlan == [plan |-> None, lapsed |-> FALSE]
NoHash == [monthlyQuota |-> None, usedQuota |-> None]
NoCall == [pc |-> "idle", limit |-> None]
NoChange == [pc |-> "idle", how |-> "none", plan |-> None]

QuotaOf(row) == IF row.plan = None THEN None ELSE MonthlyQuota[row.plan]

Init ==
  /\ userPlan = NoPlan
  /\ hash = NoHash
  /\ request = [r \in Requests |-> NoCall]
  /\ changer = [c \in Changers |-> NoChange]
  /\ granted = 0 /\ owing = {} /\ leaked = 0 /\ repaid = 0
  /\ restores = 0 /\ resent = 0 /\ overlapped = FALSE

\* The counter starts again: what it counted is forgotten.
Recount == granted' = 0 /\ owing' = {} /\ leaked' = 0 /\ repaid' = 0

\* The hash is gone.
Lose == hash' = NoHash /\ Recount /\ restores' = 0 /\ resent' = 0

\* HINCRBY: a field that is missing counts as 0.
Plus(used, n) == (IF used = None THEN 0 ELSE used) + n

-----------------------------------------------------------------------------
(* checkandIncrementQuota. *)

Enter(r, pc, limit) == request' = [request EXCEPT ![r] = [pc |-> pc, limit |-> limit]]
Leave(r) == request' = [request EXCEPT ![r] = NoCall]

\* Mutant: what HGETALL answers is not looked at.
HgetallMisses(r) ==
  /\ request[r].pc = "idle"
  /\ Enter(r, "restore", None)
  /\ UNCHANGED <<userPlan, hash, changer, counts, overlapped>>

\* HGETALL.  A hash without monthlyQuota is not empty: parseInt(undefined) is NaN.
Hgetall(r) ==
  /\ request[r].pc = "idle"
  /\ IF hash = NoHash THEN Enter(r, "restore", None) ELSE Enter(r, "incr", hash.monthlyQuota)
  /\ UNCHANGED <<userPlan, hash, changer, counts, overlapped>>

\* restoreQuota, its query: without a plan or a limit the call is let through.
RestoreRead(r) ==
  /\ request[r].pc = "restore"
  /\ IF QuotaOf(userPlan) = None THEN Leave(r) ELSE Enter(r, "store", QuotaOf(userPlan))
  /\ UNCHANGED <<userPlan, hash, changer, counts, overlapped>>

\* restoreQuota, its HSET: both fields are written, whatever they are by now.
RestoreStore(r) ==
  /\ request[r].pc = "store"
  /\ hash' = [monthlyQuota |-> request[r].limit, usedQuota |-> 0]
  /\ Enter(r, "incr", request[r].limit)
  /\ Recount
  /\ restores' = restores + 1
  /\ UNCHANGED <<userPlan, changer, resent, overlapped>>

\* Mutant: >= instead of >, and the comparison is with the count before this call.
IncrementOffByOne(r) ==
  LET limit == request[r].limit
      used == Plus(hash.usedQuota, 1) IN
  /\ request[r].pc = "incr"
  /\ used <= MaxCount
  /\ hash' = [hash EXCEPT !.usedQuota = used]
  /\ IF limit # None /\ used >= limit
     THEN Enter(r, "refund", limit) /\ owing' = owing \cup {r} /\ UNCHANGED granted
     ELSE Leave(r) /\ granted' = granted + 1 /\ UNCHANGED owing
  /\ UNCHANGED <<userPlan, changer, leaked, repaid, restores, resent, overlapped>>

\* HINCRBY 1, and the comparison with the limit read before: nothing exceeds NaN.
Increment(r) ==
  LET limit == request[r].limit
      used == Plus(hash.usedQuota, 1) IN
  /\ request[r].pc = "incr"
  /\ used <= MaxCount
  /\ hash' = [hash EXCEPT !.usedQuota = used]
  /\ IF limit # None /\ used > limit
     THEN Enter(r, "refund", limit) /\ owing' = owing \cup {r} /\ UNCHANGED granted
     ELSE Leave(r) /\ granted' = granted + 1 /\ UNCHANGED owing
  /\ UNCHANGED <<userPlan, changer, leaked, repaid, restores, resent, overlapped>>

\* Mutant: the refund is made twice.
RefundTwice(r) ==
  /\ request[r].pc = "refund"
  /\ hash' = [hash EXCEPT !.usedQuota = Plus(@, -2)]
  /\ Leave(r)
  /\ owing' = owing \ {r}
  /\ UNCHANGED <<userPlan, changer, granted, leaked, repaid, restores, resent, overlapped>>

\* HINCRBY -1, of whatever the hash holds by now: 403.
Refund(r) ==
  /\ request[r].pc = "refund"
  /\ hash' = [hash EXCEPT !.usedQuota = Plus(@, -1)]
  /\ Leave(r)
  /\ owing' = owing \ {r}
  /\ UNCHANGED <<userPlan, changer, granted, leaked, repaid, restores, resent, overlapped>>

\* Mutant: the catch block gives back what may not have been taken.
RequestFailsRefunding(r) ==
  /\ request[r].pc # "idle"
  /\ hash' = [hash EXCEPT !.usedQuota = Plus(@, -1)]
  /\ Leave(r)
  /\ owing' = owing \ {r}
  /\ UNCHANGED <<userPlan, changer, granted, leaked, repaid, restores, resent, overlapped>>

\* What lost replies and failed refunds have left behind since the count was set back.
Lost == leaked + repaid + resent

\* A command of r has taken effect and its reply is lost: r still waits for it.  Then the
\* driver sends the command again, or the await throws (RequestFails).
IncrementUnanswered(r) ==
  LET used == Plus(hash.usedQuota, 1) IN
  /\ request[r].pc = "incr"
  /\ used <= MaxCount /\ Lost < MaxLost
  /\ hash' = [hash EXCEPT !.usedQuota = used]
  /\ leaked' = leaked + 1
  /\ UNCHANGED <<userPlan, request, changer, granted, owing, repaid, restores, resent, overlapped>>

RefundUnanswered(r) ==
  /\ request[r].pc = "refund"
  /\ Lost < MaxLost
  /\ hash' = [hash EXCEPT !.usedQuota = Plus(@, -1)]
  /\ repaid' = repaid + 1
  /\ UNCHANGED <<userPlan, request, changer, granted, owing, leaked, restores, resent, overlapped>>

RestoreUnanswered(r) ==
  /\ request[r].pc = "store"
  /\ Lost < MaxLost
  /\ hash' = [monthlyQuota |-> request[r].limit, usedQuota |-> 0]
  /\ Recount
  /\ restores' = restores + 1
  /\ resent' = resent + 1
  /\ UNCHANGED <<userPlan, request, changer, overlapped>>

Unanswered(r) == IncrementUnanswered(r) \/ RefundUnanswered(r) \/ RestoreUnanswered(r)

\* The pending call throws: the request is refused, the count stays as it is.
RequestFails(r) ==
  /\ request[r].pc # "idle"
  /\ Leave(r)
  /\ owing' = owing \ {r}
  /\ leaked' = leaked + Cardinality(owing \cap {r})
  /\ UNCHANGED <<userPlan, hash, changer, granted, repaid, restores, resent, overlapped>>

-----------------------------------------------------------------------------
(* selectPlan. *)

\* Someone else has looked at the plan, or changed it, and has the hash still to write.
WritePending(c) ==
  \/ \E r \in Requests : request[r].pc = "store"
  \/ \E d \in Changers \ {c} : changer[d].pc = "store"

Stop(c) == changer' = [changer EXCEPT ![c] = NoChange]

\* Its command to Redis was answered, or the reply is lost and it still waits.
Stored(c) == Stop(c) \/ UNCHANGED changer

\* selectPlan up to its first write: what is to be done depends on the row it reads.
SelectPlan(c, p) ==
  /\ changer[c].pc = "idle"
  /\ userPlan.plan # p
  /\ changer' = [changer EXCEPT ![c] =
       [pc |-> "write", plan |-> p,
        how |-> CASE userPlan = NoPlan -> "create"
                  [] userPlan.lapsed   -> "assign"
                  [] OTHER             -> "change"]]
  /\ UNCHANGED <<userPlan, hash, request, counts, overlapped>>

\* The write of assignPlan or changePlan.  The user has one row: a second create fails.
\* A commit whose reply is lost is this write and ChangeFails.
WritePlan(c) ==
  /\ changer[c].pc = "write"
  /\ changer[c].how = "create" => userPlan = NoPlan
  /\ userPlan' = [plan |-> changer[c].plan, lapsed |-> FALSE]
  /\ changer' = [changer EXCEPT ![c].pc = "store"]
  /\ overlapped' = (overlapped \/ WritePending(c))
  /\ UNCHANGED <<hash, request, counts>>

\* storeQuota of assignPlan: nothing is done for a plan without a limit.
StoreQuota(c) ==
  LET quota == MonthlyQuota[changer[c].plan] IN
  /\ changer[c].pc = "store" /\ changer[c].how \in {"create", "assign"}
  /\ IF quota = None
     THEN UNCHANGED <<hash, counts>>
     ELSE /\ hash' = [monthlyQuota |-> quota, usedQuota |-> 0]
          /\ Recount
          /\ UNCHANGED <<restores, resent>>
  /\ Stored(c)
  /\ UNCHANGED <<userPlan, request, overlapped>>

\* Mutant: a change to a plan with a limit leaves the hash alone.
KeepQuotaLimit(c) ==
  /\ changer[c].pc = "store" /\ changer[c].how = "change"
  /\ IF MonthlyQuota[changer[c].plan] = None
     THEN Lose
     ELSE UNCHANGED <<hash, counts>>
  /\ Stored(c)
  /\ UNCHANGED <<userPlan, request, overlapped>>

\* updateQuotaLimit of changePlan: DEL, or HSET of the limit alone.
UpdateQuotaLimit(c) ==
  LET quota == MonthlyQuota[changer[c].plan] IN
  /\ changer[c].pc = "store" /\ changer[c].how = "change"
  /\ IF quota = None
     THEN Lose
     ELSE hash' = [hash EXCEPT !.monthlyQuota = quota] /\ UNCHANGED counts
  /\ Stored(c)
  /\ UNCHANGED <<userPlan, request, overlapped>>

\* The pending call throws, a create on an existing row among them.
ChangeFails(c) ==
  /\ changer[c].pc # "idle"
  /\ Stop(c)
  /\ overlapped' = (overlapped \/ changer[c].pc = "store")
  /\ UNCHANGED <<userPlan, hash, request, counts>>

-----------------------------------------------------------------------------
(* The world around. *)

\* Redis loses the hash: a restart without persistence, or an eviction.
Evict ==
  /\ hash # NoHash
  /\ Lose
  /\ UNCHANGED <<userPlan, request, changer, overlapped>>

\* A subscription is cancelled or expires.  selectPlan tests for it; nothing in the
\* service writes it.
Lapse ==
  /\ userPlan # NoPlan /\ ~userPlan.lapsed
  /\ userPlan' = [userPlan EXCEPT !.lapsed = TRUE]
  /\ UNCHANGED <<hash, request, changer, counts, overlapped>>

RequestStep(r) ==
  Hgetall(r) \/ RestoreRead(r) \/ RestoreStore(r) \/ Increment(r) \/ Refund(r)
    \/ Unanswered(r) \/ RequestFails(r)
ChangerStep(c) == WritePlan(c) \/ StoreQuota(c) \/ UpdateQuotaLimit(c) \/ ChangeFails(c)

Next ==
  \/ \E r \in Requests : RequestStep(r)
  \/ \E c \in Changers : ChangerStep(c) \/ \E p \in Plans : SelectPlan(c, p)
  \/ Evict
  \/ Lapse

Spec == Init /\ [][Next]_vars

-----------------------------------------------------------------------------
(* Properties. *)

\* What each variable may hold; refunds that come too late can take the counter below
\* zero, by one for each concurrent request, and those that are sent twice by one each.
TypeOK ==
  /\ userPlan \in [plan : Plans \cup {None}, lapsed : BOOLEAN]
  /\ hash \in [monthlyQuota : Nat \cup {None},
               usedQuota : {n \in Int : -Cardinality(Requests) - repaid <= n} \cup {None}]
  /\ request \in [Requests -> [pc : {"idle", "restore", "store", "incr", "refund"},
                               limit : Nat \cup {None}]]
  /\ changer \in [Changers -> [pc : {"idle", "write", "store"}, plan : Plans \cup {None},
                               how : {"none", "create", "assign", "change"}]]
  /\ granted \in Nat /\ leaked \in Nat /\ repaid \in Nat
  /\ restores \in Nat /\ resent \in Nat
  /\ owing \in SUBSET Requests
  /\ overlapped \in BOOLEAN

\* Calls that are refused at the same time are counted for a while, and their refunds may
\* hit a counter that was set back in between.  Even so a metered call is let through only
\* if the limit it read is not used up, by calls let through and increments nobody gives
\* back, but for one call per concurrent request and one per refund that may be sent twice.
\* (The count starts when the counter does: how often that may be is OneRestorePerRequest.)
GrantsWithinQuota ==
  [][\A r \in Requests :
       request[r].limit # None /\ granted' > granted /\ request'[r] # request[r]
         => granted' + leaked <= request[r].limit + Cardinality(Requests) + repaid]_vars

\* A call is refused only if its limit is used up: by calls that were let through, by
\* refused ones that have still to give back what they took, and by increments that stay
\* though no call came of them, a reply or a refund being lost.
RefusedOnlyWhenUsedUp ==
  [][\A r \in Requests :
       request[r].pc = "incr" /\ request'[r].pc = "refund"
         => request[r].limit <= granted + leaked + Cardinality(owing) - repaid]_vars

\* Requests that all find the hash missing write it back one after the other, each
\* forgetting what the others counted, but each of them only once, and once more for every
\* write that is sent again.
OneRestorePerRequest == restores <= Cardinality(Requests) + resent

\* The limit that counts is the limit of the user's plan, unless two writers overlapped or
\* one died half-way.
LimitFollowsPlan ==
  (~overlapped /\ (\A c \in Changers : changer[c].pc # "store") /\ QuotaOf(userPlan) # None)
    => hash.monthlyQuota \in {None, QuotaOf(userPlan)}

\* README.md, "Quota enforcement": monthly quotas are "tracked and incremented on every
\* verify call".  A call of a user whose plan has a limit is counted against a limit.
QuotaEnforced ==
  [][\A r \in Requests :
       request[r].pc = "incr" /\ granted' > granted /\ request'[r] # request[r]
         => request[r].limit # None \/ QuotaOf(userPlan) = None]_vars

=============================================================================
