--------------------------- MODULE TokenBucketProofs ---------------------------
(***************************************************************************)
(* Proofs about TokenBucket, for any policies, delay and horizon: what the *)
(* limiter admits is bounded, nobody is shut out for longer than a window, *)
(* and resetAt is kept.                                                    *)
(***************************************************************************)
EXTENDS TokenBucket, TLAPS

\* Every policy that calls of the interval carried has at most this capacity and this rate.
Covers(cap, rate) == \A p \in used : Capacity(p) <= cap /\ Rate(p) <= rate

\* The bursts that an interval may see: one, if a single policy is in use.
Bursts == IF \E p \in used : used = {p} THEN 1 ELSE 1 + rebirths

\* What may have been spent by time t: b bursts, and the refill since s, with n rebirths.
RefillOf(rate, n, s, t) == rate * ((t - s) + MaxDelay * (1 + n))
CreditOf(cap, rate, b, n, s, t) == cap * b + RefillOf(rate, n, s, t)
Credit(cap, rate, t) == CreditOf(cap, rate, Bursts, rebirths, since, t)

\* What a rate refills from t to u.
Gain(rate, t, u) == rate * (u - t)

\* What was admitted is within the credit of the last allowed request, and what was admitted
\* and what is left in the bucket are together within that of its last refill.
Budget ==
  \A cap, rate \in Nat :
    Covers(cap, rate) /\ admitted > 0 =>
      /\ admitted * Token <= Credit(cap, rate, allowed.at)
      /\ Exists(clock) => bucket.tokens + admitted * Token <= Credit(cap, rate, bucket.lastRefill)

\* The hash lives for one window after the last allowed request.  Once something was admitted
\* in the interval, the bucket was refilled in it, but for the delay of a stamp.
Ages ==
  /\ bucket = NoBucket \/ bucket.until = allowed.at + allowed.by.window
  /\ since <= clock /\ allowed.at <= clock
  /\ admitted > 0 =>
       /\ since <= allowed.at /\ allowed.by \in used
       /\ IF Exists(clock) THEN since - MaxDelay <= bucket.lastRefill
          ELSE allowed.at + allowed.by.window <= clock
  /\ used # {} => \E p, q \in used : Covers(Capacity(p), Rate(q))

BucketInv == TypeOK /\ Ages /\ Budget /\ ResetIsHonest

-----------------------------------------------------------------------------
(* Arithmetic. *)

\* The limit is refilled in one window.
LEMMA Policy ==
  ASSUME NEW p \in Policies
  PROVE  /\ p.limit \in Nat \ {0} /\ p.window \in Nat \ {0}
         /\ Token \in Nat \ {0}
         /\ Capacity(p) \in Nat \ {0} /\ Capacity(p) >= Token
         /\ Rate(p) \in Nat \ {0}
         /\ Rate(p) * p.window = Capacity(p)
<1>1. /\ p.limit \in Nat \ {0} /\ p.window \in Nat \ {0} /\ Scale \in Nat \ {0}
      /\ Scale % p.window = 0
  BY PolicyAssumption, ScaleAssumption
<1>2. Scale \div p.window \in Nat /\ p.window * (Scale \div p.window) = Scale
  BY <1>1
<1>3. Scale \div p.window \in Nat \ {0}
  BY <1>1, <1>2
<1> DEFINE r == Scale \div p.window
<1> HIDE DEF r
<1>4. p.limit * Scale \in Nat \ {0} /\ p.limit * Scale >= Scale
  BY <1>1
<1>5. p.limit * r \in Nat \ {0}
  BY <1>1, <1>3 DEF r
<1>6. (p.limit * r) * p.window = p.limit * (p.window * r)
  BY <1>1, <1>3 DEF r
<1>7. p.window * r = Scale
  BY <1>2 DEF r
<1> QED
  BY <1>1, <1>4, <1>5, <1>6, <1>7 DEF Token, Capacity, Rate, r

\* A quotient rounded up is enough.
LEMMA RoundedUp ==
  ASSUME NEW a \in Nat, NEW b \in Nat \ {0}
  PROVE  CeilDiv(a, b) \in Nat /\ b * CeilDiv(a, b) >= a
<1> DEFINE n == a + b - 1
<1>1. n \in Nat
  OBVIOUS
<1> HIDE DEF n
<1>2. n \div b \in Nat /\ n < b * (n \div b) + b
  BY <1>1
<1>3. n = a + b - 1 /\ CeilDiv(a, b) = n \div b
  BY DEF n, CeilDiv
<1>4. b * (n \div b) \in Nat
  BY <1>2
<1> QED
  BY <1>2, <1>3, <1>4

\* What a stamp finds in the bucket.
LEMMA RefilledBounds ==
  ASSUME NEW p \in Policies, NEW s \in Int, bucket.tokens \in Int, bucket.lastRefill \in Int
  PROVE  /\ Refilled(p, s) \in Int
         /\ Refilled(p, s) <= Capacity(p)
         /\ Refilled(p, s) <= bucket.tokens + Rate(p) * (s - bucket.lastRefill)
         /\ \A x \in Int : x <= Capacity(p) /\ x <= bucket.tokens + Rate(p) * (s - bucket.lastRefill)
              => x <= Refilled(p, s)
<1>1. Rate(p) * (s - bucket.lastRefill) \in Int /\ Capacity(p) \in Int
  <2>1. Rate(p) \in Int /\ s - bucket.lastRefill \in Int /\ Capacity(p) \in Int
    BY Policy
  <2> QED
    BY <2>1
<1> QED
  BY <1>1 DEF Refilled, AtMost

-----------------------------------------------------------------------------
(* A call. *)

\* A refill that comes late is made up for by the time it is late.
LateRefill(rate, u, d) ==
  /\ rate * u \in Int /\ d * rate \in Nat
  /\ rate * (u + d) = rate * u + d * rate

\* It always is.
LEMMA LateRefills ==
  ASSUME NEW rate \in Nat, NEW u \in Int, NEW d \in Nat
  PROVE  LateRefill(rate, u, d)
<1>1. rate * u \in Int /\ d * rate \in Nat /\ d * rate = rate * d
  OBVIOUS
<1>2. rate * (u + d) = rate * u + rate * d
  OBVIOUS
<1> QED
  BY <1>1, <1>2 DEF LateRefill

\* The numbers of a state.
LEMMA Numbers ==
  ASSUME BucketInv
  PROVE  /\ clock \in Nat /\ since \in Nat /\ admitted \in Nat /\ rebirths \in Nat
         /\ bucket.tokens \in Int /\ bucket.lastRefill \in Nat /\ bucket.until \in Nat
         /\ bucket.lastRefill <= clock /\ since <= clock
         /\ allowed.at \in Nat /\ allowed.at <= clock /\ allowed.by \in Policies
         /\ MaxDelay \in Nat /\ used \subseteq Policies /\ carried \subseteq Policies
         /\ Token \in Nat \ {0} /\ admitted * Token \in Nat
<1>1. admitted \in Nat /\ Token \in Nat \ {0}
  BY ScaleAssumption DEF BucketInv, TypeOK, Token
<1>2. admitted * Token \in Nat
  BY <1>1
<1> QED
  BY <1>1, <1>2, DelayAssumption DEF BucketInv, TypeOK, Ages

\* The refill of the time that passes adds to the credit.
LEMMA RefillLater ==
  ASSUME NEW rate \in Nat, NEW n \in Nat, NEW s \in Nat, NEW t \in Nat, NEW u \in Nat, t <= u
  PROVE  /\ RefillOf(rate, n, s, t) \in Int /\ Gain(rate, t, u) \in Nat
         /\ RefillOf(rate, n, s, u) = RefillOf(rate, n, s, t) + Gain(rate, t, u)
<1>1. PICK d \in Nat : d = MaxDelay * (1 + n)
  BY DelayAssumption
<1>2. PICK v \in Int : v = (t - s) + d
  OBVIOUS
<1>3. PICK w \in Nat : w = u - t
  OBVIOUS
<1>4. /\ (u - s) + d = v + w
      /\ rate * (v + w) = rate * v + rate * w /\ rate * v \in Int /\ rate * w \in Nat
  BY <1>2, <1>3
<1> QED
  BY <1>1, <1>2, <1>3, <1>4 DEF RefillOf, Gain

\* Credit is a number.
LEMMA CreditDefined ==
  ASSUME NEW cap \in Nat, NEW rate \in Nat, NEW b \in Nat, NEW n \in Nat, NEW s \in Nat,
         NEW t \in Nat
  PROVE  CreditOf(cap, rate, b, n, s, t) \in Int
<1>1. RefillOf(rate, n, s, t) \in Int /\ cap * b \in Nat
  BY RefillLater
<1> QED
  BY <1>1 DEF CreditOf

\* More bursts, more credit.
LEMMA CreditBursts ==
  ASSUME NEW cap \in Nat, NEW b \in Nat, NEW c \in Nat, b <= c
  PROVE  \A rate, n, s \in Nat, t \in Nat :
           CreditOf(cap, rate, b, n, s, t) <= CreditOf(cap, rate, c, n, s, t)
<1> TAKE rate, n, s \in Nat, t \in Nat
<1>1. RefillOf(rate, n, s, t) \in Int
  BY RefillLater
<1>2. cap * b \in Nat /\ cap * c \in Nat /\ cap * b <= cap * c
  OBVIOUS
<1> QED
  BY <1>1, <1>2 DEF CreditOf

\* From the first refill of the interval on there is credit for a burst.
LEMMA CreditFloor ==
  ASSUME NEW cap \in Nat, NEW rate \in Nat, NEW b \in Nat, b > 0, NEW n \in Nat, NEW s \in Nat,
         NEW t \in Nat, s - MaxDelay <= t
  PROVE  CreditOf(cap, rate, b, n, s, t) >= cap
<1>1. PICK d \in Nat : d = MaxDelay * (1 + n) /\ d >= MaxDelay
  BY DelayAssumption
<1>2. PICK v \in Nat : v = (t - s) + d
  BY <1>1, DelayAssumption
<1>3. rate * v \in Nat /\ cap * b \in Nat /\ cap * b >= cap
  OBVIOUS
<1>4. CreditOf(cap, rate, b, n, s, t) = cap * b + rate * v
  BY <1>1, <1>2 DEF CreditOf, RefillOf
<1> QED
  BY <1>3, <1>4

\* A call leaves no fewer bursts.
LEMMA BurstsGrow ==
  ASSUME BucketInv, NEW x \in Policies, used' = used \cup {x}, rebirths' \in Nat,
         rebirths' >= rebirths
  PROVE  /\ Bursts \in Nat \ {0} /\ Bursts' \in Nat \ {0}
         /\ Bursts <= 1 + rebirths
         /\ admitted > 0 => Bursts <= Bursts'
         /\ admitted > 0 /\ Bursts' # 1 + rebirths' => used = {x} /\ Bursts = 1 /\ Bursts' = 1
<1>1. rebirths \in Nat
  BY Numbers
<1>2. admitted > 0 => used # {}
  BY DEF BucketInv, Ages
<1>3. used' = {x} => used = {x} \/ used = {}
  OBVIOUS
<1>4. (\E p \in used' : used' = {p}) <=> used' = {x}
  OBVIOUS
<1>5. used = {x} => \E p \in used : used = {p}
  OBVIOUS
<1>6. Bursts' = IF used' = {x} THEN 1 ELSE 1 + rebirths'
  BY <1>4 DEF Bursts
<1>7. PICK b, c : b = Bursts /\ c = Bursts'
  OBVIOUS
<1>8. (b = 1 \/ b = 1 + rebirths) /\ (used = {x} => b = 1)
  BY <1>5, <1>7 DEF Bursts
<1>9. /\ used' = {x} => c = 1 /\ (admitted > 0 => used = {x})
      /\ used' # {x} => c = 1 + rebirths'
  BY <1>2, <1>3, <1>6, <1>7
<1>10. PICK n, m \in Nat : n = rebirths /\ m = rebirths' /\ n <= m
  BY <1>1
<1>11. /\ b \in Nat \ {0} /\ c \in Nat \ {0} /\ b <= 1 + n
       /\ admitted > 0 => b <= c
       /\ admitted > 0 /\ c # 1 + m => used = {x} /\ b = 1 /\ c = 1
  <2>1. CASE used' = {x}
    BY <1>8, <1>9, <1>10, <2>1
  <2>2. CASE used' # {x}
    <3>1. c = 1 + m /\ b \in Nat \ {0} /\ b <= 1 + n
      BY <1>8, <1>9, <1>10, <2>2
    <3>2. n \in Nat /\ m \in Nat /\ n <= m
      BY <1>10
    <3>3. c \in Nat \ {0} /\ b <= c
      BY <3>1, <3>2
    <3> QED
      BY <3>1, <3>3
  <2> QED
    BY <2>1, <2>2
<1> QED
  BY <1>7, <1>10, <1>11, Zenon

\* A call with policy x adds it to those of the interval.
LEMMA CallCovers ==
  ASSUME BucketInv, NEW x \in Policies, used' = used \cup {x}
  PROVE  /\ \A cap, rate \in Nat : Covers(cap, rate)' =>
              Covers(cap, rate) /\ Capacity(x) <= cap /\ Rate(x) <= rate
         /\ \E p, q \in used' : Covers(Capacity(p), Rate(q))'
<1>1. \A p \in Policies : Capacity(p) \in Nat /\ Rate(p) \in Nat
  BY Policy
<1>2. used \subseteq Policies
  BY Numbers
<1>3. \A cap, rate : Covers(cap, rate)' =>
        Covers(cap, rate) /\ Capacity(x) <= cap /\ Rate(x) <= rate
  BY DEF Covers
<1>4. CASE used = {}
  BY <1>1, <1>4 DEF Covers
<1>5. ASSUME NEW p \in used, NEW q \in used, Covers(Capacity(p), Rate(q))
      PROVE  \E v, w \in used' : Covers(Capacity(v), Rate(w))'
  <2>1. PICK v \in {p, x} : Capacity(p) <= Capacity(v) /\ Capacity(x) <= Capacity(v)
    BY <1>1, <1>2
  <2>2. PICK w \in {q, x} : Rate(q) <= Rate(w) /\ Rate(x) <= Rate(w)
    BY <1>1, <1>2
  <2>3. Covers(Capacity(v), Rate(w))'
    <3> SUFFICES ASSUME NEW y \in used' PROVE Capacity(y) <= Capacity(v) /\ Rate(y) <= Rate(w)
      BY DEF Covers
    <3>1. CASE y = x
      BY <2>1, <2>2, <3>1
    <3>2. CASE y \in used
      <4>1. Capacity(y) <= Capacity(p) /\ Rate(y) <= Rate(q)
        BY <1>5, <3>2 DEF Covers
      <4> QED
        BY <1>1, <1>2, <2>1, <2>2, <3>2, <4>1
    <3> QED
      BY <3>1, <3>2
  <2> QED
    BY <2>3
<1> QED
  BY <1>3, <1>4, <1>5 DEF BucketInv, Ages

\* A call on a bucket that exists finds no more than the credit of the time it refills to,
\* when what was admitted is counted in.
LEMMA RefillCredit ==
  ASSUME BucketInv, NEW x \in Policies, NEW stamp \in Stamps, Exists(clock),
         used' = used \cup {x}, UNCHANGED <<since, rebirths>>,
         NEW cap \in Nat, NEW rate \in Nat, Covers(cap, rate)'
  PROVE  /\ Refilled(x, stamp) \in Int /\ RefilledAt(stamp) \in Nat
         /\ RefilledAt(stamp) <= clock /\ since - MaxDelay <= RefilledAt(stamp)
         /\ \A m : m = RefilledAt(stamp)
              => Refilled(x, stamp) + admitted * Token <= Credit(cap, rate, m)'
         /\ \A t \in Nat : /\ Credit(cap, rate, t)' \in Int
                           /\ admitted > 0 => Credit(cap, rate, t) <= Credit(cap, rate, t)'
                           /\ RefilledAt(stamp) <= t =>
                                \A m : m = RefilledAt(stamp)
                                  => Credit(cap, rate, m)' <= Credit(cap, rate, t)'
<1>1. /\ stamp \in Nat /\ clock - stamp <= MaxDelay /\ stamp <= clock
      /\ bucket.lastRefill \in Nat /\ bucket.lastRefill <= clock /\ bucket.tokens \in Int
      /\ clock \in Nat /\ since \in Nat /\ since <= clock /\ MaxDelay \in Nat
      /\ admitted * Token \in Nat /\ rebirths \in Nat /\ admitted \in Nat
  BY Numbers DEF Stamps
<1>2. Refilled(x, stamp) \in Int /\ RefilledAt(stamp) \in Nat
  BY <1>1, RefilledBounds DEF RefilledAt
<1>3. PICK m, l, n, s \in Nat, R \in Int, a \in Nat :
        /\ m = RefilledAt(stamp) /\ l = bucket.lastRefill /\ n = rebirths /\ s = since
        /\ R = Refilled(x, stamp) /\ a = admitted * Token
  BY <1>1, <1>2
<1>4. /\ m \in Nat /\ m <= clock /\ m >= l /\ m >= stamp /\ s - MaxDelay <= m
  BY <1>1, <1>3 DEF RefilledAt
<1>5. /\ R <= Capacity(x) /\ R <= bucket.tokens + Rate(x) * (stamp - l)
  BY <1>1, <1>3, RefilledBounds
<1>6. /\ Covers(cap, rate) /\ Capacity(x) <= cap /\ Rate(x) <= rate
      /\ Capacity(x) \in Nat /\ Rate(x) \in Nat
  BY CallCovers, Policy
<1>7. PICK b, c \in Nat : b = Bursts /\ c = Bursts' /\ b > 0 /\ c > 0 /\ (admitted > 0 => b <= c)
  BY <1>1, BurstsGrow
<1>8. /\ b \in Nat /\ c \in Nat /\ b > 0 /\ c > 0
      /\ m \in Nat /\ l \in Nat /\ n \in Nat /\ s \in Nat /\ R \in Int /\ a \in Nat
      /\ l <= m
  BY <1>3, <1>4, <1>7
<1>9. \A t : /\ Credit(cap, rate, t)' = CreditOf(cap, rate, c, n, s, t)
             /\ Credit(cap, rate, t) = CreditOf(cap, rate, b, n, s, t)
  BY <1>3, <1>7 DEF Credit
<1>10. R + a <= CreditOf(cap, rate, c, n, s, m)
  <2>1. CASE admitted = 0
    <3>1. a = 0
      BY <1>3, <2>1, Numbers
    <3>2. CreditOf(cap, rate, c, n, s, m) >= cap
      BY <1>8, <1>4, CreditFloor
    <3>3. CreditOf(cap, rate, c, n, s, m) \in Int
      BY <1>8, CreditDefined
    <3> QED
      BY <1>5, <1>6, <3>1, <3>2, <3>3
  <2>2. CASE admitted > 0
    <3>1. bucket.tokens + a <= CreditOf(cap, rate, b, n, s, l)
      BY <1>3, <1>6, <1>9, <2>2 DEF BucketInv, Budget
    <3>2. Rate(x) * (stamp - l) <= rate * (m - l)
          /\ Rate(x) * (stamp - l) \in Int /\ rate * (m - l) \in Int
      <4>1. stamp - l <= m - l /\ m - l \in Nat /\ stamp - l \in Int
        BY <1>1, <1>4
      <4>2. Rate(x) * (stamp - l) <= Rate(x) * (m - l) /\ Rate(x) * (stamp - l) \in Int
        BY <1>6, <4>1
      <4>3. Rate(x) * (m - l) <= rate * (m - l) /\ Rate(x) * (m - l) \in Int
            /\ rate * (m - l) \in Int
        BY <1>6, <4>1
      <4> QED
        BY <4>2, <4>3
    <3>3. /\ CreditOf(cap, rate, b, n, s, l) \in Int
          /\ CreditOf(cap, rate, b, n, s, m) = CreditOf(cap, rate, b, n, s, l) + Gain(rate, l, m)
      <4>1. /\ RefillOf(rate, n, s, l) \in Int /\ Gain(rate, l, m) \in Nat
            /\ RefillOf(rate, n, s, m) = RefillOf(rate, n, s, l) + Gain(rate, l, m)
        <5>1. RefillOf(rate, n, s, l) \in Int /\ Gain(rate, l, m) \in Nat
          BY <1>8, RefillLater
        <5>2. RefillOf(rate, n, s, m) = RefillOf(rate, n, s, l) + Gain(rate, l, m)
          BY <1>8, RefillLater
        <5> QED
          BY <5>1, <5>2
      <4>2. cap * b \in Nat
        BY <1>8
      <4> QED
        BY <4>1, <4>2 DEF CreditOf
    <3>6. b <= c
      BY <1>7, <2>2
    <3>4. CreditOf(cap, rate, b, n, s, m) <= CreditOf(cap, rate, c, n, s, m)
      BY <1>8, <3>6, CreditBursts
    <3>5. CreditOf(cap, rate, c, n, s, m) \in Int
      BY <1>8, CreditDefined
    <3> QED
      BY <1>1, <1>5, <3>1, <3>2, <3>3, <3>4, <3>5 DEF Gain
  <2> QED
    BY <1>1, <2>1, <2>2
<1>11. ASSUME NEW t \in Nat
      PROVE  /\ CreditOf(cap, rate, c, n, s, t) \in Int
             /\ admitted > 0 => CreditOf(cap, rate, b, n, s, t) <= CreditOf(cap, rate, c, n, s, t)
             /\ m <= t => CreditOf(cap, rate, c, n, s, m) <= CreditOf(cap, rate, c, n, s, t)
  <2>1. CreditOf(cap, rate, c, n, s, t) \in Int
    BY <1>8, <1>11, CreditDefined
  <2>2. admitted > 0 => CreditOf(cap, rate, b, n, s, t) <= CreditOf(cap, rate, c, n, s, t)
    <3>1. SUFFICES ASSUME b <= c
                   PROVE  CreditOf(cap, rate, b, n, s, t) <= CreditOf(cap, rate, c, n, s, t)
      BY <1>7
    <3> QED
      BY <1>8, <1>11, <3>1, CreditBursts
  <2>3. ASSUME m <= t PROVE CreditOf(cap, rate, c, n, s, m) <= CreditOf(cap, rate, c, n, s, t)
    <3>1. /\ RefillOf(rate, n, s, m) \in Int /\ Gain(rate, m, t) \in Nat
          /\ RefillOf(rate, n, s, t) = RefillOf(rate, n, s, m) + Gain(rate, m, t)
      <4>1. RefillOf(rate, n, s, m) \in Int /\ Gain(rate, m, t) \in Nat
        BY <1>8, <1>11, <2>3, RefillLater
      <4>2. RefillOf(rate, n, s, t) = RefillOf(rate, n, s, m) + Gain(rate, m, t)
        BY <1>8, <1>11, <2>3, RefillLater
      <4> QED
        BY <4>1, <4>2
    <3>2. cap * c \in Nat
      BY <1>8
    <3> QED
      BY <3>1, <3>2 DEF CreditOf
  <2> QED
    BY <2>1, <2>2, <2>3
<1>12. m = RefilledAt(stamp) /\ R = Refilled(x, stamp) /\ s = since /\ a = admitted * Token
  BY <1>3
<1> QED
  BY <1>4, <1>9, <1>10, <1>11, <1>12

\* A bucket that is left alone is full at FullAt, but for what MaxDelay refills: a stamp may have
\* been that much behind the last refill.
LEMMA FullInTime ==
  ASSUME BucketInv, NEW x \in Policies, NEW stamp \in Stamps, NEW k \in Nat,
         bucket'.tokens = Refilled(x, stamp) - k, bucket'.lastRefill = RefilledAt(stamp)
  PROVE  /\ FullAt(x, stamp) \in Nat
         /\ \A f : f = FullAt(x, stamp)
              => Refilled(x, f)' + MaxDelay * Rate(x) >= Capacity(x) - k
<1>1. /\ stamp \in Nat /\ clock - stamp <= MaxDelay /\ stamp <= clock
      /\ bucket.lastRefill \in Nat /\ bucket.lastRefill <= clock /\ bucket.tokens \in Int
      /\ clock \in Nat /\ MaxDelay \in Nat
  BY Numbers DEF Stamps
<1>2. Capacity(x) \in Nat /\ Rate(x) \in Nat \ {0}
  BY Policy
<1>3. Refilled(x, stamp) \in Int /\ Refilled(x, stamp) <= Capacity(x)
  BY <1>1, RefilledBounds
<1>4. PICK R \in Int : R = Refilled(x, stamp)
  BY <1>3
<1>5. PICK g \in Nat : g = Capacity(x) - R
  BY <1>2, <1>3, <1>4
<1>6. PICK w \in Nat : w = CeilDiv(g, Rate(x)) /\ Rate(x) * w >= g
  BY <1>2, <1>5, RoundedUp
<1>7. FullAt(x, stamp) = stamp + w
  BY <1>4, <1>5, <1>6 DEF FullAt
<1>8. PICK m \in Nat : m = RefilledAt(stamp) /\ m <= stamp + MaxDelay
  BY <1>1 DEF RefilledAt
<1>9. PICK G, D \in Int :
        G = Rate(x) * ((stamp + w) - m) /\ D = MaxDelay * Rate(x) /\ D >= 0 /\ G + D >= g
  <2>1. PICK u \in Int : u = (stamp + w) - m /\ w <= u + MaxDelay
    BY <1>1, <1>6, <1>8
  <2>2. LateRefill(Rate(x), u, MaxDelay)
    BY <1>1, <1>2, <2>1, LateRefills
  <2>3. Rate(x) * w <= Rate(x) * (u + MaxDelay)
    BY <1>1, <1>2, <1>6, <2>1
  <2> QED
    BY <1>1, <1>2, <1>5, <1>6, <2>1, <2>2, <2>3 DEF LateRefill
<1>10. Refilled(x, stamp + w)' = AtMost(Capacity(x), (R - k) + G)
  BY <1>4, <1>8, <1>9 DEF Refilled
<1>11. AtMost(Capacity(x), (R - k) + G) + D >= Capacity(x) - k
  BY <1>2, <1>4, <1>5, <1>9 DEF AtMost
<1> QED
  BY <1>1, <1>6, <1>7, <1>9, <1>10, <1>11

\* The answer of the catch block is kept too: in a window the whole limit is refilled.
LEMMA CatchHonest ==
  ASSUME NEW x \in Policies, NEW stamp \in Nat, MaxDelay \in Nat,
         bucket'.tokens \in Int, bucket'.lastRefill \in Nat,
         bucket'.lastRefill <= stamp + MaxDelay,
         reply' = [allowed |-> FALSE, resetAt |-> stamp + x.window, by |-> x, lost |-> TRUE]
  PROVE  ResetIsHonest'
<1>1. /\ Capacity(x) \in Nat /\ Rate(x) \in Nat \ {0} /\ x.window \in Nat
      /\ Rate(x) * x.window = Capacity(x)
  BY Policy
<1>2. PICK T \in Int, m \in Nat : T = bucket'.tokens /\ m = bucket'.lastRefill
  OBVIOUS
<1>3. PICK G, D \in Int : G = Rate(x) * ((stamp + x.window) - m) /\ D = MaxDelay * Rate(x)
                          /\ D >= 0 /\ G + D >= Capacity(x)
  <2>1. PICK u \in Int, w \in Nat :
          u = (stamp + x.window) - m /\ w = x.window /\ w <= u + MaxDelay
    BY <1>1, <1>2
  <2>2. LateRefill(Rate(x), u, MaxDelay)
    BY <1>1, <2>1, LateRefills
  <2>3. Rate(x) * w <= Rate(x) * (u + MaxDelay)
    BY <1>1, <2>1
  <2> QED
    BY <1>1, <2>1, <2>2, <2>3 DEF LateRefill
<1>4. Refilled(x, stamp + x.window)' = AtMost(Capacity(x), T + G)
  BY <1>2, <1>3 DEF Refilled
<1>5. AtMost(Capacity(x), T + G) + D >= AtMost(Capacity(x), Capacity(x) + T)
  BY <1>1, <1>2, <1>3 DEF AtMost
<1>6. Promised' = AtMost(Capacity(x), Capacity(x) + T)
  BY <1>2 DEF Promised
<1> QED
  BY <1>3, <1>4, <1>5, <1>6 DEF ResetIsHonest

\* So whatever the caller is told is kept, if the script's answer is.
LEMMA ToldHonest ==
  ASSUME NEW x \in Policies, NEW stamp \in Nat, MaxDelay \in Nat,
         bucket'.tokens \in Int, bucket'.lastRefill \in Nat,
         bucket'.lastRefill <= stamp + MaxDelay,
         NEW v \in BOOLEAN, NEW t \in Nat, NEW lost \in BOOLEAN, Tell(x, stamp, v, t, lost),
         lost \/ Refilled(x, t)' + MaxDelay * Rate(x)
                   >= IF v THEN Capacity(x) - Token ELSE Capacity(x)
  PROVE  /\ ResetIsHonest'
         /\ reply' \in [allowed : BOOLEAN, resetAt : Nat, by : Policies, lost : BOOLEAN]
<1>1. CASE lost
  <2>1. reply' = [allowed |-> FALSE, resetAt |-> stamp + x.window, by |-> x, lost |-> TRUE]
    BY <1>1 DEF Tell
  <2>2. stamp + x.window \in Nat
    BY Policy
  <2> QED
    BY <2>1, <2>2, CatchHonest
<1>2. CASE ~lost
  <2>1. reply' = [allowed |-> v, resetAt |-> t, by |-> x, lost |-> FALSE]
    BY <1>2 DEF Tell
  <2>2. Promised' = IF v THEN Capacity(x) - Token ELSE Capacity(x)
    BY <2>1 DEF Promised
  <2> QED
    BY <1>2, <2>1, <2>2 DEF ResetIsHonest
<1> QED
  BY <1>1, <1>2

\* An allowed request keeps the invariant: the token it takes pays for its admission.
LEMMA TakeStep ==
  ASSUME BucketInv, NEW x \in carried, NEW stamp \in Stamps, NEW lost \in BOOLEAN,
         Take(x, stamp, lost)
  PROVE  BucketInv'
<1>1. /\ clock \in Nat /\ since \in Nat /\ admitted \in Nat /\ rebirths \in Nat
      /\ since <= clock /\ x \in Policies /\ Token \in Nat \ {0} /\ admitted * Token \in Nat
      /\ used \subseteq Policies
  BY Numbers
<1>2. /\ Exists(clock) /\ Refilled(x, stamp) >= Token
      /\ bucket' = [tokens |-> Refilled(x, stamp) - Token, lastRefill |-> RefilledAt(stamp),
                    until |-> clock + x.window]
      /\ Tell(x, stamp, TRUE, FullAt(x, stamp), lost)
      /\ admitted' = IF lost THEN admitted ELSE admitted + 1
      /\ allowed' = [at |-> clock, by |-> x] /\ used' = used \cup {x}
      /\ UNCHANGED <<since, rebirths>>
      /\ policy' = policy /\ carried' = carried /\ clock' = clock
  BY DEF Take, Admit
<1>3. /\ Refilled(x, stamp) \in Int /\ Refilled(x, stamp) <= Capacity(x)
      /\ Capacity(x) \in Nat /\ x.window \in Nat \ {0}
  BY <1>1, RefilledBounds, Numbers, Policy DEF Stamps
<1>4. /\ FullAt(x, stamp) \in Nat
      /\ \A f : f = FullAt(x, stamp)
           => Refilled(x, f)' + MaxDelay * Rate(x) >= Capacity(x) - Token
  BY <1>1, <1>2, FullInTime
<1>5. PICK p \in Policies, q \in Policies : p \in used' /\ q \in used' /\ Covers(Capacity(p), Rate(q))'
  BY <1>1, <1>2, CallCovers
<1>6. /\ RefilledAt(stamp) \in Nat /\ RefilledAt(stamp) <= clock
      /\ since - MaxDelay <= RefilledAt(stamp)
  BY <1>1, <1>2, <1>5, Policy, RefillCredit
<1>10. /\ ResetIsHonest'
       /\ reply' \in [allowed : BOOLEAN, resetAt : Nat, by : Policies, lost : BOOLEAN]
  <2>1. /\ bucket'.tokens \in Int /\ bucket'.lastRefill \in Nat
        /\ bucket'.lastRefill <= stamp + MaxDelay /\ stamp \in Nat
    BY <1>1, <1>2, <1>3, <1>6, Numbers DEF Stamps
  <2>2. PICK t \in Nat : t = FullAt(x, stamp) /\ Tell(x, stamp, TRUE, t, lost)
                         /\ Refilled(x, t)' + MaxDelay * Rate(x) >= Capacity(x) - Token
    BY <1>2, <1>4
  <2>3. /\ TRUE \in BOOLEAN /\ MaxDelay \in Nat
        /\ lost \/ Refilled(x, t)' + MaxDelay * Rate(x)
                     >= IF TRUE THEN Capacity(x) - Token ELSE Capacity(x)
    BY <2>2, DelayAssumption
  <2> QED
    BY <1>1, <2>1, <2>2, <2>3, ToldHonest
<1>7. TypeOK'
  <2>1. /\ policy' \in Policies /\ carried' \in SUBSET Policies /\ clock' \in Nat
        /\ since' \in Nat /\ rebirths' \in Nat
        /\ used' \in SUBSET Policies
    BY <1>1, <1>2 DEF BucketInv, TypeOK
  <2>2. admitted' \in Nat
    BY <1>1, <1>2
  <2>3. bucket' \in [tokens : Int, lastRefill : Nat, until : Nat]
    BY <1>1, <1>2, <1>3, <1>6
  <2>4. bucket'.tokens <= Capacity(x) /\ bucket'.lastRefill <= clock'
    BY <1>1, <1>2, <1>3, <1>6
  <2>5. allowed' \in [at : Nat, by : Policies]
    BY <1>1, <1>2
  <2> QED
    BY <1>1, <1>10, <2>1, <2>2, <2>3, <2>4, <2>5 DEF TypeOK
<1>8. Ages'
  <2>1. bucket'.until = allowed'.at + allowed'.by.window /\ since' <= clock' /\ allowed'.at <= clock'
        /\ since' <= allowed'.at
    BY <1>1, <1>2
  <2>2. allowed'.by \in used' /\ since' - MaxDelay <= bucket'.lastRefill
    BY <1>2, <1>6
  <2>3. Exists(clock)'
    BY <1>1, <1>2, <1>3 DEF Exists
  <2>4. \E v, w \in used' : Covers(Capacity(v), Rate(w))'
    BY <1>5
  <2> QED
    BY <2>1, <2>2, <2>3, <2>4 DEF Ages
<1>9. Budget'
  <2> SUFFICES ASSUME NEW cap \in Nat, NEW rate \in Nat, Covers(cap, rate)'
               PROVE  /\ (admitted * Token)' <= Credit(cap, rate, allowed.at)'
                      /\ bucket'.tokens + (admitted * Token)' <= Credit(cap, rate, bucket.lastRefill)'
    BY DEF Budget
  <2>1. PICK m \in Nat, R \in Int, T \in Nat :
          m = RefilledAt(stamp) /\ R = Refilled(x, stamp) /\ T = Token
    BY <1>1, <1>3, <1>6
  <2>2. /\ R + admitted * T <= Credit(cap, rate, m)'
        /\ Credit(cap, rate, m)' <= Credit(cap, rate, clock)'
        /\ Credit(cap, rate, m)' \in Int /\ Credit(cap, rate, clock)' \in Int
    BY <1>1, <1>2, <1>6, <2>1, RefillCredit
  <2> QED
    BY <1>1, <1>2, <2>1, <2>2
<1> QED
  BY <1>7, <1>8, <1>9, <1>10 DEF BucketInv

\* So does a blocked one: nothing is admitted, and the refill is within the credit.
LEMMA BlockStep ==
  ASSUME BucketInv, NEW x \in carried, NEW stamp \in Stamps, NEW lost \in BOOLEAN,
         Block(x, stamp, lost)
  PROVE  BucketInv'
<1>1. /\ clock \in Nat /\ since \in Nat /\ admitted \in Nat /\ rebirths \in Nat
      /\ since <= clock /\ x \in Policies /\ admitted * Token \in Nat
      /\ used \subseteq Policies /\ allowed.at \in Nat
      /\ bucket \in [tokens : Int, lastRefill : Nat, until : Nat]
  BY Numbers DEF BucketInv, TypeOK
<1>2. /\ Exists(clock)
      /\ bucket' = [bucket EXCEPT !.tokens = Refilled(x, stamp), !.lastRefill = RefilledAt(stamp)]
      /\ Tell(x, stamp, FALSE, FullAt(x, stamp), lost)
      /\ admitted' = admitted /\ allowed' = allowed /\ used' = used \cup {x}
      /\ UNCHANGED <<since, rebirths>>
      /\ policy' = policy /\ carried' = carried /\ clock' = clock
  BY DEF Block, Refuse
<1>3. /\ Refilled(x, stamp) \in Int /\ Refilled(x, stamp) <= Capacity(x) /\ Capacity(x) \in Nat
  BY <1>1, RefilledBounds, Numbers, Policy DEF Stamps
<1>4. /\ bucket'.tokens = Refilled(x, stamp) /\ bucket'.lastRefill = RefilledAt(stamp)
      /\ bucket'.until = bucket.until
  BY <1>1, <1>2
<1>5. /\ FullAt(x, stamp) \in Nat
      /\ \A f : f = FullAt(x, stamp)
           => Refilled(x, f)' + MaxDelay * Rate(x) >= Capacity(x)
  <2>1. bucket'.tokens = Refilled(x, stamp) - 0 /\ Capacity(x) - 0 = Capacity(x)
    BY <1>3, <1>4
  <2> QED
    BY <1>1, <1>4, <2>1, FullInTime
<1>6. PICK p \in Policies, q \in Policies : p \in used' /\ q \in used' /\ Covers(Capacity(p), Rate(q))'
  BY <1>1, <1>2, CallCovers
<1>7. /\ RefilledAt(stamp) \in Nat /\ RefilledAt(stamp) <= clock
      /\ since - MaxDelay <= RefilledAt(stamp)
  BY <1>1, <1>2, <1>6, Policy, RefillCredit
<1>11. /\ ResetIsHonest'
       /\ reply' \in [allowed : BOOLEAN, resetAt : Nat, by : Policies, lost : BOOLEAN]
  <2>1. /\ bucket'.tokens \in Int /\ bucket'.lastRefill \in Nat
        /\ bucket'.lastRefill <= stamp + MaxDelay /\ stamp \in Nat
    BY <1>1, <1>3, <1>4, <1>7, Numbers DEF Stamps, RefilledAt
  <2>2. PICK t \in Nat : t = FullAt(x, stamp) /\ Tell(x, stamp, FALSE, t, lost)
                         /\ Refilled(x, t)' + MaxDelay * Rate(x) >= Capacity(x)
    BY <1>2, <1>5
  <2>3. /\ FALSE \in BOOLEAN /\ MaxDelay \in Nat
        /\ lost \/ Refilled(x, t)' + MaxDelay * Rate(x)
                     >= IF FALSE THEN Capacity(x) - Token ELSE Capacity(x)
    BY <2>2, DelayAssumption
  <2> QED
    BY <1>1, <2>1, <2>2, <2>3, ToldHonest
<1>8. TypeOK'
  <2>1. /\ policy' \in Policies /\ carried' \in SUBSET Policies /\ clock' \in Nat
        /\ since' \in Nat /\ rebirths' \in Nat /\ admitted' \in Nat
        /\ used' \in SUBSET Policies
    BY <1>1, <1>2 DEF BucketInv, TypeOK
  <2>2. bucket' \in [tokens : Int, lastRefill : Nat, until : Nat]
    BY <1>1, <1>2, <1>3, <1>7
  <2>3. bucket'.tokens <= Capacity(x) /\ bucket'.lastRefill <= clock'
    BY <1>2, <1>3, <1>4, <1>7
  <2>4. allowed' \in [at : Nat, by : Policies]
    BY <1>2 DEF BucketInv, TypeOK
  <2> QED
    BY <1>1, <1>11, <2>1, <2>2, <2>3, <2>4 DEF TypeOK
<1>9. Ages'
  <2>1. bucket.until = allowed.at + allowed.by.window
    BY <1>1, <1>2 DEF BucketInv, Ages, NoBucket, Exists
  <2>2. /\ bucket'.until = allowed'.at + allowed'.by.window /\ since' <= clock' /\ allowed'.at <= clock'
        /\ admitted' > 0 => since' <= allowed'.at /\ allowed'.by \in used'
    BY <1>2, <1>4, <2>1 DEF BucketInv, Ages
  <2>3. Exists(clock)' /\ since' - MaxDelay <= bucket'.lastRefill
    BY <1>2, <1>4, <1>7 DEF Exists
  <2>4. \E v, w \in used' : Covers(Capacity(v), Rate(w))'
    BY <1>6
  <2> QED
    BY <2>2, <2>3, <2>4 DEF Ages
<1>10. Budget'
  <2> SUFFICES ASSUME NEW cap \in Nat, NEW rate \in Nat, Covers(cap, rate)', admitted' > 0
               PROVE  /\ (admitted * Token)' <= Credit(cap, rate, allowed.at)'
                      /\ bucket'.tokens + (admitted * Token)' <= Credit(cap, rate, bucket.lastRefill)'
    BY DEF Budget
  <2>1. PICK m \in Nat, R \in Int, t \in Nat, a \in Nat :
          m = RefilledAt(stamp) /\ R = Refilled(x, stamp) /\ t = allowed.at /\ a = admitted * Token
    BY <1>1, <1>3, <1>7
  <2>2. /\ R + a <= Credit(cap, rate, m)'
        /\ Credit(cap, rate, t) <= Credit(cap, rate, t)'
        /\ Credit(cap, rate, t)' \in Int
    BY <1>1, <1>2, <2>1, RefillCredit
  <2>3. a <= Credit(cap, rate, t)
    BY <1>1, <1>2, <2>1, CallCovers DEF BucketInv, Budget
  <2>4. Credit(cap, rate, t) \in Int
    <3>1. PICK b, n, s \in Nat : b = Bursts /\ n = rebirths /\ s = since
      BY <1>1, <1>2, BurstsGrow
    <3>2. b \in Nat /\ n \in Nat /\ s \in Nat /\ t \in Nat
      BY <2>1, <3>1
    <3>3. CreditOf(cap, rate, b, n, s, t) \in Int
      BY <3>2, CreditDefined
    <3> QED
      BY <3>1, <3>3 DEF Credit
  <2>5. a <= Credit(cap, rate, t)'
    BY <2>1, <2>2, <2>3, <2>4
  <2>6. (admitted * Token)' = a /\ t = allowed'.at
    BY <1>2, <2>1
  <2> QED
    BY <1>4, <2>1, <2>2, <2>5, <2>6
<1> QED
  BY <1>8, <1>9, <1>10, <1>11 DEF BucketInv

\* The delay of one more bucket makes up for a stamp that is behind the clock.
LEMMA LateStamp ==
  ASSUME NEW A \in Nat, NEW s \in Nat, NEW D \in Nat, NEW n \in Nat, NEW t \in Nat, A - t <= D
  PROVE  /\ (A - s) + D * (1 + n) \in Int /\ (t - s) + D * (1 + (n + 1)) \in Int
         /\ (A - s) + D * (1 + n) <= (t - s) + D * (1 + (n + 1))
<1>1. PICK d \in Nat : d = D * (1 + n)
  OBVIOUS
<1>2. D * (1 + (n + 1)) = D * (1 + n) + D
  OBVIOUS
<1> QED
  BY <1>1, <1>2

\* A new bucket starts full.  Its burst is one of those the rebirths are counted for, or, with
\* one policy in use, the refill of the window that had to pass before the old bucket expired.
LEMMA RebirthCredit ==
  ASSUME BucketInv, NEW x \in Policies, NEW stamp \in Stamps, ~Exists(clock),
         used' = used \cup {x}, rebirths' = rebirths + 1, since' = since,
         NEW cap \in Nat, NEW rate \in Nat, Covers(cap, rate)'
  PROVE  /\ Capacity(x) + admitted * Token <= Credit(cap, rate, stamp)'
         /\ \A t : t = clock => /\ Credit(cap, rate, stamp)' <= Credit(cap, rate, t)'
                              /\ Credit(cap, rate, stamp)' \in Int
                              /\ Credit(cap, rate, t)' \in Int
<1>1. /\ stamp \in Nat /\ clock - stamp <= MaxDelay /\ stamp <= clock
      /\ clock \in Nat /\ since \in Nat /\ since <= clock /\ MaxDelay \in Nat
      /\ admitted * Token \in Nat /\ rebirths \in Nat /\ admitted \in Nat /\ allowed.at \in Nat
      /\ allowed.at <= clock /\ allowed.by \in Policies
  BY Numbers DEF Stamps
<1>2. /\ Bursts \in Nat \ {0} /\ Bursts' \in Nat \ {0}
      /\ Bursts <= 1 + rebirths
      /\ admitted > 0 => Bursts <= Bursts'
      /\ admitted > 0 /\ Bursts' # 1 + rebirths' => used = {x} /\ Bursts = 1 /\ Bursts' = 1
  BY <1>1, BurstsGrow
<1>3. /\ Covers(cap, rate) /\ Capacity(x) <= cap /\ Rate(x) <= rate
      /\ Capacity(x) \in Nat /\ Rate(x) \in Nat /\ x.window \in Nat
      /\ Rate(x) * x.window = Capacity(x)
  BY CallCovers, Policy
<1>4. PICK b, c, n, s, k, A, a, D \in Nat :
        /\ b = Bursts /\ c = Bursts' /\ n = rebirths /\ s = since
        /\ k = clock /\ A = allowed.at /\ a = admitted * Token /\ D = MaxDelay
  BY <1>1, <1>2
<1>5. /\ b \in Nat /\ c \in Nat /\ n \in Nat /\ s \in Nat /\ k \in Nat /\ A \in Nat /\ a \in Nat
      /\ D \in Nat /\ stamp \in Nat /\ b > 0 /\ c > 0 /\ b <= 1 + n /\ n + 1 \in Nat
      /\ k - stamp <= D /\ stamp <= k /\ s <= k /\ A <= k
  BY <1>1, <1>2, <1>4
<1>6. \A t : /\ Credit(cap, rate, t)' = CreditOf(cap, rate, c, n + 1, s, t)
             /\ \A r, q : Credit(r, q, t) = CreditOf(r, q, b, n, s, t)
  BY <1>4 DEF Credit
<1>7. \A r, q, y, m, t : CreditOf(r, q, y, m, s, t) = r * y + q * ((t - s) + D * (1 + m))
  BY <1>4 DEF CreditOf, RefillOf
<1>8. Capacity(x) + a <= CreditOf(cap, rate, c, n + 1, s, stamp)
  <2>1. CASE admitted = 0
    <3>1. a = 0
      BY <1>4, <2>1, Numbers
    <3>2. CreditOf(cap, rate, c, n + 1, s, stamp) >= cap
      <4>1. s - MaxDelay <= stamp
        BY <1>1, <1>4
      <4> QED
        BY <1>5, <4>1, CreditFloor
    <3>3. CreditOf(cap, rate, c, n + 1, s, stamp) \in Int
      BY <1>5, CreditDefined
    <3> QED
      BY <1>3, <3>1, <3>2, <3>3
  <2>2. CASE admitted > 0 /\ c = 2 + n
    <3>1. a <= cap * b + rate * ((A - s) + D * (1 + n))
      <4>1. a <= CreditOf(cap, rate, b, n, s, A)
        BY <1>3, <1>4, <1>6, <2>2 DEF BucketInv, Budget
      <4> QED
        BY <1>7, <4>1
    <3>2. PICK v, w \in Int : /\ v = (A - s) + D * (1 + n) /\ w = (stamp - s) + D * (1 + (n + 1))
                              /\ v <= w
      BY <1>5, LateStamp
    <3>3. rate * v <= rate * w /\ rate * v \in Int /\ rate * w \in Int
      BY <3>2
    <3>4. cap * c = cap * (1 + n) + cap /\ cap * b <= cap * (1 + n)
          /\ cap * b \in Nat /\ cap * (1 + n) \in Nat /\ cap * c \in Nat
      <4>1. PICK e \in Nat : e = 1 + n /\ b <= e /\ c = e + 1
        BY <1>5, <2>2
      <4>2. cap * (e + 1) = cap * e + cap /\ cap * b <= cap * e /\ cap * e \in Nat /\ cap * b \in Nat
        BY <1>5, <4>1
      <4> QED
        BY <4>1, <4>2
    <3>5. a <= cap * b + rate * v
      BY <3>1, <3>2
    <3>6. CreditOf(cap, rate, c, n + 1, s, stamp) = cap * c + rate * w
      BY <1>7, <3>2
    <3>7. PICK P, Q, F, V, W \in Int :
            P = cap * b /\ Q = cap * (1 + n) /\ F = cap * c /\ V = rate * v /\ W = rate * w
      BY <3>3, <3>4
    <3>8. /\ F = Q + cap /\ P <= Q /\ V <= W /\ a <= P + V
          /\ P \in Int /\ Q \in Int /\ F \in Int /\ V \in Int /\ W \in Int
      BY <3>3, <3>4, <3>5, <3>7
    <3>9. Capacity(x) \in Nat /\ Capacity(x) <= cap /\ a \in Nat
      BY <1>3, <1>5
    <3>10. Capacity(x) + a <= F + W
      BY <3>8, <3>9
    <3> QED
      BY <3>6, <3>7, <3>10
  <2>3. CASE admitted > 0 /\ c # 2 + n
    <3>1. used = {x} /\ b = 1 /\ c = 1
      <4>1. Bursts' # 1 + rebirths'
        BY <1>1, <1>4, <1>5, <2>3
      <4> QED
        BY <1>2, <1>4, <2>3, <4>1
    <3>2. PICK r, q, h \in Nat : r = Capacity(x) /\ q = Rate(x) /\ h = x.window /\ q * h = r
      BY <1>3
    <3>3. a <= r * 1 + q * ((A - s) + D * (1 + n))
      <4>1. Covers(Capacity(x), Rate(x))
        BY <1>3, <3>1 DEF Covers
      <4>2. a <= CreditOf(r, q, 1, n, s, A)
        BY <1>4, <1>6, <2>3, <3>1, <3>2, <4>1 DEF BucketInv, Budget
      <4> QED
        BY <1>7, <4>2
    <3>4. A + h <= k
      BY <1>4, <2>3, <3>1, <3>2 DEF BucketInv, Ages
    <3>5. PICK v, w \in Int : /\ v = (A - s) + D * (1 + n) /\ w = (stamp - s) + D * (1 + (n + 1))
                              /\ v + h <= w
      <4>1. A + h \in Nat /\ (A + h) - stamp <= D
        BY <1>5, <3>2, <3>4
      <4>2. ((A + h) - s) + D * (1 + n) <= (stamp - s) + D * (1 + (n + 1))
        BY <1>5, <4>1, LateStamp
      <4>3. (A - s) + D * (1 + n) \in Int /\ (stamp - s) + D * (1 + (n + 1)) \in Int
        <5>1. D * (1 + n) \in Nat /\ D * (1 + (n + 1)) \in Nat
          BY <1>5
        <5> QED
          BY <1>5, <5>1
      <4>4. PICK d, f \in Nat : d = D * (1 + n) /\ f = D * (1 + (n + 1))
        BY <1>5
      <4>5. ((A - s) + d) + h <= (stamp - s) + f
        BY <1>5, <3>2, <4>2, <4>4
      <4> QED
        BY <4>3, <4>4, <4>5
    <3>6. w \in Nat
      <4>1. s - stamp <= D
        BY <1>5
      <4>2. (s - s) + D * (1 + n) <= (stamp - s) + D * (1 + (n + 1))
        BY <1>5, <4>1, LateStamp
      <4>3. (s - s) + D * (1 + n) \in Nat
        BY <1>5
      <4> QED
        BY <3>5, <4>2, <4>3
    <3>7. q * (v + h) <= q * w /\ q * w <= rate * w /\ q * (v + h) = q * v + r
          /\ q * v \in Int /\ q * w \in Nat /\ rate * w \in Nat
      <4>1. q * (v + h) = q * v + q * h /\ q * v \in Int
        BY <3>2, <3>5
      <4>2. q <= rate
        BY <1>3, <3>2
      <4>3. q * (v + h) <= q * w
        BY <3>2, <3>5
      <4>4. q * w <= rate * w /\ q * w \in Nat /\ rate * w \in Nat
        BY <3>2, <3>6, <4>2
      <4> QED
        BY <3>2, <4>1, <4>3, <4>4
    <3>8. a <= r + q * v
      BY <1>5, <3>2, <3>3, <3>5
    <3>9. CreditOf(cap, rate, c, n + 1, s, stamp) = cap + rate * w
      BY <1>7, <3>1, <3>5
    <3> QED
      BY <1>3, <1>5, <3>2, <3>7, <3>8, <3>9
  <2> QED
    BY <1>1, <2>1, <2>2, <2>3
<1>9. /\ CreditOf(cap, rate, c, n + 1, s, stamp) <= CreditOf(cap, rate, c, n + 1, s, k)
      /\ CreditOf(cap, rate, c, n + 1, s, stamp) \in Int
      /\ CreditOf(cap, rate, c, n + 1, s, k) \in Int
  <2>1. PICK e \in Nat : e = n + 1
    BY <1>5
  <2>2. RefillOf(rate, e, s, stamp) \in Int /\ Gain(rate, stamp, k) \in Nat
    BY <1>5, <2>1, RefillLater
  <2>3. RefillOf(rate, e, s, k) = RefillOf(rate, e, s, stamp) + Gain(rate, stamp, k)
    BY <1>5, <2>1, RefillLater
  <2>4. cap * c \in Nat
    BY <1>5
  <2> QED
    BY <2>1, <2>2, <2>3, <2>4 DEF CreditOf
<1> QED
  BY <1>4, <1>6, <1>8, <1>9

\* A request that creates the bucket keeps the invariant.
LEMMA FirstUseStep ==
  ASSUME BucketInv, NEW x \in carried, NEW stamp \in Stamps, NEW lost \in BOOLEAN,
         FirstUse(x, stamp, lost)
  PROVE  BucketInv'
<1>1. /\ clock \in Nat /\ since \in Nat /\ admitted \in Nat /\ rebirths \in Nat
      /\ since <= clock /\ x \in Policies /\ Token \in Nat \ {0} /\ admitted * Token \in Nat
      /\ used \subseteq Policies /\ MaxDelay \in Nat
      /\ stamp \in Nat /\ stamp <= clock /\ clock - stamp <= MaxDelay
  BY Numbers DEF Stamps
<1>2. /\ ~Exists(clock)
      /\ bucket' = [tokens |-> Capacity(x) - Token, lastRefill |-> stamp, until |-> clock + x.window]
      /\ Tell(x, stamp, TRUE, stamp + x.window, lost)
      /\ admitted' = IF lost THEN admitted ELSE admitted + 1
      /\ allowed' = [at |-> clock, by |-> x] /\ used' = used \cup {x}
      /\ since' = since /\ rebirths' = rebirths + 1
      /\ policy' = policy /\ carried' = carried /\ clock' = clock
  BY DEF FirstUse, Admit
<1>3. /\ Capacity(x) \in Nat /\ Capacity(x) >= Token /\ x.window \in Nat \ {0} /\ Rate(x) \in Nat
  BY <1>1, Policy
<1>4. PICK p \in Policies, q \in Policies : p \in used' /\ q \in used' /\ Covers(Capacity(p), Rate(q))'
  BY <1>1, <1>2, CallCovers
<1>8. /\ ResetIsHonest'
      /\ reply' \in [allowed : BOOLEAN, resetAt : Nat, by : Policies, lost : BOOLEAN]
  <2>1. /\ bucket'.tokens = Capacity(x) - Token /\ bucket'.lastRefill = stamp
        /\ bucket'.tokens \in Int /\ stamp <= stamp + MaxDelay
    BY <1>1, <1>2, <1>3
  <2>2. PICK t, v \in Nat : /\ t = stamp + x.window /\ v = t - stamp /\ Rate(x) * v \in Nat
                            /\ MaxDelay * Rate(x) \in Nat
    BY <1>1, <1>3
  <2>3. Refilled(x, t)' = AtMost(Capacity(x), (Capacity(x) - Token) + Rate(x) * v)
    BY <2>1, <2>2 DEF Refilled
  <2>4. AtMost(Capacity(x), (Capacity(x) - Token) + Rate(x) * v) + MaxDelay * Rate(x)
          >= Capacity(x) - Token
    BY <1>1, <1>3, <2>2 DEF AtMost
  <2>5. Tell(x, stamp, TRUE, t, lost)
    BY <1>2, <2>2
  <2> QED
    BY <1>1, <2>1, <2>2, <2>3, <2>4, <2>5, ToldHonest
<1>5. TypeOK'
  <2>1. /\ policy' \in Policies /\ carried' \in SUBSET Policies /\ clock' \in Nat
        /\ since' \in Nat /\ rebirths' \in Nat
        /\ used' \in SUBSET Policies
    BY <1>1, <1>2 DEF BucketInv, TypeOK
  <2>2. admitted' \in Nat
    BY <1>1, <1>2
  <2>3. bucket' \in [tokens : Int, lastRefill : Nat, until : Nat]
    BY <1>1, <1>2, <1>3
  <2>4. bucket'.tokens <= Capacity(x) /\ bucket'.lastRefill <= clock'
    BY <1>1, <1>2, <1>3
  <2>5. allowed' \in [at : Nat, by : Policies]
    BY <1>1, <1>2
  <2> QED
    BY <1>1, <1>8, <2>1, <2>2, <2>3, <2>4, <2>5 DEF TypeOK
<1>6. Ages'
  <2>1. bucket'.until = allowed'.at + allowed'.by.window /\ since' <= clock' /\ allowed'.at <= clock'
        /\ since' <= allowed'.at
    BY <1>1, <1>2
  <2>2. allowed'.by \in used' /\ since' - MaxDelay <= bucket'.lastRefill
    BY <1>1, <1>2
  <2>3. Exists(clock)'
    BY <1>1, <1>2, <1>3 DEF Exists
  <2>4. \E v, w \in used' : Covers(Capacity(v), Rate(w))'
    BY <1>4
  <2> QED
    BY <2>1, <2>2, <2>3, <2>4 DEF Ages
<1>7. Budget'
  <2> SUFFICES ASSUME NEW cap \in Nat, NEW rate \in Nat, Covers(cap, rate)'
               PROVE  /\ (admitted * Token)' <= Credit(cap, rate, allowed.at)'
                      /\ bucket'.tokens + (admitted * Token)' <= Credit(cap, rate, bucket.lastRefill)'
    BY DEF Budget
  <2>1. PICK C \in Nat, T \in Nat : C = Capacity(x) /\ T = Token
    BY <1>1, <1>3
  <2>2. /\ C + admitted * T <= Credit(cap, rate, stamp)'
        /\ Credit(cap, rate, stamp)' <= Credit(cap, rate, clock)'
        /\ Credit(cap, rate, stamp)' \in Int /\ Credit(cap, rate, clock)' \in Int
    BY <1>1, <1>2, <2>1, RebirthCredit
  <2> QED
    BY <1>1, <1>2, <1>3, <2>1, <2>2
<1> QED
  BY <1>5, <1>6, <1>7, <1>8 DEF BucketInv

\* Time does not earn what it did not refill, and an expired bucket leaves a window behind it.
LEMMA TickStep ==
  ASSUME BucketInv, Tick
  PROVE  BucketInv'
<1>1. /\ clock \in Nat /\ since \in Nat /\ since <= clock /\ allowed.at \in Nat
      /\ allowed.at <= clock /\ bucket.until \in Nat
  BY Numbers
<1>2. /\ clock' = clock + 1 /\ bucket' = IF Exists(clock + 1) THEN bucket ELSE NoBucket
      /\ policy' = policy /\ carried' = carried /\ reply' = reply /\ allowed' = allowed
      /\ since' = since /\ admitted' = admitted /\ rebirths' = rebirths /\ used' = used
  BY DEF Tick, observed
<1>3. Exists(clock)' => bucket' = bucket /\ Exists(clock)
  BY <1>1, <1>2 DEF Exists, NoBucket
<1>4. /\ \A cap, rate : Covers(cap, rate)' = Covers(cap, rate)
      /\ \A cap, rate, t : Credit(cap, rate, t)' = Credit(cap, rate, t)
  BY <1>2 DEF Covers, Credit, Bursts
<1>5. TypeOK'
  <2>1. CASE Exists(clock + 1)
    BY <1>1, <1>2, <2>1 DEF BucketInv, TypeOK
  <2>2. CASE ~Exists(clock + 1)
    <3>1. policy \in Policies /\ Capacity(policy) \in Nat
      BY Policy DEF BucketInv, TypeOK
    <3>2. bucket' = NoBucket /\ NoBucket \in [tokens : Int, lastRefill : Nat, until : Nat]
          /\ NoBucket.tokens = 0 /\ NoBucket.lastRefill = 0
      BY <1>2, <2>2 DEF NoBucket
    <3>3. \E p \in Policies : bucket'.tokens <= Capacity(p)
      BY <3>1, <3>2
    <3>4. bucket' \in [tokens : Int, lastRefill : Nat, until : Nat] /\ bucket'.lastRefill <= clock'
          /\ clock' \in Nat
      BY <1>1, <1>2, <3>2
    <3> QED
      BY <1>2, <3>3, <3>4 DEF BucketInv, TypeOK
  <2> QED
    BY <2>1, <2>2
<1>6. Ages'
  <2>1. bucket' = NoBucket \/ bucket'.until = allowed'.at + allowed'.by.window
    BY <1>2 DEF BucketInv, Ages
  <2>2. since' <= clock' /\ allowed'.at <= clock'
    BY <1>1, <1>2
  <2>3. admitted' > 0 => since' <= allowed'.at /\ allowed'.by \in used'
    BY <1>2 DEF BucketInv, Ages
  <2>4. admitted' > 0 /\ Exists(clock)' => since' - MaxDelay <= bucket'.lastRefill
    BY <1>2, <1>3 DEF BucketInv, Ages
  <2>5. admitted' > 0 /\ ~Exists(clock)' => allowed'.at + allowed'.by.window <= clock'
    <3>1. allowed.by.window \in Nat
      BY Numbers, Policy
    <3>2. CASE Exists(clock)
      <4>1. bucket.until = allowed.at + allowed.by.window
        BY <1>1, <3>2 DEF BucketInv, Ages, Exists, NoBucket
      <4>2. ~Exists(clock)' => ~Exists(clock + 1)
        BY <1>2 DEF Exists
      <4> QED
        BY <1>1, <1>2, <3>1, <4>1, <4>2 DEF Exists
    <3>3. CASE ~Exists(clock)
      BY <1>1, <1>2, <3>1, <3>3 DEF BucketInv, Ages
    <3> QED
      BY <3>2, <3>3
  <2>6. used' # {} => \E p, q \in used' : Covers(Capacity(p), Rate(q))'
    BY <1>2, <1>4 DEF BucketInv, Ages
  <2> QED
    BY <2>1, <2>2, <2>3, <2>4, <2>5, <2>6 DEF Ages
<1>7. Budget'
  <2> SUFFICES ASSUME NEW cap \in Nat, NEW rate \in Nat, Covers(cap, rate)', admitted' > 0
               PROVE  /\ (admitted * Token)' <= Credit(cap, rate, allowed.at)'
                      /\ Exists(clock)' => bucket'.tokens + (admitted * Token)'
                                             <= Credit(cap, rate, bucket.lastRefill)'
    BY DEF Budget
  <2>1. /\ admitted * Token <= Credit(cap, rate, allowed.at)
        /\ Exists(clock) => bucket.tokens + admitted * Token <= Credit(cap, rate, bucket.lastRefill)
    BY <1>2, <1>4 DEF BucketInv, Budget
  <2>2. /\ Credit(cap, rate, allowed.at)' = Credit(cap, rate, allowed.at)
        /\ bucket' = bucket => Credit(cap, rate, bucket.lastRefill)' = Credit(cap, rate, bucket.lastRefill)
    BY <1>2 DEF Credit, Bursts
  <2> QED
    BY <1>2, <1>3, <2>1, <2>2
<1>8. ResetIsHonest'
  <2>1. CASE Exists(clock + 1)
    BY <1>2, <2>1 DEF BucketInv, ResetIsHonest, Promised, Exists, Refilled
  <2>2. CASE ~Exists(clock + 1)
    BY <1>2, <2>2 DEF BucketInv, TypeOK, ResetIsHonest, Exists, NoBucket
  <2> QED
    BY <2>1, <2>2
<1> QED
  BY <1>5, <1>6, <1>7, <1>8 DEF BucketInv

\* What touches only the policy and the caches leaves the bucket and the interval alone.
LEMMA PolicyStep ==
  ASSUME BucketInv, policy' \in Policies, carried' \in SUBSET Policies,
         UNCHANGED <<clock, bucket, reply, observed, allowed>>
  PROVE  BucketInv'
<1>1. /\ clock' = clock /\ bucket' = bucket /\ reply' = reply /\ allowed' = allowed
      /\ since' = since /\ admitted' = admitted /\ rebirths' = rebirths /\ used' = used
  BY DEF observed
<1>2. TypeOK'
  BY <1>1 DEF BucketInv, TypeOK
<1>3. Ages'
  BY <1>1 DEF BucketInv, Ages, Exists, Covers
<1>4. Budget'
  BY <1>1 DEF BucketInv, Budget, Exists, Covers, Credit, Bursts
<1>5. ResetIsHonest'
  BY <1>1 DEF BucketInv, ResetIsHonest, Promised, Exists, Refilled
<1> QED
  BY <1>2, <1>3, <1>4, <1>5 DEF BucketInv

\* An interval may begin at any time.
LEMMA ObserveStep ==
  ASSUME BucketInv, Observe
  PROVE  BucketInv'
<1>1. /\ clock' = clock /\ bucket' = bucket /\ reply' = reply /\ allowed' = allowed
      /\ policy' = policy /\ carried' = carried
      /\ since' = clock /\ admitted' = 0 /\ rebirths' = 0
      /\ used' = (IF Exists(clock) THEN {allowed.by} ELSE {})
  BY DEF Observe
<1>2. clock \in Nat /\ allowed.by \in Policies /\ allowed.at <= clock
  BY Numbers
<1>3. TypeOK'
  BY <1>1, <1>2 DEF BucketInv, TypeOK
<1>4. Ages'
  <2>1. used' # {} => used' = {allowed.by} /\ Covers(Capacity(allowed.by), Rate(allowed.by))'
    BY <1>1, <1>2, Policy DEF Covers
  <2>2. used' # {} => \E p, q \in used' : Covers(Capacity(p), Rate(q))'
    BY <1>1, <2>1
  <2>3. bucket' = NoBucket \/ bucket'.until = allowed'.at + allowed'.by.window
    BY <1>1 DEF BucketInv, Ages
  <2> QED
    BY <1>1, <1>2, <2>2, <2>3 DEF Ages
<1>5. Budget'
  BY <1>1 DEF Budget
<1>6. ResetIsHonest'
  BY <1>1 DEF BucketInv, ResetIsHonest, Promised, Exists, Refilled
<1> QED
  BY <1>3, <1>4, <1>5, <1>6 DEF BucketInv

\* A call that does not reach Redis leaves all but its answer alone.
LEMMA UnreachableStep ==
  ASSUME BucketInv, NEW x \in carried, NEW stamp \in Stamps, Unreachable(x, stamp)
  PROVE  BucketInv'
<1>1. /\ UNCHANGED <<policy, carried, clock, bucket, observed, allowed>>
      /\ Tell(x, stamp, FALSE, stamp + x.window, TRUE)
  BY DEF Unreachable
<1>2. /\ clock' = clock /\ bucket' = bucket /\ allowed' = allowed /\ policy' = policy
      /\ carried' = carried /\ since' = since /\ admitted' = admitted
      /\ rebirths' = rebirths /\ used' = used
  BY <1>1 DEF observed
<1>3. x \in Policies /\ MaxDelay \in Nat
  BY Numbers
<1>4. /\ ResetIsHonest'
      /\ reply' \in [allowed : BOOLEAN, resetAt : Nat, by : Policies, lost : BOOLEAN]
  <2>1. /\ bucket'.tokens \in Int /\ bucket'.lastRefill \in Nat
        /\ bucket'.lastRefill <= stamp + MaxDelay /\ stamp \in Nat
    BY <1>2, Numbers DEF Stamps
  <2>2. stamp + x.window \in Nat
    BY <1>3, <2>1, Policy
  <2> QED
    BY <1>1, <1>3, <2>1, <2>2, ToldHonest
<1>5. TypeOK'
  BY <1>2, <1>4 DEF BucketInv, TypeOK
<1>6. Ages'
  BY <1>2 DEF BucketInv, Ages, Exists, Covers
<1>7. Budget'
  BY <1>2 DEF BucketInv, Budget, Exists, Covers, Credit, Bursts
<1> QED
  BY <1>4, <1>5, <1>6, <1>7 DEF BucketInv

\* The invariant holds of a key that was never used.
LEMMA BucketInit == Init => BucketInv
<1> SUFFICES ASSUME Init PROVE BucketInv
  OBVIOUS
<1>1. /\ policy \in Policies /\ carried = {policy} /\ clock = 0 /\ bucket = NoBucket
      /\ reply = [allowed |-> TRUE, resetAt |-> 0, by |-> policy, lost |-> FALSE]
      /\ since = 0 /\ admitted = 0 /\ rebirths = 0 /\ used = {}
      /\ allowed = [at |-> 0, by |-> policy]
  BY DEF Init
<1>2. TypeOK
  <2>1. Capacity(policy) \in Nat
    BY <1>1, Policy
  <2>2. bucket.tokens = 0 /\ bucket.lastRefill = 0
        /\ bucket \in [tokens : Int, lastRefill : Nat, until : Nat]
    BY <1>1 DEF NoBucket
  <2> QED
    BY <1>1, <2>1, <2>2 DEF TypeOK
<1>3. Ages /\ Budget
  BY <1>1 DEF Ages, Budget
<1>4. ResetIsHonest
  BY <1>1 DEF ResetIsHonest, Exists, NoBucket
<1> QED
  BY <1>2, <1>3, <1>4 DEF BucketInv

\* Every action keeps it.
LEMMA BucketStep == BucketInv /\ [Next]_vars => BucketInv'
<1> SUFFICES ASSUME BucketInv, [Next]_vars PROVE BucketInv'
  OBVIOUS
<1>1. policy \in Policies /\ carried \in SUBSET Policies
  BY DEF BucketInv, TypeOK
<1>2. CASE \E p \in carried, stamp \in Stamps, lost \in BOOLEAN : FirstUse(p, stamp, lost)
  BY <1>2, FirstUseStep
<1>3. CASE \E p \in carried, stamp \in Stamps, lost \in BOOLEAN : Take(p, stamp, lost)
  BY <1>3, TakeStep
<1>4. CASE \E p \in carried, stamp \in Stamps, lost \in BOOLEAN : Block(p, stamp, lost)
  BY <1>4, BlockStep
<1>10. CASE \E p \in carried, stamp \in Stamps : Unreachable(p, stamp)
  BY <1>10, UnreachableStep
<1>5. CASE \E p \in Policies : UpdatePolicy(p)
  BY <1>1, <1>5, PolicyStep DEF UpdatePolicy
<1>6. CASE CacheExpires
  BY <1>1, <1>6, PolicyStep DEF CacheExpires
<1>7. CASE Tick
  BY <1>7, TickStep
<1>8. CASE Observe
  BY <1>8, ObserveStep
<1>9. CASE UNCHANGED vars
  BY <1>1, <1>9, PolicyStep DEF vars
<1> QED
  BY <1>2, <1>3, <1>4, <1>5, <1>6, <1>7, <1>8, <1>9, <1>10 DEF Next

\* So it always holds.
LEMMA BucketInvariant == Spec => []BucketInv
<1> QED
  BY BucketInit, BucketStep, PTL DEF Spec

-----------------------------------------------------------------------------
(* What follows. *)

\* The hash is a number of tokens that no policy's limit is below, refilled in the past.
THEOREM TypeCorrect == Spec => []TypeOK
<1>1. BucketInv => TypeOK
  BY DEF BucketInv
<1> QED
  BY <1>1, BucketInvariant, PTL

\* The limiter admits no more than a burst, the refill of the interval, and what late stamps and
\* rebirths may add: for every set of policies, every delay and every history of calls.
THEOREM RateBounded == Spec => []RateBound
<1>1. BucketInv => RateBound
  <2> SUFFICES ASSUME BucketInv, used # {} PROVE RateBound
    BY DEF RateBound
  <2>1. PICK p \in Policies, q \in Policies : p \in used /\ q \in used /\ Covers(Capacity(p), Rate(q))
    BY Numbers DEF BucketInv, Ages
  <2>2. PICK cap, rate, b, n, s, k, A, a \in Nat :
          /\ cap = Capacity(p) /\ rate = Rate(q) /\ b = Bursts /\ n = rebirths /\ s = since
          /\ k = clock /\ A = allowed.at /\ a = admitted * Token
    <3>1. Bursts \in Nat
      BY Numbers DEF Bursts
    <3> QED
      BY <3>1, Numbers, Policy
  <2>3. s <= k /\ A <= k /\ b >= 0
    BY <2>2, Numbers
  <2>4. b = IF used = {p} THEN 1 ELSE 1 + rebirths
    BY <2>1, <2>2 DEF Bursts
  <2>5. RefillOf(rate, n, s, k) \in Nat
    <3>1. PICK d \in Nat : d = (k - s) + MaxDelay * (1 + n)
      BY <2>2, <2>3, DelayAssumption
    <3> QED
      BY <2>2, <3>1 DEF RefillOf
  <2>6. a <= cap * b + RefillOf(rate, n, s, k)
    <3>1. cap * b \in Nat
      BY <2>2
    <3>2. CASE admitted = 0
      BY <2>2, <2>5, <3>1, <3>2, Numbers
    <3>3. CASE admitted > 0
      <4>1. a <= CreditOf(cap, rate, b, n, s, A)
        BY <2>1, <2>2, <3>3 DEF BucketInv, Budget, Credit
      <4>2. rate \in Nat /\ n \in Nat /\ s \in Nat /\ A \in Nat /\ k \in Nat /\ A <= k
        BY <2>2, <2>3
      <4>3. RefillOf(rate, n, s, A) \in Int /\ Gain(rate, A, k) \in Nat
        BY <4>2, RefillLater
      <4>4. RefillOf(rate, n, s, k) = RefillOf(rate, n, s, A) + Gain(rate, A, k)
        BY <4>2, RefillLater
      <4> QED
        BY <2>2, <3>1, <4>1, <4>3, <4>4 DEF CreditOf
    <3> QED
      BY <3>2, <3>3, Numbers
  <2> QED
    BY <2>1, <2>2, <2>4, <2>6 DEF RateBound, RefillOf
<1> QED
  BY <1>1, BucketInvariant, PTL

\* A request stamped resetAt finds what was promised, less at most what MaxDelay seconds refill,
\* whether the caller got the script's answer or that of the catch block.
THEOREM ResetHonest == Spec => []ResetIsHonest
<1>1. BucketInv => ResetIsHonest
  BY DEF BucketInv
<1> QED
  BY <1>1, BucketInvariant, PTL

\* A request is blocked only within one window of the last one that was allowed.
THEOREM BlockedShortly == Spec => BlockedWithinWindow
<1>1. BucketInv /\ [Next]_vars =>
        [(\E p \in carried, stamp \in Stamps, lost \in BOOLEAN : Block(p, stamp, lost))
            => clock < allowed.at + allowed.by.window]_vars
  <2> SUFFICES ASSUME BucketInv, NEW p \in carried, NEW stamp \in Stamps,
                      NEW lost \in BOOLEAN, Block(p, stamp, lost)
               PROVE  clock < allowed.at + allowed.by.window
    OBVIOUS
  <2>1. Exists(clock) /\ clock \in Nat
    BY Numbers DEF Block, Refuse
  <2> QED
    BY <2>1 DEF BucketInv, Ages, Exists, NoBucket
<1> QED
  BY <1>1, BucketInvariant, PTL DEF Spec, BlockedWithinWindow

=============================================================================
