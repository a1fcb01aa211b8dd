----------------------------- MODULE TokenBucket -----------------------------
(***************************************************************************)
(* The rate limiter of one bucket key: TOKEN_BUCKET_SCRIPT, which Redis    *)
(* runs as one step, and checkLimit / runBucket, which read the clock of   *)
(* their own process before the script is sent.                            *)
(*                                                                         *)
(* clock is the time of Redis, in seconds.  A request carries a stamp,     *)
(* Math.floor(Date.now() / 1000), that is up to MaxDelay behind it when    *)
(* the script runs: the second is cut off, the command waits in a queue,   *)
(* and another instance of the service has another clock.  MaxDelay is a   *)
(* parameter of the environment; no code enforces it.                      *)
(*                                                                         *)
(* limit and window are arguments of every call.  They come from a record  *)
(* that verify may have cached before the policy was changed, so calls on  *)
(* one bucket carry the new policy and older ones for a while.             *)
(*                                                                         *)
(* The script computes with fractions of a token.  Here a token is Scale   *)
(* units, a multiple of every window: exact where the script rounds to a   *)
(* double.                                                                 *)
(***************************************************************************)
EXTENDS Integers

CONSTANTS
  Policies,  \* the limits a key may have: records [limit, window]
  Scale,     \* units of a token
  MaxDelay,  \* how far a stamp may be behind the clock
  MaxTime,   \* bound of the clock
  MaxDebt    \* bound of the units a bucket may lack below zero

\* @Min(1) of ApiKeyDto, and the two checks at the head of runBucket.
ASSUME PolicyAssumption ==
  Policies \subseteq [limit : Nat \ {0}, window : Nat \ {0}]
ASSUME ScaleAssumption ==
  Scale \in Nat \ {0} /\ \A p \in Policies : Scale % p.window = 0
ASSUME DelayAssumption == MaxDelay \in Nat /\ MaxTime \in Nat /\ MaxDebt \in Nat

VARIABLES
  policy,    \* limit and window of the key
  carried,   \* the policies that calls carry: this one, and older ones still cached
  clock,
  bucket,    \* the hash under rl:<key>
  reply,     \* what the last caller was told, the policy it asked with, whether redis.eval failed
  (* History variables: no action of the limiter reads them. *)
  since,     \* start of the interval that is being observed
  admitted,  \* requests let through in it
  rebirths,  \* buckets created in it
  used,      \* policies of the calls in it, and of the bucket it began with
  allowed    \* the last allowed request: its time and its policy

observed == <<since, admitted, rebirths, used>>
vars == <<policy, carried, clock, bucket, reply, observed, allowed>>

Token == Scale
Capacity(p) == p.limit * Scale
Rate(p) == p.limit * (Scale \div p.window)

Stamps == {s \in 0 .. clock : clock - s <= MaxDelay}

\* No hash: never used, or expired.
NoBucket == [tokens |-> 0, lastRefill |-> 0, until |-> 0]
Exists(t) == t < bucket.until

Init ==
  /\ policy \in Policies
  /\ carried = {policy}
  /\ clock = 0
  /\ bucket = NoBucket
  /\ reply = [allowed |-> TRUE, resetAt |-> 0, by |-> policy, lost |-> FALSE]
  /\ since = 0 /\ admitted = 0 /\ rebirths = 0 /\ used = {}
  /\ allowed = [at |-> 0, by |-> policy]

-----------------------------------------------------------------------------
(* The script. *)

AtMost(cap, x) == IF x <= cap THEN x ELSE cap

\* Rounded up: math.ceil of a quotient of naturals.
CeilDiv(a, b) == (a + b - 1) \div b

\* Mutant: the comparison with the limit is left out.
RefilledPastLimit(p, stamp) == bucket.tokens + Rate(p) * (stamp - bucket.lastRefill)

\* What the bucket holds at a stamp, before anything is taken.  A stamp behind
\* lastRefill takes tokens away.
Refilled(p, stamp) ==
  AtMost(Capacity(p), bucket.tokens + Rate(p) * (stamp - bucket.lastRefill))

\* Mutant: lastRefill is not stored.
FirstRefill(stamp) == bucket.lastRefill

\* lastRefill moves only if tokens were added.
RefilledAt(stamp) == IF stamp > bucket.lastRefill THEN stamp ELSE bucket.lastRefill

\* Mutant: the wait is rounded down.
FullTooSoon(p, stamp) == stamp + (Capacity(p) - Refilled(p, stamp)) \div Rate(p)

\* When a bucket that is not used any more is full.
FullAt(p, stamp) == stamp + CeilDiv(Capacity(p) - Refilled(p, stamp), Rate(p))

\* What the caller is told: the script's answer, or the catch block's if redis.eval failed,
\* whether the script has run or not.
Tell(p, stamp, verdict, resetAt, lost) ==
  reply' = IF lost THEN [allowed |-> FALSE, resetAt |-> stamp + p.window, by |-> p, lost |-> TRUE]
           ELSE [allowed |-> verdict, resetAt |-> resetAt, by |-> p, lost |-> FALSE]

\* A request the script allowed is admitted, unless its reply was lost: the token is gone all
\* the same.
Admit(p, lost) ==
  /\ admitted' = IF lost THEN admitted ELSE admitted + 1
  /\ allowed' = [at |-> clock, by |-> p]
  /\ used' = used \cup {p}

\* The hash does not exist: it is created with one token taken.
FirstUse(p, stamp, lost) ==
  /\ ~Exists(clock)
  /\ bucket' = [tokens |-> Capacity(p) - Token, lastRefill |-> stamp, until |-> clock + p.window]
  /\ Tell(p, stamp, TRUE, stamp + p.window, lost)
  /\ Admit(p, lost)
  /\ rebirths' = rebirths + 1
  /\ UNCHANGED <<policy, carried, clock, since>>

\* A token is left: it is taken, and the hash lives for another window.
Take(p, stamp, lost) ==
  /\ Exists(clock)
  /\ Refilled(p, stamp) >= Token
  /\ bucket' = [tokens |-> Refilled(p, stamp) - Token, lastRefill |-> RefilledAt(stamp),
                until |-> clock + p.window]
  /\ Tell(p, stamp, TRUE, FullAt(p, stamp), lost)
  /\ Admit(p, lost)
  /\ UNCHANGED <<policy, carried, clock, since, rebirths>>

\* What Block does to the bucket but for its expiry.
Refuse(p, stamp, lost) ==
  /\ Exists(clock)
  /\ Refilled(p, stamp) < Token
  /\ Refilled(p, stamp) >= -MaxDebt
  /\ Tell(p, stamp, FALSE, FullAt(p, stamp), lost)
  /\ used' = used \cup {p}
  /\ UNCHANGED <<policy, carried, clock, since, admitted, rebirths, allowed>>

\* Mutant: EXPIRE is set whenever the hash is.
BlockAndKeep(p, stamp, lost) ==
  /\ Refuse(p, stamp, lost)
  /\ bucket' = [tokens |-> Refilled(p, stamp), lastRefill |-> RefilledAt(stamp),
                until |-> clock + p.window]

\* No token is left: the refill is stored, the expiry is not moved.
Block(p, stamp, lost) ==
  /\ Refuse(p, stamp, lost)
  /\ bucket' = [bucket EXCEPT !.tokens = Refilled(p, stamp), !.lastRefill = RefilledAt(stamp)]

\* The script never runs: Redis cannot be reached.  (A command the driver sends again after it
\* lost the reply is a call whose reply is lost and another call.)
Unreachable(p, stamp) ==
  /\ Tell(p, stamp, FALSE, stamp + p.window, TRUE)
  /\ UNCHANGED <<policy, carried, clock, bucket, observed, allowed>>

-----------------------------------------------------------------------------
(* Redis and time. *)

\* Time passes; Redis drops the hash when its expiry is reached.
Tick ==
  /\ clock < MaxTime
  /\ clock' = clock + 1
  /\ bucket' = IF Exists(clock + 1) THEN bucket ELSE NoBucket
  /\ UNCHANGED <<policy, carried, reply, observed, allowed>>

\* updateApikey changes the policy; cached records keep the old one, until they expire.
UpdatePolicy(p) ==
  /\ p # policy
  /\ policy' = p
  /\ carried' = carried \cup {p}
  /\ UNCHANGED <<clock, bucket, reply, observed, allowed>>

CacheExpires ==
  /\ carried # {policy}
  /\ carried' = {policy}
  /\ UNCHANGED <<policy, clock, bucket, reply, observed, allowed>>

\* The observer starts to count: it may do so at any time.
Observe ==
  /\ since' = clock /\ admitted' = 0 /\ rebirths' = 0
  /\ used' = IF Exists(clock) THEN {allowed.by} ELSE {}
  /\ UNCHANGED <<policy, carried, clock, bucket, reply, allowed>>

Next ==
  \/ \E p \in carried, stamp \in Stamps, lost \in BOOLEAN :
       FirstUse(p, stamp, lost) \/ Take(p, stamp, lost) \/ Block(p, stamp, lost)
  \/ \E p \in carried, stamp \in Stamps : Unreachable(p, stamp)
  \/ \E p \in Policies : UpdatePolicy(p)
  \/ CacheExpires
  \/ Tick
  \/ Observe

Spec == Init /\ [][Next]_vars

-----------------------------------------------------------------------------
(* Properties. *)

\* No bucket ever holds more than the largest limit, or was refilled in the future.
TypeOK ==
  /\ policy \in Policies /\ carried \in SUBSET Policies
  /\ clock \in Nat
  /\ bucket \in [tokens : Int, lastRefill : Nat, until : Nat]
  /\ \E p \in Policies : bucket.tokens <= Capacity(p)
  /\ bucket.lastRefill <= clock
  /\ reply \in [allowed : BOOLEAN, resetAt : Nat, by : Policies, lost : BOOLEAN]
  /\ since \in Nat /\ admitted \in Nat /\ rebirths \in Nat /\ used \in SUBSET Policies
  /\ allowed \in [at : Nat, by : Policies]

\* In any interval in which one policy is in use the limiter admits at most one burst of
\* "limit" requests and what is refilled while the interval lasts; a stamp that is behind
\* the clock can add MaxDelay to that once, and once more for every time the bucket
\* expires and starts full.  While calls carry several policies, each such start may add
\* a burst of the largest of them, and no more than that.
RateBound ==
  used # {} =>
    \E p, q \in used :
      admitted * Token
        <= Capacity(p) * (IF used = {p} THEN 1 ELSE 1 + rebirths)
             + Rate(q) * ((clock - since) + MaxDelay * (1 + rebirths))

\* Late stamps can drive a bucket into any debt, and another policy can cut what it holds,
\* but they cannot shut a caller out: a request is blocked only within one window of the
\* last one the script allowed, the window being that request's.
BlockedWithinWindow ==
  [][(\E p \in carried, stamp \in Stamps, lost \in BOOLEAN : Block(p, stamp, lost))
        => clock < allowed.at + allowed.by.window]_vars

\* What the bucket should hold at resetAt: all but the token just taken.  The catch block of
\* runBucket does not know the bucket: its now + window leaves a debt as it was.
Promised ==
  LET cap == Capacity(reply.by)
  IN IF reply.lost THEN AtMost(cap, cap + bucket.tokens)
     ELSE IF reply.allowed THEN cap - Token ELSE cap

\* resetAt is kept but for the lag of late stamps: with no other request in between, a request
\* stamped resetAt finds what was promised, less at most what MaxDelay seconds refill.  That
\* much may lack when lastRefill is ahead of the stamp that resetAt was computed from, by the
\* script or by the catch block.
ResetIsHonest ==
  Exists(reply.resetAt)
    => Refilled(reply.by, reply.resetAt) + MaxDelay * Rate(reply.by) >= Promised

=============================================================================
