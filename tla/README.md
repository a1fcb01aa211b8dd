# A formal model of Brij

Brij issues API keys and decides, on `POST /verify`, whether a request that carries one
may pass. This directory holds TLA+ modules that model its core, TLC configurations that
check them on small instances, and proofs that TLAPS checks for every value of the
constants. Paths below are relative to the repository.

To check a run: `tlc -config ApiKeys_staleness.cfg MCApiKeys.tla`; to check the proofs:
`for m in *Proofs.tla; do tlapm $m; done`. `PROJECT.json` lists runs, theorems, the source
lines behind every definition, hazards, findings and, for every property, a mutant of the
code that breaks it.

## The system

| part | source | state it keeps | operations |
|---|---|---|---|
| API keys | `src/module/workspace/api-key/apiKey.service.ts` | table `api_keys` (+ `policies`) | create, update, update status, revoke, delete, rotate, the ten-minute cron |
| verify | `src/module/workspace/verify/verify.service.ts` | Redis entry `<keyPrefix>`, 60 s | read through the cache, validate, charge the quota, ask the rate limiter |
| rate limiter | `src/module/rate-limiting/` | Redis hash `rl:<key>` | a Lua script that refills, takes or refuses |
| quota and plans | `src/module/billing/billing.service.ts` | table `user_plans`, Redis hash `quota:<userId>` | count a call, restore the hash, select a plan |
| sessions | `src/module/auth/auth.service.ts`, `jwt-auth.guard.ts` | table `sessions`; JWTs held by clients | login, refresh, sign out, guard |
| accounts | `src/module/auth/auth.service.ts` | tables `users`, `email_verification` | register, verify account, resend |
| e-mail queue | `src/common/email/` | BullMQ queue `email-queue` | send a code |
| workspaces | `src/module/workspace/workspace.service.ts`, `workspace.guard.ts` | tables `workspace`, `api` | create, rename, soft delete, own |
| helpers | `src/common/` | none | HMAC and bcrypt, durations, slugs, identifiers |

How they interact: the handlers share PostgreSQL and Redis and nothing else. There is no
lock and no message between them; every `await` is a point where any other handler, of
this or another instance of the service, may run. Key management writes PostgreSQL and
then deletes the cache entry that verify fills; verify reads Redis, or PostgreSQL and then
writes Redis; plan selection writes PostgreSQL and then the hash that verify counts in.
Two stores that no transaction spans, written in sequence by handlers that may fail in
between, are what makes this code hard. The rest is time: the clock ends keys, grace
periods, cache entries, buckets, tokens and codes.

What has to be right, part by part:

- **Keys.** A change of a key reaches verify within a bounded time, even if the cache entry
  is never deleted. A rotation has one heir, the old key lives through its grace period
  and no longer, and the cron tidies up without ending what still works.
- **Rate limiter.** It admits what the policy allows, however its callers' clocks differ;
  it does not block for ever; `resetAt` is true, but for the lag of a late stamp.
- **Quota.** Calls that are let through are counted, calls that are refused are not, and
  the limit is the one of the user's plan.
- **Sessions.** A login has one live token, sign-out is final, an expired login is not
  revived, an access token does not outlive its session for long.
- **Accounts and e-mail.** A code verifies once per row, the newest code works, older ones
  do not; a code that exists reaches its user, unless something known has kept it back, and
  then the caller should be told (he seldom is).
- **Workspaces.** Whoever changes something owns it, also when the guard's answer is old by
  then; a key that is handed out can be parsed.

The behaviours that are hard to test are listed, at their lines, under `hazards` in
`PROJECT.json`.

## The modules

### ApiKeys (MCApiKeys, ApiKeysProofs, KeyLifeProofs)

One row per key (`db`), one Redis entry per key (`cache`), the verify requests
(`verifier`) and the management requests (`admin`) with their program counters, and a
clock. A SQL statement, a transaction and a Redis command are one step each; what lies
between two awaits of a handler belongs to one action.

| code | actions |
|---|---|
| `createApiKey`, `updateApikey` | the action of the same name: one transaction |
| `updateApiKeyStatus`, `rovokeApikey`, `deleteApiKey` | the action of the same name writes the row; `Bust` is the `redisService.del` that follows, `HandlerFails` that it throws |
| `rotateApiKey` | `RotateRead`, then `RotateCommit` or `RotateConflict`, then `Bust` |
| `removeExpiredRotation` | `removeExpiredRotation` |
| `record` | `Get`; on a miss `Lookup`, then `Fill` |
| `validateRecord` | `validateRecord`, or `VerifyRejects` |
| Redis losing an entry, time | `Evict`, `Tick` |

Left out: hashes (the presented secret either matches or `VerifyRejects` happens), names
and public ids, `revokedAt` and `lastUsedAt`, which nothing reads. Permissions, limit and
window are one value, the key's grant, because they are always written and read together.
The history variables `writtenAt`, `lastUsable`, `closed`, `parent` and the fields
`overtaken` and `closes` record what properties speak of; no guard reads them.

*MaxStall* bounds how long a handler is in flight. Nothing in the code enforces it (a
handler could hang between two awaits for ever), so every bound on a stale answer is
stated in terms of it: `MaxLag == TTL + 2 * MaxStall` is a fill in flight, the life of the
entry it sets, and the request that hits this entry. The model shows that the bound is the
sum of these three and nothing else, whichever busts fail.

### KeyLife (KeyLifeProofs)

What callers of Brij are promised about a key, with no table, cache or handler in it: a key
is unborn, good, bad or gone; it is issued once, its owner moves it between good and bad and
deletes it, time turns it bad and never good, and a client that asks is let in less than
`MaxLag` after the key was last good. `ApiKeys` implements it (`ImplementsKeyLife`) under
this mapping:

| KeyLife | ApiKeys |
|---|---|
| `life[k]` | unborn before `issued`, then what the row is now (`KeyLives`, `LifeOf`) |
| `lastGood` | `lastUsable` |
| `asked[c]` | the key of a verify request until it is answered (`Questions`) |
| `passed[c]` | the request has been let in (`Answers`) |

A create, an update, a status change, a revocation or a delete is `Issue` or `Manage`;
`RotateCommit` is `Rotate`; the cron and every bust, fill, eviction and failure stutter;
`Tick` is `Pass`. So the cron, which writes a row, is shown to change no life, and a cache
that is stale is shown to matter in `Accept` only, and there by `MaxLag`.

### TokenBucket (MCTokenBucket, TokenBucketProofs)

One bucket. `FirstUse`, `Take` and `Block` are the three ways through the Lua script, which
Redis runs as one step. `policy` is the row's, `carried` are the policies that calls bring:
the row's and those of records cached before an update. `UpdatePolicy` is the part of
`updateApikey` that matters here, `CacheExpires` the end of the last stale record. Tokens are
counted in units of `1/Scale`, a multiple of every window, so the script's division is exact;
the script itself rounds to a double. A request's stamp is the caller's second and may be up
to `MaxDelay` behind Redis' clock: seconds are truncated, commands queue, and instances
differ. A stamp ahead of the clock is not modelled, the clock being that of the fastest
instance. When `redis.eval` fails, the catch block of `runBucket` answers (`Tell`): no, and come
back one window from now, whatever the bucket holds. The script may have run (`lost`, and then
a token may be gone) or not (`Unreachable`). `Observe` restarts the count of `RateBound` at any time, so the bound is
about every interval; `used` are the policies with which it was admitted to.

With one policy the bound is a burst and the refill. With two, every rebirth of the bucket
may start it at the larger limit: the run fails if `RateBound` leaves that out.

`resetAt` is kept less exactly than its name says, and `ResetIsHonest` says by how much. The
script computes it from the stamp of the call, while `lastRefill` may be ahead of that stamp: a
request stamped `resetAt`, with none in between, then finds up to `MaxDelay` seconds of refill
less than was promised. The same holds of the catch block's time, which besides knows nothing of
a debt (`Promised`). That the bucket be full at `resetAt` itself is false in the code, and in the
model.

### Sessions (SessionsProofs)

The rows of `sessions`, named by user and second of issue: tokens hold only the user and
the second, so two tokens of a user in one second are the same string, and the unique
column refuses the second one (`TokenIsFree`). `rotateRefreshToken` is one step because its
transaction begins with an update of the presented row, whose lock orders it against
another one on the same token. `RotateReused` changes nothing: the handler revokes all
sessions and then throws inside the same transaction. `canActivate` is the guard, which
knows the access token only. `signOut` is a query and an update by token; rows are never
deleted and the update is unconditional, so one step is enough.

`new Date()` (line 432) is taken before the SQL runs, so the date a refresh compares `expiresAt`
with is up to `MaxDelay` behind the clock (`Matches`); `NoRevival` allows a login that much and
no more. A refresh of the presented token may commit between the two statements of `signOut`;
the update then hits a row that is revoked already and the new token lives on.
`signOut` of a revoked token is that outcome. `SignOutIsFinal` speaks of sign-outs that find the
token unrevoked, and no property forbids the other.

### Quota, Verify (MCVerify, VerifyProofs)

`Quota` is one user: the row (`userPlan`), the hash with its two fields, either of which may
be missing, and every await of `checkandIncrementQuota`, `restoreQuota` and `selectPlan` as
a step of its own. `None` as a limit is both the unlimited plan and the `NaN` that
`parseInt(undefined)` yields: nothing compares greater than it. `quotaUsed` of the row is
0 for ever (only `assignPlan` writes it; the sync job's `@Cron` is commented out), so a
restored hash starts at 0. `Lapse` is the end of a subscription, which `selectPlan` tests
for and something outside the service would write.

A Redis command that fails has not always failed: it may have had its effect and lost its reply
with the connection. `IncrementUnanswered`, `RefundUnanswered`, `RestoreUnanswered`,
`ChargeUnanswered` (the same in `Verify`) and `Stored` are that, and leave the handler waiting:
the driver may send the command again (the step is taken once more) or the await throws
(`RequestFails`). So a call that is answered 500 may stay charged, and a refund may be made
twice. The history says what this leaves in the counter: `leaked` increments that let no call
through, `repaid` refunds that were made once too often, `resent` restores. `MaxLost` bounds
their number in a run.

`Verify` EXTENDS it with the rest of `verify`: a call is validated or not, is charged by the
steps of `Quota` (`request[r]` is call r while it is charged), meets the limiter, and is
answered. How validation and the limiter come to their answers is the subject of `ApiKeys`
and `TokenBucket`; here both may answer either way. What a call has added to the counter,
whether it had a limit, and whether a token was taken for it are history (`ledger`).

| code | actions |
|---|---|
| `parseAuthHeaders`, `record`, `validateRecord` | `Validated`, `NotValidated` (400, 401, 500) |
| `checkandIncrementQuota` | `Charge`, one await each; `OverQuota` (403); `ChargeUnanswered`, a reply lost; `ChargeFails` (500) |
| `checkLimit` and the answer | `Allowed`, `Throttled` (429), `InvalidPolicy` (400) |
| the process dies | `Dies` |

### Accounts (MCAccounts, AccountsProofs)

The rows of `email_verification` by code. `VerifyLookup` is `findFirst`, which has no order
and may find any live row, and the comparison; `VerifyMark` is the transaction that follows.
`ResendBegin` is the first statement of `resendEmail`'s transaction, with the rows it sees
under READ COMMITTED, and `ResendCommit` the rest of it, with the new code's two rows.
Codes of different calls are taken to differ (they are six random digits), and requests
carry codes that were drawn.

### Mail (MailProofs)

The codes of one account in the order of their commits, and `email-queue`. `Commit` is the
transaction of `registerUser` or `resendEmail`; `sendEmailJob` the add that follows it, whose
reply may be lost, `AddFails` an add that throws (500), and `HandlerDies` a process that dies
between the two, so that nobody is told anything.
`Take`, `Send`, `Complete`, `Throw` and `Swallow` are `EmailProcessor.process` with
`accountVerification` in it: an error that Resend's client throws fails the attempt, one that
it returns is logged and completes the job. The queue is BullMQ's and external: a list, a
backoff (`Promote`), and the check for stalled jobs, which puts the job of a dead worker back
at the head of the list once (`WorkerDies`). It is in the Redis of the caches
(`app.module.ts:39`) and goes with it (`LoseQueue`): the list and the delayed jobs are gone,
what a worker has in hand is still worked on, and is not put back when its attempt fails or the
worker dies.

### Workspaces (MCWorkspaces, WorkspacesProofs), KeyFormat

Rows of `workspace`, `api` and `api_keys`, and requests of several users, which pass the
guard (`canActivate`), look the container up where their route has one (`getApiId`) and run
their handler: three queries, and anything between them. `WorkspaceRoutes`, `ApiRoutes` and
`KeyRoutes` are the controllers. What a key allows and when it ends is in `ApiKeys`; here it
has a container, a prefix, and is active or not. Deleted workspaces are marked and stay: they
keep their slug, and the guard lets their owner through. That a slug belongs to one workspace,
deleted or not, is part of `TypeOK`: on it rests every second look-up by slug.

`KeyFormat` is pure: a key as the sequence of its parts between underscores, how
`createApiKey` puts it together, how `rotateApiKey` cuts it (`Rotated`) and what the regular
expression of `parseAuthHeaders` admits (`Parses`).

## The runs

| run | instance | what it shows |
|---|---|---|
| `apikeys_staleness` | 1 key, 2 verify requests, 1 manager, an expiry date, TTL 1, MaxStall 1, 4 ticks | records and exposure are bounded by MaxLag (3); what is live in the cache of a closed key is from a fill that was overtaken; KeyLife is implemented with two clients |
| `apikeys_grace` | 2 keys, 1 verify request, 1 manager, grace 4, 5 ticks | a grace period of at least MaxLag + MaxStall is honoured to the tick; the cron ends no usable key; a rotation date that has passed is final |
| `apikeys_rotation` | 3 keys, 2 managers, 2 ticks | concurrent rotations: one heir per activation |
| `apikeys_cron` | 2 keys, 1 manager, 2 grants, 3 ticks, fairness | rotations end; an heir misses only updates made during the rotation |
| `tokenbucket` | policies 3/2 and 1/1 in turn, delay 1, 4 ticks, debt 4 | the rate bound, how far short of `resetAt` the bucket may be, blocking for less than a window, all while stale policies are carried and `redis.eval` may fail before or after the script |
| `sessions` | 1 user, tokens for 3 s, access for 2 s, delay 1, 5 ticks | one live session per login, sign-out final, no revival, access tokens bounded |
| `sessions_reuse` | the same, 3 ticks | **violation**: a replay revokes nothing |
| `verify` | 2 calls, 1 plan change, limits 1, 2 and none, counts up to 3, 1 lost reply or refund | over- and undercounting are bounded by the calls in flight; the limit follows the plan; no failure opens a way past quota or limiter; who is refused before the limiter pays nothing |
| `quota_enforced` | the same | **violation**: the quota is off after a lost hash |
| `accounts` | 1 address, 3 codes, 2 requests, codes for 2 ticks, 3 ticks | codes that are superseded verify nobody, live codes are refused only after overlapping resends |
| `mail` | 2 codes, 2 requests, 2 workers, 3 attempts, 1 stall, fairness | a code that is lost was lost for one of six causes; mails are duplicated and overtake each other only for the reasons listed; jobs end |
| `workspaces` | 2 each of users, slugs, workspaces, containers, titles, key identifiers and requests; 3 prefix names | the guard's answer still holds when the handler runs; only owners change anything; which keys parse, before and after rotations |

*Bounds.* The clock (`MaxTime`), the debt of a bucket (`MaxDebt`) and the counter
(`MaxCount`) are cut off by guards. `MaxTime` exceeds every sum of periods a property
speaks of: in `apikeys_staleness` MaxLag is 3 and the clock reaches 4, so the last
accepted and the first refused instant are both there; in `apikeys_grace` the grace period
of 4 ends before the horizon of 5; a token bucket of window 1 is born, used, drained,
is cut to another policy, expires and is born again in 4; a session of 3 seconds issued at 1 is refreshed and
outlived in 5. Two verify requests are enough for a fill that races with another one's
hit, two managers for a race of rotations (with a third key so that both could succeed);
the limits 1 and 2 are the smallest that a stale limit can confuse, a count of 3 is
limit 1 and one undue call per request, and one lost reply is enough for a call to be charged
twice, or to be refused on a quota that nobody used. Three codes
are a registration and two resends that overlap. Two codes in `mail` are the least that
can change places, and two workers the least that do it without a failure (three codes take
longer than a run should and show nothing new). In `workspaces` two users with two slugs and
two workspaces are one tenant and a stranger, two identifiers are a key and its heir, and
the three names are a word, a part that is no word (`3d`) and a name that imitates a live
key (`my_live`).

*Symmetry and views.* Keys, requests, grants and codes are interchangeable where the cfg
says so; `apikeys_cron` and `mail` check liveness and use no symmetry. The views `Stripped`
leave out history that the properties of the run do not mention.

*Deadlock* is checked except in `apikeys_rotation`, `apikeys_cron` and `mail`. In the first
two no verify request runs, and once the clock is at the horizon and every key is deleted
nothing is left to do; in `mail` nothing is left once all codes are drawn and all jobs over.

*Fairness* (`FairSpec`, used by `apikeys_cron`): weak fairness of the cron, which
`ScheduleModule` runs every ten minutes; of the clock; and of every started handler, which
goes on to its next await or fails, since Node does not drop a settled promise. In `mail`:
of a handler that has committed, which adds its job or fails; of each worker, dying included,
since BullMQ's workers run as long as their process does; and of the end of a backoff. No
fairness is assumed of callers, or between success and failure.

## What the code does differently from what it says

Two are runs that TLC violates:

1. `auth.service.ts:442-443`, all sessions are to be revoked on reuse: the transaction is
   rolled back by the exception that reports the reuse (`sessions_reuse`).
2. `README.md:19`, quota enforcement: a hash that is lost between the read and the
   increment comes back without a limit (`quota_enforced`).

The others are shown by what the properties that do hold must leave room for:

3. `README.md:17`, "Instant revocation": a verify in flight can put the old record back
   after the bust. Bounded by MaxLag (`BoundedExposure`), and never more than the entry
   of an overtaken fill when the bust succeeds (`ClosedCacheClean`).
4. `auth.service.ts:312-314`, of two requests that verify one OTP one is rejected: the code
   of a resend has two rows (lines 384 and 393), and each verifies once (`OneSuccessPerRow`).
5. `rate-limiting.luascript.ts:2`, "unique bucket key for this apiKey + user": `VerifyDto`
   declares `namespace` and `identifier` without validators, the global `ValidationPipe` has
   `whitelist: true` (`main.ts:11`) and strips them, so all users of a key share its bucket.
   `TokenBucket` models that bucket.
6. `auth.service.ts:214-215`, "a queue failure shouldn't roll back an already created
   account": it does not, but the caller is answered 500 and a second try 409 (`told` is
   "failed" in `LossesExplained`). That is the one loss of a code that its caller hears of; a
   process that dies before the add, a Redis that loses the queue, attempts that are used up,
   workers that die with the job twice, and an error that Resend returns are silent.
7. A prefix name with an underscore, or one that is not `[a-z][a-z0-9]+`, is accepted, and
   the key it makes is answered with 400; a rotation may turn it into a key that parses and
   tells an environment that is not its own (`OtherNamesRefusedUntilRotated`, in `PrefixesRoundTrip`).

## What is proved

Every safety invariant and every action property that a passing run checks is also a theorem,
for any values of the constants: any keys, users, codes, requests and workers, any periods,
limits and horizons that the modules' assumptions admit. What TLC shows on the instances of
the table holds on all of them.

| module | theorems |
|---|---|
| `ApiKeysProofs` | `TypeCorrect`, `StalenessBounded` (`BoundedStaleness`), `ExposureBounded` (`BoundedExposure`) |
| `KeyLifeProofs` | `Refines` (`ImplementsKeyLife`), `CronSpares` (`CronSparesUsable`), `OneHeir` (`OneHeirPerActivation`), `DeadlineFinal` (`DeadlineIsFinal`), `ClosedClean` (`ClosedCacheClean`), `HeirIsRecent` (`HeirMissesOnlyRecentUpdates`), `GracePeriodHonoured` (`GraceHonoured`) |
| `TokenBucketProofs` | `TypeCorrect`, `RateBounded` (`RateBound`), `ResetHonest` (`ResetIsHonest`), `BlockedShortly` (`BlockedWithinWindow`) |
| `SessionsProofs` | `TypeCorrect`, `OneSession` (`OneSessionPerLogin`), `SignedOutForGood` (`SignOutIsFinal`), `NeverRevived` (`NoRevival`), `AccessBounded` (`AccessOutlivesSession`) |
| `VerifyProofs` | `StagesCorrect` (`StagesOK`), `RestoresBounded` (`OneRestorePerRequest`), `LimitIsThePlans` (`LimitFollowsPlan`), `GrantsBounded` (`GrantsWithinQuota`), `RefusalsEarned` (`RefusedOnlyWhenUsedUp`), `NoWayPast` (`ChargedIfPassed`) |
| `AccountsProofs` | `TypeCorrect`, `CodeUsedUp` (`OneSuccessPerRow`), `SupersededIsDead` (`SupersededNeverVerifies`), `LiveCodeUnique` (`OneLiveCode`), `LiveCodeWorks` (`LiveCodeNotRefused`) |
| `MailProofs` | `TypeCorrect`, `Traced` (`LossesExplained`), `MailedOnce` (`OneMailPerCode`), `InOrderOfCodes` (`NewestArrivesLast`) |
| `WorkspacesProofs` | `TypeCorrect`, `GuardStays` (`GuardStillHolds`), `RoundTrip` (`PrefixesRoundTrip`), `OwnerAlone` (`OnlyOwnerChanges`) |

From which assumptions: the named `ASSUME`s of the modules, which TLC evaluates in every run.
They say that periods and limits are numbers of the right sign, that a token divides by every
window, that sets that are counted are finite, and that `None` is none of the values it stands
beside. One theorem has a hypothesis of its own: `GracePeriodHonoured` needs `LongGrace`,
every grace period being at least `MaxLag + MaxStall`. The code offers 30 minutes, one hour and
a day (`apikey.type.ts:44`) against an entry of 60 seconds, so it holds as long as no handler
is in flight for nearly ten minutes. `MaxStall` and `MaxDelay` are parameters of the
environment, as said above; no theorem says how large they are.

No property of these is inductive as it stands. What each proof adds, and why:

**Staleness and exposure of a key** (`LagInv`). That a record in hand is young depends on where it came from.
`LagInv` says how old a copy of a row may be at each place it passes through. A record
that a request has read from the table is no older than the request (`<= started`), a
request is no older than MaxStall (`Clocks`), so an entry that expires at `until` was
filled at most `TTL` before and read at most `MaxStall` before that (`EntryTTL`,
`ExposureInv`, `StalenessInv`), and a request that hits it adds its own MaxStall. `Located`
says that a request that is under way has a key, and is needed to speak of its row. Every
action either moves a record one place on, or writes a row and stamps it with the
present, or lets time pass, which only `TickAge` has to pay for; the lemmas
`StampedAge`, `DropAge`, `RequestAge` and `TickAge` are these cases, and `AgeStep` applies
them action by action. `UsableBefore` (deadlines only pass) carries usability back from
the instant of the decision to the instant of the read.

**KeyLife** (`LifeInv`). `Refines` needs one more invariant, `Born`: a key that was not issued has no row and no
record in the cache or in a request's hands, and a row is there whole or not at all. Without
it a step could make a key good that KeyLife calls unborn. The initial states map to
KeyLife's, and `LifeStep` takes the actions one by one: whatever writes one row of an issued
key is `Manage` (`WriteLife`, `ManageLife`), a rotation writes two (`RotateLife`), the cron
changes no life because what it ends was over (`CronLife`), time only turns good keys bad
(`TickLife`), refusals ask nothing of the key (`RefuseLife`), and a request that is let in
has a key that was good less than `MaxLag` ago (`AcceptLife`), which is `ExposureStep`, the
step on which `ExposureBounded` rests.

**Rotations and the cron** (`RowInv`, `Rotating`, `GraceInv`). `RowKinds` says once which
steps write a row: an owner's handler writes one and leaves its rotation date alone unless it
deletes the row, a rotation that commits writes two, the cron ends what is over, and everything
else is a bystander. `CronSparesUsable`, `OneHeirPerActivation` and `DeadlineIsFinal` are read
off these cases. `Known` adds that requests and closed keys are about keys that were issued and
that a closed key is not live, from which a live record that enters the cache of a closed key
must come from a fill that the closing overtook. `Rotating` says that a rotation
that waits for its transaction is young and that the grant it has read is the row's unless the
row was written since. `GraceInv` follows a record that does not know its key's rotation date:
it was read before the rotation, so it is used up, fill, entry and hit together, `MaxLag` after
that, which a grace period outlasts; one conjunct per place where such a record may be.

**The bucket** (`BucketInv`). `RateBound` speaks of the present; what is kept is a `Budget`:
what was admitted and what is left in the bucket are together within the credit (bursts and
refill) at the last refill, and what was admitted alone is within the credit at the last
allowed request. The second half is what remains of the first when the bucket expires. The
budget is stated for every capacity and rate that covers the policies in use (`Covers`), since
a call with a larger policy raises all earlier credit at once (`CallCovers`). A rebirth is
paid for in two ways (`RebirthCredit`): with several policies by one more burst; with one
policy by the refill of the window that must have passed since the last allowed request
(`Ages`, and `Rate * window = Capacity`), and the stamp's delay by one more `MaxDelay`.
`Ages` also gives `BlockedWithinWindow`, because a bucket that exists expires one window after
the last allowed request. `ResetIsHonest` is kept as a statement about the stored bucket and the
last answer: `RoundedUp` is why the script's `resetAt` is not too early by its own stamp, and
`lastRefill` being at most `MaxDelay` ahead of any stamp is the shortfall.

**Sessions** (`SessionInv`). `Lineage`: a token has a row when it was issued, and its login
began with a token that was issued earlier. `OneLive` and `NoneSignedOut` are the two
properties token by token, without counting, and of every token that is not revoked, whether it
has expired or not, since a refresh with an old date may still take it. `Seen` ties `lastLive` to
what is open now, and to the expiry of what is not revoked: such a token was live until it
expired, so the date that a refresh compares it with bounds how long its login has been over.

**Quota and Verify** (`QuotaInv`, `StageInv`). `Balance` is the account of the counter: it
shows at most what is claimed (calls let through, increments and refunds lost, refunds owed, less
those made twice), and less only by refunds that hit it after it was set back, of which there is
one per request, with those still to come (`Late`). `GrantsWithinQuota` follows from its upper half and `RefusedOnlyWhenUsedUp`
from its lower. `Restored` counts restores with the requests about to make one, `LimitKnown`
says that a writer that overlapped with nobody holds the plan's limit. `VerifyIsQuota` shows
that every step of `Verify` is one of `Quota` or leaves it alone, so what holds of `Quota`
holds in the pipeline. `StageInv` is what each call has paid at each stage (`Ledger`).

**Accounts** (`AccountInv`). `Marked`: a success has used a row up, and so has a resend.
`Alone`: a resend that overlapped with no other is about to invalidate every live row of its
address, and no second resend is at work there; without it the commit could leave two live
codes. `Owned`: rows do not change their address, and a second row has a first.

**Mail** (`MailInv`). `Places`: a job is in one place, a request owes a code of its own, and
nobody was told anything of a code that is owed; `Comes` is a code that is still on its way. `Mails`: a mail that is out, as far as the
queue does not know it, is one of a worker that died. `InOrder`: a newer job than one that
nothing has held up is still in the list and behind it, or lost.

**Workspaces** (`Inv`). `StillFound` is what each request has found, at its stage; owners and
slugs of rows do not change while slugs are unique (`UniqueSlugs`). `OnlyOwnerChanges` follows
step by step. `Shaped`: a key's prefix is as `createApiKey` made it, or as `rotateApiKey` makes
it of that; rotating twice makes no third form (`RotatedShaped`).

Two things the proofs have changed in the models. `TokenBucket.TypeOK` said that a bucket
never holds more than all but one token. That is true of the policies of the run and false of
others: with one request per four seconds, a blocked call a second after the first one stores a
quarter of a token. It now says that the capacity of some policy bounds what the bucket holds.
And `Workspaces` now assumes that `None` is no user, slug, workspace or container.

Only model-checked: liveness (`RotationFinalised`, `JobsEnd`), because fairness and ENABLED are
out of the prover's reach; and the two properties that TLC is to violate.

## What is not modelled

- *`lastUsedAt`* (`verify.service.ts:128`): a Prisma call is lazy and nothing awaits this
  one, so the update is never sent; a matter of the client library, not of an order of steps.
  Nothing reads the column.
- *An add that is sent twice*: the Redis driver may repeat a command whose reply was lost, and
  BullMQ's add is a script under a fresh identifier; whether the second one makes a second job is
  a matter of these libraries. Nor does the queue fall back to an earlier state, or lose single
  keys.
- *`quotaResetsAt`* (`billing.service.ts:25`): `setUTCMonth` overflows at the end of a month
  (31 January is reset on 3 March), but nothing reads the date and no job resets a count.
- *An unlimited plan over a lapsed one* (`billing.service.ts:49`): it leaves the old hash in
  place. `Quota` makes that step; no property speaks of it, because nothing in the service
  makes a subscription lapse today.
- *Collisions*: a prefix has 24 random bits and the column is unique, so among some
  thousands of keys of one name a create fails with 500 and nothing tries again. Identifiers,
  codes, hashes and tokens do not collide here, except as said under Sessions.
- *Durations and slugs*: a duration is the number it parses to, a slug what `slugify` yields.
- *Queries* (lists, look-ups of one row, the user's own data) change nothing.
- *DTOs and Swagger*: what a DTO admits bounds the inputs of the handlers; its documentation
  has no behaviour. Bootstrap, configuration, the error filter and the Prisma service have no
  state of their own.
- *Code that is commented out*: usage log, the schedule of the quota sync, two guards.

## Plan

Models and proofs cover what the first plan listed. What is left:

1. The abstract specification of another part, and its refinement: what a caller is promised of
   a quota, or of a code, as `KeyLife` is for a key.
2. The reset date as a pure definition against a reference one, once something reads it.
