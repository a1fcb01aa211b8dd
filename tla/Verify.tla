-------------------------------- MODULE Verify --------------------------------
(***************************************************************************)
(* POST /verify from end to end, for the keys of one user: the key is      *)
(* looked up and validated, the call is charged to the quota, the rate     *)
(* limiter is asked, the call is answered.  The quota is the module Quota, *)
(* whose request[r] is the call r while it is charged.                     *)
(*                                                                         *)
(* What becomes of a key's record and of a bucket is the subject of        *)
(* ApiKeys and TokenBucket: here validation and the limiter may answer     *)
(* either way.  The policy that a record carries may lack its limit or its *)
(* window: @IsOptional lets null through, and it is stored.                *)
(***************************************************************************)
EXTENDS Quota

VARIABLES
  call,    \* call[r]: its stage, or how it was answered last
  (* History variables: no action reads them. *)
  paid,    \* paid[r]: what the call has added to the counter of the quota, by replies it got
  exempt,  \* exempt[r]: the plan had no limit, or there was none, when it was looked up
  token    \* token[r]: the script has taken a token for the call

ledger == <<paid, exempt, token>>
verifyVars == <<vars, call, ledger>>

Stages == {"charge", "limit"}
Answers == {"none", "ok", "badRequest", "unauthorized", "forbidden", "tooMany", "failed"}

InitVerify ==
  /\ Init
  /\ call = [r \in Requests |-> "none"]
  /\ paid = [r \in Requests |-> 0]
  /\ exempt = [r \in Requests |-> FALSE]
  /\ token = [r \in Requests |-> FALSE]

To(r, stage) == call' = [call EXCEPT ![r] = stage]

-----------------------------------------------------------------------------
(* parseAuthHeaders, record and validateRecord: nothing is charged by then. *)

Begin(r) ==
  /\ call[r] \notin Stages
  /\ paid' = [paid EXCEPT ![r] = 0]
  /\ exempt' = [exempt EXCEPT ![r] = FALSE]
  /\ token' = [token EXCEPT ![r] = FALSE]
  /\ UNCHANGED vars

\* The key is good.
Validated(r) == Begin(r) /\ To(r, "charge")

\* 400 for the header, 401 for the key, 500 for a missing policy or an await that throws.
NotValidated(r) == Begin(r) /\ \E a \in {"badRequest", "unauthorized", "failed"} : To(r, a)

-----------------------------------------------------------------------------
(* checkandIncrementQuota. *)

\* What this step of r adds to the counter by HINCRBY.
Counted(r) ==
  IF request[r].pc \in {"incr", "refund"}
  THEN Plus(hash'.usedQuota, 0) - Plus(hash.usedQuota, 0) ELSE 0

Charging(r) ==
  /\ call[r] = "charge"
  /\ paid' = [paid EXCEPT ![r] = @ + Counted(r)]
  /\ exempt' = [exempt EXCEPT ![r] = @ \/ (request[r].pc = "restore" /\ QuotaOf(userPlan) = None)]
  /\ UNCHANGED token

\* An await of the quota returns; the call is through once Quota has no more to do for it.
Charge(r) ==
  /\ Hgetall(r) \/ RestoreRead(r) \/ RestoreStore(r) \/ Increment(r)
  /\ Charging(r)
  /\ IF request'[r].pc = "idle" THEN To(r, "limit") ELSE UNCHANGED call

\* Redis did what the call asked, but the reply is lost: Quota accounts for it.
ChargeUnanswered(r) ==
  /\ call[r] = "charge"
  /\ Unanswered(r)
  /\ UNCHANGED <<call, ledger>>

\* ForbiddenException: 403.
OverQuota(r) == Refund(r) /\ Charging(r) /\ To(r, "forbidden")

\* Mutant: an error of Redis or of the database is swallowed, and the call goes on.
ChargeFailsOpen(r) ==
  /\ RequestFails(r) \/ (request[r].pc = "idle" /\ UNCHANGED vars)
  /\ Charging(r)
  /\ To(r, "limit")

\* An await of the quota throws, the first one before Quota has begun: 500.
ChargeFails(r) ==
  /\ RequestFails(r) \/ (request[r].pc = "idle" /\ UNCHANGED vars)
  /\ Charging(r)
  /\ To(r, "failed")

-----------------------------------------------------------------------------
(* checkLimit, and the answer. *)

Limited(r, taken, answer) ==
  /\ call[r] = "limit"
  /\ token' = [token EXCEPT ![r] = taken]
  /\ To(r, answer)
  /\ UNCHANGED <<vars, paid, exempt>>

Allowed(r) == Limited(r, TRUE, "ok")

\* The bucket is empty, or Redis cannot be reached; or the script took a token and its
\* reply is lost.  All of them are answered 429.
Throttled(r) == \E taken \in BOOLEAN : Limited(r, taken, "tooMany")

\* The policy has no limit or no window, and null <= 0: 400, for every call of the key.
InvalidPolicy(r) == Limited(r, FALSE, "badRequest")

\* The process dies.
Dies(r) == \E taken \in BOOLEAN : Limited(r, taken, "failed")

VerifyStep(r) ==
  \/ Validated(r) \/ NotValidated(r)
  \/ Charge(r) \/ ChargeUnanswered(r) \/ OverQuota(r) \/ ChargeFails(r)
  \/ Allowed(r) \/ Throttled(r) \/ InvalidPolicy(r) \/ Dies(r)

NextVerify ==
  \/ \E r \in Requests : VerifyStep(r)
  \/ /\ \/ \E c \in Changers : ChangerStep(c) \/ \E p \in Plans : SelectPlan(c, p)
        \/ Evict
        \/ Lapse
     /\ UNCHANGED <<call, ledger>>

SpecVerify == InitVerify /\ [][NextVerify]_verifyVars

-----------------------------------------------------------------------------
(* Properties. *)

\* What each variable may hold; a call is at a stage or answered, and Quota knows it only
\* while it is charged.
StagesOK ==
  /\ TypeOK
  /\ call \in [Requests -> Stages \cup Answers]
  /\ paid \in [Requests -> {0, 1}]
  /\ exempt \in [Requests -> BOOLEAN] /\ token \in [Requests -> BOOLEAN]
  /\ \A r \in Requests : request[r].pc # "idle" => call[r] = "charge"

Answered(r, answers) == call'[r] # call[r] /\ call'[r] \in answers

\* No await that fails, no restore, refund or change of plan in between opens a way past
\* the quota: the limiter is asked, and a key is let in, only for a call one increment of
\* which was answered, or whose user had no limit at the moment of the look-up.  And who is
\* refused for the key or for the quota has given back what it knows it paid, and used up no
\* token, whatever the other calls and the plan did meanwhile.  (What a lost reply added or
\* gave back beyond that is leaked and repaid of Quota.  Who is refused by the limiter has
\* paid: the quota is charged first, and nothing gives it back.)
ChargedIfPassed ==
  [][\A r \in Requests :
       /\ Answered(r, {"ok", "tooMany"})
            => /\ paid'[r] = 1 \/ exempt'[r]
               /\ call'[r] = "ok" => token'[r]
       /\ Answered(r, {"unauthorized", "forbidden"}) => paid'[r] = 0 /\ ~token'[r]]_verifyVars

=============================================================================
