--------------------------------- MODULE Mail ---------------------------------
(***************************************************************************)
(* How a verification code reaches its user: registerUser and resendEmail  *)
(* commit it and then add a job to email-queue, a worker takes the job and *)
(* calls Resend.  The rows themselves are the subject of Accounts; here    *)
(* the codes of one account are numbered in the order of their commits,    *)
(* and the newest one is the one that verifies.                            *)
(*                                                                         *)
(* BullMQ and Resend are external: a job waits in a list, is delayed after *)
(* a failed attempt, and is put back at the head of the list when its      *)
(* worker has died, MaxStalls times.  The queue is in Redis, which may     *)
(* lose all of it.  That the driver of BullMQ may add a job twice, when    *)
(* the reply to an add is lost, is left out: a code has one job.           *)
(***************************************************************************)
EXTENDS Integers, Sequences, FiniteSets

CONSTANTS
  Handlers,   \* concurrent register and resend requests
  Workers,    \* workers of the queue, one per instance of the service
  MaxCodes,   \* bound of the codes drawn
  Attempts,   \* the job option of the same name, 3
  MaxStalls,  \* BullMQ's maxStalledCount, 1
  None

ASSUME MailAssumption ==
  /\ MaxCodes \in Nat /\ Attempts \in Nat \ {0} /\ MaxStalls \in Nat
  /\ None \notin Nat

VARIABLES
  codes,      \* codes committed so far: code c is the c-th
  handler,    \* handler[h]: the code that h has committed and still has to queue
  wait,       \* the list of waiting jobs, a job being named by its code
  delayed,    \* jobs waiting for their backoff to pass
  worker,     \* worker[w]: the job that w has, and whether its mail is out
  tries,      \* tries[c]: failed attempts of the job
  stalls,     \* stalls[c]: workers that died with the job
  (* History variables: no action reads them. *)
  told,       \* told[c]: what the caller was told: "nothing" as long as his request runs, and
              \* for good if its process died
  mailed,     \* mailed[c]: mails with code c that went out
  swallowed,  \* codes whose job ended with an error that Resend reported
  lost,       \* codes whose job was in the queue when Redis lost it
  overtaken   \* codes that a newer one passed before or while they were sent

jobs == <<wait, delayed, worker, tries, stalls>>
history == <<told, mailed, swallowed, lost, overtaken>>
vars == <<codes, handler, jobs, history>>

Codes == 1 .. MaxCodes
Free == [job |-> None, sent |-> FALSE]

Init ==
  /\ codes = 0
  /\ handler = [h \in Handlers |-> None]
  /\ wait = <<>> /\ delayed = {}
  /\ worker = [w \in Workers |-> Free]
  /\ tries = [c \in Codes |-> 0] /\ stalls = [c \in Codes |-> 0]
  /\ told = [c \in Codes |-> "nothing"]
  /\ mailed = [c \in Codes |-> 0]
  /\ swallowed = {} /\ lost = {} /\ overtaken = {}

\* Where a code is: owed by a request, or a job that waits, is delayed or is worked on.
Owed == {handler[h] : h \in Handlers} \ {None}
Waiting == {wait[i] : i \in DOMAIN wait}
Held == {worker[w].job : w \in Workers} \ {None}
Jobs == Waiting \cup delayed \cup Held

-----------------------------------------------------------------------------
(* registerUser and resendEmail. *)

\* The transaction commits: the account with its first code, or another code.
Commit(h) ==
  /\ handler[h] = None
  /\ codes < MaxCodes
  /\ codes' = codes + 1
  /\ handler' = [handler EXCEPT ![h] = codes']
  /\ UNCHANGED <<jobs, history>>

\* What becomes of the caller of a request that has queued its code: the reply of Redis may be
\* lost, and the process may die before it answers.
Queueing == {"sent", "failed, but queued", "nothing, but queued"}

\* Codes newer than c that were queued.
Newer(c) == {d \in Codes : d > c /\ told[d] \in Queueing}

\* Mutant: the job is added twice, as resendEmail does with its row.
QueueTwice(h) ==
  LET c == handler[h] IN
  /\ c # None
  /\ wait' = wait \o <<c, c>>
  /\ told' = [told EXCEPT ![c] = "sent"]
  /\ overtaken' = IF Newer(c) # {} THEN overtaken \cup {c} ELSE overtaken
  /\ handler' = [handler EXCEPT ![h] = None]
  /\ UNCHANGED <<codes, delayed, worker, tries, stalls, mailed, swallowed, lost>>

\* Mutant: the option lifo is set.
QueueLifo(h) ==
  LET c == handler[h] IN
  /\ c # None
  /\ wait' = <<c>> \o wait
  /\ told' = [told EXCEPT ![c] = "sent"]
  /\ overtaken' = IF Newer(c) # {} THEN overtaken \cup {c} ELSE overtaken
  /\ handler' = [handler EXCEPT ![h] = None]
  /\ UNCHANGED <<codes, delayed, worker, tries, stalls, mailed, swallowed, lost>>

\* emailQueue.add: the job is in the list, and the caller is answered.
sendEmailJob(h) ==
  LET c == handler[h] IN
  /\ c # None
  /\ wait' = Append(wait, c)
  /\ \E answer \in Queueing : told' = [told EXCEPT ![c] = answer]
  /\ overtaken' = IF Newer(c) # {} THEN overtaken \cup {c} ELSE overtaken
  /\ handler' = [handler EXCEPT ![h] = None]
  /\ UNCHANGED <<codes, delayed, worker, tries, stalls, mailed, swallowed, lost>>

\* The add throws: 500, although the code, and with registerUser the account, exists.
AddFails(h) ==
  LET c == handler[h] IN
  /\ c # None
  /\ told' = [told EXCEPT ![c] = "failed"]
  /\ handler' = [handler EXCEPT ![h] = None]
  /\ UNCHANGED <<codes, jobs, mailed, swallowed, lost, overtaken>>

\* The process dies between the commit and the add: nobody is told.
HandlerDies(h) ==
  /\ handler[h] # None
  /\ handler' = [handler EXCEPT ![h] = None]
  /\ UNCHANGED <<codes, jobs, history>>

-----------------------------------------------------------------------------
(* EmailProcessor.process and accountVerification. *)

Busy(w) == worker[w].job # None
Release(w) == worker' = [worker EXCEPT ![w] = Free]

\* A worker takes the head of the list.
Take(w) ==
  /\ ~Busy(w) /\ wait # <<>>
  /\ worker' = [worker EXCEPT ![w] = [job |-> Head(wait), sent |-> FALSE]]
  /\ wait' = Tail(wait)
  /\ overtaken' = overtaken \cup {worker[v].job : v \in {u \in Workers : Busy(u) /\ worker[u].job < Head(wait)}}
  /\ UNCHANGED <<codes, handler, delayed, tries, stalls, told, mailed, swallowed, lost>>

\* Resend accepts the mail.
Send(w) ==
  /\ Busy(w) /\ ~worker[w].sent
  /\ mailed' = [mailed EXCEPT ![worker[w].job] = @ + 1]
  /\ worker' = [worker EXCEPT ![w].sent = TRUE]
  /\ UNCHANGED <<codes, handler, wait, delayed, tries, stalls, told, swallowed, lost, overtaken>>

\* process returns and the job is removed (removeOnComplete).
Complete(w) ==
  /\ Busy(w) /\ worker[w].sent
  /\ Release(w)
  /\ UNCHANGED <<codes, handler, wait, delayed, tries, stalls, history>>

\* Resend's client answers { error }, a lost reply among its reasons: the error is logged
\* and not thrown, and the job completes.
Swallow(w) ==
  /\ Busy(w) /\ ~worker[w].sent
  /\ \E sent \in {0, 1} : mailed' = [mailed EXCEPT ![worker[w].job] = @ + sent]
  /\ swallowed' = swallowed \cup {worker[w].job}
  /\ Release(w)
  /\ UNCHANGED <<codes, handler, wait, delayed, tries, stalls, told, lost, overtaken>>

\* Mutant: the option attempts is not given, and BullMQ's default is one attempt.
ThrowOnce(w) ==
  /\ Busy(w) /\ ~worker[w].sent
  /\ tries' = [tries EXCEPT ![worker[w].job] = @ + 1]
  /\ Release(w)
  /\ UNCHANGED <<codes, handler, wait, delayed, stalls, history>>

\* Mutant: every failure adds the job anew instead of counting the attempt.
ThrowForEver(w) ==
  /\ Busy(w) /\ ~worker[w].sent
  /\ delayed' = delayed \cup {worker[w].job}
  /\ Release(w)
  /\ UNCHANGED <<codes, handler, wait, tries, stalls, history>>

\* The call throws and process rethrows: the job is delayed, or given up.  A job that Redis
\* knows no more is not put back, here and when its worker dies.
Throw(w) ==
  LET c == worker[w].job IN
  /\ Busy(w) /\ ~worker[w].sent
  /\ tries' = [tries EXCEPT ![c] = @ + 1]
  /\ delayed' = IF tries[c] + 1 < Attempts /\ c \notin lost THEN delayed \cup {c} ELSE delayed
  /\ Release(w)
  /\ UNCHANGED <<codes, handler, wait, stalls, history>>

\* The backoff is over.
Promote(c) ==
  /\ c \in delayed
  /\ delayed' = delayed \ {c}
  /\ wait' = Append(wait, c)
  /\ UNCHANGED <<codes, handler, worker, tries, stalls, history>>

\* The worker's process dies, before the mail is out or after: the job is found stalled.
WorkerDies(w) ==
  LET c == worker[w].job IN
  /\ Busy(w)
  /\ stalls' = [stalls EXCEPT ![c] = @ + 1]
  /\ wait' = IF stalls[c] < MaxStalls /\ c \notin lost THEN <<c>> \o wait ELSE wait
  /\ Release(w)
  /\ UNCHANGED <<codes, handler, delayed, tries, history>>

\* Redis restarts without its data: the queue is empty, the workers go on with what they have.
LoseQueue ==
  /\ ~(Jobs \subseteq lost)
  /\ wait' = <<>> /\ delayed' = {}
  /\ lost' = lost \cup Jobs
  /\ UNCHANGED <<codes, handler, worker, tries, stalls, told, mailed, swallowed, overtaken>>

-----------------------------------------------------------------------------
(* The specification. *)

HandlerStep(h) == sendEmailJob(h) \/ AddFails(h)
WorkerStep(w) == Take(w) \/ Send(w) \/ Complete(w) \/ Swallow(w) \/ Throw(w) \/ WorkerDies(w)

Next ==
  \/ \E h \in Handlers : Commit(h) \/ HandlerStep(h) \/ HandlerDies(h)
  \/ \E w \in Workers : WorkerStep(w)
  \/ \E c \in Codes : Promote(c)
  \/ LoseQueue

\* A request goes on until it is answered; a worker runs while there are jobs; BullMQ
\* promotes a job when its time has come.  Nobody has to ask for a code.
Spec ==
  /\ Init /\ [][Next]_vars
  /\ \A h \in Handlers : WF_vars(HandlerStep(h))
  /\ \A w \in Workers : WF_vars(WorkerStep(w))
  /\ \A c \in Codes : WF_vars(Promote(c))

-----------------------------------------------------------------------------
(* Properties. *)

\* A job is in one place, has attempts left there, and its code is committed.
TypeOK ==
  /\ codes \in 0 .. MaxCodes
  /\ handler \in [Handlers -> (1 .. codes) \cup {None}]
  /\ worker \in [Workers -> [job : (1 .. codes) \cup {None}, sent : BOOLEAN]]
  /\ Len(wait) = Cardinality(Waiting) /\ Waiting \subseteq 1 .. codes
  /\ Waiting \cap delayed = {} /\ (Waiting \cup delayed) \cap (Held \cup Owed) = {}
  /\ \A v, w \in Workers : worker[v].job = worker[w].job => v = w \/ ~Busy(v)
  /\ tries \in [Codes -> 0 .. Attempts] /\ stalls \in [Codes -> 0 .. MaxStalls + 1]
  /\ \A c \in Jobs : tries[c] < Attempts /\ stalls[c] <= MaxStalls

\* A code that is no longer on its way and was never mailed has one of six causes, and no
\* interleaving of requests, workers, retries and deaths adds a seventh.  The caller knows of
\* the first alone: the add failed and he was told.  The others are silent: the process died
\* before the add, Redis lost the queue, the attempts or the workers were used up, and
\* accountVerification keeps an error of Resend to itself.
LossesExplained ==
  \A c \in 1 .. codes :
    \/ c \in Owed \cup Jobs
    \/ mailed[c] > 0
    \/ told[c] = "failed"
    \/ told[c] = "nothing" /\ c \notin Owed
    \/ c \in lost
    \/ tries[c] = Attempts \/ stalls[c] > MaxStalls
    \/ c \in swallowed

\* A user gets one mail per code, and one more at most for each worker that died with it:
\* a job whose mail may be out is taken again for no other reason, whatever Redis loses.
OneMailPerCode == \A c \in Codes : mailed[c] <= 1 + stalls[c]

\* Mails arrive in the order of the codes, so the last one holds the code that verifies.  An
\* older code arrives after a newer one only if its job was retried, or another request
\* or worker passed it.
NewestArrivesLast ==
  [][\A c, d \in Codes :
       c < d /\ mailed'[c] > mailed[c] /\ mailed[d] > 0
         => tries[c] > 0 \/ stalls[c] > 0 \/ c \in overtaken]_vars

\* Every job ends: no failure puts it back for ever.
JobsEnd == \A c \in Codes : c \in Jobs ~> c \notin Jobs

=============================================================================
