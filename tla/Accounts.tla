------------------------------ MODULE Accounts ------------------------------
(***************************************************************************)
(* Accounts and their verification codes: the users and email_verification *)
(* tables, registerUser, verifyAccount and resendEmail of auth.service.    *)
(*                                                                         *)
(* The transaction of resendEmail runs under READ COMMITTED: its           *)
(* updateMany sees the rows that are there when it starts, and others see  *)
(* what the transaction did when it commits.  It is two steps; a           *)
(* verification that is marked between them stands for one that came       *)
(* first, since the row locks make a later one wait and fail.              *)
(* verifyAccount is two steps as well: a query, and later an update of     *)
(* the row it found.                                                       *)
(*                                                                         *)
(* A code is the six digits of one call of generateOtp; two calls are      *)
(* taken to draw different digits.  A row is named by its code and its     *)
(* number among the rows with this code.                                   *)
(***************************************************************************)
EXTENDS Naturals, FiniteSets

CONSTANTS
  Emails,    \* normalised addresses, one account each
  Codes,     \* the codes that generateOtp may draw
  Handlers,  \* concurrent verify-account and resend requests
  OtpLife,   \* OTP_EXPIRY
  MaxTime,   \* bound of the clock
  None

ASSUME OtpAssumption == OtpLife \in Nat \ {0} /\ MaxTime \in Nat /\ None \notin Emails

VARIABLES
  now,
  account,     \* account[e]: "none", "registered", "verified"
  row,         \* row[<<c, i>>]: the i-th email_verification row with code c
  handler,     \* handler[h]: where a request stands
  reply,       \* how the last call of verifyAccount ended
  (* History variables: no action reads them. *)
  superseded,  \* rows that a resend has invalidated
  successes,   \* successes[c]: calls of verifyAccount that code c got through
  overlapped   \* addresses for which two resends have run at the same time

history == <<superseded, successes, overlapped>>
vars == <<now, account, row, handler, reply, history>>

RowIds == Codes \X {1, 2}
NoRow == [email |-> None, expiresAt |-> 0, isUsed |-> FALSE]
Idle == [pc |-> "idle", email |-> None, rows |-> {}, asked |-> 0]
NoReply == [kind |-> "none", email |-> None, code |-> None, rows |-> {}]

Init ==
  /\ now = 0
  /\ account = [e \in Emails |-> "none"]
  /\ row = [id \in RowIds |-> NoRow]
  /\ handler = [h \in Handlers |-> Idle]
  /\ reply = NoReply
  /\ superseded = {}
  /\ successes = [c \in Codes |-> 0]
  /\ overlapped = {}

\* Mutant: the filter isUsed: false is left out of the queries.
LiveOrUsed(e, t) == {id \in RowIds : row[id].email = e /\ row[id].expiresAt > t}

\* The rows of e with isUsed: false and expiresAt: { gt: t }.
Live(e, t) == {id \in RowIds : row[id].email = e /\ ~row[id].isUsed /\ row[id].expiresAt > t}

Fresh(c) == row[<<c, 1>>] = NoRow
\* Mutant: the date of expiry is not set.
NewRowUndated(e, t) == [email |-> e, expiresAt |-> None, isUsed |-> FALSE]

NewRow(e, t) == [email |-> e, expiresAt |-> t + OtpLife, isUsed |-> FALSE]

Enter(h, pc, e, ids) ==
  handler' = [handler EXCEPT ![h] = [pc |-> pc, email |-> e, rows |-> ids, asked |-> now]]
Leave(h) == handler' = [handler EXCEPT ![h] = Idle]
Answer(kind, e, c, ids) ==
  reply' = [kind |-> kind, email |-> e, code |-> c, rows |-> ids]

-----------------------------------------------------------------------------
(* Handlers. *)

\* The transaction of registerUser; the unique e-mail column refuses a second account.
registerUser(e, c) ==
  /\ account[e] = "none"
  /\ Fresh(c)
  /\ account' = [account EXCEPT ![e] = "registered"]
  /\ row' = [row EXCEPT ![<<c, 1>>] = NewRow(e, now)]
  /\ reply' = NoReply
  /\ UNCHANGED <<now, handler, history>>

\* verifyAccount up to its transaction: findFirst, in no particular order, and the
\* comparison of the code with the row that was found.
VerifyLookup(h, e, c) ==
  /\ handler[h].pc = "idle"
  /\ account[e] # "none"
  /\ \/ /\ Live(e, now) = {}
        /\ Answer("expired", e, c, {})
        /\ UNCHANGED handler
     \/ \E id \in Live(e, now) :
          IF id[1] = c
          THEN Enter(h, "mark", e, {id}) /\ reply' = NoReply
          ELSE Answer("mismatch", e, c, {}) /\ UNCHANGED handler
  /\ UNCHANGED <<now, account, row, history>>

\* Mutant: the row is updated by its id alone.
MarkUnchecked(h) ==
  LET e == handler[h].email IN
  /\ handler[h].pc = "mark"
  /\ \E id \in handler[h].rows :
       /\ row' = [row EXCEPT ![id].isUsed = TRUE]
       /\ account' = [account EXCEPT ![e] = "verified"]
       /\ successes' = [successes EXCEPT ![id[1]] = @ + 1]
       /\ Answer("verified", e, id[1], {id})
  /\ Leave(h)
  /\ UNCHANGED <<now, superseded, overlapped>>

\* The transaction of verifyAccount, on a row that is still unused.  "now" is the time at
\* which the request came in.
VerifyMark(h) ==
  LET e == handler[h].email IN
  /\ handler[h].pc = "mark"
  /\ \E id \in handler[h].rows \cap Live(e, handler[h].asked) :
       /\ row' = [row EXCEPT ![id].isUsed = TRUE]
       /\ account' = [account EXCEPT ![e] = "verified"]
       /\ successes' = [successes EXCEPT ![id[1]] = @ + 1]
       /\ Answer("verified", e, id[1], {id})
  /\ Leave(h)
  /\ UNCHANGED <<now, superseded, overlapped>>

\* updateMany matched no row: 401.
VerifyTooLate(h) ==
  LET e == handler[h].email IN
  /\ handler[h].pc = "mark"
  /\ handler[h].rows \cap Live(e, handler[h].asked) = {}
  /\ Answer("used", e, None, {})
  /\ Leave(h)
  /\ UNCHANGED <<now, account, row, history>>

\* Mutant: one of the previous codes is invalidated.
ResendBeginOne(h, e) ==
  /\ handler[h].pc = "idle"
  /\ account[e] # "none"
  /\ \/ Live(e, now) = {} /\ Enter(h, "resend", e, {})
     \/ \E id \in Live(e, now) : Enter(h, "resend", e, {id})
  /\ overlapped' = IF \E g \in Handlers : handler[g].pc = "resend" /\ handler[g].email = e
                   THEN overlapped \cup {e} ELSE overlapped
  /\ reply' = NoReply
  /\ UNCHANGED <<now, account, row, superseded, successes>>

\* resendEmail up to the updateMany of its transaction.
ResendBegin(h, e) ==
  /\ handler[h].pc = "idle"
  /\ account[e] # "none"
  /\ Enter(h, "resend", e, Live(e, now))
  /\ overlapped' = IF \E g \in Handlers : handler[g].pc = "resend" /\ handler[g].email = e
                   THEN overlapped \cup {e} ELSE overlapped
  /\ reply' = NoReply
  /\ UNCHANGED <<now, account, row, superseded, successes>>

\* Mutant: the updateMany matches no row, because it asks for another address.
ResendKeepsOld(h, c) ==
  LET e == handler[h].email IN
  /\ handler[h].pc = "resend"
  /\ Fresh(c)
  /\ row' = [id \in RowIds |-> IF id[1] = c THEN NewRow(e, handler[h].asked) ELSE row[id]]
  /\ superseded' = superseded \cup handler[h].rows
  /\ reply' = NoReply
  /\ Leave(h)
  /\ UNCHANGED <<now, account, successes, overlapped>>

\* The rest of the transaction: the new code is inserted twice, by createOtpRecord and by
\* a create of its own.
ResendCommit(h, c) ==
  LET e == handler[h].email IN
  /\ handler[h].pc = "resend"
  /\ Fresh(c)
  /\ row' = [id \in RowIds |->
               IF id \in handler[h].rows THEN [row[id] EXCEPT !.isUsed = TRUE]
               ELSE IF id[1] = c THEN NewRow(e, handler[h].asked) ELSE row[id]]
  /\ superseded' = superseded \cup handler[h].rows
  /\ reply' = NoReply
  /\ Leave(h)
  /\ UNCHANGED <<now, account, successes, overlapped>>

\* The pending call throws: the transaction is rolled back.
HandlerFails(h) ==
  /\ handler[h].pc # "idle"
  /\ Leave(h)
  /\ reply' = NoReply
  /\ UNCHANGED <<now, account, row, history>>

Tick ==
  /\ now < MaxTime
  /\ now' = now + 1
  /\ reply' = NoReply
  /\ UNCHANGED <<account, row, handler, history>>

Next ==
  \/ \E e \in Emails, c \in Codes : registerUser(e, c)
  \/ \E h \in Handlers, e \in Emails :
       ResendBegin(h, e) \/ \E c \in Codes : VerifyLookup(h, e, c)
  \/ \E h \in Handlers : VerifyMark(h) \/ VerifyTooLate(h) \/ HandlerFails(h)
  \/ \E h \in Handlers, c \in Codes : ResendCommit(h, c)
  \/ Tick

Spec == Init /\ [][Next]_vars

-----------------------------------------------------------------------------
(* Properties. *)

\* What each variable may hold.
TypeOK ==
  /\ now \in Nat
  /\ account \in [Emails -> {"none", "registered", "verified"}]
  /\ row \in [RowIds -> [email : Emails \cup {None}, expiresAt : Nat, isUsed : BOOLEAN]]
  /\ handler \in [Handlers -> [pc : {"idle", "mark", "resend"}, email : Emails \cup {None},
                               rows : SUBSET RowIds, asked : Nat]]
  /\ reply \in [kind : {"none", "expired", "mismatch", "verified", "used"},
                email : Emails \cup {None}, code : Codes \cup {None}, rows : SUBSET RowIds]
  /\ superseded \in SUBSET RowIds
  /\ successes \in [Codes -> Nat]
  /\ overlapped \in SUBSET Emails

\* However many requests carry it at the same time, a code gets no more of them through
\* than it has rows.
OneSuccessPerRow ==
  \A c \in Codes : successes[c] <= Cardinality({i \in {1, 2} : row[<<c, i>>] # NoRow})

\* A code that a resend has invalidated verifies nobody, not even a request that had found
\* its row before.
SupersededNeverVerifies == reply.kind = "verified" => reply.rows \cap superseded = {}

\* An address has one live code, unless two resends for it ran at the same time.
OneLiveCode ==
  \A e \in Emails : e \notin overlapped =>
    \A x, y \in Live(e, now) : x[1] = y[1]

\* Whoever submits the live code of an address is told that it is invalid only if resends
\* that ran at the same time left another one.
LiveCodeNotRefused ==
  reply.kind = "mismatch" /\ (\E id \in Live(reply.email, now) : id[1] = reply.code)
    => reply.email \in overlapped

=============================================================================
