---------------------------- MODULE AccountsProofs ----------------------------
(***************************************************************************)
(* Proofs about Accounts, for any addresses, codes, requests, lifetime and *)
(* horizon: a code gets no more requests through than it has rows, a code  *)
(* that was replaced verifies nobody, and but for resends that ran at the  *)
(* same time an address has one live code, which is not refused.           *)
(***************************************************************************)
EXTENDS Accounts, TLAPS, FiniteSetTheorems

\* A row belongs to an account; a code has a second row only beside a first; a request is
\* made for an account, and the rows it has found are of its address.
Owned ==
  /\ \A id \in RowIds :
       row[id] = NoRow \/ (row[id].email \in Emails /\ account[row[id].email] # "none")
  /\ \A c \in Codes : row[<<c, 2>>] # NoRow => ~Fresh(c)
  /\ \A h \in Handlers :
       /\ handler[h].pc # "idle"
            => handler[h].email \in Emails /\ account[handler[h].email] # "none"
       /\ \A id \in handler[h].rows :
            /\ handler[h].pc # "idle"
            /\ row[id].email = handler[h].email

UsedRows(c) == {i \in {1, 2} : row[<<c, i>>].isUsed}

\* A success has used a row up, and so has a resend that invalidated it.
Marked ==
  /\ \A c \in Codes : successes[c] <= Cardinality(UsedRows(c))
  /\ \A id \in superseded : row[id].isUsed

\* A resend that is alone at work for its address is about to invalidate all its live rows.
Alone ==
  \A h \in Handlers :
    handler[h].pc = "resend" /\ handler[h].email \notin overlapped
      => /\ Live(handler[h].email, now) \subseteq handler[h].rows
         /\ \A g \in Handlers :
              handler[g].pc = "resend" /\ handler[g].email = handler[h].email => g = h

AccountInv ==
  /\ TypeOK /\ Owned /\ Marked /\ Alone
  /\ OneLiveCode /\ SupersededNeverVerifies /\ LiveCodeNotRefused

-----------------------------------------------------------------------------
(* What a step does to the rows. *)

\* The rows of S are marked as used, and those of N are inserted for address e.
Writes(S, N, e, t) ==
  /\ row' = [id \in RowIds |->
               IF id \in S THEN [row[id] EXCEPT !.isUsed = TRUE]
               ELSE IF id \in N THEN NewRow(e, t) ELSE row[id]]
  /\ S \subseteq RowIds /\ N \subseteq RowIds
  /\ \A id \in S : row[id] # NoRow
  /\ \A id \in N : row[id] = NoRow
  /\ N # {} => e \in Emails /\ account'[e] # "none"
  /\ now' >= now

Rows == [email : Emails \cup {None}, expiresAt : Nat, isUsed : BOOLEAN]

\* Rows are neither removed, nor moved to another address, nor made valid again.
LEMMA WriteEffect ==
  ASSUME TypeOK, Owned, NEW S, NEW N, NEW e, NEW t \in Nat, Writes(S, N, e, t)
  PROVE  /\ row' \in [RowIds -> Rows]
         /\ \A id \in RowIds :
              /\ row[id].isUsed => row'[id].isUsed
              /\ id \in S => row'[id].isUsed
              /\ row[id] # NoRow => row'[id] # NoRow /\ row'[id].email = row[id].email
              /\ id \in N => row'[id] # NoRow /\ row'[id].email = e
              /\ id \notin N => row'[id].email = row[id].email
              /\ id \notin N /\ row[id] = NoRow => row'[id] = NoRow
<1>1. row \in [RowIds -> Rows]
  BY DEF TypeOK, Rows
<1>2. \A id \in RowIds : row[id] # NoRow => row[id].email # None
  BY OtpAssumption DEF Owned
<1>3. ASSUME NEW id \in RowIds
      PROVE  /\ row'[id] \in Rows
             /\ row[id].isUsed => row'[id].isUsed
             /\ id \in S => row'[id].isUsed
             /\ row[id] # NoRow => row'[id] # NoRow /\ row'[id].email = row[id].email
             /\ id \in N => row'[id] # NoRow /\ row'[id].email = e
             /\ id \notin N => row'[id].email = row[id].email
             /\ id \notin N /\ row[id] = NoRow => row'[id] = NoRow
  <2>1. CASE id \in S
    <3>1. row'[id] = [row[id] EXCEPT !.isUsed = TRUE] /\ row[id] # NoRow /\ id \notin N
      BY <2>1 DEF Writes
    <3> HIDE DEF Writes
    <3>2. row'[id] \in Rows /\ row'[id].email = row[id].email /\ row'[id].isUsed
      BY <1>1, <3>1 DEF Rows
    <3> QED
      BY <1>2, <2>1, <3>1, <3>2 DEF NoRow
  <2>2. CASE id \notin S /\ id \in N
    <3>1. row'[id] = NewRow(e, t) /\ row[id] = NoRow /\ e \in Emails
      BY <2>2 DEF Writes
    <3>2. NewRow(e, t) \in Rows /\ NewRow(e, t).email = e /\ e # None
      BY <3>1, OtpAssumption DEF NewRow, Rows
    <3> QED
      BY <2>2, <3>1, <3>2 DEF NoRow
  <2>3. CASE id \notin S /\ id \notin N
    <3>1. row'[id] = row[id]
      BY <2>3 DEF Writes
    <3> QED
      BY <1>1, <2>3, <3>1
  <2> QED
    BY <2>1, <2>2, <2>3
<1>4. row' \in [RowIds -> Rows]
  BY <1>3 DEF Writes
<1> QED
  BY <1>3, <1>4

\* Only a row that is inserted can be live without having been.
LEMMA WriteLive ==
  ASSUME TypeOK, Owned, NEW S, NEW N, NEW e, NEW t \in Nat, Writes(S, N, e, t), now' \in Nat,
         NEW f \in Emails, NEW id \in Live(f, now)'
  PROVE  /\ id \in RowIds
         /\ (id \in Live(f, now) /\ id \notin S) \/ (id \in N /\ f = e)
<1>1. /\ id \in RowIds /\ row'[id].email = f /\ ~row'[id].isUsed /\ row'[id].expiresAt > now'
      /\ now \in Nat
  BY DEF Live, TypeOK
<1>2. id \notin S
  BY <1>1, WriteEffect
<1>3. CASE id \in N
  BY <1>1, <1>3, WriteEffect
<1>4. CASE id \notin N
  <2>1. row'[id] = row[id] /\ row[id].expiresAt \in Nat
    BY <1>1, <1>2, <1>4 DEF Writes, TypeOK
  <2> QED
    BY <1>1, <1>2, <2>1 DEF Live, Writes
<1> QED
  BY <1>1, <1>2, <1>3, <1>4

\* Row numbers: how many a code has used up.
LEMMA UsedUp ==
  ASSUME NEW A \in SUBSET {1, 2}, NEW B \in SUBSET {1, 2}, A \subseteq B
  PROVE  /\ Cardinality(A) \in Nat /\ Cardinality(B) \in Nat
         /\ Cardinality(A) <= Cardinality(B)
         /\ \A i \in B \ A : Cardinality(A) + 1 <= Cardinality(B)
<1>1. IsFiniteSet({1, 2})
  <2>1. IsFiniteSet({}) /\ IsFiniteSet({} \cup {1}) /\ IsFiniteSet(({} \cup {1}) \cup {2})
    BY FS_EmptySet, FS_AddElement
  <2>2. ({} \cup {1}) \cup {2} = {1, 2}
    OBVIOUS
  <2> QED
    BY <2>1, <2>2
<1>2. IsFiniteSet(A) /\ IsFiniteSet(B)
  BY <1>1, FS_Subset
<1>3. ASSUME NEW i \in B \ A
      PROVE  Cardinality(A) + 1 <= Cardinality(B)
  <2>1. Cardinality(A \cup {i}) = Cardinality(A) + 1
    BY <1>2, <1>3, FS_AddElement
  <2>2. A \cup {i} \subseteq B
    BY <1>3
  <2>3. Cardinality(A \cup {i}) <= Cardinality(B)
    BY <1>2, <2>2, FS_Subset
  <2> QED
    BY <2>1, <2>3
<1>4. Cardinality(A) <= Cardinality(B)
  BY <1>2, FS_Subset
<1> QED
  BY <1>2, <1>3, <1>4, FS_CardinalityType

\* Used rows stay used, so what is counted against them stays covered.
LEMMA MarkedKept ==
  ASSUME TypeOK, Owned, Marked, NEW S, NEW N, NEW e, NEW t \in Nat, Writes(S, N, e, t),
         successes' = successes, superseded' \subseteq superseded \cup S,
         superseded' \subseteq RowIds
  PROVE  Marked'
<1>1. \A id \in RowIds : /\ row[id].isUsed => row'[id].isUsed
                         /\ id \in S => row'[id].isUsed
  BY WriteEffect
<1>2. ASSUME NEW c \in Codes
      PROVE  successes'[c] <= Cardinality(UsedRows(c)')
  <2>1. UsedRows(c) \subseteq UsedRows(c)' /\ UsedRows(c)' \subseteq {1, 2}
        /\ UsedRows(c) \subseteq {1, 2}
    BY <1>1 DEF UsedRows, RowIds
  <2>2. /\ Cardinality(UsedRows(c)) <= Cardinality(UsedRows(c)')
        /\ Cardinality(UsedRows(c)) \in Nat /\ Cardinality(UsedRows(c)') \in Nat
    BY <2>1, UsedUp
  <2>3. successes[c] <= Cardinality(UsedRows(c)) /\ successes[c] \in Nat
    BY DEF Marked, TypeOK
  <2> QED
    BY <2>2, <2>3
<1> QED
  BY <1>1, <1>2 DEF Marked

-----------------------------------------------------------------------------
(* The actions. *)

\* A step that leaves the tables, the history and all but one request alone.
Waits ==
  /\ UNCHANGED <<account, row, superseded, successes>>
  /\ now' \in Nat /\ now' >= now
  /\ overlapped \subseteq overlapped'

\* Nothing becomes live or is forgotten while the tables stay as they are.
LEMMA WaitKeeps ==
  ASSUME AccountInv, Waits
  PROVE  /\ Marked' /\ OneLiveCode'
         /\ \A e : Live(e, now)' \subseteq Live(e, now)
<1>1. \A e : Live(e, now)' \subseteq Live(e, now)
  BY DEF AccountInv, TypeOK, Waits, Live
<1>2. Marked'
  BY DEF AccountInv, Marked, UsedRows, Waits
<1>3. OneLiveCode'
  BY <1>1 DEF AccountInv, OneLiveCode, Waits
<1> QED
  BY <1>1, <1>2, <1>3

\* A request that is done, or had nothing to do, holds nothing any more.
LEMMA LeaveKeeps ==
  ASSUME AccountInv, Waits, overlapped' = overlapped,
         handler' \in [Handlers -> [pc : {"idle", "mark", "resend"}, email : Emails \cup {None},
                                    rows : SUBSET RowIds, asked : Nat]],
         \A h \in Handlers : handler'[h] = handler[h] \/ handler'[h] = Idle
  PROVE  Owned' /\ Alone'
<1>1. Owned'
  BY DEF AccountInv, Owned, Waits, Idle, Fresh
<1>2. Alone'
  <2> SUFFICES ASSUME NEW h \in Handlers, handler'[h].pc = "resend",
                      handler'[h].email \notin overlapped'
               PROVE  /\ Live(handler[h].email, now)' \subseteq handler'[h].rows
                      /\ \A g \in Handlers :
                           handler'[g].pc = "resend" /\ handler'[g].email = handler'[h].email
                             => g = h
    BY DEF Alone, Idle
  <2>1. handler'[h] = handler[h]
    BY DEF Idle
  <2>2. /\ Live(handler[h].email, now) \subseteq handler[h].rows
        /\ \A g \in Handlers :
             handler[g].pc = "resend" /\ handler[g].email = handler[h].email => g = h
    BY <2>1 DEF AccountInv, Alone
  <2>3. \A g \in Handlers : handler'[g].pc = "resend" => handler'[g] = handler[g]
    BY DEF Idle
  <2> QED
    BY <2>1, <2>2, <2>3, WaitKeeps
<1> QED
  BY <1>1, <1>2


HandlerRows == [pc : {"idle", "mark", "resend"}, email : Emails \cup {None},
                rows : SUBSET RowIds, asked : Nat]

\* A request is entered for an account, with some of the rows of its address.
LEMMA EnterKeeps ==
  ASSUME AccountInv, Waits, NEW h \in Handlers, NEW pc \in {"mark", "resend"}, NEW e \in Emails,
         NEW ids, ids \subseteq Live(e, now), account[e] # "none", handler[h].pc = "idle",
         Enter(h, pc, e, ids)
  PROVE  /\ handler' \in [Handlers -> HandlerRows]
         /\ \A g \in Handlers : g # h => handler'[g] = handler[g]
         /\ handler'[h].pc = pc /\ handler'[h].email = e /\ handler'[h].rows = ids
         /\ Owned'
<1>1. /\ \A g \in Handlers : g # h => handler'[g] = handler[g]
      /\ handler'[h] = [pc |-> pc, email |-> e, rows |-> ids, asked |-> now]
  BY DEF Enter, AccountInv, TypeOK
<1>2. handler' \in [Handlers -> HandlerRows]
  <2>1. [pc |-> pc, email |-> e, rows |-> ids, asked |-> now] \in HandlerRows
    BY DEF HandlerRows, Live, AccountInv, TypeOK
  <2> QED
    BY <2>1 DEF Enter, AccountInv, TypeOK, HandlerRows
<1>3. Owned'
  <2>1. \A id \in RowIds : row[id] = NoRow
          \/ (row[id].email \in Emails /\ account[row[id].email] # "none")
    BY DEF AccountInv, Owned
  <2>2. \A c \in Codes : row[<<c, 2>>] # NoRow => ~Fresh(c)
    BY DEF AccountInv, Owned
  <2>3. ASSUME NEW g \in Handlers
        PROVE  /\ handler'[g].pc # "idle"
                    => handler'[g].email \in Emails /\ account[handler'[g].email] # "none"
               /\ \A id \in handler'[g].rows : /\ handler'[g].pc # "idle"
                                               /\ row[id].email = handler'[g].email
    <3>1. CASE g = h
      BY <1>1, <3>1 DEF Live
    <3>2. CASE g # h
      BY <1>1, <3>2 DEF AccountInv, Owned
    <3> QED
      BY <3>1, <3>2
  <2>4. row' = row /\ account' = account
    BY DEF Waits
  <2> QED
    BY <2>1, <2>2, <2>3, <2>4 DEF Owned, Fresh
<1> QED
  BY <1>1, <1>2, <1>3

\* verifyAccount finds a live row, with the right code or with another one.
LEMMA VerifyLookupStep ==
  ASSUME AccountInv, NEW h \in Handlers, NEW e \in Emails, NEW c \in Codes, VerifyLookup(h, e, c)
  PROVE  AccountInv'
<1>1. Waits /\ overlapped' = overlapped /\ superseded' = superseded /\ now' = now
  BY DEF VerifyLookup, Waits, history, AccountInv, TypeOK
<1>2. Marked' /\ OneLiveCode'
  BY <1>1, WaitKeeps
<1>3. ASSUME NEW kind \in {"expired", "mismatch"}, Answer(kind, e, c, {}), handler' = handler,
             kind = "mismatch" => \E id \in Live(e, now) : id[1] # c
      PROVE  AccountInv'
  <2>1. reply' = [kind |-> kind, email |-> e, code |-> c, rows |-> {}]
    BY <1>3 DEF Answer
  <2>2. TypeOK'
    BY <1>1, <1>3, <2>1 DEF Waits, AccountInv, TypeOK
  <2>3. Owned' /\ Alone'
    BY <1>1, <1>3, LeaveKeeps DEF AccountInv, TypeOK
  <2>4. SupersededNeverVerifies'
    BY <1>3, <2>1 DEF SupersededNeverVerifies
  <2>5. LiveCodeNotRefused'
    <3> SUFFICES ASSUME reply'.kind = "mismatch",
                        NEW id \in Live(reply.email, now)', id[1] = reply'.code
                 PROVE  reply'.email \in overlapped'
      BY DEF LiveCodeNotRefused
    <3>1. id \in Live(e, now) /\ id[1] = c /\ kind = "mismatch"
      BY <1>1, <2>1 DEF Live, Waits
    <3>2. e \in overlapped
      BY <1>3, <3>1 DEF AccountInv, OneLiveCode
    <3> QED
      BY <1>1, <2>1, <3>2
  <2> QED
    BY <1>2, <2>2, <2>3, <2>4, <2>5 DEF AccountInv
<1>4. ASSUME NEW id \in Live(e, now), Enter(h, "mark", e, {id}), reply' = NoReply
      PROVE  AccountInv'
  <2>1. account[e] # "none" /\ handler[h].pc = "idle" /\ {id} \subseteq Live(e, now)
    BY DEF VerifyLookup
  <2>2. /\ handler' \in [Handlers -> HandlerRows] /\ Owned'
        /\ \A g \in Handlers : g # h => handler'[g] = handler[g]
        /\ handler'[h].pc = "mark"
    BY <1>1, <1>4, <2>1, EnterKeeps
  <2>3. TypeOK'
    BY <1>1, <1>4, <2>2 DEF Waits, AccountInv, TypeOK, HandlerRows, NoReply
  <2>4. Alone'
    <3> SUFFICES ASSUME NEW g \in Handlers, handler'[g].pc = "resend",
                        handler'[g].email \notin overlapped'
                 PROVE  /\ Live(handler[g].email, now)' \subseteq handler'[g].rows
                        /\ \A k \in Handlers :
                             handler'[k].pc = "resend" /\ handler'[k].email = handler'[g].email
                               => k = g
      BY DEF Alone
    <3>1. /\ handler'[g] = handler[g]
          /\ \A k \in Handlers : handler'[k].pc = "resend" => handler'[k] = handler[k]
      BY <2>2
    <3> QED
      BY <1>1, <3>1, WaitKeeps DEF AccountInv, Alone
  <2>5. SupersededNeverVerifies' /\ LiveCodeNotRefused'
    BY <1>4 DEF SupersededNeverVerifies, LiveCodeNotRefused, NoReply
  <2> QED
    BY <1>2, <2>2, <2>3, <2>4, <2>5 DEF AccountInv
<1>5. CASE Live(e, now) = {} /\ Answer("expired", e, c, {}) /\ UNCHANGED handler
  BY <1>3, <1>5
<1>6. CASE \E id \in Live(e, now) :
             IF id[1] = c
             THEN Enter(h, "mark", e, {id}) /\ reply' = NoReply
             ELSE Answer("mismatch", e, c, {}) /\ UNCHANGED handler
  <2> PICK id \in Live(e, now) : IF id[1] = c
                                 THEN Enter(h, "mark", e, {id}) /\ reply' = NoReply
                                 ELSE Answer("mismatch", e, c, {}) /\ UNCHANGED handler
    BY <1>6
  <2>1. CASE id[1] = c
    BY <1>4, <2>1
  <2>2. CASE id[1] # c
    BY <1>3, <2>2
  <2> QED
    BY <2>1, <2>2
<1> QED
  BY <1>5, <1>6 DEF VerifyLookup

\* A resend finds the rows that are live; it is alone, or its address counts as overlapped.
LEMMA ResendBeginStep ==
  ASSUME AccountInv, NEW h \in Handlers, NEW e \in Emails, ResendBegin(h, e)
  PROVE  AccountInv'
<1>1. /\ Waits /\ superseded' = superseded /\ reply' = NoReply /\ now' = now
      /\ account[e] # "none" /\ handler[h].pc = "idle" /\ Live(e, now) \subseteq Live(e, now)
      /\ Enter(h, "resend", e, Live(e, now)) /\ overlapped' \in {overlapped, overlapped \cup {e}}
      /\ (\E g \in Handlers : handler[g].pc = "resend" /\ handler[g].email = e)
           => e \in overlapped'
  BY DEF ResendBegin, Waits, AccountInv, TypeOK
<1>2. Marked' /\ OneLiveCode'
  BY <1>1, WaitKeeps
<1>3. /\ handler' \in [Handlers -> HandlerRows] /\ Owned'
      /\ \A g \in Handlers : g # h => handler'[g] = handler[g]
      /\ handler'[h].pc = "resend" /\ handler'[h].email = e /\ handler'[h].rows = Live(e, now)
  BY <1>1, EnterKeeps
<1>4. TypeOK'
  BY <1>1, <1>3 DEF Waits, AccountInv, TypeOK, HandlerRows, NoReply
<1>5. Alone'
  <2> SUFFICES ASSUME NEW g \in Handlers, handler'[g].pc = "resend",
                      handler'[g].email \notin overlapped'
               PROVE  /\ Live(handler[g].email, now)' \subseteq handler'[g].rows
                      /\ \A k \in Handlers :
                           handler'[k].pc = "resend" /\ handler'[k].email = handler'[g].email
                             => k = g
    BY DEF Alone
  <2>1. CASE g = h
    <3>1. \A k \in Handlers : handler'[k].pc = "resend" /\ handler'[k].email = e => k = h
      BY <1>1, <1>3, <2>1
    <3>2. Live(handler[g].email, now)' \subseteq Live(e, now)
      BY <1>1, <1>3, <2>1, WaitKeeps
    <3> QED
      BY <1>3, <2>1, <3>1, <3>2
  <2>2. CASE g # h
    <3>1. handler'[g] = handler[g] /\ handler[g].email \notin overlapped
      BY <1>1, <1>3, <2>2
    <3>2. handler[g].email # e
      BY <1>1, <3>1
    <3>3. \A k \in Handlers :
            handler'[k].pc = "resend" /\ handler'[k].email = handler'[g].email => k = g
      BY <1>3, <3>1, <3>2 DEF AccountInv, Alone
    <3>4. Live(handler[g].email, now)' \subseteq handler'[g].rows
      BY <1>1, <3>1, WaitKeeps DEF AccountInv, Alone
    <3> QED
      BY <3>3, <3>4
  <2> QED
    BY <2>1, <2>2
<1>6. SupersededNeverVerifies' /\ LiveCodeNotRefused'
  BY <1>1 DEF SupersededNeverVerifies, LiveCodeNotRefused, NoReply
<1> QED
  BY <1>2, <1>3, <1>4, <1>5, <1>6 DEF AccountInv


\* Rows are written for e while no other resend for it is at work alone, and the new ones are
\* of one code that comes when no row of e is left live.
LEMMA WriteKeeps ==
  ASSUME AccountInv, NEW S, NEW N, NEW e, NEW t \in Nat, Writes(S, N, e, t),
         \A f \in Emails : account[f] # "none" => account'[f] # "none",
         \A c \in Codes : <<c, 2>> \in N => <<c, 1>> \in N,
         \A h \in Handlers : handler'[h] = handler[h] \/ handler'[h] = Idle,
         \A x, y \in N : x[1] = y[1],
         N # {} /\ e \notin overlapped
           => /\ Live(e, now) \subseteq S
              /\ \A h \in Handlers : ~(handler'[h].pc = "resend" /\ handler'[h].email = e),
         UNCHANGED <<now, overlapped>>
  PROVE  Owned' /\ Alone' /\ OneLiveCode'
<1>1. TypeOK /\ Owned /\ now' \in Nat
  BY DEF AccountInv, TypeOK
<1>2. row' \in [RowIds -> Rows]
      /\ \A id \in RowIds :
           /\ row[id] # NoRow => row'[id] # NoRow /\ row'[id].email = row[id].email
           /\ id \in N => row'[id] # NoRow /\ row'[id].email = e
           /\ id \notin N => row'[id].email = row[id].email
           /\ id \notin N /\ row[id] = NoRow => row'[id] = NoRow
  BY <1>1, WriteEffect
<1>3. Owned'
  <2>1. ASSUME NEW id \in RowIds
        PROVE  row'[id] = NoRow
                 \/ (row'[id].email \in Emails /\ account'[row'[id].email] # "none")
    BY <1>1, <1>2 DEF Owned, Writes
  <2>2. ASSUME NEW c \in Codes, row'[<<c, 2>>] # NoRow
        PROVE  row'[<<c, 1>>] # NoRow
    <3>1. <<c, 1>> \in RowIds /\ <<c, 2>> \in RowIds
      BY DEF RowIds
    <3> QED
      BY <1>1, <1>2, <2>2, <3>1 DEF Owned, Fresh
  <2>3. ASSUME NEW h \in Handlers
        PROVE  /\ handler'[h].pc # "idle"
                    => handler'[h].email \in Emails /\ account'[handler'[h].email] # "none"
               /\ \A id \in handler'[h].rows : /\ handler'[h].pc # "idle"
                                               /\ row'[id].email = handler'[h].email
    <3>1. CASE handler'[h] = Idle
      BY <3>1 DEF Idle
    <3>2. CASE handler'[h] = handler[h]
      <4>1. ASSUME NEW id \in handler[h].rows
            PROVE  row[id].email \in Emails /\ row[id] # NoRow /\ id \in RowIds
        BY <1>1, OtpAssumption DEF Owned, TypeOK, NoRow
      <4> QED
        BY <1>1, <1>2, <3>2, <4>1 DEF Owned
    <3> QED
      BY <3>1, <3>2
  <2> QED
    BY <2>1, <2>2, <2>3 DEF Owned, Fresh
<1>4. ASSUME NEW f \in Emails, NEW id \in Live(f, now)'
      PROVE  /\ id \in RowIds
             /\ (id \in Live(f, now) /\ id \notin S) \/ (id \in N /\ f = e)
  BY <1>1, <1>4, WriteLive
<1>5. Alone'
  <2> SUFFICES ASSUME NEW h \in Handlers, handler'[h].pc = "resend",
                      handler'[h].email \notin overlapped'
               PROVE  /\ \A id \in Live(handler[h].email, now)' : id \in handler'[h].rows
                      /\ \A g \in Handlers :
                           handler'[g].pc = "resend" /\ handler'[g].email = handler'[h].email
                             => g = h
    BY DEF Alone
  <2> DEFINE f == handler[h].email
  <2>1. /\ handler'[h] = handler[h] /\ f \in Emails /\ f \notin overlapped
        /\ \A g \in Handlers : handler'[g].pc = "resend" => handler'[g] = handler[g]
    BY <1>1 DEF Idle, Owned
  <2>2. /\ Live(f, now) \subseteq handler[h].rows
        /\ \A g \in Handlers : handler[g].pc = "resend" /\ handler[g].email = f => g = h
    BY <2>1 DEF AccountInv, Alone
  <2>3. ASSUME NEW id \in Live(f, now)'
        PROVE  id \in handler[h].rows
    BY <1>4, <2>1, <2>2, <2>3
  <2> QED
    BY <2>1, <2>2, <2>3
<1>6. OneLiveCode'
  <2> SUFFICES ASSUME NEW f \in Emails, f \notin overlapped,
                      NEW x \in Live(f, now)', NEW y \in Live(f, now)'
               PROVE  x[1] = y[1]
    BY DEF OneLiveCode
  <2>1. /\ (x \in Live(f, now) /\ x \notin S) \/ (x \in N /\ f = e)
        /\ (y \in Live(f, now) /\ y \notin S) \/ (y \in N /\ f = e)
    BY <1>4
  <2>2. x \in Live(f, now) /\ y \in Live(f, now) => x[1] = y[1]
    BY DEF AccountInv, OneLiveCode
  <2> QED
    BY <2>1, <2>2
<1> QED
  BY <1>3, <1>5, <1>6


\* A new account has no other code, and no resend is at work for it.
LEMMA RegisterStep ==
  ASSUME AccountInv, NEW e \in Emails, NEW c \in Codes, registerUser(e, c)
  PROVE  AccountInv'
<1> DEFINE N == {<<c, 1>>}
<1>1. TypeOK /\ Owned /\ now \in Nat
  BY DEF AccountInv, TypeOK
<1>2. /\ UNCHANGED <<now, handler, superseded, successes, overlapped>> /\ reply' = NoReply
      /\ account' = [account EXCEPT ![e] = "registered"] /\ account[e] = "none"
      /\ row[<<c, 1>>] = NoRow
      /\ row' = [row EXCEPT ![<<c, 1>>] = NewRow(e, now)]
  BY DEF registerUser, Fresh, history
<1>3. Writes({}, N, e, now)
  <2>1. row \in [RowIds -> Rows] /\ <<c, 1>> \in RowIds
    BY <1>1 DEF TypeOK, Rows, RowIds
  <2>2. row' = [id \in RowIds |-> IF id \in {} THEN [row[id] EXCEPT !.isUsed = TRUE]
                                  ELSE IF id \in N THEN NewRow(e, now) ELSE row[id]]
    BY <1>2, <2>1
  <2>3. account'[e] # "none" /\ now' >= now
    BY <1>1, <1>2 DEF TypeOK
  <2>4. {} \subseteq RowIds /\ N \subseteq RowIds /\ \A id \in N : row[id] = NoRow
    BY <1>2, <2>1
  <2> QED
    BY <2>2, <2>3, <2>4, Zenon DEF Writes
<1>4. TypeOK'
  <2>1. row' \in [RowIds -> Rows]
    BY <1>1, <1>3, WriteEffect
  <2> QED
    BY <1>1, <1>2, <2>1 DEF TypeOK, Rows, NoReply
<1>5. Marked'
  BY <1>1, <1>2, <1>3, MarkedKept DEF AccountInv, TypeOK
<1>6. Owned' /\ Alone' /\ OneLiveCode'
  <2>1. Live(e, now) = {}
    BY <1>1, <1>2, OtpAssumption DEF Owned, Live, NoRow
  <2>2. \A h \in Handlers : ~(handler'[h].pc = "resend" /\ handler'[h].email = e)
    BY <1>1, <1>2 DEF Owned
  <2>3. \A f \in Emails : account[f] # "none" => account'[f] # "none"
    BY <1>1, <1>2 DEF TypeOK
  <2>4. \A d \in Codes : <<d, 2>> \in N => <<d, 1>> \in N
    OBVIOUS
  <2> HIDE DEF N
  <2>5. \A x, y \in N : x[1] = y[1]
    BY DEF N
  <2> QED
    BY <1>1, <1>2, <1>3, <2>1, <2>2, <2>3, <2>4, <2>5, WriteKeeps
<1>7. SupersededNeverVerifies' /\ LiveCodeNotRefused'
  BY <1>2 DEF SupersededNeverVerifies, LiveCodeNotRefused, NoReply
<1> QED
  BY <1>4, <1>5, <1>6, <1>7 DEF AccountInv

\* The row that a code gets through with was unused, and is used now.
LEMMA VerifyMarkStep ==
  ASSUME AccountInv, NEW h \in Handlers, VerifyMark(h)
  PROVE  AccountInv'
<1> DEFINE e == handler[h].email
<1> PICK id \in handler[h].rows \cap Live(e, handler[h].asked) :
      /\ row' = [row EXCEPT ![id].isUsed = TRUE]
      /\ account' = [account EXCEPT ![e] = "verified"]
      /\ successes' = [successes EXCEPT ![id[1]] = @ + 1]
      /\ Answer("verified", e, id[1], {id})
  BY DEF VerifyMark
<1>1. TypeOK /\ Owned /\ Marked /\ now \in Nat
  BY DEF AccountInv, TypeOK
<1>2. /\ UNCHANGED <<now, superseded, overlapped>>
      /\ handler' = [handler EXCEPT ![h] = Idle] /\ handler[h].pc = "mark"
  BY DEF VerifyMark, Leave
<1>3. /\ id \in RowIds /\ ~row[id].isUsed /\ row[id].email = e
      /\ e \in Emails /\ row[id] # NoRow
  <2>1. /\ id \in RowIds /\ ~row[id].isUsed /\ row[id].email = e /\ e \in Emails
    BY <1>1, <1>2 DEF Live, Owned
  <2> QED
    BY <2>1, OtpAssumption DEF NoRow
<1>4. Writes({id}, {}, e, now)
  <2>1. row' = [x \in RowIds |-> IF x \in {id} THEN [row[x] EXCEPT !.isUsed = TRUE]
                                 ELSE IF x \in {} THEN NewRow(e, now) ELSE row[x]]
    BY <1>1 DEF TypeOK
  <2>2. now' >= now /\ {id} \subseteq RowIds /\ {} \subseteq RowIds
        /\ \A x \in {id} : row[x] # NoRow
    BY <1>1, <1>2, <1>3
  <2> QED
    BY <2>1, <2>2, Zenon DEF Writes
<1>5. handler' \in [Handlers -> HandlerRows]
      /\ \A g \in Handlers : handler'[g] = handler[g] \/ handler'[g] = Idle
  <2>1. Idle \in HandlerRows
    BY DEF Idle, HandlerRows
  <2> QED
    BY <1>1, <1>2, <2>1 DEF TypeOK, HandlerRows
<1>6. TypeOK'
  <2>1. row' \in [RowIds -> Rows]
    BY <1>1, <1>4, WriteEffect
  <2>2. id[1] \in Codes
    BY <1>3 DEF RowIds
  <2>3. successes' \in [Codes -> Nat]
    BY <1>1, <2>2 DEF TypeOK
  <2>4. reply' = [kind |-> "verified", email |-> e, code |-> id[1], rows |-> {id}]
    BY DEF Answer
  <2> QED
    BY <1>1, <1>2, <1>3, <1>5, <2>1, <2>2, <2>3, <2>4 DEF TypeOK, Rows, HandlerRows
<1>7. Marked'
  <2>1. \A x \in RowIds : (row[x].isUsed => row'[x].isUsed) /\ row'[id].isUsed
    BY <1>1, <1>3, <1>4, WriteEffect
  <2>2. ASSUME NEW c \in Codes
        PROVE  successes'[c] <= Cardinality(UsedRows(c)')
    <3>1. UsedRows(c) \subseteq UsedRows(c)' /\ UsedRows(c)' \subseteq {1, 2}
          /\ UsedRows(c) \subseteq {1, 2}
      BY <2>1 DEF UsedRows, RowIds
    <3>2. /\ Cardinality(UsedRows(c)) <= Cardinality(UsedRows(c)')
          /\ Cardinality(UsedRows(c)) \in Nat /\ Cardinality(UsedRows(c)') \in Nat
          /\ \A i \in UsedRows(c)' \ UsedRows(c) :
               Cardinality(UsedRows(c)) + 1 <= Cardinality(UsedRows(c)')
      BY <3>1, UsedUp
    <3>3. successes[c] <= Cardinality(UsedRows(c)) /\ successes[c] \in Nat
      BY <1>1 DEF Marked, TypeOK
    <3>4. CASE c = id[1]
      <4>1. id[2] \in UsedRows(c)' \ UsedRows(c)
        BY <1>3, <2>1, <3>4 DEF UsedRows, RowIds
      <4>2. successes'[c] = successes[c] + 1
        BY <1>1, <3>4 DEF TypeOK
      <4> QED
        BY <3>2, <3>3, <4>1, <4>2
    <3>5. CASE c # id[1]
      BY <1>1, <3>2, <3>3, <3>5 DEF TypeOK
    <3> QED
      BY <3>4, <3>5
  <2>3. \A x \in superseded' : row'[x].isUsed
    BY <1>1, <1>2, <2>1 DEF Marked, TypeOK
  <2> QED
    BY <2>2, <2>3 DEF Marked
<1>8. Owned' /\ Alone' /\ OneLiveCode'
  <2>1. \A f \in Emails : account[f] # "none" => account'[f] # "none"
    BY <1>1 DEF TypeOK
  <2> QED
    BY <1>1, <1>2, <1>4, <1>5, <2>1, WriteKeeps
<1>9. SupersededNeverVerifies' /\ LiveCodeNotRefused'
  <2>1. id \notin superseded
    BY <1>1, <1>3 DEF Marked
  <2> QED
    BY <1>2, <2>1 DEF SupersededNeverVerifies, LiveCodeNotRefused, Answer
<1> QED
  BY <1>6, <1>7, <1>8, <1>9 DEF AccountInv

\* A resend that was alone leaves no live row but those of its new code.
LEMMA ResendCommitStep ==
  ASSUME AccountInv, NEW h \in Handlers, NEW c \in Codes, ResendCommit(h, c)
  PROVE  AccountInv'
<1> DEFINE e == handler[h].email
           S == handler[h].rows
           N == {<<c, 1>>, <<c, 2>>}
           t == handler[h].asked
<1>1. TypeOK /\ Owned /\ now \in Nat /\ t \in Nat
  BY DEF AccountInv, TypeOK
<1>2. /\ UNCHANGED <<now, account, successes, overlapped>>
      /\ superseded' = superseded \cup S /\ reply' = NoReply
      /\ handler' = [handler EXCEPT ![h] = Idle] /\ handler[h].pc = "resend"
      /\ row[<<c, 1>>] = NoRow
      /\ row' = [id \in RowIds |->
               IF id \in handler[h].rows THEN [row[id] EXCEPT !.isUsed = TRUE]
               ELSE IF id[1] = c THEN NewRow(e, handler[h].asked) ELSE row[id]]
  BY DEF ResendCommit, Leave, Fresh
<1>3. e \in Emails /\ account[e] # "none" /\ S \subseteq RowIds /\ N \subseteq RowIds
      /\ \A id \in S : row[id].email = e
  BY <1>1, <1>2 DEF Owned, TypeOK, RowIds
<1>4. row[<<c, 2>>] = NoRow
  BY <1>2 DEF AccountInv, Owned, Fresh
<1>5. Writes(S, N, e, t)
  <2>1. \A id \in S : row[id] # NoRow
    BY <1>3, OtpAssumption DEF NoRow
  <2>2. \A id \in RowIds : id[1] = c <=> id \in N
    BY DEF RowIds
  <2>3. row' = [id \in RowIds |-> IF id \in S THEN [row[id] EXCEPT !.isUsed = TRUE]
                                  ELSE IF id \in N THEN NewRow(e, t) ELSE row[id]]
    BY <1>2, <2>2
  <2>4. now' >= now /\ account'[e] # "none" /\ \A id \in N : row[id] = NoRow
    BY <1>1, <1>2, <1>3, <1>4
  <2> HIDE DEF S, N, e, t
  <2> QED
    BY <1>3, <2>1, <2>3, <2>4, Zenon DEF Writes
<1>6. /\ handler' \in [Handlers -> HandlerRows]
      /\ \A g \in Handlers : handler'[g] = handler[g] \/ handler'[g] = Idle
      /\ handler'[h] = Idle
  <2>1. Idle \in HandlerRows
    BY DEF Idle, HandlerRows
  <2> QED
    BY <1>1, <1>2, <2>1 DEF TypeOK, HandlerRows
<1>7. TypeOK'
  <2>1. row' \in [RowIds -> Rows]
    BY <1>1, <1>5, WriteEffect
  <2> QED
    BY <1>1, <1>2, <1>3, <1>6, <2>1 DEF TypeOK, Rows, HandlerRows, NoReply
<1>8. Marked'
  BY <1>1, <1>2, <1>3, <1>5, MarkedKept DEF AccountInv, TypeOK
<1>9. Owned' /\ Alone' /\ OneLiveCode'
  <2>1. e \notin overlapped
          => /\ Live(e, now) \subseteq S
             /\ \A g \in Handlers : ~(handler'[g].pc = "resend" /\ handler'[g].email = e)
    <3> SUFFICES ASSUME e \notin overlapped
                 PROVE  /\ Live(e, now) \subseteq S
                        /\ \A g \in Handlers : ~(handler'[g].pc = "resend" /\ handler'[g].email = e)
      OBVIOUS
    <3>1. /\ Live(e, now) \subseteq S
          /\ \A g \in Handlers : handler[g].pc = "resend" /\ handler[g].email = e => g = h
      BY <1>2 DEF AccountInv, Alone
    <3>2. \A g \in Handlers : handler'[g].pc = "resend" => handler'[g] = handler[g] /\ g # h
      BY <1>6 DEF Idle
    <3> QED
      BY <3>1, <3>2
  <2>2. /\ \A f \in Emails : account[f] # "none" => account'[f] # "none"
        /\ \A d \in Codes : <<d, 2>> \in N => <<d, 1>> \in N
        /\ \A x, y \in N : x[1] = y[1]
    BY <1>2
  <2> HIDE DEF S, N, e, t
  <2> QED
    BY <1>1, <1>2, <1>5, <1>6, <2>1, <2>2, WriteKeeps
<1>10. SupersededNeverVerifies' /\ LiveCodeNotRefused'
  BY <1>2 DEF SupersededNeverVerifies, LiveCodeNotRefused, NoReply
<1> QED
  BY <1>7, <1>8, <1>9, <1>10 DEF AccountInv

\* A request that gives up leaves the tables as they are, and so does time.
LEMMA IdleStep ==
  ASSUME AccountInv, Waits, overlapped' = overlapped, superseded' = superseded,
         handler' = handler \/ \E h \in Handlers : Leave(h),
         \E kind \in {"none", "used"}, e \in Emails \cup {None} :
           reply' = [kind |-> kind, email |-> e, code |-> None, rows |-> {}]
  PROVE  AccountInv'
<1>1. handler' \in [Handlers -> HandlerRows]
      /\ \A h \in Handlers : handler'[h] = handler[h] \/ handler'[h] = Idle
  <2>1. Idle \in HandlerRows /\ handler \in [Handlers -> HandlerRows]
    BY DEF Idle, HandlerRows, AccountInv, TypeOK
  <2> QED
    BY <2>1 DEF Leave
<1>2. TypeOK'
  BY <1>1 DEF Waits, AccountInv, TypeOK, HandlerRows
<1>3. Owned' /\ Alone' /\ Marked' /\ OneLiveCode'
  BY <1>1, LeaveKeeps, WaitKeeps DEF HandlerRows
<1>4. SupersededNeverVerifies' /\ LiveCodeNotRefused'
  BY DEF SupersededNeverVerifies, LiveCodeNotRefused
<1> QED
  BY <1>2, <1>3, <1>4 DEF AccountInv


\* Nobody has an account or a code at first.
LEMMA AccountInit == Init => AccountInv
<1> SUFFICES ASSUME Init PROVE AccountInv
  OBVIOUS
<1>1. NoRow \in Rows /\ Idle \in HandlerRows
  BY DEF NoRow, Rows, Idle, HandlerRows
<1>2. TypeOK
  BY <1>1, OtpAssumption DEF Init, TypeOK, Rows, HandlerRows, NoReply
<1>3. /\ \A id \in RowIds : row[id] = NoRow
      /\ \A h \in Handlers : handler[h] = Idle
  BY DEF Init
<1>4. Owned
  BY <1>3 DEF Owned, Idle, RowIds
<1>5. Marked
  <2>1. ASSUME NEW c \in Codes
        PROVE  successes[c] <= Cardinality(UsedRows(c))
    <3>1. UsedRows(c) \subseteq {1, 2} /\ UsedRows(c) \subseteq UsedRows(c)
      BY DEF UsedRows
    <3>2. Cardinality(UsedRows(c)) \in Nat
      BY <3>1, UsedUp
    <3> QED
      BY <3>2 DEF Init
  <2> QED
    BY <2>1 DEF Marked, Init
<1>6. Alone
  BY <1>3 DEF Alone, Idle
<1>7. OneLiveCode
  BY <1>3, OtpAssumption DEF OneLiveCode, Live, NoRow
<1>8. SupersededNeverVerifies /\ LiveCodeNotRefused
  BY DEF Init, NoReply, SupersededNeverVerifies, LiveCodeNotRefused
<1> QED
  BY <1>2, <1>4, <1>5, <1>6, <1>7, <1>8 DEF AccountInv

\* Every handler keeps the invariant, and so does time.
LEMMA AccountStep == AccountInv /\ [Next]_vars => AccountInv'
<1> SUFFICES ASSUME AccountInv, [Next]_vars
             PROVE  AccountInv'
  OBVIOUS
<1>1. now \in Nat /\ \A h \in Handlers : handler[h].email \in Emails \cup {None}
  BY DEF AccountInv, TypeOK
<1>2. ASSUME NEW h \in Handlers, VerifyTooLate(h) \/ HandlerFails(h)
      PROVE  AccountInv'
  <2>1. /\ Waits /\ overlapped' = overlapped /\ superseded' = superseded /\ Leave(h)
    BY <1>1, <1>2 DEF VerifyTooLate, HandlerFails, Waits, history
  <2>2. \E kind \in {"none", "used"}, e \in Emails \cup {None} :
          reply' = [kind |-> kind, email |-> e, code |-> None, rows |-> {}]
    BY <1>1, <1>2 DEF VerifyTooLate, HandlerFails, Answer, NoReply
  <2> QED
    BY <2>1, <2>2, IdleStep
<1>3. CASE Tick
  <2>1. /\ Waits /\ overlapped' = overlapped /\ superseded' = superseded /\ handler' = handler
    BY <1>1, <1>3 DEF Tick, Waits, history
  <2>2. \E kind \in {"none", "used"}, e \in Emails \cup {None} :
          reply' = [kind |-> kind, email |-> e, code |-> None, rows |-> {}]
    BY <1>3 DEF Tick, NoReply
  <2> QED
    BY <2>1, <2>2, IdleStep
<1>4. CASE UNCHANGED vars
  BY <1>4 DEF vars, history, AccountInv, TypeOK, Owned, Fresh, Marked, UsedRows, Alone, Live,
              OneLiveCode, SupersededNeverVerifies, LiveCodeNotRefused
<1> QED
  BY <1>2, <1>3, <1>4, RegisterStep, VerifyLookupStep, ResendBeginStep, VerifyMarkStep,
     ResendCommitStep DEF Next

-----------------------------------------------------------------------------
(* Theorems. *)

\* Every variable keeps its type.
THEOREM TypeCorrect == Spec => []TypeOK
<1>1. AccountInv => TypeOK
  BY DEF AccountInv
<1> QED
  BY AccountInit, AccountStep, <1>1, PTL DEF Spec

\* A code gets no more calls of verifyAccount through than it has rows, however many carry it
\* at the same time: each success uses one of them up.
THEOREM CodeUsedUp == Spec => []OneSuccessPerRow
<1>1. AccountInv => OneSuccessPerRow
  <2> SUFFICES ASSUME AccountInv, NEW c \in Codes
               PROVE  successes[c] <= Cardinality({i \in {1, 2} : row[<<c, i>>] # NoRow})
    BY DEF OneSuccessPerRow
  <2> DEFINE R == {i \in {1, 2} : row[<<c, i>>] # NoRow}
  <2>1. UsedRows(c) \subseteq R /\ R \subseteq {1, 2} /\ UsedRows(c) \subseteq {1, 2}
    BY DEF UsedRows, NoRow
  <2> HIDE DEF R
  <2>2. /\ Cardinality(UsedRows(c)) <= Cardinality(R)
        /\ Cardinality(UsedRows(c)) \in Nat /\ Cardinality(R) \in Nat
    BY <2>1, UsedUp
  <2>3. successes[c] <= Cardinality(UsedRows(c)) /\ successes[c] \in Nat
    BY DEF AccountInv, Marked, TypeOK
  <2>4. successes[c] <= Cardinality(R)
    BY <2>2, <2>3
  <2> QED
    BY <2>4 DEF R
<1> QED
  BY AccountInit, AccountStep, <1>1, PTL DEF Spec

\* A code that a resend has invalidated verifies nobody, whatever had been read before.
THEOREM SupersededIsDead == Spec => []SupersededNeverVerifies
<1>1. AccountInv => SupersededNeverVerifies
  BY DEF AccountInv
<1> QED
  BY AccountInit, AccountStep, <1>1, PTL DEF Spec

\* An address whose resends did not run at the same time has one live code at most.
THEOREM LiveCodeUnique == Spec => []OneLiveCode
<1>1. AccountInv => OneLiveCode
  BY DEF AccountInv
<1> QED
  BY AccountInit, AccountStep, <1>1, PTL DEF Spec

\* The live code of such an address is not refused.
THEOREM LiveCodeWorks == Spec => []LiveCodeNotRefused
<1>1. AccountInv => LiveCodeNotRefused
  BY DEF AccountInv
<1> QED
  BY AccountInit, AccountStep, <1>1, PTL DEF Spec

=============================================================================
