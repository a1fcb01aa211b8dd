---------------------------- MODULE SessionsProofs ----------------------------
(***************************************************************************)
(* Proofs about Sessions, for any users, lifetimes and horizon: however    *)
(* its tokens are presented, a login has one live session at most, ends    *)
(* for good, and is admitted by the guard only soon after it was live.     *)
(***************************************************************************)
EXTENDS Sessions, TLAPS, FiniteSetTheorems

\* A token has a row when it was issued, which was not in the future; its login began with
\* a token that was issued too, and not later.
Lineage ==
  /\ \A u \in Users, t \in Times :
       /\ session[u][t].status = "none" <=> login[u][t] = None
       /\ login[u][t] # None => /\ t <= now /\ login[u][t] <= t
                                /\ session[u][login[u][t]].status # "none"
  /\ \A s \in signedOut : session[s[1]][s[2]].status # "none"

\* Two tokens of a user that were not revoked are of two logins, expired or not: a refresh
\* with a late date may still match an expired one.
OneLive ==
  \A u \in Users, t1, t2 \in Times :
    /\ session[u][t1].status = "open" /\ session[u][t2].status = "open"
    /\ login[u][t1] = login[u][t2]
    => t1 = t2

\* No token of a login that was signed out is left unrevoked.
NoneSignedOut ==
  \A u \in Users, t \in Times :
    session[u][t].status = "open" => <<u, login[u][t]>> \notin signedOut

\* lastLive is the present of a login that is live, and was once that of every token; a
\* token that was not revoked was live until it expired.
Seen ==
  /\ \A u \in Users, l \in Times : lastLive[u][l] <= now
  /\ \A u \in Users, t \in Times :
       /\ login[u][t] # None => t <= lastLive[u][login[u][t]]
       /\ Open(session[u][t], now) => lastLive[u][login[u][t]] = now
       /\ session[u][t].status = "open" => \/ lastLive[u][login[u][t]] = now
                                           \/ session[u][t].expiresAt <= lastLive[u][login[u][t]] + 1

SessionInv == TypeOK /\ Lineage /\ OneLive /\ NoneSignedOut /\ Seen

-----------------------------------------------------------------------------
(* What the shared parts of the handlers do. *)

\* LiveAt looks at each login by itself.
LEMMA LiveAtValue ==
  ASSUME NEW rows, NEW of, NEW at, NEW u \in Users, NEW l \in Times
  PROVE  LiveAt(rows, of, at)[u][l] =
           IF \E t \in Times : of[u][t] = l /\ Open(rows[u][t], at) THEN at ELSE lastLive[u][l]
BY DEF LiveAt, LiveOf

\* lastLive keeps its type.
LEMMA LiveAtTyped ==
  ASSUME TypeOK, NEW rows, NEW of, NEW at \in Times
  PROVE  LiveAt(rows, of, at) \in [Users -> [Times -> Times]]
BY DEF LiveAt, TypeOK

\* The clock shows a second.
LEMMA Seconds ==
  ASSUME TypeOK
  PROVE  /\ now \in Nat /\ now \in Times /\ None \notin Times
         /\ \A t \in Times : t \in Nat
BY LifeAssumption, NoneAssumption DEF TypeOK, Times

\* The login of a token, and when a login was last live.
LEMMA Logins ==
  ASSUME TypeOK, NEW u \in Users, NEW t \in Times
  PROVE  /\ login[u][t] \in Times \cup {None}
         /\ lastLive[u][t] \in Times /\ lastLive[u][t] \in Nat
<1>1. login[u] \in [Times -> Times \cup {None}] /\ lastLive[u] \in [Times -> Times]
  BY DEF TypeOK
<1> QED
  BY <1>1, Seconds

\* Who is answered is known.
LEMMA AnswerTyped ==
  ASSUME NEW kind \in {"signed_in", "rotated", "reused", "signed_out", "served"},
         NEW u \in Users, NEW t \in Times, Answer(kind, u, t)
  PROVE  reply' \in Replies
BY DEF Answer, Replies

\* The token of this second is issued for login l of u, and it will be the only live one.
Issues(u, l) ==
  /\ TokenIsFree(u)
  /\ \A v \in Users, t \in Times :
       IF v = u /\ t = now
       THEN session'[v][t] = NewRow /\ login'[v][t] = l
       ELSE /\ login'[v][t] = login[v][t]
            /\ \/ session'[v][t] = session[v][t]
               \/ session'[v][t].status = "revoked" /\ session[v][t].status # "none"
  /\ l <= now /\ (l = now \/ session[u][l].status # "none")
  /\ <<u, l>> \notin signedOut
  /\ \A t \in Times : t # now /\ login[u][t] = l => session'[u][t].status # "open"
  /\ lastLive' = LiveAt(session', login', now)
  /\ UNCHANGED <<now, signedOut>>

\* loginUser writes a fresh row, whose login is this one.
LEMMA LoginIssues ==
  ASSUME SessionInv, NEW u \in Users, loginUser(u)
  PROVE  Issues(u, now) /\ session' \in [Users -> [Times -> SessionRows]]
                        /\ login' \in [Users -> [Times -> Times \cup {None}]]
<1>1. TypeOK /\ now \in Nat /\ now \in Times /\ \A t \in Times : t \in Nat
  BY Seconds DEF SessionInv
<1>2. NewRow \in SessionRows
  BY <1>1, LifeAssumption DEF NewRow, SessionRows
<1>3. \A v \in Users, t \in Times :
        /\ session'[v][t] = IF v = u /\ t = now THEN NewRow ELSE session[v][t]
        /\ login'[v][t] = IF v = u /\ t = now THEN now ELSE login[v][t]
  BY <1>1 DEF loginUser, TypeOK
<1>4. /\ session' \in [Users -> [Times -> SessionRows]]
      /\ login' \in [Users -> [Times -> Times \cup {None}]]
  BY <1>1, <1>2 DEF loginUser, TypeOK
<1>5. session[u][now].status = "none"
  BY DEF loginUser, TokenIsFree
<1>6. \A t \in Times : login[u][t] # now
  BY <1>1, <1>5, NoneAssumption DEF SessionInv, Lineage
<1>7. <<u, now>> \notin signedOut
  BY <1>5 DEF SessionInv, Lineage
<1> QED
  BY <1>1, <1>3, <1>4, <1>5, <1>6, <1>7 DEF Issues, loginUser, TokenIsFree

\* The row of a token that is revoked.
LEMMA Revoked ==
  ASSUME NEW row \in SessionRows
  PROVE  /\ [row EXCEPT !.status = "revoked"] \in SessionRows
         /\ [row EXCEPT !.status = "revoked"].status = "revoked"
BY DEF SessionRows

\* rotateRefreshToken writes a fresh row, which inherits the login of the one it spends.
LEMMA RotateIssues ==
  ASSUME SessionInv, NEW u \in Users, NEW t \in Times, rotateRefreshToken(u, t)
  PROVE  /\ Issues(u, login[u][t])
         /\ session' \in [Users -> [Times -> SessionRows]]
         /\ login' \in [Users -> [Times -> Times \cup {None}]]
<1> DEFINE old == [session[u][t] EXCEPT !.status = "revoked"]
           l == login[u][t]
<1>1. TypeOK /\ now \in Nat /\ now \in Times /\ \A x \in Times : x \in Nat
  BY Seconds DEF SessionInv
<1>2. NewRow \in SessionRows /\ old \in SessionRows /\ old.status = "revoked"
  BY <1>1, Revoked, LifeAssumption DEF NewRow, SessionRows, TypeOK
<1>3. session[u][t].status = "open" /\ session[u][now].status = "none" /\ t # now
  BY DEF rotateRefreshToken, Matches, TokenIsFree, Open
<1>4. session' = [session EXCEPT ![u] = [[session[u] EXCEPT ![t] = old] EXCEPT ![now] = NewRow]]
  BY <1>1 DEF rotateRefreshToken, TypeOK
<1>5. login' = [login EXCEPT ![u] = [login[u] EXCEPT ![now] = l]]
  BY <1>1 DEF rotateRefreshToken, TypeOK
<1> HIDE DEF old
<1>6. \A v \in Users, x \in Times :
        /\ session'[v][x] = IF v = u /\ x = now THEN NewRow
                            ELSE IF v = u /\ x = t THEN old ELSE session[v][x]
        /\ login'[v][x] = IF v = u /\ x = now THEN l ELSE login[v][x]
  BY <1>1, <1>3, <1>4, <1>5 DEF TypeOK
<1>7. /\ session' \in [Users -> [Times -> SessionRows]]
      /\ login' \in [Users -> [Times -> Times \cup {None}]]
  BY <1>1, <1>2, <1>4, <1>5 DEF TypeOK
<1>8. session[u][t].status # "none" /\ l # None /\ l \in Times
  BY <1>1, <1>3 DEF Open, SessionInv, Lineage, TypeOK
<1>9. l <= now /\ session[u][l].status # "none" /\ <<u, l>> \notin signedOut
  BY <1>1, <1>3, <1>8 DEF SessionInv, Lineage, NoneSignedOut
<1>10. \A x \in Times : x # now /\ login[u][x] = l => session'[u][x].status # "open"
  BY <1>2, <1>3, <1>6 DEF SessionInv, OneLive
<1> QED
  BY <1>2, <1>3, <1>6, <1>7, <1>8, <1>9, <1>10 DEF Issues, rotateRefreshToken, TokenIsFree

\* Issuing a token keeps everything but the types.
LEMMA IssueStep ==
  ASSUME SessionInv, NEW u \in Users, NEW l \in Times, Issues(u, l)
  PROVE  Lineage' /\ OneLive' /\ NoneSignedOut' /\ Seen'
<1>1. TypeOK /\ now \in Nat /\ now \in Times /\ None \notin Times /\ \A x \in Times : x \in Nat
  BY Seconds DEF SessionInv
<1>2. now' = now /\ signedOut' = signedOut
  BY DEF Issues
<1>3. NewRow.status = "open" /\ NewRow.expiresAt = now + RefreshLife /\ Open(NewRow, now)
  BY <1>1, LifeAssumption DEF NewRow, Open
<1>row. \A v \in Users, t \in Times :
          /\ v = u /\ t = now => session'[v][t] = NewRow /\ login'[v][t] = l
          /\ ~(v = u /\ t = now) =>
               /\ login'[v][t] = login[v][t]
               /\ session'[v][t].status = "none" <=> session[v][t].status = "none"
               /\ session'[v][t].status = "open" => session'[v][t] = session[v][t]
  BY DEF Issues
<1>old. session[u][now].status = "none"
  BY DEF Issues, TokenIsFree
<1>4. Lineage'
  <2>1. ASSUME NEW v \in Users, NEW t \in Times
        PROVE  /\ session'[v][t].status = "none" <=> login'[v][t] = None
               /\ login'[v][t] # None => /\ t <= now /\ login'[v][t] <= t
                                         /\ session'[v][login'[v][t]].status # "none"
    <3>1. CASE v = u /\ t = now
      BY <1>1, <1>3, <1>row, <3>1 DEF Issues
    <3>2. CASE ~(v = u /\ t = now)
      <4>1. login'[v][t] = login[v][t] /\ login[v][t] \in Times \cup {None}
        BY <1>1, <1>row, <3>2, Logins
      <4>2. session'[v][t].status = "none" <=> login'[v][t] = None
        BY <1>row, <3>2, <4>1 DEF SessionInv, Lineage
      <4>3. ASSUME login[v][t] # None
            PROVE  /\ t <= now /\ login[v][t] <= t
                   /\ session'[v][login[v][t]].status # "none"
        <5>1. /\ t <= now /\ login[v][t] <= t
              /\ session[v][login[v][t]].status # "none" /\ login[v][t] \in Times
          BY <4>1, <4>3 DEF SessionInv, Lineage
        <5>2. session'[v][login[v][t]].status # "none"
          BY <1>3, <1>row, <5>1
        <5> QED
          BY <5>1, <5>2
      <4> QED
        BY <4>1, <4>2, <4>3
    <3> QED
      BY <3>1, <3>2
  <2>2. ASSUME NEW s \in signedOut
        PROVE  session'[s[1]][s[2]].status # "none"
    <3>1. s[1] \in Users /\ s[2] \in Times /\ session[s[1]][s[2]].status # "none"
      BY <1>1 DEF TypeOK, SessionInv, Lineage
    <3> QED
      BY <1>row, <1>3, <3>1
  <2> QED
    BY <1>2, <2>1, <2>2 DEF Lineage
<1>5. OneLive'
  <2> SUFFICES ASSUME NEW v \in Users, NEW t1 \in Times, NEW t2 \in Times,
                      session'[v][t1].status = "open", session'[v][t2].status = "open",
                      login'[v][t1] = login'[v][t2]
               PROVE  t1 = t2
    BY <1>2 DEF OneLive
  <2>1. CASE v = u /\ (t1 = now \/ t2 = now)
    BY <1>1, <1>row, <2>1 DEF Issues
  <2>2. CASE ~(v = u /\ (t1 = now \/ t2 = now))
    BY <1>row, <2>2 DEF SessionInv, OneLive
  <2> QED
    BY <2>1, <2>2
<1>6. NoneSignedOut'
  BY <1>2, <1>row DEF SessionInv, NoneSignedOut, Issues
<1>7. \A v \in Users, k \in Times :
        lastLive'[v][k] = IF \E t \in Times : login'[v][t] = k /\ Open(session'[v][t], now)
                          THEN now ELSE lastLive[v][k]
  BY LiveAtValue DEF Issues
<1>8. Seen'
  <2>1. ASSUME NEW v \in Users, NEW k \in Times
        PROVE  /\ lastLive'[v][k] <= now
               /\ lastLive[v][k] <= lastLive'[v][k]
    BY <1>1, <1>7, Logins DEF SessionInv, Seen
  <2>2. ASSUME NEW v \in Users, NEW t \in Times
        PROVE  /\ login'[v][t] # None => t <= lastLive'[v][login'[v][t]]
               /\ Open(session'[v][t], now) => lastLive'[v][login'[v][t]] = now
               /\ session'[v][t].status = "open" =>
                    \/ lastLive'[v][login'[v][t]] = now
                    \/ session'[v][t].expiresAt <= lastLive'[v][login'[v][t]] + 1
    <3>1. CASE v = u /\ t = now
      <4>1. login'[u][now] = l /\ session'[u][now] = NewRow
        BY <1>1, <1>row
      <4>2. lastLive'[u][l] = now
        BY <1>1, <1>3, <1>7, <4>1
      <4> QED
        BY <1>1, <3>1, <4>1, <4>2
    <3>2. CASE ~(v = u /\ t = now)
      <4> DEFINE k == login[v][t]
      <4>1. login'[v][t] = k /\ k \in Times \cup {None}
            /\ (session'[v][t].status = "open" => session'[v][t] = session[v][t])
        BY <1>1, <1>row, <3>2, Logins
      <4>2. session'[v][t].status = "open" => k # None
        BY <4>1 DEF SessionInv, Lineage
      <4>3. CASE k \in Times
        <5>1. t \in Nat /\ lastLive[v][k] \in Nat /\ lastLive'[v][k] \in {now, lastLive[v][k]}
          BY <1>1, <1>7, <4>3, Logins
        <5>2. t <= lastLive[v][k] /\ lastLive[v][k] <= lastLive'[v][k]
          BY <1>1, <2>1, <4>1, <4>3 DEF SessionInv, Seen
        <5>3. t <= lastLive'[v][k]
          BY <1>1, <5>1, <5>2
        <5>4. Open(session'[v][t], now) => lastLive'[v][k] = now
          BY <1>7, <4>1, <4>3
        <5>5. session'[v][t].status = "open" => \/ lastLive'[v][k] = now
                                                \/ session'[v][t].expiresAt <= lastLive'[v][k] + 1
          <6> SUFFICES ASSUME session'[v][t].status = "open", lastLive'[v][k] # now
                       PROVE  session'[v][t].expiresAt <= lastLive'[v][k] + 1
            OBVIOUS
          <6>1. lastLive'[v][k] = lastLive[v][k]
            BY <5>1
          <6>2. session'[v][t] = session[v][t]
            BY <4>1
          <6> QED
            BY <6>1, <6>2 DEF SessionInv, Seen
        <5> QED
          BY <4>1, <5>3, <5>4, <5>5
      <4> QED
        BY <4>1, <4>2, <4>3 DEF Open
    <3> QED
      BY <3>1, <3>2
  <2> QED
    BY <1>2, <2>1, <2>2 DEF Seen
<1> QED
  BY <1>4, <1>5, <1>6, <1>8

-----------------------------------------------------------------------------
(* The other steps. *)

\* A second passes: live tokens may expire, and none becomes live.
LEMMA TickStep ==
  ASSUME SessionInv, Tick
  PROVE  SessionInv'
<1>1. TypeOK /\ now \in Nat /\ now \in Times /\ None \notin Times /\ \A x \in Times : x \in Nat
  BY Seconds DEF SessionInv
<1>2. /\ now' = now + 1 /\ now' \in Times /\ UNCHANGED <<session, login, signedOut>>
      /\ lastLive' = LiveAt(session, login, now + 1)
  BY <1>1, LifeAssumption DEF Tick, Times
<1>3. \A u \in Users, t \in Times : Open(session[u][t], now + 1) => Open(session[u][t], now)
  BY <1>1 DEF Open, TypeOK, SessionRows
<1>4. TypeOK'
  <2>1. lastLive' \in [Users -> [Times -> Times]]
    BY <1>1, <1>2, LiveAtTyped
  <2>2. reply' \in Replies
    BY <1>1, LifeAssumption DEF Tick, NoReply, Replies, Times
  <2> QED
    BY <1>1, <1>2, <2>1, <2>2 DEF TypeOK
<1>5. Lineage'
  <2>1. \A u \in Users, t \in Times : t <= now => t <= now'
    BY <1>1, <1>2
  <2> QED
    BY <1>2, <2>1 DEF SessionInv, Lineage
<1>6. OneLive' /\ NoneSignedOut'
  BY <1>2, <1>3 DEF SessionInv, OneLive, NoneSignedOut
<1>7. \A u \in Users, k \in Times :
        lastLive'[u][k] = IF \E t \in Times : login[u][t] = k /\ Open(session[u][t], now + 1)
                          THEN now + 1 ELSE lastLive[u][k]
  BY <1>2, LiveAtValue
<1>8. Seen'
  <2>1. ASSUME NEW u \in Users, NEW k \in Times
        PROVE  lastLive'[u][k] <= now + 1 /\ lastLive[u][k] <= lastLive'[u][k]
    <3>1. lastLive[u][k] <= now /\ lastLive[u][k] \in Nat
      BY <1>1, Logins DEF SessionInv, Seen
    <3> QED
      BY <1>1, <1>7, <3>1
  <2>2. ASSUME NEW u \in Users, NEW t \in Times
        PROVE  /\ login[u][t] # None => t <= lastLive'[u][login[u][t]]
               /\ Open(session[u][t], now + 1) => lastLive'[u][login[u][t]] = now + 1
               /\ session[u][t].status = "open" =>
                    \/ lastLive'[u][login[u][t]] = now + 1
                    \/ session[u][t].expiresAt <= lastLive'[u][login[u][t]] + 1
    <3> DEFINE k == login[u][t]
    <3>1. k \in Times \cup {None} /\ (session[u][t].status = "open" => k # None)
      BY <1>1, Logins DEF SessionInv, Lineage, Open
    <3>2. CASE k \in Times
      <4>1. t \in Nat /\ lastLive[u][k] \in Nat /\ lastLive'[u][k] \in {now + 1, lastLive[u][k]}
        BY <1>1, <1>7, <3>2, Logins
      <4>2. t <= lastLive[u][k] /\ lastLive[u][k] <= lastLive'[u][k]
        BY <1>1, <2>1, <3>2 DEF SessionInv, Seen
      <4>3. t <= lastLive'[u][k]
        BY <1>1, <4>1, <4>2
      <4>4. Open(session[u][t], now + 1) => lastLive'[u][k] = now + 1
        BY <1>7, <3>2
      <4>5. ASSUME session[u][t].status = "open", lastLive'[u][k] # now + 1
            PROVE  session[u][t].expiresAt <= lastLive'[u][k] + 1
        <5>1. session[u][t].expiresAt \in Nat /\ session[u][t].expiresAt <= now + 1
          BY <1>1, <4>4, <4>5 DEF Open, TypeOK, SessionRows
        <5>2. lastLive'[u][k] = lastLive[u][k]
          BY <4>1, <4>5
        <5>3. lastLive[u][k] = now \/ session[u][t].expiresAt <= lastLive[u][k] + 1
          BY <4>5 DEF SessionInv, Seen
        <5> QED
          BY <1>1, <5>1, <5>2, <5>3
      <4> QED
        BY <4>3, <4>4, <4>5
    <3> QED
      BY <1>3, <3>1, <3>2 DEF Open
  <2> QED
    BY <1>2, <2>1, <2>2 DEF Seen
<1> QED
  BY <1>4, <1>5, <1>6, <1>8 DEF SessionInv

\* Signing out ends the one live session of its login.
LEMMA SignOutStep ==
  ASSUME SessionInv, NEW u \in Users, NEW t \in Times, signOut(u, t)
  PROVE  SessionInv'
<1> DEFINE old == [session[u][t] EXCEPT !.status = "revoked"]
<1>1. TypeOK /\ now \in Nat /\ now \in Times /\ None \notin Times /\ \A x \in Times : x \in Nat
  BY Seconds DEF SessionInv
<1>2. old \in SessionRows /\ old.status = "revoked"
  BY <1>1, Revoked DEF TypeOK
<1>3. UNCHANGED <<now, login, lastLive>> /\ session[u][t].status # "none"
  BY DEF signOut
<1>4. session' = [session EXCEPT ![u] = [session[u] EXCEPT ![t] = old]]
  BY <1>1 DEF signOut, TypeOK
<1> HIDE DEF old
<1>5. \A v \in Users, x \in Times :
        session'[v][x] = IF v = u /\ x = t THEN old ELSE session[v][x]
  BY <1>1, <1>4 DEF TypeOK
<1>6. login[u][t] \in Times
  BY <1>1, <1>3, Logins DEF SessionInv, Lineage
<1>7. TypeOK'
  <2>1. session' \in [Users -> [Times -> SessionRows]]
    BY <1>1, <1>2, <1>4 DEF TypeOK
  <2>2. signedOut' \in SUBSET (Users \X Times)
    BY <1>1, <1>6 DEF signOut, TypeOK
  <2>3. reply' \in Replies
    BY AnswerTyped DEF signOut
  <2> QED
    BY <1>1, <1>3, <2>1, <2>2, <2>3 DEF TypeOK
<1>8. \A v \in Users, x \in Times :
        /\ session'[v][x].status = "none" <=> session[v][x].status = "none"
        /\ session'[v][x].status = "open" => /\ session'[v][x] = session[v][x]
                                             /\ ~(v = u /\ x = t)
  BY <1>2, <1>3, <1>5
<1>9. signedOut' = signedOut \/ (signedOut' = signedOut \cup {<<u, login[u][t]>>}
                                  /\ session[u][t].status = "open")
  BY DEF signOut
<1>10. Lineage'
  <2>1. \A s \in signedOut' : /\ s[1] \in Users /\ s[2] \in Times
                              /\ session[s[1]][s[2]].status # "none"
    <3>1. session[u][login[u][t]].status # "none"
      BY <1>1, <1>3, <1>6 DEF SessionInv, Lineage
    <3> QED
      BY <1>1, <1>6, <1>9, <3>1 DEF TypeOK, SessionInv, Lineage
  <2>2. \A s \in signedOut' : session'[s[1]][s[2]].status # "none"
    BY <1>8, <2>1
  <2>3. ASSUME NEW v \in Users, NEW x \in Times
        PROVE  /\ session'[v][x].status = "none" <=> login[v][x] = None
               /\ login[v][x] # None => /\ x <= now /\ login[v][x] <= x
                                        /\ session'[v][login[v][x]].status # "none"
    BY <1>1, <1>8, Logins DEF SessionInv, Lineage
  <2> QED
    BY <1>3, <2>2, <2>3 DEF Lineage
<1>11. OneLive' /\ Seen'
  BY <1>3, <1>8 DEF SessionInv, OneLive, Seen, Open
<1>12. NoneSignedOut'
  <2> SUFFICES ASSUME NEW v \in Users, NEW x \in Times, session'[v][x].status = "open"
               PROVE  <<v, login[v][x]>> \notin signedOut'
    BY <1>3 DEF NoneSignedOut
  <2>1. session[v][x].status = "open" /\ ~(v = u /\ x = t)
    BY <1>8
  <2>2. <<v, login[v][x]>> \notin signedOut
    BY <2>1 DEF SessionInv, NoneSignedOut
  <2>3. session[u][t].status = "open" => ~(v = u /\ login[v][x] = login[u][t])
    BY <2>1 DEF SessionInv, OneLive
  <2> QED
    BY <1>9, <2>2, <2>3
<1> QED
  BY <1>7, <1>10, <1>11, <1>12 DEF SessionInv

\* An answer that leaves the table alone.
LEMMA AnswerStep ==
  ASSUME SessionInv, UNCHANGED <<now, session, history>>, reply' \in Replies
  PROVE  SessionInv'
BY DEF SessionInv, TypeOK, Lineage, OneLive, NoneSignedOut, Seen, history

\* At first there are no sessions.
LEMMA SessionInit == Init => SessionInv
<1> SUFFICES ASSUME Init PROVE SessionInv
  OBVIOUS
<1>1. 0 \in Times /\ NoRow \in SessionRows /\ NoReply \in Replies /\ ~Open(NoRow, 0)
  BY LifeAssumption DEF Times, NoRow, SessionRows, NoReply, Replies, Open
<1>2. TypeOK
  BY <1>1 DEF Init, TypeOK
<1>3. \A u \in Users, t \in Times : /\ session[u][t] = NoRow /\ login[u][t] = None
                                    /\ lastLive[u][t] = 0
  BY DEF Init
<1>4. Lineage
  BY <1>3 DEF Init, Lineage, NoRow
<1>5. OneLive /\ NoneSignedOut
  BY <1>3 DEF OneLive, NoneSignedOut, NoRow
<1>6. Seen
  BY <1>1, <1>3 DEF Init, Seen, NoRow
<1> QED
  BY <1>2, <1>4, <1>5, <1>6 DEF SessionInv

\* Every handler keeps the invariant, and so does time.
LEMMA SessionStep == SessionInv /\ [Next]_vars => SessionInv'
<1> SUFFICES ASSUME SessionInv, [Next]_vars
             PROVE  SessionInv'
  OBVIOUS
<1>1. ASSUME NEW u \in Users, NEW l \in Times, NEW kind \in {"signed_in", "rotated"}, NEW t \in Times,
             Issues(u, l), Answer(kind, u, t),
             session' \in [Users -> [Times -> SessionRows]],
             login' \in [Users -> [Times -> Times \cup {None}]]
      PROVE  SessionInv'
  <2>1. lastLive' \in [Users -> [Times -> Times]] /\ UNCHANGED <<now, signedOut>>
    BY <1>1, Seconds, LiveAtTyped DEF Issues, SessionInv
  <2>2. reply' \in Replies
    BY <1>1, AnswerTyped
  <2>3. TypeOK'
    BY <1>1, <2>1, <2>2 DEF TypeOK, SessionInv
  <2> QED
    BY <1>1, <2>3, IssueStep DEF SessionInv
<1>2. ASSUME NEW u \in Users, loginUser(u)
      PROVE  SessionInv'
  BY <1>1, <1>2, LoginIssues, Seconds DEF loginUser, SessionInv
<1>3. ASSUME NEW u \in Users, NEW t \in Times, rotateRefreshToken(u, t)
      PROVE  SessionInv'
  <2>1. login[u][t] \in Times
    <3>1. session[u][t].status # "none"
      BY <1>3 DEF rotateRefreshToken, Matches, Open
    <3> QED
      BY <3>1, Logins DEF SessionInv, Lineage
  <2>2. Answer("rotated", u, t)
    BY <1>3 DEF rotateRefreshToken
  <2> QED
    BY <1>1, <1>3, <2>1, <2>2, RotateIssues
<1>4. ASSUME NEW u \in Users, NEW t \in Times, RotateReused(u, t) \/ canActivate(u, t)
      PROVE  SessionInv'
  BY <1>4, AnswerStep, AnswerTyped DEF RotateReused, canActivate
<1>5. CASE UNCHANGED vars
  BY <1>5, AnswerStep DEF vars, SessionInv, TypeOK
<1> QED
  BY <1>2, <1>3, <1>4, <1>5, SignOutStep, TickStep DEF Next

-----------------------------------------------------------------------------
(* Theorems. *)

\* A set without two elements.
LEMMA AtMostOne ==
  ASSUME NEW S, \A x, y \in S : x = y
  PROVE  Cardinality(S) <= 1
<1>1. CASE S = {}
  <2>1. Cardinality(S) = 0
    BY <1>1, FS_EmptySet
  <2> QED
    BY <2>1
<1>2. ASSUME NEW x \in S
      PROVE  Cardinality(S) <= 1
  <2>1. S = {x}
    BY <1>2
  <2>2. Cardinality(S) = 1
    BY <2>1, FS_Singleton
  <2> QED
    BY <2>2
<1> QED
  BY <1>1, <1>2, Zenon

\* Every variable keeps its type.
THEOREM TypeCorrect == Spec => []TypeOK
<1>1. SessionInv => TypeOK
  BY DEF SessionInv
<1> QED
  BY SessionInit, SessionStep, <1>1, PTL DEF Spec

\* A login has at most one live session.
THEOREM OneSession == Spec => []OneSessionPerLogin
<1>1. SessionInv => OneSessionPerLogin
  <2> SUFFICES ASSUME SessionInv, NEW u \in Users, NEW l \in Times
               PROVE  Cardinality(LiveOf(session, login, u, l, now)) <= 1
    BY DEF OneSessionPerLogin
  <2>1. \A t1, t2 \in LiveOf(session, login, u, l, now) : t1 = t2
    BY DEF LiveOf, SessionInv, OneLive, Open
  <2> QED
    BY <2>1, AtMostOne
<1> QED
  BY SessionInit, SessionStep, <1>1, PTL DEF Spec

\* A login that was signed out is over.
THEOREM SignedOutForGood == Spec => []SignOutIsFinal
<1>1. SessionInv => SignOutIsFinal
  <2> SUFFICES ASSUME SessionInv, NEW s \in signedOut, NEW t \in Times,
                      login[s[1]][t] = s[2], Open(session[s[1]][t], now)
               PROVE  FALSE
    BY DEF SignOutIsFinal, LiveOf
  <2>1. s = <<s[1], s[2]>> /\ s[1] \in Users
    BY DEF SessionInv, TypeOK
  <2> QED
    BY <2>1 DEF SessionInv, NoneSignedOut, Open
<1> QED
  BY SessionInit, SessionStep, <1>1, PTL DEF Spec

\* Only a login that is live, or was MaxDelay ago, is refreshed.
THEOREM NeverRevived == Spec => NoRevival
<1>1. SessionInv /\ [Next]_vars
        => [\A u \in Users, t \in Times :
              reply' = [kind |-> "rotated", user |-> u, token |-> t] /\ session' # session
                => now <= lastLive[u][login[u][t]] + MaxDelay]_vars
  <2> SUFFICES ASSUME SessionInv, [Next]_vars, NEW u \in Users, NEW t \in Times,
                      reply' = [kind |-> "rotated", user |-> u, token |-> t], session' # session
               PROVE  now <= lastLive[u][login[u][t]] + MaxDelay
    OBVIOUS
  <2>1. rotateRefreshToken(u, t)
    BY DEF Next, loginUser, rotateRefreshToken, RotateReused, signOut, canActivate, Tick, vars,
           Answer
  <2>2. PICK date \in Times : date <= now /\ now <= date + MaxDelay /\ Open(session[u][t], date)
    BY <2>1 DEF rotateRefreshToken, Matches
  <2>3. session[u][t].status = "open" /\ date < session[u][t].expiresAt
    BY <2>2 DEF Open
  <2>4. /\ now \in Nat /\ date \in Nat /\ MaxDelay \in Nat
        /\ session[u][t].expiresAt \in Nat /\ login[u][t] \in Times
        /\ lastLive[u][login[u][t]] \in Nat
    <3>1. session[u][t].expiresAt \in Nat /\ login[u][t] # None
      BY <2>3 DEF SessionInv, TypeOK, SessionRows, Lineage
    <3>2. login[u][t] \in Times /\ lastLive[u][login[u][t]] \in Nat
      BY <3>1, Logins DEF SessionInv
    <3> QED
      BY <2>2, <3>1, <3>2, Seconds, LifeAssumption DEF SessionInv
  <2>5. \/ lastLive[u][login[u][t]] = now
        \/ session[u][t].expiresAt <= lastLive[u][login[u][t]] + 1
    BY <2>3 DEF SessionInv, Seen
  <2> QED
    BY <2>2, <2>3, <2>4, <2>5
<1> QED
  BY SessionInit, SessionStep, <1>1, PTL DEF Spec, NoRevival

\* The guard admits only what was live less than AccessLife ago.
THEOREM AccessBounded == Spec => AccessOutlivesSession
<1>1. SessionInv /\ [Next]_vars
        => [\A u \in Users, t \in Times :
              reply' = [kind |-> "served", user |-> u, token |-> t]
                => now < lastLive[u][login[u][t]] + AccessLife]_vars
  <2> SUFFICES ASSUME SessionInv, Next, NEW u \in Users, NEW t \in Times,
                      reply' = [kind |-> "served", user |-> u, token |-> t]
               PROVE  now < lastLive[u][login[u][t]] + AccessLife
    OBVIOUS
  <2>1. canActivate(u, t)
    BY DEF Next, loginUser, rotateRefreshToken, RotateReused, signOut, canActivate, Tick,
           Answer, NoReply
  <2>2. now < t + AccessLife /\ login[u][t] # None
    BY <2>1 DEF canActivate, SessionInv, Lineage
  <2>3. t <= lastLive[u][login[u][t]]
    BY <2>2 DEF SessionInv, Seen
  <2>4. /\ now \in Nat /\ t \in Nat /\ lastLive[u][login[u][t]] \in Nat
    BY <2>2, Logins, Seconds DEF SessionInv
  <2> QED
    BY <2>2, <2>3, <2>4, LifeAssumption
<1> QED
  BY SessionInit, SessionStep, <1>1, PTL DEF Spec, AccessOutlivesSession

=============================================================================
