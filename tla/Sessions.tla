------------------------------ MODULE Sessions ------------------------------
(***************************************************************************)
(* Login sessions: the sessions table, the refresh-token handlers of       *)
(* auth.service and the access tokens that AuthGuard accepts.              *)
(*                                                                         *)
(* Both tokens are JWTs whose only claims are the user and the second of   *)
(* issue, so the refresh token a user gets in a given second is always the *)
(* same one: a token is named by its user and that second.  The column     *)
(* that holds its hash is unique.                                          *)
(*                                                                         *)
(* A handler's transaction is one step: each starts with an update of the  *)
(* presented token's row, whose lock makes a second one wait and look at   *)
(* the row again.                                                          *)
(***************************************************************************)
EXTENDS Naturals, FiniteSets

CONSTANTS
  Users,
  RefreshLife,  \* REFRESH_EXPIRY
  AccessLife,   \* ACCESS_EXPIRY
  MaxDelay,     \* bound of the time between the date a handler takes and its SQL
  MaxTime,      \* bound of the clock
  None

ASSUME LifeAssumption ==
  /\ RefreshLife \in Nat \ {0} /\ AccessLife \in Nat \ {0}
  /\ MaxDelay \in Nat /\ MaxTime \in Nat
ASSUME NoneAssumption == None \notin Nat

VARIABLES
  now,        \* the clock, in seconds
  session,    \* session[u][t]: the row of the token u was issued at t
  reply,      \* what the last request of this second was answered
  (* History variables: no action reads them. *)
  login,      \* login[u][t]: the login that token t of u descends from
  lastLive,   \* lastLive[u][l]: last instant at which login l of u had a live session
  signedOut   \* logins <<u, l>> whose session was signed out before it was revoked

history == <<login, lastLive, signedOut>>
vars == <<now, session, reply, history>>

Times == 0 .. MaxTime
NoRow == [status |-> "none", expiresAt |-> 0]
SessionRows == [status : {"none", "open", "revoked"}, expiresAt : Nat]

Open(row, t) == row.status = "open" /\ t < row.expiresAt

Replies == [kind : {"none", "signed_in", "rotated", "reused", "signed_out", "served"},
            user : Users \cup {None}, token : Times]
NoReply == [kind |-> "none", user |-> None, token |-> 0]
Answer(kind, u, t) == reply' = [kind |-> kind, user |-> u, token |-> t]

Init ==
  /\ now = 0
  /\ session = [u \in Users |-> [t \in Times |-> NoRow]]
  /\ reply = NoReply
  /\ login = [u \in Users |-> [t \in Times |-> None]]
  /\ lastLive = [u \in Users |-> [t \in Times |-> 0]]
  /\ signedOut = {}

\* The live sessions of a login.
LiveOf(rows, of, u, l, at) == {t \in Times : of[u][t] = l /\ Open(rows[u][t], at)}

\* lastLive after a step to the given rows, lineage and time.
LiveAt(rows, of, at) ==
  [u \in Users |-> [l \in Times |-> IF LiveOf(rows, of, u, l, at) # {} THEN at
                                    ELSE lastLive[u][l]]]

-----------------------------------------------------------------------------
(* Handlers. *)

\* Mutant: the row is created without its default.
NewRowUnset == [status |-> None, expiresAt |-> now + RefreshLife]

NewRow == [status |-> "open", expiresAt |-> now + RefreshLife]

\* The unique token column: a second session in the same second fails, and what its
\* transaction did before is rolled back.
TokenIsFree(u) == session[u][now].status = "none"

\* createTokensAndSession, for a user who logs in or registers.
loginUser(u) ==
  /\ TokenIsFree(u)
  /\ session' = [session EXCEPT ![u][now] = NewRow]
  /\ login' = [login EXCEPT ![u][now] = now]
  /\ lastLive' = LiveAt(session', login', now)
  /\ Answer("signed_in", u, now)
  /\ UNCHANGED <<now, signedOut>>

\* Mutants: the where clause of rotateRefreshToken without its date, and without isRevoked.
MatchesLate(u, t, date) == session[u][t].status = "open"
MatchesRevoked(u, t, date) == session[u][t].status # "none" /\ date < session[u][t].expiresAt

\* The updateMany of rotateRefreshToken matches the presented token, by the date that the
\* handler took before the SQL ran.
Matches(u, t, date) == Open(session[u][t], date)

\* The presented session is revoked, and one with a new token takes its place.
rotateRefreshToken(u, t) ==
  /\ \E date \in Times : date <= now /\ now <= date + MaxDelay /\ Matches(u, t, date)
  /\ TokenIsFree(u)
  /\ session' = [session EXCEPT ![u][t].status = "revoked", ![u][now] = NewRow]
  /\ login' = [login EXCEPT ![u][now] = login[u][t]]
  /\ lastLive' = LiveAt(session', login', now)
  /\ Answer("rotated", u, t)
  /\ UNCHANGED <<now, signedOut>>

\* The presented token is revoked already.  The handler revokes every session of the user
\* and throws, in the transaction: nothing of it stays.
RotateReused(u, t) ==
  /\ session[u][t].status = "revoked"
  /\ Answer("reused", u, t)
  /\ UNCHANGED <<now, session, history>>

\* Mutant: the session is looked up, but the update has no data.
SignOutForgets(u, t) ==
  /\ session[u][t].status # "none"
  /\ signedOut' = IF session[u][t].status = "open" THEN signedOut \cup {<<u, login[u][t]>>}
                  ELSE signedOut
  /\ Answer("signed_out", u, t)
  /\ UNCHANGED <<now, session, login, lastLive>>

\* Any session that exists is signed out, live or not.
signOut(u, t) ==
  /\ session[u][t].status # "none"
  /\ session' = [session EXCEPT ![u][t].status = "revoked"]
  /\ signedOut' = IF session[u][t].status = "open" THEN signedOut \cup {<<u, login[u][t]>>}
                  ELSE signedOut
  /\ Answer("signed_out", u, t)
  /\ UNCHANGED <<now, login, lastLive>>

\* Mutant: the guard decodes the token and does not verify it.
GuardDecodes(u, t) ==
  /\ session[u][t].status # "none"
  /\ Answer("served", u, t)
  /\ UNCHANGED <<now, session, history>>

\* AuthGuard: the access token issued along with refresh token t has not expired.  The
\* sessions table is not consulted.
canActivate(u, t) ==
  /\ session[u][t].status # "none"
  /\ now < t + AccessLife
  /\ Answer("served", u, t)
  /\ UNCHANGED <<now, session, history>>

Tick ==
  /\ now < MaxTime
  /\ now' = now + 1
  /\ lastLive' = LiveAt(session, login, now + 1)
  /\ reply' = NoReply
  /\ UNCHANGED <<session, login, signedOut>>

Next ==
  \/ \E u \in Users : loginUser(u)
  \/ \E u \in Users, t \in Times :
       rotateRefreshToken(u, t) \/ RotateReused(u, t) \/ signOut(u, t) \/ canActivate(u, t)
  \/ Tick

Spec == Init /\ [][Next]_vars

-----------------------------------------------------------------------------
(* Properties. *)

\* What each variable may hold.
TypeOK ==
  /\ now \in Times
  /\ session \in [Users -> [Times -> SessionRows]]
  /\ reply \in Replies
  /\ login \in [Users -> [Times -> Times \cup {None}]]
  /\ lastLive \in [Users -> [Times -> Times]]
  /\ signedOut \in SUBSET (Users \X Times)

\* However often it is refreshed, and by however many holders of its tokens, a login has
\* at most one live session.
OneSessionPerLogin ==
  \A u \in Users, l \in Times : Cardinality(LiveOf(session, login, u, l, now)) <= 1

\* A login whose unrevoked session was signed out is over: no token of it is ever live again.
SignOutIsFinal ==
  \A s \in signedOut : LiveOf(session, login, s[1], s[2], now) = {}

\* A login is kept alive only by refreshing it in time: it is never revived when it has
\* had no live session for longer than a handler may hold on to its date.
NoRevival ==
  [][\A u \in Users, t \in Times :
       reply' = [kind |-> "rotated", user |-> u, token |-> t] /\ session' # session
         => now <= lastLive[u][login[u][t]] + MaxDelay]_vars

\* AuthGuard does not look at the sessions, but what it admits had a live session less
\* than AccessLife ago.
AccessOutlivesSession ==
  [][\A u \in Users, t \in Times :
       reply' = [kind |-> "served", user |-> u, token |-> t]
         => now < lastLive[u][login[u][t]] + AccessLife]_vars

\* The comment of rotateRefreshToken: a token that is presented again after it was
\* revoked is a reuse attack, and "ALL sessions for that user" are revoked.
ReuseRevokesAll ==
  [][\A u \in Users : reply'.kind = "reused" /\ reply'.user = u /\ reply' # reply
       => \A t \in Times : ~Open(session'[u][t], now')]_vars

=============================================================================
