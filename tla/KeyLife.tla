------------------------------- MODULE KeyLife -------------------------------
(***************************************************************************)
(* What Brij promises about a key, without table, cache or handlers: a key *)
(* is issued once and deleted once, its owner decides whether it is good,  *)
(* time may only end that, and a client is told yes less than MaxLag after *)
(* the key was last good.  ApiKeys implements this.                        *)
(***************************************************************************)
EXTENDS Naturals

CONSTANTS
  Keys,     \* keys that may be issued
  Clients,  \* those who present a key and wait for the answer
  MaxLag,   \* how late an answer may be
  None      \* no question

VARIABLES
  now,       \* the clock
  life,      \* life[k]: where key k is in its life
  lastGood,  \* lastGood[k]: last instant at which k was good
  asked,     \* asked[c]: the key that client c asks about
  passed     \* passed[c]: c has been told yes, and has not asked again

vars == <<now, life, lastGood, asked, passed>>

Lives == {"unborn", "good", "bad", "gone"}
Held(k) == life[k] \in {"good", "bad"}

Init ==
  /\ now = 0
  /\ life = [k \in Keys |-> "unborn"]
  /\ lastGood = [k \in Keys |-> 0]
  /\ asked = [c \in Clients |-> None]
  /\ passed = [c \in Clients |-> FALSE]

\* Every change of life or time is remembered.
Remember == lastGood' = [k \in Keys |-> IF life'[k] = "good" THEN now' ELSE lastGood[k]]

\* A key may be issued with an expiry that is already past.
Issue(k, l) ==
  /\ life[k] = "unborn"
  /\ l \in {"good", "bad"}
  /\ life' = [life EXCEPT ![k] = l]
  /\ Remember
  /\ UNCHANGED <<now, asked, passed>>

\* The owner updates, disables, revokes, re-activates or deletes the key.
Manage(k, l) ==
  /\ Held(k)
  /\ l \in {"good", "bad", "gone"}
  /\ life' = [life EXCEPT ![k] = l]
  /\ Remember
  /\ UNCHANGED <<now, asked, passed>>

\* The owner replaces k, which stays good for as long as it is given.
Rotate(k, new, l, m) ==
  /\ Held(k) /\ l \in {"good", "bad"}
  /\ life[new] = "unborn" /\ m \in {"good", "bad"}
  /\ life' = [life EXCEPT ![k] = l, ![new] = m]
  /\ Remember
  /\ UNCHANGED <<now, asked, passed>>

\* Deadlines pass: a good key may turn bad, and nothing else happens to a key.
Pass ==
  /\ now' = now + 1
  /\ life' \in [Keys -> Lives]
  /\ \A k \in Keys : life'[k] = life[k] \/ (life[k] = "good" /\ life'[k] = "bad")
  /\ Remember
  /\ UNCHANGED <<asked, passed>>

Ask(c, k) ==
  /\ asked[c] = None
  /\ asked' = [asked EXCEPT ![c] = k]
  /\ passed' = [passed EXCEPT ![c] = FALSE]
  /\ UNCHANGED <<now, life, lastGood>>

Accept(c) ==
  /\ asked[c] # None
  /\ life[asked[c]] # "unborn"
  /\ now < lastGood[asked[c]] + MaxLag
  /\ asked' = [asked EXCEPT ![c] = None]
  /\ passed' = [passed EXCEPT ![c] = TRUE]
  /\ UNCHANGED <<now, life, lastGood>>

Refuse(c) ==
  /\ asked[c] # None
  /\ asked' = [asked EXCEPT ![c] = None]
  /\ UNCHANGED <<now, life, lastGood, passed>>

Next ==
  \/ \E k \in Keys, l \in Lives : Issue(k, l) \/ Manage(k, l)
  \/ \E k, new \in Keys, l, m \in Lives : Rotate(k, new, l, m)
  \/ Pass
  \/ \E c \in Clients, k \in Keys : Ask(c, k)
  \/ \E c \in Clients : Accept(c) \/ Refuse(c)

Spec == Init /\ [][Next]_vars

=============================================================================
