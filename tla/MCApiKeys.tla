------------------------------ MODULE MCApiKeys ------------------------------
(* Small instances of ApiKeys for TLC. *)
EXTENDS ApiKeys, TLC

\* Keys, requests and grants are interchangeable: no action tells them apart.
Symmetry == Permutations(Keys) \cup Permutations(Verifiers) \cup Permutations(Admins)
              \cup Permutations(Grants)

\* The states without the history that GraceHonoured, CronSparesUsable, DeadlineIsFinal and
\* OneHeirPerActivation do not mention.
Stripped == <<now, db, [k \in Keys |-> [cache[k] EXCEPT !.overtaken = FALSE]], verifier,
              [a \in Admins |-> [admin[a] EXCEPT !.closes = FALSE]], issued, parent>>

=============================================================================
