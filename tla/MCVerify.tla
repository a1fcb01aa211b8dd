------------------------------- MODULE MCVerify -------------------------------
(* Small instances of Verify for TLC. *)
EXTENDS Verify, TLC

CONSTANTS free, pro, enterprise

\* The smallest limits that differ, and a plan without one.
SmallPlans == {free, pro, enterprise}
SmallQuota == [p \in SmallPlans |-> CASE p = free -> 1 [] p = pro -> 2 [] OTHER -> None]

Symmetry == Permutations(Requests) \cup Permutations(Changers)

\* How a call was answered, and what it cost, is of no consequence once the answer is
\* given: the properties about answers are about the step that gives them.
Pending(r, value, default) == IF call[r] \in Stages THEN value ELSE default
Stripped == <<vars, [r \in Requests |-> Pending(r, call[r], "none")],
              [r \in Requests |-> Pending(r, paid[r], 0)],
              [r \in Requests |-> Pending(r, exempt[r], FALSE)]>>

=============================================================================
