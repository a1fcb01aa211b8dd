---------------------------- MODULE MCTokenBucket ----------------------------
(* Small instances of TokenBucket for TLC. *)
EXTENDS TokenBucket

\* A bucket of three that is refilled by one and a half per second, and one of a single
\* token whose hash expires long before the other one's would: an owner may change a key
\* from each to the other.
SmallPolicies == {[limit |-> 3, window |-> 2], [limit |-> 1, window |-> 1]}

=============================================================================
