----------------------------- MODULE MCAccounts -----------------------------
(* Small instances of Accounts for TLC. *)
EXTENDS Accounts, TLC

Symmetry == Permutations(Emails) \cup Permutations(Codes) \cup Permutations(Handlers)

=============================================================================
