----------------------------- MODULE MCWorkspaces -----------------------------
(* Small instances of Workspaces for TLC. *)
EXTENDS Workspaces, TLC

\* One word, a part that is no word ("3d"), and a name that imitates a live key ("my_live").
SmallWords == {"my", "live", "test"}
SmallParts == SmallWords \cup {"3d"}
SmallNames == {<<"my">>, <<"3d">>, <<"my", "live">>}

Symmetry == Permutations(Users) \cup Permutations(Slugs) \cup Permutations(Workspaces)
              \cup Permutations(Apis) \cup Permutations(Ids) \cup Permutations(Requests)
              \cup Permutations(Titles)

=============================================================================
