------------------------------ MODULE KeyFormat ------------------------------
(***************************************************************************)
(* What an API key looks like: how createApiKey builds it, rotateApiKey    *)
(* cuts it up, and verify parses it.  A key is the sequence of its parts   *)
(* between underscores.  The last part is a random identifier, followed in *)
(* the key itself by the secret: hexadecimal, and too long for a part of a *)
(* prefix name, which has twelve characters at most.                       *)
(***************************************************************************)
EXTENDS Sequences, Naturals

CONSTANTS
  Words,  \* parts that match [a-z][a-z0-9]+
  Parts,  \* all parts of the prefix names that ApiKeyDto admits
  Ids     \* random identifiers

Envs == {"live", "test"}

ASSUME FormatAssumption == Envs \subseteq Words /\ Words \subseteq Parts

\* The names that ApiKeyDto admits: any string, and so any number of underscores.
Names == Seq(Parts) \ {<<>>}

\* createApiKey: keyPrefix.
KeyPrefix(name, env, id) == name \o <<env, id>>

\* Mutant: the parts are counted from the end.
RotatedFromEnd(prefix, id) == <<prefix[Len(prefix) - 1], prefix[Len(prefix)], id>>

\* rotateApiKey: the first two parts, and another identifier.
Rotated(prefix, id) == <<prefix[1], prefix[2], id>>

\* parseAuthHeaders: the regular expression matches.
Parses(prefix) ==
  Len(prefix) = 3 /\ prefix[1] \in Words /\ prefix[2] \in Envs /\ prefix[3] \in Ids

\* The key under which verify looks a parsed key up.
LookupKey(prefix) == <<prefix[1], prefix[2], prefix[3]>>

\* What createApiKey stores as environment beside the part of the key that tells it.
Environment(env) == IF env = "live" THEN "production" ELSE "development"

=============================================================================
