------------------------------ MODULE MCFeeds ------------------------------
(* Model-checking instance of Feeds: messages of no, one and two records.   *)
EXTENDS Feeds, TLC

CONSTANTS k1, k2

MCParsed == {<<>>} \cup {<<k>> : k \in Key} \cup {<<k, other>> : k \in Key, other \in Key}

\* Fewer messages, for the instance with two flights.
MCUpToTwo == {<<k1>>, <<k2, k1>>}

Symmetry == Permutations(Flight)

=============================================================================
