------------------------------ MODULE MCQuery ------------------------------
(* Model-checking instance of Query: two feeds of the four, and a limit that *)
(* three documents of one number pass.                                       *)
EXTENDS Query, TLC

MCFeeds == <<"tfms", "tbfm">>

Symmetry == Permutations(Number)

=============================================================================
