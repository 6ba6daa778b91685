--------------------------- MODULE MCFlightStore ---------------------------
(* Model-checking instance of FlightStore: the values of a key are         *)
(* interchangeable, and so are the consumers.                              *)
EXTENDS FlightStore, TLC

Symmetry == Permutations(Tfdm) \cup Permutations(Tfm)

=============================================================================
