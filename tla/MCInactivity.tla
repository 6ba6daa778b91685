---------------------------- MODULE MCInactivity ----------------------------
(* Model-checking instance of Inactivity: two subscriptions, to different  *)
(* flight numbers.                                                          *)
EXTENDS Inactivity, TLC

CONSTANTS f1, f2, s1, s2

MCFlightOf == s1 :> f1 @@ s2 :> f2

=============================================================================
