----------------------------- MODULE MCClients -----------------------------
(* Model-checking instance of Clients: browsers, passwords, places for     *)
(* requests and clients are interchangeable.                               *)
EXTENDS Clients, TLC

Symmetry == Permutations(Browser) \cup Permutations(Password)
                \cup Permutations(Request) \cup Permutations(Client)

=============================================================================
