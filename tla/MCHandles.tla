----------------------------- MODULE MCHandles -----------------------------
(* Model-checking instance of Handles: three tasks of the API process and   *)
(* one of the dispatcher; a collection with a unique index and a plain one. *)
EXTENDS Handles, TLC

CONSTANTS api, dispatcher, a1, a2, a3, d1, rows

MCHome == a1 :> api @@ a2 :> api @@ a3 :> api @@ d1 :> dispatcher

MCCount == rows :> 2

=============================================================================
