---------------------------- MODULE MCDispatcher ----------------------------
(* Model-checking instance of Dispatcher: every subscription is for f1, and *)
(* the other flight numbers share the coalescer with it.                    *)
EXTENDS Dispatcher

CONSTANT f1

MCFlightOf == [s \in Sub |-> f1]

=============================================================================
