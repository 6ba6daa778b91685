------------------------------ MODULE Webhooks ------------------------------
(***************************************************************************)
(* What the dispatcher promises about the webhooks of a flight number,     *)
(* each flight number by itself.                                           *)
(*                                                                         *)
(* A webhook is made of a document that was the newest one when it was     *)
(* taken, and the next document is taken when that webhook was sent or     *)
(* given up: so snapshots go out in the order of the changes.  It carries  *)
(* the snapshot sent before, differs from it, and comes no sooner than the *)
(* throttle time after it.  A deletion is told to all subscriptions before *)
(* they are removed.  A fault may swallow a webhook; until the next one    *)
(* nothing is promised of what preceded it.                                *)
(*                                                                         *)
(* Dispatcher, with one coalescer for all flight numbers, its queue, the   *)
(* rows it compares with and its restarts, is shown to implement this.     *)
(* Source: app/dispatcher.py.                                              *)
(***************************************************************************)
EXTENDS Naturals

CONSTANTS
    Flight,    \* flight numbers
    Sub,       \* subscription ids
    FlightOf,  \* the flight number each subscription asks for
    Content,   \* what a payload says
    Throttle   \* settings.webhook_throttle_seconds, in ticks

VARIABLES
    flight,    \* the newest document of each flight number
    taken,     \* what a webhook is being made of
    heard,     \* the snapshot that was sent last
    ending,    \* how far the end of a deleted flight's subscriptions has come
    swallowed, \* flights with a webhook lost since the last one that was sent
    subs,      \* whether each subscription is there
    told,      \* subscriptions that were told of the deletion, or came while
               \* the others had been told and were not removed yet
    rest       \* time since the last webhooks of a flight, up to Throttle

vars == <<flight, taken, heard, ending, swallowed, subs, told, rest>>

None == "null"

Doc == [status : {"active", "deleted"}, content : Content]

NoDoc == [status |-> "none", content |-> None]

Nothing == [document |-> NoDoc, previous |-> None]

Subscribers(f) == {s \in Sub : FlightOf[s] = f /\ subs[s] = "there"}

Init ==
    /\ flight = [f \in Flight |-> NoDoc]
    /\ taken = [f \in Flight |-> Nothing]
    /\ heard = [f \in Flight |-> None]
    /\ ending = [f \in Flight |-> "no"]
    /\ swallowed = {}
    /\ subs = [s \in Sub |-> "new"]
    /\ told = {}
    /\ rest = [f \in Flight |-> Throttle]

Change(f, d) ==
    /\ flight' = [flight EXCEPT ![f] = d]
    /\ UNCHANGED <<taken, heard, ending, swallowed, subs, told, rest>>

Subscribe(s) ==
    /\ subs[s] = "new"
    /\ subs' = [subs EXCEPT ![s] = "there"]
    /\ told' = IF ending[FlightOf[s]] = "told" THEN told \cup {s} ELSE told
    /\ UNCHANGED <<flight, taken, heard, ending, swallowed, rest>>

Unsubscribe(s) ==
    /\ subs[s] = "there"
    /\ subs' = [subs EXCEPT ![s] = "gone"]
    /\ UNCHANGED <<flight, taken, heard, ending, swallowed, told, rest>>

\* The newest document, and the snapshot that was sent before it.
Take(f, previous) ==
    /\ taken[f] = Nothing
    /\ ending[f] = "no"
    /\ flight[f] # NoDoc
    /\ previous = heard[f] \/ f \in swallowed
    /\ taken' = [taken EXCEPT ![f] = [document |-> flight[f], previous |-> previous]]
    /\ UNCHANGED <<flight, heard, ending, swallowed, subs, told, rest>>

\* Nothing new, too soon, or a fault.
GiveUp(f) ==
    /\ taken[f] # Nothing
    /\ taken' = [taken EXCEPT ![f] = Nothing]
    /\ UNCHANGED <<flight, heard, ending, swallowed, subs, told, rest>>

\* To all subscribers, in any order.
Post(f) ==
    /\ rest[f] = Throttle
    /\ heard' = [heard EXCEPT ![f] = taken[f].document.content]
    /\ rest' = [rest EXCEPT ![f] = IF Subscribers(f) = {} THEN @ ELSE 0]
    /\ taken' = [taken EXCEPT ![f] = Nothing]
    /\ swallowed' = swallowed \ {f}

Send(f) ==
    /\ taken[f].document.status = "active"
    /\ taken[f].document.content # taken[f].previous
    /\ Post(f)
    /\ UNCHANGED <<flight, ending, subs, told>>

SendFinal(f) ==
    /\ taken[f].document.status = "deleted"
    /\ Post(f)
    /\ told' = told \cup Subscribers(f)
    /\ ending' = [ending EXCEPT ![f] = "told"]
    /\ UNCHANGED <<flight, subs>>

Remove(f) ==
    /\ ending[f] = "told"
    /\ Subscribers(f) \subseteq told
    /\ subs' = [s \in Sub |-> IF s \in Subscribers(f) THEN "gone" ELSE subs[s]]
    /\ ending' = [ending EXCEPT ![f] = "removed"]
    /\ UNCHANGED <<flight, taken, heard, swallowed, told, rest>>

\* The next document is a flight that nobody has heard of.
Forget(f) ==
    /\ ending[f] = "removed"
    /\ heard' = [heard EXCEPT ![f] = None]
    /\ ending' = [ending EXCEPT ![f] = "no"]
    /\ UNCHANGED <<flight, taken, swallowed, subs, told, rest>>

\* A fault swallows a webhook, or cuts the end short.
Swallow(f) ==
    /\ taken[f].document.status = "active" \/ ending[f] # "no"
    /\ taken' = [taken EXCEPT ![f] = Nothing]
    /\ ending' = [ending EXCEPT ![f] = "no"]
    /\ swallowed' = swallowed \cup {f}
    /\ UNCHANGED <<flight, heard, subs, told, rest>>

Pass ==
    /\ rest' = [f \in Flight |-> IF rest[f] < Throttle THEN rest[f] + 1 ELSE rest[f]]
    /\ UNCHANGED <<flight, taken, heard, ending, swallowed, subs, told>>

Next ==
    \/ \E f \in Flight :
          \/ \E d \in Doc : Change(f, d)
          \/ \E previous \in Content \cup {None} : Take(f, previous)
          \/ GiveUp(f)
          \/ Send(f)
          \/ SendFinal(f)
          \/ Remove(f)
          \/ Forget(f)
          \/ Swallow(f)
    \/ \E s \in Sub : Subscribe(s) \/ Unsubscribe(s)
    \/ Pass

Spec == Init /\ [][Next]_vars

=============================================================================
