------------------------------ MODULE Handles ------------------------------
(***************************************************************************)
(* The lazy collection handles of a process and the indexes they bring.    *)
(*                                                                         *)
(* The first get_..._collection() of a process publishes the module-global *)
(* handle and only then creates the indexes, one awaited call after the    *)
(* other.  Other tasks of the process get the handle at once, and find and *)
(* insert through it while the indexes, a unique one among them, are still *)
(* being made, or after one of them could not be made.  Two processes do   *)
(* this to one database.                                                   *)
(*                                                                         *)
(* What is inserted is a document that must be there once: the admin, the  *)
(* webhook row of a flight number, a client.  It is looked for first and   *)
(* inserted when absent, in two calls or by the two steps of an upsert.    *)
(* Source: app/db.py, and its callers in app/admin.py, app/dispatcher.py,  *)
(* app/subscriptions.py, app/main.py.                                      *)
(***************************************************************************)
EXTENDS Naturals

CONSTANTS
    Process,     \* the API and the dispatcher process
    Task,        \* tasks that use the database
    Home,        \* the process each task runs in
    Collection,
    Count,       \* number of indexes of each collection
    Unique,      \* collections whose first index is a unique one
    MaxFaults    \* bound: calls that raise, ends of a process

NoCollection == "null"

ASSUME HandlesAssumption ==
    /\ NoCollection \notin Collection
    /\ Home \in [Task -> Process]
    /\ Count \in [Collection -> Nat \ {0}]
    /\ Unique \subseteq Collection
    /\ MaxFaults \in Nat

VARIABLES
    \* The database:
    indexes,    \* the indexes each collection has
    docs,       \* how many copies there are of the document of each collection
    \* Module globals of each process:
    client,     \* _client is set
    handle,     \* "none", "open", or "stale": of a client that was closed
    \* Tasks:
    step, coll, next,   \* where a task is, its collection, the index to create
    \* Bounds and history:
    faults,
    failed,       \* a create_index of this run of the process raised
    interrupted   \* the making of the indexes once raised or was cut off

globals == <<client, handle>>
tasks == <<step, coll, next>>
history == <<failed, interrupted>>
vars == <<indexes, docs, globals, tasks, faults, history>>

\* "build" is the body of the if, the others are calls through the handle.
Step == {"idle", "build", "find", "insert"}

Indexes(c) == 1..Count[c]

TypeOK ==
    /\ indexes \in [Collection -> SUBSET Nat]
    /\ \A c \in Collection : indexes[c] \subseteq Indexes(c)
    /\ docs \in [Collection -> Nat]
    /\ client \in [Process -> BOOLEAN]
    /\ handle \in [Process -> [Collection -> {"none", "open", "stale"}]]
    /\ step \in [Task -> Step]
    /\ coll \in [Task -> Collection \cup {NoCollection}]
    /\ next \in [Task -> Nat]
    /\ \A t \in Task :
          step[t] # "idle" => coll[t] \in Collection /\ next[t] \in Indexes(coll[t])
    /\ faults \in 0..MaxFaults
    /\ failed \in [Process -> SUBSET Collection]
    /\ interrupted \subseteq Collection

Init ==
    /\ indexes = [c \in Collection |-> {}]
    /\ docs = [c \in Collection |-> 0]
    /\ client = [p \in Process |-> FALSE]
    /\ handle = [p \in Process |-> [c \in Collection |-> "none"]]
    /\ step = [t \in Task |-> "idle"]
    /\ coll = [t \in Task |-> NoCollection]
    /\ next = [t \in Task |-> 1]
    /\ faults = 0
    /\ failed = [p \in Process |-> {}]
    /\ interrupted = {}

Fault == faults < MaxFaults /\ faults' = faults + 1

Goes(t, to) == step' = [step EXCEPT ![t] = to]

Ends(t) ==
    /\ Goes(t, "idle")
    /\ coll' = [coll EXCEPT ![t] = NoCollection]
    /\ next' = [next EXCEPT ![t] = 1]

Handle(t) == handle[Home[t]][coll[t]]

-----------------------------------------------------------------------------
(* get_..._collection.                                                     *)

\* ping_mongodb, before each message of a consumer.
Ping(p) ==
    /\ ~client[p]
    /\ client' = [client EXCEPT ![p] = TRUE]
    /\ UNCHANGED <<indexes, docs, handle, tasks, faults, history>>

\* Mutated form of FirstCall: no index is created.
FirstCall_NoIndexes(t, c) ==
    /\ step[t] = "idle"
    /\ handle[Home[t]][c] = "none"
    /\ client' = [client EXCEPT ![Home[t]] = TRUE]
    /\ handle' = [handle EXCEPT ![Home[t]][c] = "open"]
    /\ Goes(t, "find")
    /\ coll' = [coll EXCEPT ![t] = c]
    /\ next' = [next EXCEPT ![t] = 1]
    /\ UNCHANGED <<indexes, docs, faults, history>>

\* Up to the first create_index: client, database and handle are set, with a
\* new client if there is none.
FirstCall(t, c) ==
    /\ step[t] = "idle"
    /\ handle[Home[t]][c] = "none"
    /\ client' = [client EXCEPT ![Home[t]] = TRUE]
    /\ handle' = [handle EXCEPT ![Home[t]][c] = "open"]
    /\ Goes(t, "build")
    /\ coll' = [coll EXCEPT ![t] = c]
    /\ next' = [next EXCEPT ![t] = 1]
    /\ UNCHANGED <<indexes, docs, faults, history>>

\* Every later call: the handle is returned without a look at the indexes; a
\* closed client is replaced by a new one, its handles are not.
LaterCall(t, c) ==
    /\ step[t] = "idle"
    /\ handle[Home[t]][c] # "none"
    /\ client' = [client EXCEPT ![Home[t]] = TRUE]
    /\ Goes(t, "find")
    /\ coll' = [coll EXCEPT ![t] = c]
    /\ next' = [next EXCEPT ![t] = 1]
    /\ UNCHANGED <<indexes, docs, handle, faults, history>>

\* MongoDB refuses a unique index over documents that are not.
Refused(c, n) == c \in Unique /\ n = 1 /\ docs[c] > 1

\* Mutated form of CreateIndex: the function returns after the first one.
CreateIndex_FirstOnly(t) ==
    /\ step[t] = "build"
    /\ Handle(t) = "open"
    /\ ~Refused(coll[t], next[t])
    /\ indexes' = [indexes EXCEPT ![coll[t]] = @ \cup {next[t]}]
    /\ Goes(t, "find")
    /\ UNCHANGED <<docs, globals, coll, next, faults, history>>

\* One create_index; an index that exists is left as it is.
CreateIndex(t) ==
    /\ step[t] = "build"
    /\ Handle(t) = "open"
    /\ ~Refused(coll[t], next[t])
    /\ indexes' = [indexes EXCEPT ![coll[t]] = @ \cup {next[t]}]
    /\ \/ /\ next[t] < Count[coll[t]]
          /\ next' = [next EXCEPT ![t] = @ + 1]
          /\ UNCHANGED step
       \/ /\ next[t] = Count[coll[t]]
          /\ Goes(t, "find")
          /\ UNCHANGED next
    /\ UNCHANGED <<docs, globals, coll, faults, history>>

\* It raises: the documents are not unique, the client was closed, or for a
\* reason of its own.  The caller gets the exception, the handle stays.
CreateIndexRaises(t) ==
    /\ step[t] = "build"
    /\ \/ Refused(coll[t], next[t]) /\ UNCHANGED faults
       \/ Handle(t) = "stale" /\ UNCHANGED faults
       \/ Fault
    /\ Ends(t)
    /\ failed' = [failed EXCEPT ![Home[t]] = @ \cup {coll[t]}]
    /\ interrupted' = interrupted \cup {coll[t]}
    /\ UNCHANGED <<indexes, docs, globals>>

-----------------------------------------------------------------------------
(* The caller.                                                             *)

\* The document is there, or the call through a stale handle raises.
Find(t) ==
    /\ step[t] = "find"
    /\ \/ /\ Handle(t) = "open" /\ docs[coll[t]] = 0
          /\ Goes(t, "insert")
          /\ UNCHANGED <<coll, next>>
       \/ /\ Handle(t) = "stale" \/ docs[coll[t]] > 0
          /\ Ends(t)
    /\ UNCHANGED <<indexes, docs, globals, faults, history>>

\* Mutated form of Enforced: unique=True was left out.
Enforced_Never(c) == FALSE

Enforced(c) == c \in Unique /\ 1 \in indexes[c]

\* Inserted, or refused by the unique index, or the handle is stale.
Insert(t) ==
    /\ step[t] = "insert"
    /\ docs' = [docs EXCEPT ![coll[t]] =
                   IF Handle(t) = "stale" \/ (Enforced(coll[t]) /\ @ > 0) THEN @ ELSE @ + 1]
    /\ Ends(t)
    /\ UNCHANGED <<indexes, globals, faults, history>>

-----------------------------------------------------------------------------
(* The end of a process.                                                   *)

Building(p, c) ==
    {t \in Task : Home[t] = p /\ coll[t] = c /\ step[t] = "build"}

\* close_db: the client is gone, the handles and the tasks are not.
Close(p) ==
    /\ client[p]
    /\ Fault
    /\ client' = [client EXCEPT ![p] = FALSE]
    /\ handle' = [handle EXCEPT ![p] =
                     [c \in Collection |-> IF @[c] = "none" THEN "none" ELSE "stale"]]
    /\ UNCHANGED <<indexes, docs, tasks, history>>

\* The process ends, by itself or after close_db, and is started again.
Restart(p) ==
    /\ Fault
    /\ client' = [client EXCEPT ![p] = FALSE]
    /\ handle' = [handle EXCEPT ![p] = [c \in Collection |-> "none"]]
    /\ step' = [t \in Task |-> IF Home[t] = p THEN "idle" ELSE step[t]]
    /\ coll' = [t \in Task |-> IF Home[t] = p THEN NoCollection ELSE coll[t]]
    /\ next' = [t \in Task |-> IF Home[t] = p THEN 1 ELSE next[t]]
    /\ failed' = [failed EXCEPT ![p] = {}]
    /\ interrupted' = interrupted \cup {c \in Collection : Building(p, c) # {}}
    /\ UNCHANGED <<indexes, docs>>

-----------------------------------------------------------------------------
Next ==
    \/ \E p \in Process : Ping(p) \/ Close(p) \/ Restart(p)
    \/ \E t \in Task : \/ \E c \in Collection : FirstCall(t, c) \/ LaterCall(t, c)
                       \/ CreateIndex(t)
                       \/ CreateIndexRaises(t)
                       \/ Find(t)
                       \/ Insert(t)

Spec == Init /\ [][Next]_vars

\* MongoDB answers; nothing makes a task call.
FairSpec ==
    Spec /\ \A t \in Task : WF_vars(CreateIndex(t) \/ CreateIndexRaises(t))

-----------------------------------------------------------------------------
(* Properties.                                                             *)

Complete(c) == indexes[c] = Indexes(c)

\* Once a handle is published, each index exists, or the one task that makes
\* them has not come to it, or a create_index has raised: then the process
\* goes on without the index for as long as it runs.
IndexesAreOnTheWay ==
    \A p \in Process, c \in Collection :
        handle[p][c] # "none" /\ c \notin failed[p] =>
            \/ Complete(c)
            \/ \E t \in Building(p, c) : Indexes(c) \ indexes[c] \subseteq next[t]..Count[c]

\* The handle is set before the first await: two tasks of a process never
\* make the same indexes.
OneBuilder ==
    \A t, u \in Task :
        /\ step[t] = "build" /\ step[u] = "build"
        /\ Home[t] = Home[u] /\ coll[t] = coll[u]
        => t = u

\* The document of a collection with a unique index (the admin, the row of a
\* flight number) is there twice only while that index is still being made, or
\* after its making raised or was cut off: never in a quiet start.
DuplicatesAreExplained ==
    \A c \in Unique :
        docs[c] > 1 =>
            c \in interrupted \/ \E p \in Process : Building(p, c) # {}

\* A collection somebody has a handle of gets all its indexes, unless that was
\* interrupted.
IndexedInTheEnd ==
    \A c \in Collection :
        (\E p \in Process : handle[p][c] # "none") ~> (Complete(c) \/ c \in interrupted)

=============================================================================
