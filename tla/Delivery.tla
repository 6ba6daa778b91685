------------------------------ MODULE Delivery ------------------------------
(***************************************************************************)
(* Webhook delivery to the subscriptions of one flight number.             *)
(*                                                                         *)
(* The dispatcher process fans a changed snapshot out to every stored      *)
(* subscription by starting one asyncio task per subscription; a task      *)
(* posts, backs off and posts again, and finally writes its outcome to the *)
(* subscription's document.  Nothing orders the tasks of one subscription: *)
(* the retries of one snapshot last about an hour, the next snapshot may   *)
(* be fanned out a second later.  Meanwhile the API process creates and    *)
(* deletes the documents the tasks write to.                               *)
(*                                                                         *)
(* Documents of different flight numbers never meet in this code, so one   *)
(* flight number is enough; snapshots are numbered by their fan-out.       *)
(* Source: app/dispatcher.py, app/subscriptions.py, app/admin.py.          *)
(***************************************************************************)
EXTENDS Naturals

CONSTANTS
    Sub,             \* subscription ids; uuid4, so each one is created once
    WebhookRetries,  \* settings.webhook_retries
    FailureLimit,    \* the literal 10 of _record_failure
    MaxFanouts       \* bound: how many snapshots are fanned out

ASSUME DeliveryAssumption ==
    /\ WebhookRetries \in Nat
    /\ FailureLimit \in Nat \ {0}
    /\ MaxFanouts \in Nat

VARIABLES
    status,          \* status of the document, or why there is none
    failure_count,   \* failure_count of the document
    tasks,           \* running _send_to_subscription_with_retries tasks
    fanouts,         \* number of fan-outs so far
    \* History, read by the properties only:
    streak,          \* deliveries recorded as failed since the last success
    failures,        \* deliveries recorded as failed in total
    gaveUp,          \* subscriptions that _record_failure removed
    stale            \* a task may hold a count that is no longer the document's

stored == <<status, failure_count>>
history == <<streak, failures, gaveUp, stale>>
vars == <<stored, tasks, fanouts, history>>

Status == {"unused", "active", "failing", "removed"}

Phase == {"post",          \* about to post, or waiting for the answer
          "acknowledged",  \* 2xx received, _record_success not yet done
          "backoff",       \* waiting before the next attempt
          "exhausted"}     \* every attempt failed, _record_failure not yet done

Task == [sub     : Sub,
         snap    : Nat,               \* which fan-out the payload is from
         seen    : Nat,               \* failure_count when the task was made
         attempt : 0..WebhookRetries,
         phase   : Phase]

TypeOK ==
    /\ status \in [Sub -> Status]
    /\ failure_count \in [Sub -> Nat]
    /\ tasks \subseteq Task
    /\ fanouts \in 0..MaxFanouts
    /\ streak \in [Sub -> Nat]
    /\ failures \in [Sub -> Nat]
    /\ gaveUp \subseteq Sub
    /\ stale \in [Sub -> BOOLEAN]

Init ==
    /\ status = [s \in Sub |-> "unused"]
    /\ failure_count = [s \in Sub |-> 0]
    /\ tasks = {}
    /\ fanouts = 0
    /\ streak = [s \in Sub |-> 0]
    /\ failures = [s \in Sub |-> 0]
    /\ gaveUp = {}
    /\ stale = [s \in Sub |-> FALSE]

\* The filter {"status": {"$in": ["active", "failing"]}} of every query.
Stored(s) == status[s] \in {"active", "failing"}

TasksOf(s) == {t \in tasks : t.sub = s}

-----------------------------------------------------------------------------
(* The API process.                                                        *)

CreateSubscription(s) ==
    /\ status[s] = "unused"
    /\ status' = [status EXCEPT ![s] = "active"]
    /\ failure_count' = [failure_count EXCEPT ![s] = 0]
    /\ UNCHANGED <<tasks, fanouts, history>>

\* delete_one by id.  A document that is gone is a 404 and changes nothing;
\* the tasks that hold a copy of the document run on.
DeleteOne(s) ==
    /\ Stored(s)
    /\ status' = [status EXCEPT ![s] = "removed"]
    /\ UNCHANGED <<failure_count, tasks, fanouts, history>>

DeleteSubscription(s) == DeleteOne(s)

AdminCancelSubscription(s) == DeleteOne(s)

-----------------------------------------------------------------------------
(* The dispatcher: fan-out, and the end of a deleted flight.               *)

\* Mutated form of NewTask: the copied document lacks its failure_count.
NewTask_CountNotCopied(s) ==
    [sub |-> s, snap |-> fanouts + 1, seen |-> 0,
     attempt |-> 0, phase |-> "post"]

\* create_task(...) for one document of the result list: the task keeps the
\* document as it was read.
NewTask(s) ==
    [sub |-> s, snap |-> fanouts + 1, seen |-> failure_count[s],
     attempt |-> 0, phase |-> "post"]

SendToAllSubscriptions ==
    /\ fanouts < MaxFanouts
    /\ fanouts' = fanouts + 1
    /\ tasks' = tasks \cup {NewTask(s) : s \in {x \in Sub : Stored(x)}}
    /\ stale' = [s \in Sub |-> stale[s]
                                    \/ (Stored(s) /\ TasksOf(s) # {})]
    /\ UNCHANGED <<stored, streak, failures, gaveUp>>

\* delete_many after the final fan-out of a deleted flight.
DropSubscriptions ==
    /\ \E s \in Sub : Stored(s)
    /\ status' = [s \in Sub |-> IF Stored(s) THEN "removed" ELSE status[s]]
    /\ UNCHANGED <<failure_count, tasks, fanouts, history>>

-----------------------------------------------------------------------------
(* One delivery task.                                                      *)

\* Falling out of the try block: back off unless this was the last attempt.
AfterFailedAttempt(t) ==
    [t EXCEPT !.phase =
        IF t.attempt < WebhookRetries THEN "backoff" ELSE "exhausted"]

Becomes(t, u) == tasks' = (tasks \ {t}) \cup {u}

Ends(t) == tasks' = tasks \ {t}

PostSucceeds(t) ==
    /\ t.phase = "post"
    /\ Becomes(t, [t EXCEPT !.phase = "acknowledged"])
    /\ UNCHANGED <<stored, fanouts, history>>

\* Any answer but a 2xx, a timeout, a connection error.
PostFails(t) ==
    /\ t.phase = "post"
    /\ Becomes(t, AfterFailedAttempt(t))
    /\ UNCHANGED <<stored, fanouts, history>>

\* Mutated form of BackoffElapses: the loop variable is not advanced.
BackoffElapses_SameAttempt(t) ==
    /\ t.phase = "backoff"
    /\ Becomes(t, [t EXCEPT !.phase = "post"])
    /\ UNCHANGED <<stored, fanouts, history>>

BackoffElapses(t) ==
    /\ t.phase = "backoff"
    /\ Becomes(t, [t EXCEPT !.phase = "post", !.attempt = @ + 1])
    /\ UNCHANGED <<stored, fanouts, history>>

\* History: outcomes count while the document exists; the last task to leave
\* with a success brings the copies and the document back in step.
CountSuccess(t) ==
    /\ streak' = [streak EXCEPT ![t.sub] = IF Stored(t.sub) THEN 0 ELSE @]
    /\ stale' = [stale EXCEPT
                         ![t.sub] = @ /\ TasksOf(t.sub) # {t}]
    /\ UNCHANGED <<failures, gaveUp>>

CountFailure(s) ==
    /\ streak' = [streak EXCEPT ![s] = IF Stored(s) THEN @ + 1 ELSE @]
    /\ failures' = [failures EXCEPT ![s] = IF Stored(s) THEN @ + 1 ELSE @]
    /\ UNCHANGED stale

\* Mutated form of MarkActive: failure_count is left as it was.
MarkActive_NoReset(s) ==
    /\ status' = [status EXCEPT ![s] = IF Stored(s) THEN "active" ELSE @]
    /\ UNCHANGED failure_count

\* update_one without upsert: a no-op when the document is gone.
MarkActive(s) ==
    /\ status' = [status EXCEPT ![s] = IF Stored(s) THEN "active" ELSE @]
    /\ failure_count' = [failure_count EXCEPT ![s] = IF Stored(s) THEN 0 ELSE @]

RecordSuccess(t) ==
    /\ t.phase = "acknowledged"
    /\ Ends(t)
    /\ MarkActive(t.sub)
    /\ CountSuccess(t)
    /\ UNCHANGED fanouts

\* _record_success runs inside the try block of the attempt: when its write
\* raises, the acknowledged post is handled as a failed attempt, whether or
\* not the server had applied the write.
RecordSuccessRaises(t) ==
    /\ t.phase = "acknowledged"
    /\ Becomes(t, AfterFailedAttempt(t))
    /\ \/ UNCHANGED <<stored, history>>
       \/ /\ MarkActive(t.sub)
          /\ streak' = [streak EXCEPT ![t.sub] = IF Stored(t.sub) THEN 0 ELSE @]
          /\ stale' = [stale EXCEPT ![t.sub] = TRUE]
          /\ UNCHANGED <<failures, gaveUp>>
    /\ UNCHANGED fanouts

\* Mutated form of GivesUp: the subscription goes one failure early.
GivesUp_OneEarly(t) == t.seen + 2 >= FailureLimit

\* The count is computed from the copy the task was made with.
GivesUp(t) == t.seen + 1 >= FailureLimit

\* Mutated form of MarkFailing: update_one(..., upsert=True).
MarkFailing_Upsert(t) ==
    /\ status' = [status EXCEPT ![t.sub] = "failing"]
    /\ failure_count' = [failure_count EXCEPT ![t.sub] = t.seen + 1]

MarkFailing(t) ==
    /\ status' = [status EXCEPT ![t.sub] = IF Stored(t.sub) THEN "failing" ELSE @]
    /\ failure_count' = [failure_count EXCEPT
                            ![t.sub] = IF Stored(t.sub) THEN t.seen + 1 ELSE @]

RecordFailure(t) ==
    /\ t.phase = "exhausted"
    /\ Ends(t)
    /\ CountFailure(t.sub)
    /\ \/ /\ GivesUp(t)
          /\ status' = [status EXCEPT ![t.sub] = IF Stored(t.sub) THEN "removed" ELSE @]
          /\ gaveUp' = IF Stored(t.sub) THEN gaveUp \cup {t.sub} ELSE gaveUp
          /\ UNCHANGED failure_count
       \/ /\ ~GivesUp(t)
          /\ MarkFailing(t)
          /\ UNCHANGED gaveUp
    /\ UNCHANGED fanouts

\* The write of _record_failure raises: the task dies, nothing is recorded.
RecordFailureRaises(t) ==
    /\ t.phase = "exhausted"
    /\ Ends(t)
    /\ UNCHANGED <<stored, fanouts, history>>

TaskStep(t) ==
    \/ PostSucceeds(t)
    \/ PostFails(t)
    \/ BackoffElapses(t)
    \/ RecordSuccess(t)
    \/ RecordSuccessRaises(t)
    \/ RecordFailure(t)
    \/ RecordFailureRaises(t)

\* stop() and start(), or a crash: tasks live in the process only.
Restart ==
    /\ tasks # {}
    /\ tasks' = {}
    /\ UNCHANGED <<stored, fanouts, history>>

-----------------------------------------------------------------------------
Next ==
    \/ \E s \in Sub : \/ CreateSubscription(s)
                      \/ DeleteSubscription(s)
                      \/ AdminCancelSubscription(s)
    \/ SendToAllSubscriptions
    \/ DropSubscriptions
    \/ \E t \in tasks : TaskStep(t)
    \/ Restart

\* The event loop runs every task, every post ends (it has a timeout) and
\* every back-off elapses.
Fairness ==
    \A s \in Sub, n \in 1..MaxFanouts :
        WF_vars(\E t \in tasks : t.sub = s /\ t.snap = n /\ TaskStep(t))

Spec == Init /\ [][Next]_vars

FairSpec == Spec /\ Fairness

-----------------------------------------------------------------------------
(* Properties.                                                             *)

\* A stored document is marked failing exactly when it carries a count, and
\* the count stays below the limit: whatever copies the tasks write from, no
\* interleaving leaves an active document with failures or a counted-out one.
FailingIffCounted ==
    \A s \in Sub : Stored(s) =>
        /\ (status[s] = "failing") <=> (failure_count[s] > 0)
        /\ failure_count[s] < FailureLimit

\* While the tasks of a subscription do not overlap, failure_count is exactly
\* the number of consecutive failed deliveries.
CountIsStreak ==
    \A s \in Sub : Stored(s) /\ ~stale[s] => failure_count[s] = streak[s]

\* Overlapping tasks can lose counts but never invent them: a subscription is
\* given up only after at least FailureLimit of its deliveries failed.
GaveUpAfterFailures ==
    \A s \in gaveUp : failures[s] >= FailureLimit

\* The strengthening that makes the three invariants above inductive: what a
\* running task holds is bounded by what was counted, and unless stale says
\* otherwise a subscription has at most one task, in step with its document.
TasksInStep ==
    /\ \A t \in tasks : /\ status[t.sub] # "unused"
                        /\ t.seen < FailureLimit
                        /\ t.seen <= failures[t.sub]
                        /\ t.phase = "backoff" => t.attempt < WebhookRetries
    /\ \A s \in Sub : status[s] = "unused" => streak[s] = 0
    /\ \A s \in Sub : Stored(s) => failure_count[s] <= failures[s]
    /\ \A t, u \in tasks :
           t.sub = u.sub /\ Stored(t.sub) /\ ~stale[t.sub]
               => t = u /\ t.seen = failure_count[t.sub]

IndInv ==
    /\ TypeOK
    /\ TasksInStep
    /\ FailingIffCounted
    /\ CountIsStreak
    /\ GaveUpAfterFailures

\* A task that outlives its subscription never brings the document back.
NoResurrection ==
    [][\A s \in Sub : status[s] = "removed" => status'[s] = "removed"]_vars

\* Every delivery comes to an end: acknowledged, counted as failed or lost.
EveryDeliveryEnds ==
    \A s \in Sub, n \in 1..MaxFanouts :
        (\E t \in tasks : t.sub = s /\ t.snap = n)
            ~> ~(\E t \in tasks : t.sub = s /\ t.snap = n)

\* README.md: "A subscription is removed after 10 consecutive delivery
\* failures": given up after that many in a row, and not kept after them.
RemovedAfterConsecutiveFailures ==
    \A s \in Sub : /\ s \in gaveUp => streak[s] >= FailureLimit
                   /\ Stored(s) => streak[s] < FailureLimit


=============================================================================
