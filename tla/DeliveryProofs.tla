--------------------------- MODULE DeliveryProofs ---------------------------
(***************************************************************************)
(* Proofs about Delivery, for any set of subscriptions, any number of      *)
(* retries, any failure limit and any number of fan-outs.                  *)
(*                                                                         *)
(* IndInv is inductive; FailingIffCounted, CountIsStreak and               *)
(* GaveUpAfterFailures are among its conjuncts.  Each action has a lemma   *)
(* with one step per conjunct of IndInv that it can disturb.               *)
(***************************************************************************)
EXTENDS Delivery, TLAPS

USE DeliveryAssumption

LEMMA InitInv == Init => IndInv
  BY DEF Init, IndInv, TypeOK, TasksInStep, FailingIffCounted, CountIsStreak,
         GaveUpAfterFailures, Status, Task, Stored

\* A subscription that is created starts with no task, no count, no streak.
LEMMA CreateInv ==
    ASSUME IndInv, NEW s \in Sub, CreateSubscription(s)
    PROVE  IndInv'
<1> USE DEF IndInv, CreateSubscription, history
<1>1. TypeOK'
  BY DEF TypeOK, Status
<1>2. TasksInStep'
  BY DEF TypeOK, TasksInStep, Stored, Task
<1>3. FailingIffCounted' /\ CountIsStreak' /\ GaveUpAfterFailures'
  BY DEF TypeOK, TasksInStep, FailingIffCounted, CountIsStreak,
         GaveUpAfterFailures, Stored
<1> QED BY <1>1, <1>2, <1>3

LEMMA DeleteInv ==
    ASSUME IndInv, NEW s \in Sub, DeleteOne(s)
    PROVE  IndInv'
<1> USE DEF IndInv, DeleteOne, history
<1>1. TypeOK'
  BY DEF TypeOK, Status
<1>2. TasksInStep'
  BY DEF TypeOK, TasksInStep, Stored, Task
<1>3. FailingIffCounted' /\ CountIsStreak' /\ GaveUpAfterFailures'
  BY DEF TypeOK, FailingIffCounted, CountIsStreak, GaveUpAfterFailures, Stored
<1> QED BY <1>1, <1>2, <1>3

LEMMA DropInv == IndInv /\ DropSubscriptions => IndInv'
<1> SUFFICES ASSUME IndInv, DropSubscriptions PROVE IndInv'
  OBVIOUS
<1> USE DEF IndInv, DropSubscriptions, history
<1>1. TypeOK'
  BY DEF TypeOK, Status
<1>2. TasksInStep'
  BY DEF TypeOK, TasksInStep, Stored, Task
<1>3. FailingIffCounted' /\ CountIsStreak' /\ GaveUpAfterFailures'
  BY DEF TypeOK, FailingIffCounted, CountIsStreak, GaveUpAfterFailures, Stored
<1> QED BY <1>1, <1>2, <1>3

\* A new task copies the count of a stored document; stale is raised when the
\* subscription still has another task.
LEMMA FanOutInv == IndInv /\ SendToAllSubscriptions => IndInv'
<1> SUFFICES ASSUME IndInv, SendToAllSubscriptions PROVE IndInv'
  OBVIOUS
<1> USE DEF IndInv, SendToAllSubscriptions, stored
<1>1. TypeOK'
  <2>1. \A s \in Sub : NewTask(s) \in Task
    BY DEF NewTask, Task, TypeOK, Phase
  <2> QED BY <2>1 DEF TypeOK
<1>2. TasksInStep'
  <2>1. \A t \in tasks' :
            t \in tasks \/ \E s \in Sub : Stored(s) /\ t = NewTask(s)
    OBVIOUS
  <2>2. \A s \in Sub : Stored(s)' <=> Stored(s)
    BY DEF Stored
  <2>3. ASSUME NEW t \in tasks'
        PROVE  /\ status[t.sub] # "unused"
               /\ t.seen < FailureLimit
               /\ t.seen <= failures[t.sub]
               /\ t.phase = "backoff" => t.attempt < WebhookRetries
    <3>1. CASE t \in tasks
      BY <3>1 DEF TasksInStep
    <3>2. CASE \E s \in Sub : Stored(s) /\ t = NewTask(s)
      BY <3>2 DEF NewTask, TasksInStep, FailingIffCounted, Stored
    <3> QED BY <2>1, <3>1, <3>2
  <2>4. ASSUME NEW t \in tasks', NEW u \in tasks', t.sub = u.sub,
               Stored(t.sub), ~stale'[t.sub]
        PROVE  t = u /\ t.seen = failure_count[t.sub]
    <3>1. t.sub \in Sub /\ u.sub \in Sub
      BY <1>1 DEF TypeOK, Task
    <3>2. TasksOf(t.sub) = {} /\ ~stale[t.sub]
      BY <2>4, <3>1 DEF TypeOK
    <3>3. t \notin tasks /\ u \notin tasks
      BY <2>4, <3>2 DEF TasksOf
    <3>4. t = NewTask(t.sub) /\ u = NewTask(u.sub)
      BY <2>1, <3>3 DEF NewTask
    <3>5. t = u
      BY <2>4, <3>4
    <3>6. NewTask(t.sub).seen = failure_count[t.sub]
      BY DEF NewTask
    <3> QED BY <3>4, <3>5, <3>6
  <2>5. \A s \in Sub : status'[s] = "unused" => streak'[s] = 0
    BY DEF TasksInStep
  <2>6. \A s \in Sub : Stored(s)' => failure_count'[s] <= failures'[s]
    BY DEF TasksInStep, Stored
  <2> QED BY <2>2, <2>3, <2>4, <2>5, <2>6 DEF TasksInStep, Stored
<1>3. FailingIffCounted' /\ CountIsStreak' /\ GaveUpAfterFailures'
  BY DEF TypeOK, FailingIffCounted, CountIsStreak, GaveUpAfterFailures, Stored
<1> QED BY <1>1, <1>2, <1>3

-----------------------------------------------------------------------------
(* Task steps.                                                             *)

\* A task that only moves on, its document untouched.
LEMMA MovesOnInv ==
    ASSUME IndInv, NEW t \in tasks, NEW u \in Task, Becomes(t, u),
           u.sub = t.sub, u.seen = t.seen,
           u.phase = "backoff" => u.attempt < WebhookRetries,
           UNCHANGED <<stored, fanouts, history>>
    PROVE  IndInv'
<1> USE DEF IndInv, Becomes, stored, history
<1>1. TypeOK'
  BY DEF TypeOK
<1>2. TasksInStep'
  <2>1. t \in Task /\ tasks \subseteq Task
    BY DEF TypeOK
  <2> QED BY <2>1 DEF TasksInStep, Stored, Task
<1>3. FailingIffCounted' /\ CountIsStreak' /\ GaveUpAfterFailures'
  BY DEF FailingIffCounted, CountIsStreak, GaveUpAfterFailures, Stored
<1> QED BY <1>1, <1>2, <1>3

LEMMA AfterFailedAttemptType ==
    ASSUME NEW t \in Task
    PROVE  LET u == AfterFailedAttempt(t)
           IN  /\ u \in Task
               /\ u.sub = t.sub /\ u.seen = t.seen
               /\ u.phase = "backoff" => u.attempt < WebhookRetries
BY DEF AfterFailedAttempt, Task, Phase

LEMMA PostSucceedsInv ==
    ASSUME IndInv, NEW t \in tasks, PostSucceeds(t)
    PROVE  IndInv'
<1> DEFINE u == [t EXCEPT !.phase = "acknowledged"]
<1>1. t \in Task
  BY DEF IndInv, TypeOK
<1>2. /\ u \in Task
      /\ u.sub = t.sub /\ u.seen = t.seen
      /\ u.phase = "backoff" => u.attempt < WebhookRetries
  BY <1>1 DEF Task, Phase
<1>3. Becomes(t, u) /\ UNCHANGED <<stored, fanouts, history>>
  BY DEF PostSucceeds
<1> QED BY <1>2, <1>3, MovesOnInv

LEMMA PostFailsInv ==
    ASSUME IndInv, NEW t \in tasks, PostFails(t)
    PROVE  IndInv'
<1>1. t \in Task
  BY DEF IndInv, TypeOK
<1> QED BY <1>1, AfterFailedAttemptType, MovesOnInv DEF PostFails

LEMMA BackoffElapsesInv ==
    ASSUME IndInv, NEW t \in tasks, BackoffElapses(t)
    PROVE  IndInv'
<1> DEFINE u == [t EXCEPT !.phase = "post", !.attempt = @ + 1]
<1>1. t \in Task /\ t.attempt < WebhookRetries
  BY DEF IndInv, TypeOK, TasksInStep, BackoffElapses
<1>2. t.attempt + 1 \in 0..WebhookRetries
  BY <1>1 DEF Task
<1>3. u \in Task
  BY <1>1, <1>2 DEF Task, Phase
<1>4. u.sub = t.sub /\ u.seen = t.seen /\ u.phase # "backoff"
  BY <1>1 DEF Task
<1>5. Becomes(t, u) /\ UNCHANGED <<stored, fanouts, history>>
  BY DEF BackoffElapses
<1> QED BY <1>3, <1>4, <1>5, MovesOnInv

\* A clean success leaves count and streak both 0; stale is lowered only when
\* no other task of the subscription is left.
LEMMA RecordSuccessInv ==
    ASSUME IndInv, NEW t \in tasks, RecordSuccess(t)
    PROVE  IndInv'
<1> USE DEF IndInv, RecordSuccess, Ends, MarkActive, CountSuccess
<1>1. t \in Task /\ t.sub \in Sub
  BY DEF TypeOK, Task
<1>2. TypeOK'
  BY <1>1 DEF TypeOK, Status
<1>3. \A s \in Sub : Stored(s)' <=> Stored(s)
  BY <1>1 DEF Stored, TypeOK
<1>4. TasksInStep'
  <2>1. \A x \in tasks' : /\ status'[x.sub] # "unused"
                          /\ x.seen < FailureLimit
                          /\ x.seen <= failures'[x.sub]
                          /\ x.phase = "backoff" => x.attempt < WebhookRetries
    BY <1>1 DEF TasksInStep, TypeOK, Stored
  <2>2. \A s \in Sub : status'[s] = "unused" => streak'[s] = 0
    BY <1>1 DEF TasksInStep, TypeOK, Stored
  <2>3. \A s \in Sub : Stored(s)' => failure_count'[s] <= failures'[s]
    BY <1>1, <1>3 DEF TasksInStep, TypeOK, Stored
  <2>4. ASSUME NEW x \in tasks', NEW y \in tasks', x.sub = y.sub,
               Stored(x.sub)', ~stale'[x.sub]
        PROVE  x = y /\ x.seen = failure_count'[x.sub]
    <3>1. x.sub \in Sub /\ x \in tasks /\ y \in tasks /\ x # t
      BY DEF TypeOK, Task
    <3>2. CASE x.sub = t.sub
      <4>1. x \in TasksOf(t.sub) /\ t \in TasksOf(t.sub)
        BY <3>1, <3>2 DEF TasksOf
      <4>2. ~stale[t.sub]
        BY <1>1, <2>4, <3>1, <3>2, <4>1 DEF TypeOK
      <4>3. Stored(t.sub)
        BY <1>3, <2>4, <3>2, <1>1
      <4> QED BY <3>1, <3>2, <4>2, <4>3 DEF TasksInStep
    <3>3. CASE x.sub # t.sub
      BY <1>1, <1>3, <2>4, <3>1, <3>3 DEF TasksInStep, TypeOK
    <3> QED BY <3>2, <3>3
  <2> QED BY <2>1, <2>2, <2>3, <2>4 DEF TasksInStep
<1>5. FailingIffCounted'
  BY <1>1, <1>3 DEF FailingIffCounted, TypeOK, Stored
<1>6. CountIsStreak'
  <2>1. ASSUME NEW s \in Sub, Stored(s)', ~stale'[s]
        PROVE  failure_count'[s] = streak'[s]
    <3>1. CASE s = t.sub
      BY <1>1, <1>3, <2>1, <3>1 DEF TypeOK
    <3>2. CASE s # t.sub
      BY <1>1, <1>3, <2>1, <3>2 DEF TypeOK, CountIsStreak
    <3> QED BY <3>1, <3>2
  <2> QED BY <2>1 DEF CountIsStreak
<1>7. GaveUpAfterFailures'
  BY DEF GaveUpAfterFailures
<1> QED BY <1>2, <1>4, <1>5, <1>6, <1>7

\* The write may have been applied before it raised: the task then runs on
\* with a count that is no longer the document's, and stale says so.
LEMMA RecordSuccessRaisesInv ==
    ASSUME IndInv, NEW t \in tasks, RecordSuccessRaises(t)
    PROVE  IndInv'
<1> DEFINE u == AfterFailedAttempt(t)
<1>1. t \in Task /\ t.sub \in Sub
  BY DEF IndInv, TypeOK, Task
<1>2. /\ u \in Task
      /\ u.sub = t.sub /\ u.seen = t.seen
      /\ u.phase = "backoff" => u.attempt < WebhookRetries
  BY <1>1, AfterFailedAttemptType
<1>3. Becomes(t, u)
  BY DEF RecordSuccessRaises
<1> HIDE DEF u
<1>4. CASE UNCHANGED <<stored, history>>
  BY <1>2, <1>3, <1>4, MovesOnInv DEF RecordSuccessRaises
<1>5. CASE /\ MarkActive(t.sub)
           /\ streak' = [streak EXCEPT ![t.sub] = IF Stored(t.sub) THEN 0 ELSE @]
           /\ stale' = [stale EXCEPT ![t.sub] = TRUE]
           /\ UNCHANGED <<failures, gaveUp>>
  <2> USE <1>5 DEF IndInv, Becomes, MarkActive
  <2>1. TypeOK'
    BY <1>1, <1>2, <1>3 DEF TypeOK, Status, RecordSuccessRaises
  <2>2. \A s \in Sub : Stored(s)' <=> Stored(s)
    BY <1>1 DEF Stored, TypeOK
  <2>3. TasksInStep'
    <3>1. \A x \in tasks' : /\ status'[x.sub] # "unused"
                            /\ x.seen < FailureLimit
                            /\ x.seen <= failures'[x.sub]
                            /\ x.phase = "backoff" => x.attempt < WebhookRetries
      BY <1>1, <1>2, <1>3 DEF TasksInStep, TypeOK, Stored
    <3>2. \A s \in Sub : status'[s] = "unused" => streak'[s] = 0
      BY <1>1 DEF TasksInStep, TypeOK, Stored
    <3>3. \A s \in Sub : Stored(s)' => failure_count'[s] <= failures'[s]
      BY <1>1, <2>2 DEF TasksInStep, TypeOK, Stored
    <3>4. ASSUME NEW x \in tasks', NEW y \in tasks', x.sub = y.sub,
                 Stored(x.sub)', ~stale'[x.sub]
          PROVE  x = y /\ x.seen = failure_count'[x.sub]
      <4>1. x.sub \in Sub /\ x.sub # t.sub
        BY <1>1, <2>1, <3>4 DEF TypeOK, Task
      <4>2. x \in tasks /\ y \in tasks
        BY <1>2, <1>3, <3>4, <4>1
      <4> QED BY <1>1, <2>2, <3>4, <4>1, <4>2 DEF TasksInStep, TypeOK
    <3> QED BY <3>1, <3>2, <3>3, <3>4 DEF TasksInStep
  <2>4. FailingIffCounted'
    BY <1>1, <2>2 DEF FailingIffCounted, TypeOK, Stored
  <2>5. CountIsStreak'
    BY <1>1, <2>2 DEF CountIsStreak, TypeOK, Stored
  <2>6. GaveUpAfterFailures'
    BY DEF GaveUpAfterFailures
  <2> QED BY <2>1, <2>3, <2>4, <2>5, <2>6
<1> QED BY <1>4, <1>5 DEF RecordSuccessRaises

\* The count written is one more than the copy, the counted failures are one
\* more too: the bound of the copy carries over to the document.
LEMMA RecordFailureInv ==
    ASSUME IndInv, NEW t \in tasks, RecordFailure(t)
    PROVE  IndInv'
<1> USE DEF IndInv, Ends, CountFailure
<1>1. t \in Task /\ t.sub \in Sub /\ t.seen \in Nat
  BY DEF TypeOK, Task
<1>2. /\ tasks' = tasks \ {t}
      /\ streak' = [streak EXCEPT ![t.sub] = IF Stored(t.sub) THEN @ + 1 ELSE @]
      /\ failures' = [failures EXCEPT ![t.sub] = IF Stored(t.sub) THEN @ + 1 ELSE @]
      /\ stale' = stale /\ fanouts' = fanouts
  BY DEF RecordFailure
<1>3. t.seen < FailureLimit /\ t.seen <= failures[t.sub]
  BY DEF TasksInStep
<1>4. \A s \in Sub : failures'[s] \in Nat /\ failures[s] <= failures'[s]
  BY <1>1, <1>2 DEF TypeOK
<1>5. Stored(t.sub) => failures'[t.sub] = failures[t.sub] + 1
  BY <1>1, <1>2 DEF TypeOK
<1>6. CASE ~Stored(t.sub)
  <2>1. status' = status /\ failure_count' = failure_count /\ gaveUp' = gaveUp
    BY <1>1, <1>6 DEF RecordFailure, MarkFailing, TypeOK
  <2>2. streak' = streak /\ failures' = failures
    BY <1>1, <1>2, <1>6 DEF TypeOK
  <2> QED BY <1>2, <2>1, <2>2
          DEF TypeOK, TasksInStep, FailingIffCounted, CountIsStreak,
              GaveUpAfterFailures, Stored
<1>7. CASE Stored(t.sub) /\ GivesUp(t)
  <2>1. /\ status' = [status EXCEPT ![t.sub] = "removed"]
        /\ gaveUp' = gaveUp \cup {t.sub}
        /\ failure_count' = failure_count
    BY <1>7 DEF RecordFailure
  <2>2. TypeOK'
    BY <1>1, <1>2, <2>1 DEF TypeOK, Status
  <2>3. \A s \in Sub : Stored(s)' <=> Stored(s) /\ s # t.sub
    BY <1>1, <2>1 DEF Stored, TypeOK
  <2>4. TasksInStep'
    <3>1. \A x \in tasks' : /\ status'[x.sub] # "unused"
                            /\ x.seen < FailureLimit
                            /\ x.seen <= failures'[x.sub]
                            /\ x.phase = "backoff" => x.attempt < WebhookRetries
      <4>1. ASSUME NEW x \in tasks' PROVE x.seen <= failures'[x.sub]
        <5>1. x \in tasks /\ x.seen \in Nat /\ x.sub \in Sub
          BY <1>2 DEF TypeOK, Task
        <5>2. x.seen <= failures[x.sub]
          BY <5>1 DEF TasksInStep
        <5>3. failures[x.sub] \in Nat
          BY <5>1 DEF TypeOK
        <5> QED BY <1>4, <5>1, <5>2, <5>3
      <4> QED BY <1>1, <1>2, <2>1, <4>1 DEF TasksInStep, TypeOK
    <3>2. \A s \in Sub : status'[s] = "unused" => streak'[s] = 0
      BY <1>1, <1>2, <2>1 DEF TasksInStep, TypeOK
    <3>3. \A s \in Sub : Stored(s)' => failure_count'[s] <= failures'[s]
      BY <1>1, <1>2, <2>1, <2>3 DEF TasksInStep, TypeOK
    <3>4. ASSUME NEW x \in tasks', NEW y \in tasks', x.sub = y.sub,
                 Stored(x.sub)', ~stale'[x.sub]
          PROVE  x = y /\ x.seen = failure_count'[x.sub]
      <4>1. x \in tasks /\ y \in tasks /\ x.sub \in Sub
        BY <1>2 DEF TypeOK, Task
      <4> QED BY <1>2, <2>1, <2>3, <3>4, <4>1 DEF TasksInStep
    <3> QED BY <3>1, <3>2, <3>3, <3>4 DEF TasksInStep
  <2>5. FailingIffCounted'
    BY <2>1, <2>3, <1>1 DEF FailingIffCounted, TypeOK
  <2>6. CountIsStreak'
    BY <1>1, <1>2, <2>1, <2>3 DEF CountIsStreak, TypeOK
  <2>7. GaveUpAfterFailures'
    <3>1. failures'[t.sub] >= FailureLimit
      BY <1>1, <1>3, <1>5, <1>7 DEF GivesUp, TypeOK
    <3>2. ASSUME NEW s \in gaveUp PROVE failures'[s] >= FailureLimit
      <4>1. s \in Sub /\ failures[s] \in Nat
        BY DEF TypeOK
      <4> QED BY <1>4, <4>1 DEF GaveUpAfterFailures
    <3> QED BY <2>1, <3>1, <3>2 DEF GaveUpAfterFailures
  <2> QED BY <2>2, <2>4, <2>5, <2>6, <2>7
<1>8. CASE Stored(t.sub) /\ ~GivesUp(t)
  <2>1. /\ status' = [status EXCEPT ![t.sub] = "failing"]
        /\ failure_count' = [failure_count EXCEPT ![t.sub] = t.seen + 1]
        /\ gaveUp' = gaveUp
    BY <1>8 DEF RecordFailure, MarkFailing
  <2>2. TypeOK'
    BY <1>1, <1>2, <2>1 DEF TypeOK, Status
  <2>3. \A s \in Sub : Stored(s)' <=> Stored(s)
    BY <1>1, <1>8, <2>1 DEF Stored, TypeOK
  <2>4. t.seen + 1 < FailureLimit
    BY <1>1, <1>8 DEF GivesUp
  <2>5. TasksInStep'
    <3>1. \A x \in tasks' : /\ status'[x.sub] # "unused"
                            /\ x.seen < FailureLimit
                            /\ x.seen <= failures'[x.sub]
                            /\ x.phase = "backoff" => x.attempt < WebhookRetries
      <4>1. ASSUME NEW x \in tasks' PROVE x.seen <= failures'[x.sub]
        <5>1. x \in tasks /\ x.seen \in Nat /\ x.sub \in Sub
          BY <1>2 DEF TypeOK, Task
        <5>2. x.seen <= failures[x.sub]
          BY <5>1 DEF TasksInStep
        <5>3. failures[x.sub] \in Nat
          BY <5>1 DEF TypeOK
        <5> QED BY <1>4, <5>1, <5>2, <5>3
      <4> QED BY <1>1, <1>2, <2>1, <4>1 DEF TasksInStep, TypeOK
    <3>2. \A s \in Sub : status'[s] = "unused" => streak'[s] = 0
      BY <1>1, <1>2, <2>1 DEF TasksInStep, TypeOK
    <3>3. \A s \in Sub : Stored(s)' => failure_count'[s] <= failures'[s]
      <4>1. failure_count'[t.sub] <= failures'[t.sub]
        BY <1>1, <1>3, <1>5, <1>8, <2>1 DEF TypeOK
      <4> QED BY <1>1, <1>2, <2>1, <2>3, <4>1 DEF TasksInStep, TypeOK
    <3>4. ASSUME NEW x \in tasks', NEW y \in tasks', x.sub = y.sub,
                 Stored(x.sub)', ~stale'[x.sub]
          PROVE  x = y /\ x.seen = failure_count'[x.sub]
      <4>1. x \in tasks /\ y \in tasks /\ x.sub \in Sub /\ x # t
        BY <1>2 DEF TypeOK, Task
      <4>2. Stored(x.sub) /\ ~stale[x.sub]
        BY <1>2, <2>3, <3>4, <4>1
      <4>3. x.sub # t.sub
        BY <4>1, <4>2 DEF TasksInStep
      <4> QED BY <2>1, <3>4, <4>1, <4>2, <4>3 DEF TasksInStep, TypeOK
    <3> QED BY <3>1, <3>2, <3>3, <3>4 DEF TasksInStep
  <2>6. FailingIffCounted'
    BY <1>1, <2>1, <2>3, <2>4 DEF FailingIffCounted, TypeOK
  <2>7. CountIsStreak'
    <3>1. ~stale[t.sub] => failure_count'[t.sub] = streak'[t.sub]
      BY <1>1, <1>2, <1>8, <2>1 DEF TasksInStep, CountIsStreak, TypeOK
    <3> QED BY <1>1, <1>2, <2>1, <2>3, <3>1 DEF CountIsStreak, TypeOK
  <2>8. GaveUpAfterFailures'
    <3>1. ASSUME NEW s \in gaveUp PROVE failures'[s] >= FailureLimit
      <4>1. s \in Sub /\ failures[s] \in Nat
        BY DEF TypeOK
      <4> QED BY <1>4, <4>1 DEF GaveUpAfterFailures
    <3> QED BY <2>1, <3>1 DEF GaveUpAfterFailures
  <2> QED BY <2>2, <2>5, <2>6, <2>7, <2>8
<1> QED BY <1>6, <1>7, <1>8

\* Tasks vanish, documents and history stay.
LEMMA TasksLostInv ==
    ASSUME IndInv, tasks' \subseteq tasks, UNCHANGED <<stored, fanouts, history>>
    PROVE  IndInv'
<1> USE DEF IndInv, stored, history
<1>1. TypeOK'
  BY DEF TypeOK
<1>2. TasksInStep'
  BY DEF TasksInStep, Stored
<1>3. FailingIffCounted' /\ CountIsStreak' /\ GaveUpAfterFailures'
  BY DEF FailingIffCounted, CountIsStreak, GaveUpAfterFailures, Stored
<1> QED BY <1>1, <1>2, <1>3

LEMMA NextInv == IndInv /\ [Next]_vars => IndInv'
<1> SUFFICES ASSUME IndInv, [Next]_vars PROVE IndInv'
  OBVIOUS
<1>1. ASSUME NEW s \in Sub, CreateSubscription(s) PROVE IndInv'
  BY <1>1, CreateInv
<1>2. ASSUME NEW s \in Sub, DeleteSubscription(s) \/ AdminCancelSubscription(s)
      PROVE  IndInv'
  BY <1>2, DeleteInv DEF DeleteSubscription, AdminCancelSubscription
<1>3. CASE SendToAllSubscriptions
  BY <1>3, FanOutInv
<1>4. CASE DropSubscriptions
  BY <1>4, DropInv
<1>5. ASSUME NEW t \in tasks, TaskStep(t) PROVE IndInv'
  <2>1. CASE PostSucceeds(t)         BY <2>1, PostSucceedsInv
  <2>2. CASE PostFails(t)            BY <2>2, PostFailsInv
  <2>3. CASE BackoffElapses(t)       BY <2>3, BackoffElapsesInv
  <2>4. CASE RecordSuccess(t)        BY <2>4, RecordSuccessInv
  <2>5. CASE RecordSuccessRaises(t)  BY <2>5, RecordSuccessRaisesInv
  <2>6. CASE RecordFailure(t)        BY <2>6, RecordFailureInv
  <2>7. CASE RecordFailureRaises(t)
    BY <2>7, TasksLostInv DEF RecordFailureRaises, Ends
  <2> QED BY <1>5, <2>1, <2>2, <2>3, <2>4, <2>5, <2>6, <2>7 DEF TaskStep
<1>6. CASE Restart
  BY <1>6, TasksLostInv DEF Restart
<1>7. CASE UNCHANGED vars
  BY <1>7, TasksLostInv DEF vars
<1> QED BY <1>1, <1>2, <1>3, <1>4, <1>5, <1>6, <1>7 DEF Next

-----------------------------------------------------------------------------
(* The theorems.                                                           *)

\* The inductive invariant of the delivery tasks and the documents they write.
THEOREM Inductive == Spec => []IndInv
<1> QED BY InitInv, NextInv, PTL DEF Spec

\* Every variable keeps its type.
THEOREM TypeCorrect == Spec => []TypeOK
<1>1. IndInv => TypeOK
  BY DEF IndInv
<1> QED BY <1>1, Inductive, PTL

\* What running tasks hold is bounded by what was counted, and is in step
\* with the document unless the subscription is stale.
THEOREM TasksStayInStep == Spec => []TasksInStep
<1>1. IndInv => TasksInStep
  BY DEF IndInv
<1> QED BY <1>1, Inductive, PTL

\* However the tasks of a subscription interleave, its document is failing
\* exactly when it carries a count, and the count stays below the limit.
THEOREM FailingMeansCounted == Spec => []FailingIffCounted
<1>1. IndInv => FailingIffCounted
  BY DEF IndInv
<1> QED BY <1>1, Inductive, PTL

\* Without overlapping tasks, failure_count is the number of consecutive
\* failed deliveries.
THEOREM CountsConsecutiveFailures == Spec => []CountIsStreak
<1>1. IndInv => CountIsStreak
  BY DEF IndInv
<1> QED BY <1>1, Inductive, PTL

\* No interleaving removes a subscription for failures it did not have.
THEOREM NeverGivesUpEarly == Spec => []GaveUpAfterFailures
<1>1. IndInv => GaveUpAfterFailures
  BY DEF IndInv
<1> QED BY <1>1, Inductive, PTL

\* A task that outlives its subscription never brings the document back:
\* every write of a task is filtered on a document that exists.
THEOREM RemovedStaysRemoved == Spec => NoResurrection
<1>1. ASSUME TypeOK, [Next]_vars
      PROVE  \A s \in Sub : status[s] = "removed" => status'[s] = "removed"
  <2> SUFFICES ASSUME NEW s \in Sub, status[s] = "removed"
               PROVE  status'[s] = "removed"
    OBVIOUS
  <2> USE <1>1 DEF TypeOK
  <2>1. ASSUME NEW x \in Sub, CreateSubscription(x)
        PROVE  status'[s] = "removed"
    BY <2>1 DEF CreateSubscription
  <2>2. ASSUME NEW x \in Sub, DeleteOne(x) PROVE status'[s] = "removed"
    BY <2>2 DEF DeleteOne
  <2>3. CASE SendToAllSubscriptions
    BY <2>3 DEF SendToAllSubscriptions, stored
  <2>4. CASE DropSubscriptions
    BY <2>4 DEF DropSubscriptions
  <2>5. ASSUME NEW t \in tasks, TaskStep(t) PROVE status'[s] = "removed"
    <3>1. CASE PostSucceeds(t) \/ PostFails(t) \/ BackoffElapses(t)
      BY <3>1 DEF PostSucceeds, PostFails, BackoffElapses, stored
    <3>2. CASE RecordSuccess(t) \/ RecordSuccessRaises(t)
      BY <3>2 DEF RecordSuccess, RecordSuccessRaises, MarkActive, Stored, stored
    <3>3. CASE RecordFailure(t) \/ RecordFailureRaises(t)
      BY <3>3 DEF RecordFailure, RecordFailureRaises, MarkFailing, Stored, stored
    <3> QED BY <2>5, <3>1, <3>2, <3>3 DEF TaskStep
  <2>6. CASE Restart
    BY <2>6 DEF Restart, stored
  <2>7. CASE UNCHANGED vars
    BY <2>7 DEF vars, stored
  <2> QED BY <2>1, <2>2, <2>3, <2>4, <2>5, <2>6, <2>7
          DEF Next, DeleteSubscription, AdminCancelSubscription
<1>2. TypeOK /\ [Next]_vars
        => [\A s \in Sub : status[s] = "removed" => status'[s] = "removed"]_vars
  BY <1>1
<1> QED BY <1>2, TypeCorrect, PTL DEF Spec, NoResurrection

=============================================================================
