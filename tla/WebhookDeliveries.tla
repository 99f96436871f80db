-------------------------- MODULE WebhookDeliveries --------------------------
(***************************************************************************)
(* Webhook subscriptions and deliveries of the API (WebhooksService and    *)
(* its two PostgreSQL repositories).  A stream event is fanned out to the  *)
(* matching subscriptions: one delivery row each, and a first attempt in   *)
(* the background.  A sweep on a timer re-attempts the pending rows whose  *)
(* time has come, and the owner of a webhook may requeue a delivery.       *)
(*                                                                         *)
(* An action is the code between two awaits, with the one SQL statement it *)
(* issues.  Nothing excludes two attempts of one delivery: the first one,  *)
(* and those of sweeps that overlap, may all be under way together, each   *)
(* with the attempt count it read before.  A statement may fail, or take   *)
(* effect and report failure; the API may crash and come back.             *)
(*                                                                         *)
(* All subscriptions are of one stream.  Ids are given out in order and    *)
(* never reused, so the order of created_at is the order of the ids.       *)
(***************************************************************************)
EXTENDS Integers, FiniteSets

CONSTANTS
  Subs,            \* ids of subscriptions
  Events,          \* stream lifecycle events
  Dispatches,      \* concurrent runs of dispatchStreamEvent
  Sweeps,          \* concurrent runs of sweepRetries
  MaxRetries,      \* MAX_RETRIES
  BatchSize,       \* RETRY_SWEEP_BATCH_SIZE
  MaxDeliveries,   \* bound: delivery rows
  MaxChanges,      \* bound: updates and manual retries by owners
  MaxFaults        \* bound: statements that report failure, and crashes

ASSUME SubsAssumption   == Subs # {}
ASSUME SweepsAssumption == IsFiniteSet(Sweeps) /\ \A w \in Sweeps : w \notin Nat
ASSUME BudgetAssumption == MaxRetries \in Nat
ASSUME BatchAssumption  == BatchSize \in Nat \ {0}
ASSUME BoundsAssumption == /\ MaxDeliveries \in Nat /\ MaxChanges \in Nat
                           /\ MaxFaults \in Nat

Deliveries == 1..MaxDeliveries

\* Who runs attemptDelivery: the first attempt of each delivery, and the sweeps.
Callers == Deliveries \cup Sweeps

VARIABLES
  subs,        \* subs[s]: "unused", "active", "inactive" or "deleted"
  events,      \* events[s]: the events subscription s lists
  created,     \* the last delivery id given out
  target,      \* target[d]: webhook_subscription_id
  status,      \* status[d]; "none" when there is no such row
  count,       \* count[d]: attempt_count
  due,         \* due[d]: next_attempt_at is "null", "later" or "now"
  delivered,   \* delivered[d]: delivered_at is set
  fanout,      \* fanout[r]: subscriptions dispatch r still has to serve
  batch,       \* batch[w]: the rows sweep w has read and not reached yet
  attempt,     \* attempt[c]: the attempt caller c is making
  retrying,    \* deliveries that retryDelivery has checked and not requeued yet
  changes,     \* updates and manual retries so far
  faults,      \* failed statements and crashes so far
  posts,       \* history: POSTs of d that have ended, less those whose outcome
               \* was lost to a fault
  answered     \* history: deliveries for which a 2xx answer has arrived

rows    == <<target, status, count, due, delivered>>
running == <<fanout, batch, attempt, retrying>>
spent   == <<changes, faults>>
history == <<posts, answered>>
vars    == <<subs, events, created, rows, running, spent, history>>

\* A row as a sweep reads it: its id and the attempt count at that time.
Snapshots == [id : Deliveries, seen : Nat]

NoAttempt == [id |-> 0, seen |-> 0, step |-> "none", ok |-> FALSE]

\* "post": fetch() is under way; "record": the outcome ok is being written;
\* "catch": the failure is being written by the catch block.
AttemptType == [id : Deliveries, seen : Nat, step : {"post", "record", "catch"},
                ok : BOOLEAN] \cup {NoAttempt}

TypeOK ==
  /\ subs \in [Subs -> {"unused", "active", "inactive", "deleted"}]
  /\ events \in [Subs -> SUBSET Events]
  /\ created \in 0..MaxDeliveries
  /\ target \in [Deliveries -> Subs]
  /\ status \in [Deliveries -> {"none", "pending", "success", "failed"}]
  /\ count \in [Deliveries -> Nat]
  /\ due \in [Deliveries -> {"null", "later", "now"}]
  /\ delivered \in [Deliveries -> BOOLEAN]
  /\ fanout \in [Dispatches -> SUBSET Subs]
  /\ batch \in [Sweeps -> SUBSET Snapshots]
  /\ attempt \in [Callers -> AttemptType]
  /\ retrying \in SUBSET Deliveries
  /\ changes \in 0..MaxChanges
  /\ faults \in 0..MaxFaults
  /\ posts \in [Deliveries -> Int]
  /\ answered \in SUBSET Deliveries

Init ==
  /\ subs = [s \in Subs |-> "unused"] /\ events = [s \in Subs |-> {}]
  /\ created = 0
  /\ target = [d \in Deliveries |-> CHOOSE s \in Subs : TRUE]
  /\ status = [d \in Deliveries |-> "none"]
  /\ count = [d \in Deliveries |-> 0]
  /\ due = [d \in Deliveries |-> "null"]
  /\ delivered = [d \in Deliveries |-> FALSE]
  /\ fanout = [r \in Dispatches |-> {}]
  /\ batch = [w \in Sweeps |-> {}]
  /\ attempt = [c \in Callers |-> NoAttempt]
  /\ retrying = {}
  /\ changes = 0 /\ faults = 0
  /\ posts = [d \in Deliveries |-> 0]
  /\ answered = {}

Exists(s) == subs[s] \in {"active", "inactive"}
Row(d)    == status[d] # "none"

-----------------------------------------------------------------------------
(* Subscriptions *)

\* register: the row starts active, whatever events it lists.
Register(s, evs) ==
  /\ subs[s] = "unused"
  /\ subs' = [subs EXCEPT ![s] = "active"]
  /\ events' = [events EXCEPT ![s] = evs]
  /\ UNCHANGED <<created, rows, running, spent, history>>

\* One of the owners' changes of the bound.
Change ==
  /\ changes < MaxChanges
  /\ changes' = changes + 1
  /\ UNCHANGED faults

\* update: any of the fields; a subscription deleted meanwhile is a 404.
Update(s, evs, to) ==
  /\ Change
  /\ Exists(s)
  /\ subs' = [subs EXCEPT ![s] = to]
  /\ events' = [events EXCEPT ![s] = evs]
  /\ UNCHANGED <<created, rows, running, history>>

\* delete: the deliveries of the subscription go with it (ON DELETE CASCADE).
Delete(s) ==
  /\ Exists(s)
  /\ subs' = [subs EXCEPT ![s] = "deleted"]
  /\ LET Gone == {d \in Deliveries : Row(d) /\ target[d] = s} IN
     /\ status' = [d \in Deliveries |-> IF d \in Gone THEN "none" ELSE status[d]]
     /\ due' = [d \in Deliveries |-> IF d \in Gone THEN "null" ELSE due[d]]
  /\ UNCHANGED <<events, created, target, count, delivered, running, spent,
                 history>>

-----------------------------------------------------------------------------
(* Fan-out *)

\* findActiveByStreamAndEvent
Matching(e) == {s \in Subs : subs[s] = "active" /\ e \in events[s]}

\* dispatchStreamEvent reads the matching subscriptions.
DispatchStreamEvent(r, e) ==
  /\ fanout[r] = {}
  /\ created < MaxDeliveries
  /\ Matching(e) # {}
  /\ fanout' = [fanout EXCEPT ![r] = Matching(e)]
  /\ UNCHANGED <<subs, events, created, rows, batch, attempt, retrying, spent,
                 history>>

\* Mutant: a new row has no next_attempt_at.
InsertUnscheduled(d, s) ==
  /\ created' = d
  /\ target' = [target EXCEPT ![d] = s]
  /\ status' = [status EXCEPT ![d] = "pending"]
  /\ UNCHANGED <<count, due, delivered>>

\* INSERT of a delivery: pending, no attempts, due at once.
Insert(d, s) ==
  /\ created' = d
  /\ target' = [target EXCEPT ![d] = s]
  /\ status' = [status EXCEPT ![d] = "pending"]
  /\ due' = [due EXCEPT ![d] = "now"]
  /\ UNCHANGED <<count, delivered>>

\* attemptDelivery begins: caller c posts delivery d, which had n attempts when
\* it was read.
Begin(c, d, n) ==
  attempt' = [attempt EXCEPT ![c] = [id |-> d, seen |-> n, step |-> "post",
                                     ok |-> FALSE]]

\* The loop of dispatchStreamEvent logs a delivery to s and starts its first
\* attempt without waiting for it.
CreateDelivery(r, s) ==
  LET d == created + 1 IN
  /\ s \in fanout[r]
  /\ Exists(s)
  /\ d <= MaxDeliveries
  /\ Insert(d, s)
  /\ Begin(d, d, 0)
  /\ fanout' = [fanout EXCEPT ![r] = @ \ {s}]
  /\ UNCHANGED <<subs, events, batch, retrying, spent, history>>

\* Subscription s was deleted since it was read: the INSERT breaks the foreign
\* key, and the exception ends the loop.
CreateRefused(r, s) ==
  /\ s \in fanout[r]
  /\ ~ Exists(s)
  /\ fanout' = [fanout EXCEPT ![r] = {}]
  /\ UNCHANGED <<subs, events, created, rows, batch, attempt, retrying, spent,
                 history>>

\* One of the faults of the bound happens.
Fault ==
  /\ faults < MaxFaults
  /\ faults' = faults + 1
  /\ UNCHANGED changes

\* The INSERT reports failure, applied or not; the exception ends the loop.
CreateFails(r, s, applied) ==
  LET d == created + 1 IN
  /\ s \in fanout[r]
  /\ Exists(s)
  /\ d <= MaxDeliveries
  /\ Fault
  /\ IF applied THEN Insert(d, s) ELSE UNCHANGED <<created, rows>>
  /\ fanout' = [fanout EXCEPT ![r] = {}]
  /\ UNCHANGED <<subs, events, batch, attempt, retrying, history>>

-----------------------------------------------------------------------------
(* Attempts *)

\* Caller c goes on to another step of its attempt.
GoOn(c, step, ok) ==
  attempt' = [attempt EXCEPT ![c] = [id |-> attempt[c].id, seen |-> attempt[c].seen,
                                     step |-> step, ok |-> ok]]

\* The answer to the POST of caller c has arrived, with a 2xx status (ok) or
\* another one.
PostAnswered(c, ok) ==
  /\ attempt[c].step = "post"
  /\ GoOn(c, "record", ok)
  /\ posts' = [posts EXCEPT ![attempt[c].id] = @ + 1]
  /\ answered' = IF ok THEN answered \cup {attempt[c].id} ELSE answered
  /\ UNCHANGED <<subs, events, created, rows, fanout, batch, retrying, spent>>

\* fetch() or text() throws: timeout, refused connection, broken answer.
PostThrows(c) ==
  /\ attempt[c].step = "post"
  /\ GoOn(c, "catch", FALSE)
  /\ posts' = [posts EXCEPT ![attempt[c].id] = @ + 1]
  /\ UNCHANGED <<subs, events, created, rows, fanout, batch, retrying, spent, answered>>

\* Mutant: the budget is spent one attempt early.
NextAttemptEarly(n) == IF n >= MaxRetries THEN "null" ELSE "later"

\* Mutant: one retry more than RETRY_DELAYS_MS has delays, an Invalid Date.
NextAttemptPastEnd(n) ==
  IF n - 1 > MaxRetries THEN "null"
  ELSE IF n - 1 = MaxRetries THEN "invalid" ELSE "later"

\* nextAttemptAfter(n): n attempts have been made, counting this one.
NextAttemptAfter(n) == IF n - 1 >= MaxRetries THEN "null" ELSE "later"

\* Mutant: attempt_count is written from the row that was read.
CountFromSnapshot(c) == attempt[c].seen + 1

\* attempt_count = attempt_count + 1, in the statement itself.
CountAfter(c) == count[attempt[c].id] + 1

\* Mutant: delivered_at is cleared by a failure.
DeliveredAnew(c, ok) == ok

\* delivered_at = CASE WHEN success THEN now ELSE delivered_at END
DeliveredAfter(c, ok) == ok \/ delivered[attempt[c].id]

\* Mutant: success is recorded for any answer.
StatusAnyAnswer(c, ok, next) ==
  IF attempt[c].step = "record" THEN "success"
  ELSE IF next = "null" THEN "failed" ELSE "pending"

\* The status recordAttempt derives from the outcome and the next attempt.
StatusAfter(c, ok, next) ==
  IF ok THEN "success" ELSE IF next = "null" THEN "failed" ELSE "pending"

\* recordAttempt: the UPDATE has no condition but the id; the next attempt
\* follows from the count that was read before the POST.
RecordAttempt(c, ok) ==
  LET d    == attempt[c].id
      next == IF ok THEN "null" ELSE NextAttemptAfter(attempt[c].seen + 1)
  IN IF Row(d)
     THEN /\ count' = [count EXCEPT ![d] = CountAfter(c)]
          /\ due' = [due EXCEPT ![d] = next]
          /\ status' = [status EXCEPT ![d] = StatusAfter(c, ok, next)]
          /\ delivered' = [delivered EXCEPT ![d] = DeliveredAfter(c, ok)]
          /\ UNCHANGED target
     ELSE UNCHANGED rows

\* The outcome of caller c's attempt is recorded and attemptDelivery returns.
AttemptEnds(c) ==
  /\ attempt[c].step \in {"record", "catch"}
  /\ RecordAttempt(c, attempt[c].step = "record" /\ attempt[c].ok)
  /\ attempt' = [attempt EXCEPT ![c] = NoAttempt]
  /\ UNCHANGED <<subs, events, created, fanout, batch, retrying, spent, history>>

\* The write in the try block reports failure, applied or not: the catch block
\* records the attempt as failed.
RecordFails(c, applied) ==
  /\ attempt[c].step = "record"
  /\ Fault
  /\ IF applied THEN RecordAttempt(c, attempt[c].ok) ELSE UNCHANGED rows
  /\ GoOn(c, "catch", attempt[c].ok)
  /\ UNCHANGED <<subs, events, created, fanout, batch, retrying, history>>

\* The write in the catch block reports failure: attemptDelivery throws.  A
\* first attempt is logged; a sweep ends there, with the rest of its batch.
CatchFails(c, applied) ==
  /\ attempt[c].step = "catch"
  /\ Fault
  /\ IF applied THEN RecordAttempt(c, FALSE) /\ UNCHANGED posts
     ELSE /\ posts' = [posts EXCEPT ![attempt[c].id] = @ - 1]
          /\ UNCHANGED rows
  /\ attempt' = [attempt EXCEPT ![c] = NoAttempt]
  /\ batch' = [w \in Sweeps |-> IF w = c THEN {} ELSE batch[w]]
  /\ UNCHANGED <<subs, events, created, fanout, retrying, answered>>

-----------------------------------------------------------------------------
(* The retry sweep *)

Due == {d \in Deliveries : status[d] = "pending" /\ due[d] = "now"}

\* findDuePending: the oldest BatchSize rows that are due.
FindDuePending == {d \in Due : Cardinality({x \in Due : x < d}) < BatchSize}

\* The interval fires; an earlier sweep may still be running.
StartSweep(w) ==
  /\ batch[w] = {} /\ attempt[w] = NoAttempt
  /\ Due # {}
  /\ batch' = [batch EXCEPT ![w] = {[id |-> d, seen |-> count[d]] :
                                       d \in FindDuePending}]
  /\ UNCHANGED <<subs, events, created, rows, fanout, attempt, retrying, spent,
                 history>>

\* The sweep comes to its next row, oldest first, and reads the subscription
\* anew: a deleted or inactive one is skipped.
SweepNext(w, x) ==
  /\ attempt[w] = NoAttempt
  /\ x \in batch[w]
  /\ \A y \in batch[w] : x.id <= y.id
  /\ batch' = [batch EXCEPT ![w] = @ \ {x}]
  /\ IF subs[target[x.id]] = "active" THEN Begin(w, x.id, x.seen)
     ELSE UNCHANGED attempt
  /\ UNCHANGED <<subs, events, created, rows, fanout, retrying, spent, history>>

\* Reading the subscription fails: the exception ends the sweep.
SweepFails(w) ==
  /\ attempt[w] = NoAttempt /\ batch[w] # {}
  /\ Fault
  /\ batch' = [batch EXCEPT ![w] = {}]
  /\ UNCHANGED <<subs, events, created, rows, fanout, attempt, retrying, history>>

\* The back-off of delivery d is over.
Elapse(d) ==
  /\ due[d] = "later"
  /\ due' = [due EXCEPT ![d] = "now"]
  /\ UNCHANGED <<subs, events, created, target, status, count, delivered, running,
                 spent, history>>

-----------------------------------------------------------------------------
(* Manual retries and crashes *)

\* retryDelivery reads the delivery and refuses one that has succeeded.
CheckRetry(d) ==
  /\ Change
  /\ d \notin retrying
  /\ status[d] \in {"pending", "failed"}
  /\ retrying' = retrying \cup {d}
  /\ UNCHANGED <<subs, events, created, rows, fanout, batch, attempt, history>>

\* Mutant: the status is set and next_attempt_at forgotten.
ScheduleNot(d) == due[d]

\* next_attempt_at of a requeued delivery.
ScheduleNow(d) == "now"

\* requeue: pending and due at once, whatever the row is by now.
Requeue(d) ==
  /\ d \in retrying
  /\ retrying' = retrying \ {d}
  /\ IF Row(d)
     THEN /\ status' = [status EXCEPT ![d] = "pending"]
          /\ due' = [due EXCEPT ![d] = ScheduleNow(d)]
          /\ UNCHANGED <<target, count, delivered>>
     ELSE UNCHANGED rows
  /\ UNCHANGED <<subs, events, created, fanout, batch, attempt, spent, history>>

\* POSTs of d whose outcome is still to be written.
Unwritten(d) == {c \in Callers : attempt[c].id = d /\ attempt[c].step # "post"}

\* The API goes down with all it was doing; the tables stay.
Crash ==
  /\ Fault
  /\ fanout' = [r \in Dispatches |-> {}]
  /\ batch' = [w \in Sweeps |-> {}]
  /\ attempt' = [c \in Callers |-> NoAttempt]
  /\ retrying' = {}
  /\ posts' = [d \in Deliveries |-> posts[d] - Cardinality(Unwritten(d))]
  /\ UNCHANGED <<subs, events, created, rows, answered>>

-----------------------------------------------------------------------------

Owner ==
  \/ \E s \in Subs, evs \in SUBSET Events :
       \/ Register(s, evs)
       \/ \E to \in {"active", "inactive"} : Update(s, evs, to)
  \/ \E s \in Subs : Delete(s)
  \/ \E d \in Deliveries : CheckRetry(d) \/ Requeue(d)

FanOut ==
  \/ \E r \in Dispatches, e \in Events : DispatchStreamEvent(r, e)
  \/ \E r \in Dispatches, s \in Subs :
       \/ CreateDelivery(r, s)
       \/ CreateRefused(r, s)
       \/ \E applied \in BOOLEAN : CreateFails(r, s, applied)

PostEnds(c) == (\E ok \in BOOLEAN : PostAnswered(c, ok)) \/ PostThrows(c)

Attempt ==
  \E c \in Callers :
    \/ PostEnds(c)
    \/ AttemptEnds(c)
    \/ \E applied \in BOOLEAN : RecordFails(c, applied) \/ CatchFails(c, applied)

SweepOn(w) == \E x \in batch[w] : SweepNext(w, x)

Sweep == \E w \in Sweeps : StartSweep(w) \/ SweepOn(w) \/ SweepFails(w)

Next ==
  \/ Owner
  \/ FanOut
  \/ Attempt
  \/ Sweep
  \/ \E d \in Deliveries : Elapse(d)
  \/ Crash

Spec == Init /\ [][Next]_vars

\* The code and the runtime go on: fetch() is bounded by its timeout, statements
\* end, the interval keeps firing, back-offs elapse.  Nothing obliges an owner to
\* act, a receiver to answer 2xx, or a fault to happen.
Fairness ==
  /\ \A c \in Callers : WF_vars(PostEnds(c)) /\ WF_vars(AttemptEnds(c))
  /\ \A w \in Sweeps : WF_vars(StartSweep(w)) /\ WF_vars(SweepOn(w))
  /\ \A d \in Deliveries : WF_vars(Elapse(d))

FairSpec == Spec /\ Fairness

-----------------------------------------------------------------------------
(* Properties *)

\* A delivery becomes failed only after the first attempt and MAX_RETRIES retries
\* have been counted, however stale the attempt count was from which the last
\* attempt derived its verdict.
FailedMeansExhausted ==
  \A d \in Deliveries : status[d] = "failed" => count[d] > MaxRetries

\* A delivery is marked success, or carries a delivered_at, only if its receiver
\* has answered one of its POSTs with 2xx.
SuccessIsReal ==
  \A d \in Deliveries :
    /\ delivered[d] => d \in answered
    /\ status[d] = "success" => delivered[d]

\* Overlapping attempts lose no increment of attempt_count: every POST that has
\* ended is counted, is about to be written, or was lost to a crash or to a
\* statement that failed.
AttemptsAreCounted ==
  \A d \in Deliveries :
    Row(d) => posts[d] <= count[d] + Cardinality(Unwritten(d))

\* Unless the database or the process fails, a 2xx answer is not forgotten:
\* delivered_at is set, or is being written, although a late failure of another
\* attempt may have put the status back to pending.
AnswersAreRecorded ==
  faults = 0 =>
    \A d \in answered :
      Row(d) => \/ delivered[d]
                \/ \E c \in Unwritten(d) : attempt[c].ok

\* The sweep can reach every pending row, and only those: a pending delivery has
\* a next_attempt_at and a settled one has none.
PendingIsScheduled ==
  \A d \in Deliveries : Row(d) => (status[d] = "pending" <=> due[d] # "null")

\* A pending delivery is settled in the end, as success or as failed, or its
\* subscription is deactivated or deleted: crashes, failed statements, skipped
\* rows and overlapping attempts leave none behind.
DeliverySettles ==
  \A d \in Deliveries :
    status[d] = "pending" ~>
      status[d] \in {"success", "failed", "none"} \/ subs[target[d]] # "active"
=============================================================================
