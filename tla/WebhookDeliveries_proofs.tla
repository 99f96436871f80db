---------------------- MODULE WebhookDeliveries_proofs ----------------------
(***************************************************************************)
(* Proofs about WebhookDeliveries, for any number of subscriptions,        *)
(* deliveries, overlapping sweeps and dispatches, and any retry budget:    *)
(* how a delivery ends, that a pending one stays within reach of the       *)
(* sweep, how its attempts are counted, and what can reopen it.            *)
(***************************************************************************)
EXTENDS WebhookDeliveries, FiniteSetTheorems, TLAPS

\* The attempt count an attempt or a sweep has read is never ahead of the row:
\* attempt_count only grows.
SeenNotAhead ==
  /\ \A c \in Callers :
       attempt[c] # NoAttempt => attempt[c].seen <= count[attempt[c].id]
  /\ \A w \in Sweeps : \A x \in batch[w] : x.seen <= count[x.id]

\* A first attempt is an attempt of the delivery it was started for.
FirstAttemptsAreOwn ==
  \A d \in Deliveries : attempt[d] # NoAttempt => attempt[d].id = d

\* Everything that names a delivery names one that has been created.
IdsAreCreated ==
  /\ \A c \in Callers : attempt[c] # NoAttempt => attempt[c].id <= created
  /\ \A w \in Sweeps : \A x \in batch[w] : x.id <= created
  /\ \A d \in Deliveries : Row(d) => d <= created
  /\ \A d \in answered : d <= created

\* An attempt that holds a success has had its answer, and without a fault it
\* writes that success before anything else.
OkIsAnswered ==
  \A c \in Callers :
    attempt[c].ok => /\ attempt[c].id \in answered
                     /\ attempt[c].step \in {"record", "catch"}
                     /\ attempt[c].step = "catch" => faults > 0

IInv ==
  /\ TypeOK
  /\ SeenNotAhead
  /\ FirstAttemptsAreOwn
  /\ IdsAreCreated
  /\ OkIsAnswered
  /\ FailedMeansExhausted
  /\ SuccessIsReal
  /\ AnswersAreRecorded
  /\ PendingIsScheduled

Parts == /\ SeenNotAhead /\ FirstAttemptsAreOwn /\ IdsAreCreated /\ OkIsAnswered
         /\ FailedMeansExhausted /\ SuccessIsReal /\ AnswersAreRecorded
         /\ PendingIsScheduled

-----------------------------------------------------------------------------
(* Lemmas *)

\* What the record of a caller that makes an attempt holds.
LEMMA AttemptFacts ==
  ASSUME TypeOK, NEW c \in Callers, attempt[c].step # "none"
  PROVE  /\ attempt[c] # NoAttempt
         /\ attempt[c] \in [id : Deliveries, seen : Nat,
                            step : {"post", "record", "catch"}, ok : BOOLEAN]
         /\ attempt[c].id \in Deliveries
         /\ attempt[c].seen \in Nat
         /\ attempt[c].ok \in BOOLEAN
<1>1. attempt[c] \in AttemptType
  BY DEF TypeOK
<1>2. attempt[c] # NoAttempt
  BY DEF NoAttempt
<1> QED
  BY <1>1, <1>2 DEF AttemptType

\* A step that leaves the rows, the attempts and the answers alone preserves all
\* parts of the invariant but the types.
LEMMA Quiet ==
  ASSUME IInv, UNCHANGED <<created, rows, batch, attempt, faults, answered>>
  PROVE  Parts'
<1>1. UNCHANGED <<created, target, status, count, due, delivered, batch, attempt,
                  faults, answered>>
  BY DEF rows
<1>2. SeenNotAhead' /\ FirstAttemptsAreOwn' /\ IdsAreCreated' /\ OkIsAnswered'
  BY <1>1 DEF IInv, SeenNotAhead, FirstAttemptsAreOwn, IdsAreCreated, OkIsAnswered, Row
<1>3. FailedMeansExhausted' /\ SuccessIsReal' /\ PendingIsScheduled'
  BY <1>1 DEF IInv, FailedMeansExhausted, SuccessIsReal, PendingIsScheduled, Row
<1>4. AnswersAreRecorded'
  BY <1>1 DEF IInv, AnswersAreRecorded, Unwritten, Row
<1> QED
  BY <1>2, <1>3, <1>4 DEF Parts

\* What a step of recordAttempt does to the rows.
LEMMA RecordFacts ==
  ASSUME IInv, NEW c \in Callers, attempt[c].step # "none", NEW ok \in BOOLEAN,
         ok => attempt[c].id \in answered, RecordAttempt(c, ok)
  PROVE  /\ target' \in [Deliveries -> Subs]
         /\ status' \in [Deliveries -> {"none", "pending", "success", "failed"}]
         /\ count' \in [Deliveries -> Nat]
         /\ due' \in [Deliveries -> {"null", "later", "now"}]
         /\ delivered' \in [Deliveries -> BOOLEAN]
         /\ \A d \in Deliveries : count[d] <= count'[d]
         /\ \A d \in Deliveries : (status'[d] = "none") <=> (status[d] = "none")
         /\ \A d \in Deliveries : delivered[d] => delivered'[d]
         /\ \A d \in Deliveries : delivered'[d] => d \in answered
         /\ \A d \in Deliveries : status'[d] = "success" => delivered'[d]
         /\ ok /\ Row(attempt[c].id) => delivered'[attempt[c].id]
         /\ FailedMeansExhausted'
         /\ PendingIsScheduled'
<1> DEFINE d == attempt[c].id
           next == IF ok THEN "null" ELSE NextAttemptAfter(attempt[c].seen + 1)
<1>0. /\ d \in Deliveries /\ attempt[c].seen \in Nat /\ attempt[c].seen <= count[d]
      /\ status \in [Deliveries -> {"none", "pending", "success", "failed"}]
      /\ count \in [Deliveries -> Nat]
      /\ due \in [Deliveries -> {"null", "later", "now"}]
      /\ delivered \in [Deliveries -> BOOLEAN]
      /\ target \in [Deliveries -> Subs]
  BY AttemptFacts DEF IInv, TypeOK, SeenNotAhead
<1>1. CASE ~ Row(d)
  <2>1. UNCHANGED <<target, status, count, due, delivered>>
    BY <1>1 DEF RecordAttempt, rows
  <2>2. FailedMeansExhausted' /\ PendingIsScheduled'
    BY <2>1 DEF IInv, FailedMeansExhausted, PendingIsScheduled, Row
  <2>3. /\ \A x \in Deliveries : delivered'[x] => x \in answered
        /\ \A x \in Deliveries : status'[x] = "success" => delivered'[x]
    BY <2>1 DEF IInv, SuccessIsReal
  <2> QED
    BY <1>0, <1>1, <2>1, <2>2, <2>3
<1>2. CASE Row(d)
  <2>1. /\ count' = [count EXCEPT ![d] = count[d] + 1]
        /\ due' = [due EXCEPT ![d] = next]
        /\ status' = [status EXCEPT ![d] =
                        IF ok THEN "success"
                        ELSE IF next = "null" THEN "failed" ELSE "pending"]
        /\ delivered' = [delivered EXCEPT ![d] = ok \/ delivered[d]]
        /\ target' = target
    BY <1>2 DEF RecordAttempt, CountAfter, StatusAfter, DeliveredAfter
  <2>2. next \in {"null", "later"}
    BY DEF NextAttemptAfter
  <2>3. ~ ok /\ next = "null" => count[d] + 1 > MaxRetries
    BY <1>0, BudgetAssumption DEF NextAttemptAfter
  <2>4. /\ target' \in [Deliveries -> Subs]
        /\ status' \in [Deliveries -> {"none", "pending", "success", "failed"}]
        /\ count' \in [Deliveries -> Nat]
        /\ due' \in [Deliveries -> {"null", "later", "now"}]
        /\ \A x \in Deliveries : count[x] <= count'[x]
    BY <1>0, <2>1, <2>2
  <2>5. /\ delivered' \in [Deliveries -> BOOLEAN]
        /\ \A x \in Deliveries : delivered[x] => delivered'[x]
        /\ ok => delivered'[d]
    BY <1>0, <2>1
  <2>6. \A x \in Deliveries : (status'[x] = "none") <=> (status[x] = "none")
    BY <1>0, <1>2, <2>1 DEF Row
  <2>7. \A x \in Deliveries : delivered'[x] => x \in answered
    BY <1>0, <2>1 DEF IInv, SuccessIsReal
  <2>8. \A x \in Deliveries : status'[x] = "success" => delivered'[x]
    <3> TAKE x \in Deliveries
    <3>1. CASE x = d
      BY <1>0, <2>1, <2>2, <3>1
    <3>2. CASE x # d
      BY <1>0, <2>1, <3>2 DEF IInv, SuccessIsReal
    <3> QED BY <3>1, <3>2
  <2>9. FailedMeansExhausted'
    BY <1>0, <2>1, <2>3 DEF IInv, FailedMeansExhausted
  <2>10. PendingIsScheduled'
    BY <1>0, <2>1, <2>2 DEF IInv, PendingIsScheduled, Row
  <2> QED
    BY <2>4, <2>5, <2>6, <2>7, <2>8, <2>9, <2>10
<1> QED
  BY <1>1, <1>2

\* What the INSERT of a delivery does to the rows.
LEMMA InsertFacts ==
  ASSUME IInv, created + 1 <= MaxDeliveries, NEW s \in Subs, Insert(created + 1, s)
  PROVE  /\ created' \in 0..MaxDeliveries /\ created' = created + 1
         /\ created + 1 \in Deliveries
         /\ target' \in [Deliveries -> Subs]
         /\ status' \in [Deliveries -> {"none", "pending", "success", "failed"}]
         /\ due' \in [Deliveries -> {"null", "later", "now"}]
         /\ UNCHANGED <<count, delivered>>
         /\ \A d \in Deliveries : status'[d] # "none" => Row(d) \/ d = created + 1
         /\ \A d \in Deliveries : status'[d] = "success" => delivered[d]
         /\ created + 1 \notin answered
         /\ FailedMeansExhausted'
         /\ PendingIsScheduled'
<1>1. created \in Nat /\ created + 1 \in Deliveries
  BY BoundsAssumption DEF IInv, TypeOK, Deliveries
<1>2. /\ created' = created + 1
      /\ target' = [target EXCEPT ![created + 1] = s]
      /\ status' = [status EXCEPT ![created + 1] = "pending"]
      /\ due' = [due EXCEPT ![created + 1] = "now"]
      /\ UNCHANGED <<count, delivered>>
  BY DEF Insert
<1>3. /\ target \in [Deliveries -> Subs]
      /\ status \in [Deliveries -> {"none", "pending", "success", "failed"}]
      /\ due \in [Deliveries -> {"null", "later", "now"}]
  BY DEF IInv, TypeOK
<1>4. /\ target' \in [Deliveries -> Subs]
      /\ status' \in [Deliveries -> {"none", "pending", "success", "failed"}]
      /\ due' \in [Deliveries -> {"null", "later", "now"}]
      /\ \A d \in Deliveries : status'[d] # "none" => Row(d) \/ d = created + 1
  BY <1>1, <1>2, <1>3 DEF Row
<1>5. created' \in 0..MaxDeliveries
  BY <1>1, <1>2, BoundsAssumption
<1>6. \A d \in Deliveries : status'[d] = "success" => delivered[d]
  <2> TAKE d \in Deliveries
  <2>1. CASE d = created + 1
    BY <1>1, <1>2, <1>3, <2>1
  <2>2. CASE d # created + 1
    BY <1>1, <1>2, <1>3, <2>2 DEF IInv, SuccessIsReal
  <2> QED BY <2>1, <2>2
<1>7. created + 1 \notin answered
  BY <1>1 DEF IInv, IdsAreCreated
<1>8. FailedMeansExhausted'
  BY <1>1, <1>2, <1>3 DEF IInv, FailedMeansExhausted
<1>9. PendingIsScheduled'
  BY <1>1, <1>2, <1>3 DEF IInv, PendingIsScheduled, Row
<1> QED
  BY <1>1, <1>2, <1>4, <1>5, <1>6, <1>7, <1>8, <1>9

\* A step that changes the rows so that no count falls, no delivered_at is lost
\* and no row appears, and leaves attempts and answers alone or ends attempts,
\* preserves the bookkeeping of ids and counts.
LEMMA Bookkeeping ==
  ASSUME IInv, UNCHANGED <<created, answered>>,
         count' \in [Deliveries -> Nat],
         \A d \in Deliveries : count[d] <= count'[d],
         \A d \in Deliveries : status'[d] # "none" => Row(d),
         \A c \in Callers : \/ attempt'[c] = NoAttempt
                            \/ /\ attempt[c] # NoAttempt
                               /\ attempt'[c].id = attempt[c].id
                               /\ attempt'[c].seen = attempt[c].seen,
         \A w \in Sweeps : batch'[w] \subseteq batch[w]
  PROVE  SeenNotAhead' /\ FirstAttemptsAreOwn' /\ IdsAreCreated'
<1>1. /\ count \in [Deliveries -> Nat] /\ batch \in [Sweeps -> SUBSET Snapshots]
      /\ SeenNotAhead /\ IdsAreCreated
  BY DEF IInv, TypeOK
<1>2. ASSUME NEW c \in Callers, attempt'[c] # NoAttempt
      PROVE  /\ attempt'[c].seen <= count'[attempt'[c].id]
             /\ attempt'[c].id <= created'
  <2>1. /\ attempt[c] # NoAttempt
        /\ attempt'[c].id = attempt[c].id /\ attempt'[c].seen = attempt[c].seen
    BY <1>2
  <2>2. attempt[c].id \in Deliveries /\ attempt[c].seen \in Nat
    BY <2>1 DEF IInv, TypeOK, AttemptType
  <2>3. attempt[c].seen <= count[attempt[c].id] /\ attempt[c].id <= created
    BY <1>1, <2>1 DEF SeenNotAhead, IdsAreCreated
  <2> QED
    BY <1>1, <2>1, <2>2, <2>3
<1>3. ASSUME NEW w \in Sweeps, NEW x \in batch'[w]
      PROVE  x.seen <= count'[x.id] /\ x.id <= created'
  <2>1. x \in batch[w] /\ x.id \in Deliveries /\ x.seen \in Nat
    BY <1>1, <1>3 DEF Snapshots
  <2>2. x.seen <= count[x.id] /\ x.id <= created
    BY <1>1, <2>1 DEF SeenNotAhead, IdsAreCreated
  <2> QED
    BY <1>1, <2>1, <2>2
<1>4. /\ \A d \in Deliveries : status'[d] # "none" => d <= created'
      /\ \A d \in answered' : d <= created'
  BY <1>1 DEF IdsAreCreated, Row
<1>5. SeenNotAhead'
  BY <1>2, <1>3 DEF SeenNotAhead
<1>6. IdsAreCreated'
  BY <1>2, <1>3, <1>4 DEF IdsAreCreated, Row
<1>7. FirstAttemptsAreOwn'
  BY DEF IInv, FirstAttemptsAreOwn, Callers
<1> QED
  BY <1>5, <1>6, <1>7

-----------------------------------------------------------------------------
(* One lemma per group of actions *)

\* Owners' operations preserve the invariant.
LEMMA OwnerStep ==
  ASSUME IInv, Owner
  PROVE  IInv'
<1>0. TypeOK
  BY DEF IInv
<1>1. ASSUME NEW s \in Subs, NEW evs \in SUBSET Events, Register(s, evs)
      PROVE  IInv'
  <2>1. TypeOK'
    BY <1>0, <1>1 DEF TypeOK, Register, rows, running, spent, history
  <2>2. Parts'
    BY <1>1, Quiet DEF Register, running, spent, history
  <2> QED BY <2>1, <2>2 DEF IInv, Parts
<1>2. ASSUME NEW s \in Subs, NEW evs \in SUBSET Events,
             NEW to \in {"active", "inactive"}, Update(s, evs, to)
      PROVE  IInv'
  <2>1. TypeOK'
    BY <1>0, <1>2, BoundsAssumption DEF TypeOK, Update, Change, rows, running, history
  <2>2. Parts'
    BY <1>2, Quiet DEF Update, Change, running, history
  <2> QED BY <2>1, <2>2 DEF IInv, Parts
<1>3. ASSUME NEW s \in Subs, Delete(s)
      PROVE  IInv'
  <2>1. TypeOK'
    BY <1>0, <1>3 DEF TypeOK, Delete, running, spent, history
  <2>2. /\ UNCHANGED <<created, count, delivered, batch, attempt, faults, answered>>
        /\ \A d \in Deliveries : \/ status'[d] = "none"
                                 \/ status'[d] = status[d] /\ due'[d] = due[d]
    BY <1>3 DEF Delete, running, spent, history
  <2>3. SeenNotAhead' /\ FirstAttemptsAreOwn' /\ IdsAreCreated' /\ OkIsAnswered'
    BY <2>2 DEF IInv, SeenNotAhead, FirstAttemptsAreOwn, IdsAreCreated, OkIsAnswered, Row
  <2>4. FailedMeansExhausted' /\ SuccessIsReal' /\ PendingIsScheduled'
    BY <2>2 DEF IInv, FailedMeansExhausted, SuccessIsReal, PendingIsScheduled, Row
  <2>5. AnswersAreRecorded'
    BY <1>0, <2>2 DEF IInv, TypeOK, AnswersAreRecorded, Unwritten, Row
  <2> QED BY <2>1, <2>3, <2>4, <2>5 DEF IInv
<1>4. ASSUME NEW d \in Deliveries, CheckRetry(d)
      PROVE  IInv'
  <2>1. TypeOK'
    BY <1>0, <1>4, BoundsAssumption DEF TypeOK, CheckRetry, Change, rows, history
  <2>2. Parts'
    BY <1>4, Quiet DEF CheckRetry, Change, history
  <2> QED BY <2>1, <2>2 DEF IInv, Parts
<1>5. ASSUME NEW d \in Deliveries, Requeue(d)
      PROVE  IInv'
  <2>1. CASE ~ Row(d)
    <3>1. TypeOK'
      BY <1>0, <1>5, <2>1 DEF TypeOK, Requeue, rows, spent, history
    <3>2. Parts'
      BY <1>5, <2>1, Quiet DEF Requeue, spent, history
    <3> QED BY <3>1, <3>2 DEF IInv, Parts
  <2>2. CASE Row(d)
    <3>1. /\ status' = [status EXCEPT ![d] = "pending"]
          /\ due' = [due EXCEPT ![d] = "now"]
          /\ UNCHANGED <<created, count, delivered, batch, attempt, faults, answered>>
      BY <1>5, <2>2 DEF Requeue, ScheduleNow, spent, history
    <3>2. TypeOK'
      BY <1>0, <1>5, <2>2, <3>1 DEF TypeOK, Requeue, spent, history
    <3>3. SeenNotAhead' /\ FirstAttemptsAreOwn' /\ IdsAreCreated' /\ OkIsAnswered'
      BY <1>0, <2>2, <3>1
      DEF TypeOK, IInv, SeenNotAhead, FirstAttemptsAreOwn, IdsAreCreated,
          OkIsAnswered, Row
    <3>4. FailedMeansExhausted' /\ PendingIsScheduled'
      BY <1>0, <3>1 DEF TypeOK, IInv, FailedMeansExhausted, PendingIsScheduled, Row
    <3>5. SuccessIsReal'
      BY <1>0, <3>1 DEF TypeOK, IInv, SuccessIsReal
    <3>6. AnswersAreRecorded'
      BY <1>0, <2>2, <3>1 DEF TypeOK, IInv, AnswersAreRecorded, Unwritten, Row
    <3> QED BY <3>2, <3>3, <3>4, <3>5, <3>6 DEF IInv
  <2> QED BY <2>1, <2>2
<1> QED
  BY <1>1, <1>2, <1>3, <1>4, <1>5 DEF Owner

\* Fan-out preserves the invariant.
LEMMA FanOutStep ==
  ASSUME IInv, FanOut
  PROVE  IInv'
<1>0. TypeOK
  BY DEF IInv
<1>1. ASSUME NEW r \in Dispatches, NEW e \in Events, DispatchStreamEvent(r, e)
      PROVE  IInv'
  <2>1. TypeOK'
    BY <1>0, <1>1 DEF TypeOK, DispatchStreamEvent, Matching, rows, spent, history
  <2>2. Parts'
    BY <1>1, Quiet DEF DispatchStreamEvent, spent, history
  <2> QED BY <2>1, <2>2 DEF IInv, Parts
<1>2. ASSUME NEW r \in Dispatches, NEW s \in Subs, CreateDelivery(r, s)
      PROVE  IInv'
  <2> DEFINE d == created + 1
  <2>1. /\ d <= MaxDeliveries /\ Insert(d, s)
        /\ attempt' = [attempt EXCEPT ![d] = [id |-> d, seen |-> 0, step |-> "post",
                                              ok |-> FALSE]]
        /\ fanout' = [fanout EXCEPT ![r] = @ \ {s}]
        /\ UNCHANGED <<subs, events, batch, retrying, changes, faults, posts, answered>>
    BY <1>2 DEF CreateDelivery, Begin, spent, history
  <2> HIDE DEF d
  <2>2. /\ created' \in 0..MaxDeliveries /\ created' = created + 1
        /\ d \in Deliveries /\ d \in Callers /\ d = created + 1
        /\ target' \in [Deliveries -> Subs]
        /\ status' \in [Deliveries -> {"none", "pending", "success", "failed"}]
        /\ due' \in [Deliveries -> {"null", "later", "now"}]
        /\ UNCHANGED <<count, delivered>>
        /\ \A x \in Deliveries : status'[x] # "none" => Row(x) \/ x = d
        /\ \A x \in Deliveries : status'[x] = "success" => delivered[x]
        /\ d \notin answered
        /\ FailedMeansExhausted'
        /\ PendingIsScheduled'
    BY <2>1, InsertFacts DEF d, Callers
  <2>3. attempt'[d] \in AttemptType /\ attempt' \in [Callers -> AttemptType]
    BY <1>0, <2>1, <2>2 DEF TypeOK, AttemptType
  <2>4. TypeOK'
    BY <1>0, <2>1, <2>2, <2>3 DEF TypeOK
  <2>5. \A c \in Callers : c # d => attempt'[c] = attempt[c]
    BY <1>0, <2>1 DEF TypeOK
  <2>6. attempt'[d] = [id |-> d, seen |-> 0, step |-> "post", ok |-> FALSE]
    BY <1>0, <2>1, <2>2 DEF TypeOK
  <2>7. SeenNotAhead'
    <3>1. 0 <= count[d]
      BY <1>0, <2>2 DEF TypeOK
    <3>2. ASSUME NEW c \in Callers, attempt'[c] # NoAttempt
          PROVE  attempt'[c].seen <= count'[attempt'[c].id]
      <4>1. CASE c = d
        BY <2>2, <2>6, <3>1, <4>1
      <4>2. CASE c # d
        BY <2>2, <2>5, <3>2, <4>2 DEF IInv, SeenNotAhead
      <4> QED BY <4>1, <4>2
    <3>3. \A w \in Sweeps : \A x \in batch'[w] : x.seen <= count'[x.id]
      BY <2>1, <2>2 DEF IInv, SeenNotAhead
    <3> QED BY <3>2, <3>3 DEF SeenNotAhead
  <2>8. IdsAreCreated'
    <3>0. created \in Nat /\ answered \subseteq Deliveries
      BY <1>0 DEF TypeOK
    <3>1. ASSUME NEW c \in Callers, attempt'[c] # NoAttempt
          PROVE  attempt'[c].id <= created'
      <4>1. CASE c = d
        BY <2>2, <2>6, <3>0, <4>1
      <4>2. CASE c # d
        <5>1. attempt[c].id <= created /\ attempt[c].id \in Deliveries
          BY <1>0, <2>5, <3>1, <4>2 DEF IInv, IdsAreCreated, TypeOK, AttemptType
        <5> QED BY <2>2, <2>5, <3>0, <3>1, <4>2, <5>1 DEF Deliveries
      <4> QED BY <4>1, <4>2
    <3>2. ASSUME NEW w \in Sweeps, NEW x \in batch'[w]
          PROVE  x.id <= created'
      <4>1. x \in batch[w] /\ x.id \in Deliveries
        BY <1>0, <2>1, <3>2 DEF TypeOK, Snapshots
      <4>2. x.id <= created
        BY <4>1 DEF IInv, IdsAreCreated
      <4> QED BY <2>2, <3>0, <4>1, <4>2 DEF Deliveries
    <3>3. \A x \in Deliveries : status'[x] # "none" => x <= created'
      BY <2>2, <3>0 DEF IInv, IdsAreCreated, Deliveries
    <3>4. \A x \in answered' : x <= created'
      BY <2>1, <2>2, <3>0 DEF IInv, IdsAreCreated, Deliveries
    <3> QED BY <3>1, <3>2, <3>3, <3>4 DEF IdsAreCreated, Row
  <2>9. OkIsAnswered'
    BY <2>1, <2>5, <2>6 DEF IInv, OkIsAnswered
  <2>12. FirstAttemptsAreOwn'
    BY <2>5, <2>6 DEF IInv, FirstAttemptsAreOwn, Callers
  <2>10. SuccessIsReal'
    BY <2>1, <2>2 DEF IInv, SuccessIsReal
  <2>11. AnswersAreRecorded'
    <3> SUFFICES ASSUME faults' = 0, NEW x \in answered', status'[x] # "none"
                 PROVE  delivered'[x] \/ \E c \in Unwritten(x)' : attempt'[c].ok
      BY DEF AnswersAreRecorded, Row
    <3>1. x \in Deliveries /\ x # d /\ Row(x) /\ x \in answered /\ faults = 0
      BY <1>0, <2>1, <2>2 DEF TypeOK
    <3>2. CASE delivered[x]
      BY <2>2, <3>2
    <3>3. CASE \E c \in Unwritten(x) : attempt[c].ok
      <4>1. PICK c \in Unwritten(x) : attempt[c].ok
        BY <3>3
      <4>2. c # d
        BY <2>2, <3>1, <4>1 DEF IInv, FirstAttemptsAreOwn, Unwritten, NoAttempt
      <4>3. c \in Callers /\ attempt'[c] = attempt[c] /\ attempt[c].id = x
            /\ attempt[c].step # "post"
        BY <2>5, <4>1, <4>2 DEF Unwritten
      <4> QED BY <4>1, <4>3 DEF Unwritten
    <3> QED BY <3>1, <3>2, <3>3 DEF IInv, AnswersAreRecorded
  <2> QED BY <2>2, <2>4, <2>7, <2>8, <2>9, <2>10, <2>11, <2>12 DEF IInv
<1>3. ASSUME NEW r \in Dispatches, NEW s \in Subs, CreateRefused(r, s)
      PROVE  IInv'
  <2>1. TypeOK'
    BY <1>0, <1>3 DEF TypeOK, CreateRefused, rows, spent, history
  <2>2. Parts'
    BY <1>3, Quiet DEF CreateRefused, spent, history
  <2> QED BY <2>1, <2>2 DEF IInv, Parts
<1>4. ASSUME NEW r \in Dispatches, NEW s \in Subs, CreateFails(r, s, FALSE)
      PROVE  IInv'
  <2>1. TypeOK'
    BY <1>0, <1>4, BoundsAssumption DEF TypeOK, CreateFails, Fault, rows, history
  <2>2. /\ UNCHANGED <<created, target, status, count, due, delivered, batch,
                       attempt, answered>>
        /\ faults' > 0
    BY <1>0, <1>4 DEF CreateFails, Fault, rows, history, TypeOK
  <2>3. SeenNotAhead' /\ FirstAttemptsAreOwn' /\ IdsAreCreated' /\ OkIsAnswered'
    BY <2>2
    DEF IInv, SeenNotAhead, FirstAttemptsAreOwn, IdsAreCreated, OkIsAnswered, Row
  <2>4. FailedMeansExhausted' /\ SuccessIsReal' /\ PendingIsScheduled'
    BY <2>2 DEF IInv, FailedMeansExhausted, SuccessIsReal, PendingIsScheduled, Row
  <2>5. AnswersAreRecorded'
    BY <2>2 DEF AnswersAreRecorded
  <2> QED BY <2>1, <2>3, <2>4, <2>5 DEF IInv
<1>5. ASSUME NEW r \in Dispatches, NEW s \in Subs, CreateFails(r, s, TRUE)
      PROVE  IInv'
  <2>1. /\ created + 1 <= MaxDeliveries /\ Insert(created + 1, s)
        /\ fanout' = [fanout EXCEPT ![r] = {}]
        /\ faults < MaxFaults /\ faults' = faults + 1
        /\ UNCHANGED <<subs, events, batch, attempt, retrying, changes, posts,
                       answered>>
    BY <1>5 DEF CreateFails, Fault, history
  <2>2. /\ created' \in 0..MaxDeliveries /\ created' = created + 1
        /\ target' \in [Deliveries -> Subs]
        /\ status' \in [Deliveries -> {"none", "pending", "success", "failed"}]
        /\ due' \in [Deliveries -> {"null", "later", "now"}]
        /\ UNCHANGED <<count, delivered>>
        /\ \A x \in Deliveries : status'[x] # "none" => Row(x) \/ x = created + 1
        /\ \A x \in Deliveries : status'[x] = "success" => delivered[x]
        /\ FailedMeansExhausted'
        /\ PendingIsScheduled'
    BY <2>1, InsertFacts
  <2>3. TypeOK'
    BY <1>0, <2>1, <2>2, BoundsAssumption DEF TypeOK
  <2>4. SeenNotAhead' /\ FirstAttemptsAreOwn'
    BY <2>1, <2>2 DEF IInv, SeenNotAhead, FirstAttemptsAreOwn
  <2>5. IdsAreCreated'
    <3>0. created \in Nat /\ answered \subseteq Deliveries
      BY <1>0 DEF TypeOK
    <3>1. ASSUME NEW c \in Callers, attempt[c] # NoAttempt
          PROVE  attempt[c].id <= created'
      <4>1. attempt[c].id <= created /\ attempt[c].id \in Deliveries
        BY <1>0, <3>1 DEF IInv, IdsAreCreated, TypeOK, AttemptType
      <4> QED BY <2>2, <3>0, <4>1 DEF Deliveries
    <3>2. ASSUME NEW w \in Sweeps, NEW x \in batch[w]
          PROVE  x.id <= created'
      <4>1. x.id <= created /\ x.id \in Deliveries
        BY <1>0, <3>2 DEF TypeOK, Snapshots, IInv, IdsAreCreated
      <4> QED BY <2>2, <3>0, <4>1 DEF Deliveries
    <3>3. \A x \in Deliveries : status'[x] # "none" => x <= created'
      BY <2>2, <3>0 DEF IInv, IdsAreCreated, Deliveries
    <3>4. \A x \in answered' : x <= created'
      BY <2>1, <2>2, <3>0 DEF IInv, IdsAreCreated, Deliveries
    <3> QED BY <2>1, <3>1, <3>2, <3>3, <3>4 DEF IdsAreCreated, Row
  <2>6. faults' > 0
    BY <1>0, <2>1 DEF TypeOK
  <2>7. OkIsAnswered' /\ AnswersAreRecorded'
    BY <2>1, <2>6 DEF IInv, OkIsAnswered, AnswersAreRecorded
  <2>8. SuccessIsReal'
    BY <2>1, <2>2 DEF IInv, SuccessIsReal
  <2> QED BY <2>2, <2>3, <2>4, <2>5, <2>7, <2>8 DEF IInv
<1> QED
  BY <1>1, <1>2, <1>3, <1>4, <1>5 DEF FanOut

\* A step that only counts a fault and touches neither rows nor answers keeps the
\* parts that do not speak of attempts; AnswersAreRecorded has nothing left to say.
LEMMA SameRows ==
  ASSUME IInv, UNCHANGED <<rows, answered>>
  PROVE  FailedMeansExhausted' /\ SuccessIsReal' /\ PendingIsScheduled'
BY DEF IInv, rows, FailedMeansExhausted, SuccessIsReal, PendingIsScheduled, Row

\* The end of a POST preserves the invariant.
LEMMA PostStep ==
  ASSUME IInv, NEW c \in Callers, PostEnds(c)
  PROVE  IInv'
<1>0. TypeOK
  BY DEF IInv
<1>1. attempt[c].step = "post"
  BY DEF PostEnds, PostAnswered, PostThrows
<1>2. /\ attempt[c] # NoAttempt
      /\ attempt[c] \in [id : Deliveries, seen : Nat,
                         step : {"post", "record", "catch"}, ok : BOOLEAN]
      /\ attempt[c].id \in Deliveries /\ attempt[c].seen \in Nat
      /\ attempt[c].ok \in BOOLEAN
  BY <1>0, <1>1, AttemptFacts
<1> DEFINE d == attempt[c].id
<1>4. PICK step \in {"record", "catch"}, ok \in BOOLEAN :
        /\ attempt' = [attempt EXCEPT ![c] = [id |-> d, seen |-> attempt[c].seen,
                                              step |-> step, ok |-> ok]]
        /\ answered' = IF ok THEN answered \cup {d} ELSE answered
        /\ ok => step = "record"
  <2>1. ASSUME NEW ok \in BOOLEAN, PostAnswered(c, ok)
        PROVE  attempt' = [attempt EXCEPT ![c] = [id |-> d, seen |-> attempt[c].seen,
                                                  step |-> "record", ok |-> ok]]
    BY <2>1 DEF PostAnswered, GoOn
  <2>2. ASSUME PostThrows(c)
        PROVE  attempt' = [attempt EXCEPT ![c] = [id |-> d, seen |-> attempt[c].seen,
                                                  step |-> "catch", ok |-> FALSE]]
    BY <2>2 DEF PostThrows, GoOn
  <2>3. ASSUME NEW ok \in BOOLEAN, PostAnswered(c, ok)
        PROVE  answered' = IF ok THEN answered \cup {d} ELSE answered
    BY <2>3 DEF PostAnswered
  <2>4. ASSUME PostThrows(c)
        PROVE  answered' = IF FALSE THEN answered \cup {d} ELSE answered
    BY <2>4 DEF PostThrows
  <2> QED
    BY <2>1, <2>2, <2>3, <2>4 DEF PostEnds
<1>5. /\ UNCHANGED <<subs, events, created, rows, fanout, batch, retrying, spent>>
      /\ posts' = [posts EXCEPT ![d] = @ + 1]
  BY DEF PostEnds, PostAnswered, PostThrows
<1>6. /\ attempt'[c] = [id |-> d, seen |-> attempt[c].seen, step |-> step, ok |-> ok]
      /\ \A x \in Callers : x # c => attempt'[x] = attempt[x]
      /\ attempt' \in [Callers -> AttemptType]
  BY <1>0, <1>2, <1>4 DEF TypeOK, AttemptType
<1>7. answered' \in SUBSET Deliveries /\ answered \subseteq answered'
  BY <1>0, <1>2, <1>4 DEF TypeOK
<1>8. TypeOK'
  BY <1>0, <1>2, <1>5, <1>6, <1>7 DEF TypeOK, rows, spent
<1>9. UNCHANGED <<created, target, status, count, due, delivered, batch, faults>>
  BY <1>5 DEF rows, spent
<1>10. SeenNotAhead' /\ FirstAttemptsAreOwn'
  <2>1. \A x \in Callers : attempt'[x] # NoAttempt =>
          /\ attempt[x] # NoAttempt
          /\ attempt'[x].id = attempt[x].id /\ attempt'[x].seen = attempt[x].seen
    BY <1>2, <1>6
  <2> QED
    BY <1>9, <2>1 DEF IInv, SeenNotAhead, FirstAttemptsAreOwn, Callers
<1>11. IdsAreCreated'
  <2>1. d <= created
    BY <1>2 DEF IInv, IdsAreCreated
  <2>2. \A x \in Callers : attempt'[x] # NoAttempt => attempt'[x].id <= created
    BY <1>6, <2>1 DEF IInv, IdsAreCreated
  <2>3. \A x \in answered' : x <= created
    BY <1>4, <2>1 DEF IInv, IdsAreCreated
  <2> QED
    BY <1>9, <2>2, <2>3 DEF IInv, IdsAreCreated, Row
<1>12. OkIsAnswered'
  <2> SUFFICES ASSUME NEW x \in Callers, attempt'[x].ok
               PROVE  /\ attempt'[x].id \in answered'
                      /\ attempt'[x].step \in {"record", "catch"}
                      /\ attempt'[x].step = "catch" => faults' > 0
    BY DEF OkIsAnswered
  <2>1. CASE x = c
    BY <1>4, <1>6, <2>1
  <2>2. CASE x # c
    BY <1>6, <1>7, <1>9, <2>2 DEF IInv, OkIsAnswered
  <2> QED BY <2>1, <2>2
<1>13. FailedMeansExhausted' /\ PendingIsScheduled'
  BY <1>9 DEF IInv, FailedMeansExhausted, PendingIsScheduled, Row
<1>14. SuccessIsReal'
  BY <1>7, <1>9 DEF IInv, SuccessIsReal
<1>15. AnswersAreRecorded'
  <2> SUFFICES ASSUME faults' = 0, NEW x \in answered', status'[x] # "none"
               PROVE  delivered'[x] \/ \E y \in Unwritten(x)' : attempt'[y].ok
    BY DEF AnswersAreRecorded, Row
  <2>1. CASE x \in answered
    <3>1. CASE delivered[x]
      BY <1>9, <3>1
    <3>2. CASE \E y \in Unwritten(x) : attempt[y].ok
      <4>1. PICK y \in Unwritten(x) : attempt[y].ok
        BY <3>2
      <4>2. y # c
        BY <1>1, <4>1 DEF Unwritten
      <4> QED BY <1>6, <4>1, <4>2 DEF Unwritten
    <3> QED BY <1>9, <2>1, <3>1, <3>2 DEF IInv, AnswersAreRecorded, Row
  <2>2. CASE x \notin answered
    <3>1. ok /\ x = d
      BY <1>4, <2>2
    <3>2. attempt'[c].id = x /\ attempt'[c].ok /\ attempt'[c].step # "post"
      BY <1>4, <1>6, <3>1
    <3>3. c \in Unwritten(x)'
      BY <3>2 DEF Unwritten
    <3> QED BY <3>2, <3>3
  <2> QED BY <2>1, <2>2
<1> QED
  BY <1>8, <1>10, <1>11, <1>12, <1>13, <1>14, <1>15 DEF IInv

\* The end of an attempt whose outcome is written preserves the invariant.
LEMMA EndStep ==
  ASSUME IInv, NEW c \in Callers, AttemptEnds(c)
  PROVE  IInv'
<1> DEFINE ok == attempt[c].step = "record" /\ attempt[c].ok
           d == attempt[c].id
<1>0. TypeOK
  BY DEF IInv
<1>1. /\ attempt[c].step \in {"record", "catch"}
      /\ RecordAttempt(c, ok)
      /\ attempt' = [attempt EXCEPT ![c] = NoAttempt]
      /\ UNCHANGED <<subs, events, created, fanout, batch, retrying, changes, faults,
                     posts, answered>>
  BY DEF AttemptEnds, spent, history
<1>2. ok \in BOOLEAN /\ d \in Deliveries /\ (ok => d \in answered)
  BY <1>0, <1>1, AttemptFacts DEF IInv, OkIsAnswered
<1>3. attempt[c].step # "none"
  BY <1>1
<1> HIDE DEF ok, d
<1>4. /\ target' \in [Deliveries -> Subs]
      /\ status' \in [Deliveries -> {"none", "pending", "success", "failed"}]
      /\ count' \in [Deliveries -> Nat]
      /\ due' \in [Deliveries -> {"null", "later", "now"}]
      /\ delivered' \in [Deliveries -> BOOLEAN]
      /\ \A x \in Deliveries : count[x] <= count'[x]
      /\ \A x \in Deliveries : (status'[x] = "none") <=> (status[x] = "none")
      /\ \A x \in Deliveries : delivered[x] => delivered'[x]
      /\ \A x \in Deliveries : delivered'[x] => x \in answered
      /\ \A x \in Deliveries : status'[x] = "success" => delivered'[x]
      /\ ok /\ Row(d) => delivered'[d]
      /\ FailedMeansExhausted'
      /\ PendingIsScheduled'
  BY <1>1, <1>2, <1>3, RecordFacts DEF d
<1>5. /\ attempt'[c] = NoAttempt
      /\ \A x \in Callers : x # c => attempt'[x] = attempt[x]
      /\ attempt' \in [Callers -> AttemptType]
  BY <1>0, <1>1 DEF TypeOK, AttemptType
<1>6. TypeOK'
  BY <1>0, <1>1, <1>4, <1>5 DEF TypeOK
<1>7. SeenNotAhead' /\ FirstAttemptsAreOwn' /\ IdsAreCreated'
  <2>1. \A x \in Callers : \/ attempt'[x] = NoAttempt
                           \/ /\ attempt[x] # NoAttempt
                              /\ attempt'[x].id = attempt[x].id
                              /\ attempt'[x].seen = attempt[x].seen
    BY <1>5
  <2>2. \A x \in Deliveries : status'[x] # "none" => Row(x)
    BY <1>4 DEF Row
  <2> QED
    BY <1>1, <1>4, <2>1, <2>2, Bookkeeping
<1>8. OkIsAnswered'
  BY <1>1, <1>5 DEF IInv, OkIsAnswered, NoAttempt
<1>9. SuccessIsReal'
  BY <1>1, <1>4 DEF SuccessIsReal
<1>10. AnswersAreRecorded'
  <2> SUFFICES ASSUME faults' = 0, NEW x \in answered', status'[x] # "none"
               PROVE  delivered'[x] \/ \E y \in Unwritten(x)' : attempt'[y].ok
    BY DEF AnswersAreRecorded, Row
  <2>1. x \in Deliveries /\ x \in answered /\ Row(x) /\ faults = 0
    BY <1>0, <1>1, <1>4 DEF TypeOK, Row
  <2>2. CASE delivered[x]
    BY <1>4, <2>1, <2>2
  <2>3. CASE \E y \in Unwritten(x) : attempt[y].ok
    <3>1. PICK y \in Unwritten(x) : attempt[y].ok
      BY <2>3
    <3>2. CASE y = c
      <4>1. x = d /\ attempt[c].ok
        BY <3>1, <3>2 DEF Unwritten, d
      <4>2. attempt[c].step = "record"
        BY <1>1, <2>1, <4>1 DEF IInv, OkIsAnswered
      <4>3. ok
        BY <4>1, <4>2 DEF ok
      <4> QED BY <1>4, <2>1, <4>1, <4>3
    <3>3. CASE y # c
      BY <1>5, <3>1, <3>3 DEF Unwritten
    <3> QED BY <3>2, <3>3
  <2> QED BY <2>1, <2>2, <2>3 DEF IInv, AnswersAreRecorded
<1> QED
  BY <1>4, <1>6, <1>7, <1>8, <1>9, <1>10 DEF IInv

\* A failed write of an outcome preserves the invariant.
LEMMA RecordFailsStep ==
  ASSUME IInv, NEW c \in Callers, NEW applied \in BOOLEAN,
         RecordFails(c, applied) \/ CatchFails(c, applied)
  PROVE  IInv'
<1> DEFINE d == attempt[c].id
<1>0. TypeOK
  BY DEF IInv
<1>1. /\ attempt[c].step \in {"record", "catch"} /\ attempt[c].step # "none"
      /\ faults < MaxFaults /\ faults' = faults + 1
      /\ UNCHANGED <<subs, events, created, fanout, retrying, changes, answered>>
  BY DEF RecordFails, CatchFails, Fault, history
<1>2. /\ d \in Deliveries /\ (attempt[c].ok => d \in answered)
      /\ attempt[c] # NoAttempt /\ attempt[c].seen \in Nat /\ attempt[c].ok \in BOOLEAN
  BY <1>0, <1>1, AttemptFacts DEF IInv, OkIsAnswered
<1>3. \/ UNCHANGED rows
      \/ \E ok \in BOOLEAN : (ok => d \in answered) /\ RecordAttempt(c, ok)
  <2>1. CASE RecordFails(c, applied)
    <3>1. RecordAttempt(c, attempt[c].ok) \/ UNCHANGED rows
      BY <2>1 DEF RecordFails
    <3> QED BY <1>2, <3>1
  <2>2. CASE CatchFails(c, applied)
    <3>1. RecordAttempt(c, FALSE) \/ UNCHANGED rows
      BY <2>2 DEF CatchFails
    <3> QED BY <3>1
  <2> QED BY <2>1, <2>2
<1>4. \/ UNCHANGED posts
       \/ posts' = [posts EXCEPT ![d] = @ - 1]
  BY DEF RecordFails, CatchFails, history
<1>5. \/ UNCHANGED batch
       \/ batch' = [w \in Sweeps |-> IF w = c THEN {} ELSE batch[w]]
  BY DEF RecordFails, CatchFails
<1>6. /\ posts' \in [Deliveries -> Int]
       /\ batch' \in [Sweeps -> SUBSET Snapshots]
       /\ \A w \in Sweeps : batch'[w] \subseteq batch[w]
  BY <1>0, <1>2, <1>4, <1>5 DEF TypeOK
<1>7. \/ attempt' = [attempt EXCEPT ![c] = NoAttempt]
      \/ attempt' = [attempt EXCEPT ![c] = [id |-> d, seen |-> attempt[c].seen,
                                            step |-> "catch", ok |-> attempt[c].ok]]
  BY DEF RecordFails, CatchFails, GoOn
<1>8. /\ attempt' \in [Callers -> AttemptType]
      /\ \A x \in Callers : x # c => attempt'[x] = attempt[x]
      /\ \/ attempt'[c] = NoAttempt
         \/ attempt'[c] = [id |-> d, seen |-> attempt[c].seen, step |-> "catch",
                           ok |-> attempt[c].ok]
  BY <1>0, <1>2, <1>7 DEF TypeOK, AttemptType
<1>9. /\ target' \in [Deliveries -> Subs]
      /\ status' \in [Deliveries -> {"none", "pending", "success", "failed"}]
      /\ count' \in [Deliveries -> Nat]
      /\ due' \in [Deliveries -> {"null", "later", "now"}]
      /\ delivered' \in [Deliveries -> BOOLEAN]
      /\ \A x \in Deliveries : count[x] <= count'[x]
      /\ \A x \in Deliveries : status'[x] # "none" => Row(x)
      /\ FailedMeansExhausted'
      /\ SuccessIsReal'
      /\ PendingIsScheduled'
  <2>1. CASE UNCHANGED rows
    <3>1. FailedMeansExhausted' /\ SuccessIsReal' /\ PendingIsScheduled'
      BY <1>1, <2>1, SameRows
    <3> QED BY <1>0, <2>1, <3>1 DEF TypeOK, rows, Row
  <2>2. CASE \E ok \in BOOLEAN : (ok => d \in answered) /\ RecordAttempt(c, ok)
    <3>0. PICK ok \in BOOLEAN : (ok => d \in answered) /\ RecordAttempt(c, ok)
      BY <2>2
    <3>1. /\ target' \in [Deliveries -> Subs]
          /\ status' \in [Deliveries -> {"none", "pending", "success", "failed"}]
          /\ count' \in [Deliveries -> Nat]
          /\ due' \in [Deliveries -> {"null", "later", "now"}]
          /\ delivered' \in [Deliveries -> BOOLEAN]
          /\ \A x \in Deliveries : count[x] <= count'[x]
          /\ \A x \in Deliveries : (status'[x] = "none") <=> (status[x] = "none")
          /\ \A x \in Deliveries : delivered'[x] => x \in answered
          /\ \A x \in Deliveries : status'[x] = "success" => delivered'[x]
          /\ FailedMeansExhausted'
          /\ PendingIsScheduled'
      BY <1>1, <3>0, RecordFacts
    <3>2. SuccessIsReal'
      BY <1>1, <3>1 DEF SuccessIsReal
    <3> QED BY <3>1, <3>2 DEF Row
  <2> QED BY <1>3, <2>1, <2>2
<1>10. TypeOK'
  BY <1>0, <1>1, <1>6, <1>8, <1>9, BoundsAssumption DEF TypeOK
<1>11. SeenNotAhead' /\ FirstAttemptsAreOwn' /\ IdsAreCreated'
  <2>1. \A x \in Callers : \/ attempt'[x] = NoAttempt
                           \/ /\ attempt[x] # NoAttempt
                              /\ attempt'[x].id = attempt[x].id
                              /\ attempt'[x].seen = attempt[x].seen
    BY <1>2, <1>8
  <2> QED
    BY <1>1, <1>6, <1>9, <2>1, Bookkeeping
<1>12. faults' > 0
  BY <1>0, <1>1 DEF TypeOK
<1>13. OkIsAnswered'
  <2> SUFFICES ASSUME NEW x \in Callers, attempt'[x].ok
               PROVE  /\ attempt'[x].id \in answered'
                      /\ attempt'[x].step \in {"record", "catch"}
    BY <1>12 DEF OkIsAnswered
  <2>1. CASE x = c
    BY <1>1, <1>8, <2>1 DEF IInv, OkIsAnswered, NoAttempt
  <2>2. CASE x # c
    BY <1>1, <1>8, <2>2 DEF IInv, OkIsAnswered
  <2> QED BY <2>1, <2>2
<1>14. AnswersAreRecorded'
  BY <1>12 DEF AnswersAreRecorded
<1> QED
  BY <1>9, <1>10, <1>11, <1>13, <1>14 DEF IInv

\* The sweeps preserve the invariant.
LEMMA SweepStep ==
  ASSUME IInv, Sweep
  PROVE  IInv'
<1>0. TypeOK
  BY DEF IInv
<1>1. ASSUME NEW w \in Sweeps, StartSweep(w)
      PROVE  IInv'
  <2> DEFINE B == {[id |-> d, seen |-> count[d]] : d \in FindDuePending}
  <2>1. /\ batch' = [batch EXCEPT ![w] = B]
        /\ UNCHANGED <<subs, events, created, rows, fanout, attempt, retrying, spent,
                       history>>
    BY <1>1 DEF StartSweep
  <2>2. \A d \in FindDuePending : d \in Deliveries /\ Row(d)
    BY DEF FindDuePending, Due, Row
  <2>3. /\ B \in SUBSET Snapshots
        /\ \A x \in B : x.id <= created /\ x.seen <= count[x.id]
    BY <1>0, <2>2 DEF TypeOK, Snapshots, IInv, IdsAreCreated
  <2> HIDE DEF B
  <2>4. /\ batch' \in [Sweeps -> SUBSET Snapshots]
        /\ \A v \in Sweeps : \A x \in batch'[v] : x \in batch[v] \/ x \in B
    BY <1>0, <2>1, <2>3 DEF TypeOK
  <2>5. TypeOK'
    BY <1>0, <2>1, <2>4 DEF TypeOK, rows, spent, history
  <2>6. UNCHANGED <<created, target, status, count, due, delivered, attempt, faults,
                    answered>>
    BY <2>1 DEF rows, spent, history
  <2>7. SeenNotAhead' /\ FirstAttemptsAreOwn' /\ IdsAreCreated'
    BY <2>3, <2>4, <2>6
    DEF IInv, SeenNotAhead, FirstAttemptsAreOwn, IdsAreCreated, Row
  <2>8. OkIsAnswered'
    BY <2>6 DEF IInv, OkIsAnswered
  <2>9. AnswersAreRecorded'
    BY <2>6 DEF IInv, AnswersAreRecorded, Unwritten, Row
  <2>10. FailedMeansExhausted' /\ SuccessIsReal' /\ PendingIsScheduled'
    BY <2>1, SameRows DEF history
  <2> QED BY <2>5, <2>7, <2>8, <2>9, <2>10 DEF IInv
<1>2. ASSUME NEW w \in Sweeps, NEW x \in batch[w], SweepNext(w, x)
      PROVE  IInv'
  <2> DEFINE a == [id |-> x.id, seen |-> x.seen, step |-> "post", ok |-> FALSE]
  <2>1. /\ attempt[w] = NoAttempt
        /\ batch' = [batch EXCEPT ![w] = @ \ {x}]
        /\ attempt' = [attempt EXCEPT ![w] = a] \/ attempt' = attempt
        /\ UNCHANGED <<subs, events, created, rows, fanout, retrying, spent, history>>
    BY <1>2 DEF SweepNext, Begin
  <2>2. x \in Snapshots /\ x.id \in Deliveries /\ x.seen \in Nat
    BY <1>0 DEF TypeOK, Snapshots
  <2>3. x.id <= created /\ x.seen <= count[x.id]
    BY DEF IInv, IdsAreCreated, SeenNotAhead
  <2>4. w \in Callers /\ a \in AttemptType
    BY <2>2 DEF Callers, AttemptType
  <2>5. /\ attempt' \in [Callers -> AttemptType]
        /\ \A c \in Callers : c # w => attempt'[c] = attempt[c]
        /\ attempt'[w] = a \/ attempt'[w] = NoAttempt
    BY <1>0, <2>1, <2>4 DEF TypeOK
  <2>6. /\ batch' \in [Sweeps -> SUBSET Snapshots]
        /\ \A v \in Sweeps : batch'[v] \subseteq batch[v]
    BY <1>0, <2>1 DEF TypeOK
  <2>7. TypeOK'
    BY <1>0, <2>1, <2>5, <2>6 DEF TypeOK, rows, spent, history
  <2>8. UNCHANGED <<created, target, status, count, due, delivered, faults, answered>>
    BY <2>1 DEF rows, spent, history
  <2>9. SeenNotAhead'
    BY <2>3, <2>5, <2>6, <2>8 DEF IInv, SeenNotAhead
  <2>10. IdsAreCreated'
    BY <2>3, <2>5, <2>6, <2>8 DEF IInv, IdsAreCreated, Row
  <2>11. FirstAttemptsAreOwn'
    <3>1. \A d \in Deliveries : d # w /\ d \in Callers
      BY SweepsAssumption, BoundsAssumption DEF Deliveries, Callers
    <3> QED BY <2>5, <3>1 DEF IInv, FirstAttemptsAreOwn
  <2>12. OkIsAnswered'
    BY <2>5, <2>8 DEF IInv, OkIsAnswered, NoAttempt
  <2>13. AnswersAreRecorded'
    <3> SUFFICES ASSUME faults' = 0, NEW d \in answered', status'[d] # "none"
                 PROVE  delivered'[d] \/ \E c \in Unwritten(d)' : attempt'[c].ok
      BY DEF AnswersAreRecorded, Row
    <3>1. CASE delivered[d]
      BY <2>8, <3>1
    <3>2. CASE \E c \in Unwritten(d) : attempt[c].ok
      <4>1. PICK c \in Unwritten(d) : attempt[c].ok
        BY <3>2
      <4>2. c # w
        BY <2>1, <4>1 DEF NoAttempt
      <4> QED BY <2>5, <4>1, <4>2 DEF Unwritten
    <3> QED BY <2>8, <3>1, <3>2 DEF IInv, AnswersAreRecorded, Row
  <2>14. FailedMeansExhausted' /\ SuccessIsReal' /\ PendingIsScheduled'
    BY <2>1, SameRows DEF history
  <2> QED BY <2>7, <2>9, <2>10, <2>11, <2>12, <2>13, <2>14 DEF IInv
<1>3. ASSUME NEW w \in Sweeps, SweepFails(w)
      PROVE  IInv'
  <2>1. /\ batch' = [batch EXCEPT ![w] = {}]
        /\ faults < MaxFaults /\ faults' = faults + 1
        /\ UNCHANGED <<subs, events, created, target, status, count, due, delivered,
                       fanout, attempt, retrying, changes, posts, answered>>
    BY <1>3 DEF SweepFails, Fault, rows, history
  <2>2. /\ batch' \in [Sweeps -> SUBSET Snapshots]
        /\ \A v \in Sweeps : batch'[v] \subseteq batch[v]
    BY <1>0, <2>1 DEF TypeOK
  <2>3. TypeOK' /\ faults' > 0
    BY <1>0, <2>1, <2>2, BoundsAssumption DEF TypeOK
  <2>4. SeenNotAhead' /\ FirstAttemptsAreOwn' /\ IdsAreCreated'
    BY <2>1, <2>2 DEF IInv, SeenNotAhead, FirstAttemptsAreOwn, IdsAreCreated, Row
  <2>5. OkIsAnswered' /\ AnswersAreRecorded'
    BY <2>1, <2>3 DEF IInv, OkIsAnswered, AnswersAreRecorded
  <2>6. FailedMeansExhausted' /\ SuccessIsReal' /\ PendingIsScheduled'
    BY <2>1, SameRows DEF rows
  <2> QED BY <2>3, <2>4, <2>5, <2>6 DEF IInv
<1> QED
  BY <1>1, <1>2, <1>3 DEF Sweep, SweepOn

\* The passing of a back-off preserves the invariant.
LEMMA ElapseStep ==
  ASSUME IInv, NEW d \in Deliveries, Elapse(d)
  PROVE  IInv'
<1>0. TypeOK
  BY DEF IInv
<1>1. /\ due[d] = "later" /\ due' = [due EXCEPT ![d] = "now"]
      /\ UNCHANGED <<created, target, status, count, delivered, batch, attempt,
                     faults, answered>>
  BY DEF Elapse, running, spent, history
<1>2. TypeOK'
  BY <1>0, <1>1 DEF TypeOK, Elapse, running, spent, history
<1>3. SeenNotAhead' /\ FirstAttemptsAreOwn' /\ IdsAreCreated' /\ OkIsAnswered'
  BY <1>1 DEF IInv, SeenNotAhead, FirstAttemptsAreOwn, IdsAreCreated, OkIsAnswered, Row
<1>4. FailedMeansExhausted' /\ SuccessIsReal' /\ AnswersAreRecorded'
  BY <1>1 DEF IInv, FailedMeansExhausted, SuccessIsReal, AnswersAreRecorded, Unwritten,
              Row
<1>5. PendingIsScheduled'
  BY <1>0, <1>1 DEF TypeOK, IInv, PendingIsScheduled, Row
<1> QED
  BY <1>2, <1>3, <1>4, <1>5 DEF IInv

\* A crash preserves the invariant.
LEMMA CrashStep ==
  ASSUME IInv, Crash
  PROVE  IInv'
<1>0. TypeOK
  BY DEF IInv
<1>1. \A d \in Deliveries : Cardinality(Unwritten(d)) \in Nat
  <2> TAKE d \in Deliveries
  <2>1. IsFiniteSet(Deliveries)
    BY FS_Interval, BoundsAssumption DEF Deliveries
  <2>2. IsFiniteSet(Callers)
    BY <2>1, FS_Union, SweepsAssumption DEF Callers
  <2>3. IsFiniteSet(Unwritten(d))
    BY <2>2, FS_Subset DEF Unwritten
  <2> QED BY <2>3, FS_CardinalityType
<1>2. /\ attempt' = [c \in Callers |-> NoAttempt]
      /\ batch' = [w \in Sweeps |-> {}]
      /\ fanout' = [r \in Dispatches |-> {}] /\ retrying' = {}
      /\ posts' = [d \in Deliveries |-> posts[d] - Cardinality(Unwritten(d))]
      /\ faults < MaxFaults /\ faults' = faults + 1
      /\ UNCHANGED <<subs, events, created, target, status, count, due, delivered,
                     changes, answered>>
  BY DEF Crash, Fault, rows
<1>3. posts' \in [Deliveries -> Int]
  BY <1>0, <1>1, <1>2 DEF TypeOK
<1>4. attempt' \in [Callers -> AttemptType]
  BY <1>2 DEF AttemptType
<1>5. TypeOK' /\ faults' > 0
  BY <1>0, <1>2, <1>3, <1>4, BoundsAssumption DEF TypeOK
<1>6. SeenNotAhead' /\ FirstAttemptsAreOwn' /\ IdsAreCreated'
  BY <1>2 DEF IInv, SeenNotAhead, FirstAttemptsAreOwn, IdsAreCreated, Row, Callers
<1>7. OkIsAnswered' /\ AnswersAreRecorded'
  BY <1>2, <1>5 DEF OkIsAnswered, AnswersAreRecorded, NoAttempt
<1>8. FailedMeansExhausted' /\ SuccessIsReal' /\ PendingIsScheduled'
  BY <1>2, SameRows DEF rows
<1> QED
  BY <1>5, <1>6, <1>7, <1>8 DEF IInv

-----------------------------------------------------------------------------
(* The counting of attempts *)

\* What AttemptsAreCounted says of the rows holds of the ids to come as well, so
\* that a new row starts with its books in order.
Books ==
  \A d \in Deliveries :
    Row(d) \/ d > created => posts[d] <= count[d] + Cardinality(Unwritten(d))

\* The POSTs whose outcome is still to be written can be counted.
LEMMA UnwrittenFinite ==
  ASSUME NEW d \in Deliveries
  PROVE  IsFiniteSet(Unwritten(d)) /\ Cardinality(Unwritten(d)) \in Nat
<1>1. IsFiniteSet(Deliveries)
  BY FS_Interval, BoundsAssumption DEF Deliveries
<1>2. IsFiniteSet(Callers)
  BY <1>1, FS_Union, SweepsAssumption DEF Callers
<1>3. IsFiniteSet(Unwritten(d))
  BY <1>2, FS_Subset DEF Unwritten
<1> QED
  BY <1>3, FS_CardinalityType

\* The record of caller c becomes a: c joins the unwritten attempts of the
\* delivery a names, unless a is a POST under way, and leaves all others.
LEMMA UnwrittenAfter ==
  ASSUME TypeOK, NEW c \in Callers, NEW a, attempt' = [attempt EXCEPT ![c] = a],
         NEW d \in Deliveries
  PROVE  /\ a.id = d /\ a.step # "post" => Unwritten(d)' = Unwritten(d) \cup {c}
         /\ ~ (a.id = d /\ a.step # "post") => Unwritten(d)' = Unwritten(d) \ {c}
<1>1. /\ attempt'[c] = a
      /\ \A x \in Callers : x # c => attempt'[x] = attempt[x]
  BY DEF TypeOK
<1> QED
  BY <1>1 DEF Unwritten

\* An attempt that goes on to a write is one of the unwritten attempts of its
\* delivery.
LEMMA UnwrittenGoesOn ==
  ASSUME TypeOK, NEW c \in Callers, NEW step, step # "post", NEW ok,
         GoOn(c, step, ok), NEW d \in Deliveries
  PROVE  /\ attempt[c].id = d => Unwritten(d)' = Unwritten(d) \cup {c}
         /\ attempt[c].id # d => Unwritten(d)' = Unwritten(d) \ {c}
<1> DEFINE a == [id |-> attempt[c].id, seen |-> attempt[c].seen, step |-> step,
                 ok |-> ok]
<1>1. attempt' = [attempt EXCEPT ![c] = a]
  BY DEF GoOn
<1>2. a.id = attempt[c].id /\ a.step # "post"
  OBVIOUS
<1> HIDE DEF a
<1> QED
  BY <1>1, <1>2, UnwrittenAfter

\* A step that ends no POST, lets no count fall and no unwritten attempt go, and
\* makes rows of new ids only, keeps the books.
LEMMA BooksKept ==
  ASSUME IInv, Books, UNCHANGED posts, created' \in Nat, created <= created',
         count' \in [Deliveries -> Nat],
         \A d \in Deliveries : count[d] <= count'[d],
         \A d \in Deliveries : status'[d] # "none" => Row(d) \/ d > created,
         \A d \in Deliveries : Unwritten(d)' = Unwritten(d)
  PROVE  Books'
<1> SUFFICES ASSUME NEW d \in Deliveries, status'[d] # "none" \/ d > created'
             PROVE  posts[d] <= count'[d] + Cardinality(Unwritten(d))
  BY DEF Books, Row
<1>1. /\ count[d] \in Nat /\ count'[d] \in Nat /\ posts[d] \in Int
      /\ created \in Nat /\ d \in Nat
  BY BoundsAssumption DEF IInv, TypeOK, Deliveries
<1>2. posts[d] <= count[d] + Cardinality(Unwritten(d))
  BY <1>1 DEF Books
<1> QED
  BY <1>1, <1>2, UnwrittenFinite

\* So does a step that leaves counts and attempts alone.
LEMMA BooksQuiet ==
  ASSUME IInv, Books, UNCHANGED <<posts, count, attempt>>,
         created' \in Nat, created <= created',
         \A d \in Deliveries : status'[d] # "none" => Row(d) \/ d > created
  PROVE  Books'
<1>1. count \in [Deliveries -> Nat]
  BY DEF IInv, TypeOK
<1>2. \A d \in Deliveries : count[d] <= count'[d]
  BY <1>1
<1>3. \A d \in Deliveries : Unwritten(d)' = Unwritten(d)
  BY DEF Unwritten
<1> QED
  BY <1>1, <1>2, <1>3, BooksKept

\* The end of a POST: one more has ended, and its outcome is to be written.
LEMMA BooksPost ==
  ASSUME IInv, Books, NEW c \in Callers, PostEnds(c)
  PROVE  Books'
<1>0. TypeOK /\ attempt[c].step = "post"
  BY DEF IInv, PostEnds, PostAnswered, PostThrows
<1> DEFINE e == attempt[c].id
<1>1. PICK step \in {"record", "catch"}, ok \in BOOLEAN : GoOn(c, step, ok)
  BY DEF PostEnds, PostAnswered, PostThrows
<1>2. /\ posts' = [posts EXCEPT ![e] = @ + 1]
      /\ UNCHANGED <<created, status, count>>
  BY DEF PostEnds, PostAnswered, PostThrows, rows
<1>3. e \in Deliveries
  BY <1>0, AttemptFacts
<1> SUFFICES ASSUME NEW d \in Deliveries, Row(d) \/ d > created
             PROVE  posts'[d] <= count[d] + Cardinality(Unwritten(d)')
  BY <1>2 DEF Books, Row
<1>4. posts[d] \in Int /\ count[d] \in Nat
  BY DEF IInv, TypeOK
<1>5. posts[d] <= count[d] + Cardinality(Unwritten(d))
  BY DEF Books
<1>6. c \notin Unwritten(d)
  BY <1>0 DEF Unwritten
<1>7. CASE d = e
  <2>1. Unwritten(d)' = Unwritten(d) \cup {c}
    BY <1>0, <1>1, <1>7, UnwrittenGoesOn
  <2>2. Cardinality(Unwritten(d) \cup {c}) = Cardinality(Unwritten(d)) + 1
    BY <1>6, UnwrittenFinite, FS_AddElement
  <2>3. posts'[d] = posts[d] + 1
    BY <1>0, <1>2, <1>7 DEF TypeOK
  <2> QED BY <1>4, <1>5, <2>1, <2>2, <2>3, UnwrittenFinite
<1>8. CASE d # e
  <2>1. Unwritten(d)' = Unwritten(d)
    <3>1. Unwritten(d)' = Unwritten(d) \ {c}
      BY <1>0, <1>1, <1>8, UnwrittenGoesOn
    <3> QED BY <1>6, <3>1
  <2>2. posts'[d] = posts[d]
    BY <1>0, <1>2, <1>8 DEF TypeOK
  <2> QED BY <1>5, <2>1, <2>2
<1> QED
  BY <1>7, <1>8

\* The end of an attempt: its outcome is counted in the row, or nothing is and
\* the POST is taken off the books (a fault), or the row is gone.
LEMMA BooksEnd ==
  ASSUME IInv, Books, NEW c \in Callers, attempt[c].step \in {"record", "catch"},
         attempt' = [attempt EXCEPT ![c] = NoAttempt],
         UNCHANGED created,
         \/ /\ UNCHANGED posts
            /\ \E ok \in BOOLEAN :
                 (ok => attempt[c].id \in answered) /\ RecordAttempt(c, ok)
         \/ /\ posts' = [posts EXCEPT ![attempt[c].id] = @ - 1]
            /\ UNCHANGED rows
  PROVE  Books'
<1> DEFINE e == attempt[c].id
<1>0. /\ TypeOK /\ attempt[c].step # "none" /\ attempt[c].step # "post"
      /\ e \in Deliveries
  BY AttemptFacts DEF IInv
<1>1. /\ count' \in [Deliveries -> Nat]
      /\ \A d \in Deliveries : count[d] <= count'[d]
      /\ \A d \in Deliveries : (status'[d] = "none") <=> (status[d] = "none")
  <2>1. CASE UNCHANGED rows
    BY <1>0, <2>1 DEF TypeOK, rows
  <2>2. CASE \E ok \in BOOLEAN :
               (ok => attempt[c].id \in answered) /\ RecordAttempt(c, ok)
    BY <1>0, <2>2, RecordFacts
  <2> QED BY <2>1, <2>2
<1> SUFFICES ASSUME NEW d \in Deliveries, Row(d) \/ d > created
             PROVE  posts'[d] <= count'[d] + Cardinality(Unwritten(d)')
  BY <1>1 DEF Books, Row
<1>2. posts[d] \in Int /\ count[d] \in Nat /\ count'[d] \in Nat
  BY <1>1 DEF IInv, TypeOK
<1>3. posts[d] <= count[d] + Cardinality(Unwritten(d))
  BY DEF Books
<1>4. Unwritten(d)' = Unwritten(d) \ {c}
  <2>1. NoAttempt.id # d
    BY DEF NoAttempt, Deliveries
  <2> QED BY <1>0, <2>1, UnwrittenAfter
<1>5. CASE d # e
  <2>1. Unwritten(d)' = Unwritten(d)
    <3>1. c \notin Unwritten(d)
      BY <1>5 DEF Unwritten
    <3> QED BY <1>4, <3>1
  <2>2. posts'[d] = posts[d]
    BY <1>0, <1>5 DEF TypeOK
  <2> QED BY <1>1, <1>2, <1>3, <2>1, <2>2, UnwrittenFinite
<1>6. CASE d = e
  <2>1. c \in Unwritten(d)
    BY <1>0, <1>6 DEF Unwritten
  <2>2. Cardinality(Unwritten(d)') = Cardinality(Unwritten(d)) - 1
    BY <1>4, <2>1, UnwrittenFinite, FS_RemoveElement
  <2>3. Row(d)
    <3>1. e <= created /\ created \in Nat /\ e \in Nat
      BY <1>0, AttemptFacts, BoundsAssumption
      DEF IInv, IdsAreCreated, TypeOK, Deliveries
    <3> QED BY <1>6, <3>1
  <2>4. CASE UNCHANGED posts /\ \E ok \in BOOLEAN : RecordAttempt(c, ok)
    <3>1. count'[d] = count[d] + 1
      BY <1>0, <1>6, <2>3, <2>4 DEF RecordAttempt, CountAfter, TypeOK
    <3> QED BY <1>2, <1>3, <2>2, <2>4, <3>1, UnwrittenFinite
  <2>5. CASE posts' = [posts EXCEPT ![e] = @ - 1] /\ UNCHANGED rows
    <3>1. posts'[d] = posts[d] - 1 /\ count'[d] = count[d]
      BY <1>0, <1>6, <2>5 DEF TypeOK, rows
    <3> QED BY <1>2, <1>3, <2>2, <3>1, UnwrittenFinite
  <2> QED BY <2>4, <2>5
<1> QED
  BY <1>5, <1>6

\* A write that reports failure to the try block: the catch block will write
\* once more.
LEMMA BooksRecordFails ==
  ASSUME IInv, Books, NEW c \in Callers, NEW applied \in BOOLEAN,
         RecordFails(c, applied)
  PROVE  Books'
<1> DEFINE e == attempt[c].id
<1>0. /\ TypeOK /\ attempt[c].step = "record" /\ attempt[c].step # "none"
      /\ e \in Deliveries /\ attempt[c].ok \in BOOLEAN
      /\ attempt[c].ok => e \in answered
      /\ UNCHANGED <<created, posts>>
  BY AttemptFacts DEF IInv, OkIsAnswered, RecordFails, history
<1>1. GoOn(c, "catch", attempt[c].ok)
  BY DEF RecordFails
<1>2. /\ count' \in [Deliveries -> Nat]
      /\ \A d \in Deliveries : count[d] <= count'[d]
      /\ \A d \in Deliveries : (status'[d] = "none") <=> (status[d] = "none")
  <2>1. CASE UNCHANGED rows
    BY <1>0, <2>1 DEF TypeOK, rows
  <2>2. CASE RecordAttempt(c, attempt[c].ok)
    BY <1>0, <2>2, RecordFacts
  <2> QED BY <2>1, <2>2 DEF RecordFails
<1>3. \A d \in Deliveries : Unwritten(d)' = Unwritten(d)
  <2> TAKE d \in Deliveries
  <2>1. c \in Unwritten(d) <=> e = d
    BY <1>0 DEF Unwritten
  <2>2. CASE e = d
    <3>1. Unwritten(d)' = Unwritten(d) \cup {c}
      BY <1>0, <1>1, <2>2, UnwrittenGoesOn
    <3> QED BY <2>1, <2>2, <3>1
  <2>3. CASE e # d
    <3>1. Unwritten(d)' = Unwritten(d) \ {c}
      BY <1>0, <1>1, <2>3, UnwrittenGoesOn
    <3> QED BY <2>1, <2>3, <3>1
  <2> QED BY <2>2, <2>3
<1>4. created \in Nat /\ created' = created
  BY <1>0, BoundsAssumption DEF TypeOK
<1> QED
  BY <1>0, <1>2, <1>3, <1>4, BooksKept DEF Row

\* Every step keeps the books.
LEMMA BooksStep ==
  ASSUME IInv, Books, [Next]_vars
  PROVE  Books'
<1>0. TypeOK /\ created \in Nat
  BY BoundsAssumption DEF IInv, TypeOK
<1>1. CASE UNCHANGED vars
  BY <1>0, <1>1, BooksQuiet DEF vars, rows, running, history, Row
<1>2. CASE Owner
  <2>1. /\ UNCHANGED <<posts, count, attempt, created>>
        /\ \A d \in Deliveries : status'[d] # "none" => Row(d)
    <3>1. CASE UNCHANGED status
      BY <1>2, <3>1
      DEF Owner, Register, Update, Change, Delete, CheckRetry, Requeue, rows, running,
          history, Row
    <3>2. ASSUME NEW s \in Subs, Delete(s)
          PROVE  \A d \in Deliveries : status'[d] # "none" => Row(d)
      BY <3>2 DEF Delete, Row
    <3>3. ASSUME NEW d \in Deliveries, Requeue(d)
          PROVE  \A x \in Deliveries : status'[x] # "none" => Row(x)
      BY <1>0, <3>3 DEF Requeue, Row, TypeOK, rows
    <3>4. \/ UNCHANGED status
          \/ \E s \in Subs : Delete(s)
          \/ \E d \in Deliveries : Requeue(d)
      BY <1>2 DEF Owner, Register, Update, CheckRetry, rows
    <3>5. UNCHANGED <<posts, count, attempt, created>>
      BY <1>2 DEF Owner, Register, Update, Change, Delete, CheckRetry, Requeue, rows,
                  running, history
    <3> QED BY <3>1, <3>2, <3>3, <3>4, <3>5 DEF Row
  <2> QED BY <1>0, <2>1, BooksQuiet
<1>3. CASE FanOut
  <2>1. ASSUME NEW r \in Dispatches, NEW e \in Events, DispatchStreamEvent(r, e)
        PROVE  Books'
    BY <1>0, <2>1, BooksQuiet DEF DispatchStreamEvent, rows, history, Row
  <2>2. ASSUME NEW r \in Dispatches, NEW s \in Subs, CreateDelivery(r, s)
        PROVE  Books'
    <3> DEFINE n == created + 1
               a == [id |-> n, seen |-> 0, step |-> "post", ok |-> FALSE]
    <3>1. /\ n <= MaxDeliveries /\ Insert(n, s) /\ UNCHANGED posts
          /\ attempt' = [attempt EXCEPT ![n] = a]
      BY <2>2 DEF CreateDelivery, Begin, history
    <3>2. /\ created' = n /\ n \in Deliveries /\ UNCHANGED count
          /\ \A d \in Deliveries : status'[d] # "none" => Row(d) \/ d = n
      BY <3>1, InsertFacts
    <3>3. n \in Callers
      BY <3>2 DEF Callers
    <3>4. attempt[n] = NoAttempt
      BY <1>0, <3>2, <3>3 DEF IInv, FirstAttemptsAreOwn, IdsAreCreated
    <3>5. \A d \in Deliveries : Unwritten(d)' = Unwritten(d)
      <4> TAKE d \in Deliveries
      <4>1. n \notin Unwritten(d)
        BY <1>0, <3>4 DEF Unwritten, NoAttempt, Deliveries
      <4>2. ~ (a.id = d /\ a.step # "post")
        OBVIOUS
      <4> HIDE DEF a
      <4>3. Unwritten(d)' = Unwritten(d) \ {n}
        BY <1>0, <3>1, <3>3, <4>2, UnwrittenAfter
      <4> QED BY <4>1, <4>3
    <3>6. count' \in [Deliveries -> Nat] /\ \A d \in Deliveries : count[d] <= count'[d]
      BY <1>0, <3>2 DEF TypeOK
    <3>7. /\ created' \in Nat /\ created <= created'
          /\ \A d \in Deliveries : status'[d] # "none" => Row(d) \/ d > created
      BY <1>0, <3>2
    <3> QED BY <3>1, <3>5, <3>6, <3>7, BooksKept
  <2>3. ASSUME NEW r \in Dispatches, NEW s \in Subs, CreateRefused(r, s)
        PROVE  Books'
    BY <1>0, <2>3, BooksQuiet DEF CreateRefused, rows, history, Row
  <2>4. ASSUME NEW r \in Dispatches, NEW s \in Subs, NEW applied \in BOOLEAN,
               CreateFails(r, s, applied)
        PROVE  Books'
    <3>1. UNCHANGED <<posts, attempt>>
      BY <2>4 DEF CreateFails, history
    <3>2. CASE UNCHANGED <<created, rows>>
      BY <1>0, <3>1, <3>2, BooksQuiet DEF rows, Row
    <3>3. CASE created + 1 <= MaxDeliveries /\ Insert(created + 1, s)
      <4>1. /\ created' = created + 1 /\ UNCHANGED count
            /\ \A d \in Deliveries : status'[d] # "none" => Row(d) \/ d = created + 1
        BY <3>3, InsertFacts
      <4>2. /\ created' \in Nat /\ created <= created'
            /\ \A d \in Deliveries : status'[d] # "none" => Row(d) \/ d > created
        BY <1>0, <4>1
      <4> QED BY <3>1, <4>1, <4>2, BooksQuiet
    <3> QED BY <2>4, <3>2, <3>3 DEF CreateFails
  <2> QED BY <1>3, <2>1, <2>2, <2>3, <2>4 DEF FanOut
<1>4. CASE Attempt
  <2>1. ASSUME NEW c \in Callers, PostEnds(c)
        PROVE  Books'
    BY <2>1, BooksPost
  <2>2. ASSUME NEW c \in Callers, AttemptEnds(c)
        PROVE  Books'
    <3> DEFINE ok == attempt[c].step = "record" /\ attempt[c].ok
    <3>1. /\ attempt[c].step \in {"record", "catch"} /\ RecordAttempt(c, ok)
          /\ attempt' = [attempt EXCEPT ![c] = NoAttempt]
          /\ UNCHANGED <<created, posts>>
      BY <2>2 DEF AttemptEnds, history
    <3>2. ok \in BOOLEAN /\ (ok => attempt[c].id \in answered)
      BY DEF IInv, OkIsAnswered
    <3> HIDE DEF ok
    <3> QED BY <3>1, <3>2, BooksEnd
  <2>3. ASSUME NEW c \in Callers, NEW applied \in BOOLEAN, RecordFails(c, applied)
        PROVE  Books'
    BY <2>3, BooksRecordFails
  <2>4. ASSUME NEW c \in Callers, NEW applied \in BOOLEAN, CatchFails(c, applied)
        PROVE  Books'
    <3>1. /\ attempt[c].step \in {"record", "catch"}
          /\ attempt' = [attempt EXCEPT ![c] = NoAttempt]
          /\ UNCHANGED created
          /\ \/ UNCHANGED posts /\ RecordAttempt(c, FALSE)
             \/ posts' = [posts EXCEPT ![attempt[c].id] = @ - 1] /\ UNCHANGED rows
      BY <2>4 DEF CatchFails
    <3>2. \E ok \in BOOLEAN : (ok => attempt[c].id \in answered)
                              /\ (RecordAttempt(c, FALSE) => RecordAttempt(c, ok))
      OBVIOUS
    <3> QED BY <3>1, <3>2, BooksEnd
  <2> QED BY <1>4, <2>1, <2>2, <2>3, <2>4 DEF Attempt
<1>5. CASE Sweep
  <2>1. ASSUME NEW w \in Sweeps, StartSweep(w) \/ SweepFails(w)
        PROVE  Books'
    BY <1>0, <2>1, BooksQuiet DEF StartSweep, SweepFails, rows, history, Row
  <2>2. ASSUME NEW w \in Sweeps, NEW x \in batch[w], SweepNext(w, x)
        PROVE  Books'
    <3> DEFINE a == [id |-> x.id, seen |-> x.seen, step |-> "post", ok |-> FALSE]
    <3>1. /\ attempt[w] = NoAttempt /\ w \in Callers
          /\ attempt' = [attempt EXCEPT ![w] = a] \/ UNCHANGED attempt
          /\ UNCHANGED <<posts, created, count, status>>
      BY <2>2 DEF SweepNext, Begin, rows, history, Callers
    <3>2. CASE UNCHANGED attempt
      BY <1>0, <3>1, <3>2, BooksQuiet DEF Row
    <3>3. CASE attempt' = [attempt EXCEPT ![w] = a]
      <4>1. \A d \in Deliveries : Unwritten(d)' = Unwritten(d)
        <5> TAKE d \in Deliveries
        <5>1. w \notin Unwritten(d)
          BY <3>1 DEF Unwritten, NoAttempt, Deliveries
        <5>2. ~ (a.id = d /\ a.step # "post")
          OBVIOUS
        <5> HIDE DEF a
        <5>3. Unwritten(d)' = Unwritten(d) \ {w}
          BY <1>0, <3>1, <3>3, <5>2, UnwrittenAfter
        <5> QED BY <5>1, <5>3
      <4>2. /\ count' \in [Deliveries -> Nat]
            /\ \A d \in Deliveries : count[d] <= count'[d]
        BY <1>0, <3>1 DEF TypeOK
      <4> QED BY <1>0, <3>1, <4>1, <4>2, BooksKept DEF Row
    <3> QED BY <3>1, <3>2, <3>3
  <2> QED BY <1>5, <2>1, <2>2 DEF Sweep, SweepOn
<1>6. CASE \E d \in Deliveries : Elapse(d)
  BY <1>0, <1>6, BooksQuiet DEF Elapse, running, history, Row
<1>7. CASE Crash
  <2>1. /\ posts' = [d \in Deliveries |-> posts[d] - Cardinality(Unwritten(d))]
        /\ UNCHANGED <<created, status, count>>
        /\ attempt' = [c \in Callers |-> NoAttempt]
    BY <1>7 DEF Crash, rows
  <2> SUFFICES ASSUME NEW d \in Deliveries, Row(d) \/ d > created
               PROVE  posts'[d] <= count[d] + Cardinality(Unwritten(d)')
    BY <2>1 DEF Books, Row
  <2>2. posts[d] \in Int /\ count[d] \in Nat
    BY <1>0 DEF TypeOK
  <2>3. posts[d] <= count[d] + Cardinality(Unwritten(d))
    BY DEF Books
  <2>4. Cardinality(Unwritten(d)') = 0
    <3>1. Unwritten(d)' = {}
      BY <2>1 DEF Unwritten, NoAttempt, Deliveries
    <3> QED BY <3>1, FS_EmptySet
  <2> QED BY <2>1, <2>2, <2>3, <2>4, UnwrittenFinite
<1> QED
  BY <1>1, <1>2, <1>3, <1>4, <1>5, <1>6, <1>7 DEF Next

-----------------------------------------------------------------------------
(* Theorems *)

\* The initial tables are empty.
LEMMA InitStep == Init => IInv
<1> SUFFICES ASSUME Init PROVE IInv
  OBVIOUS
<1>1. TypeOK
  BY SubsAssumption, BoundsAssumption DEF Init, TypeOK, AttemptType
<1>2. Parts
  BY DEF Init, Parts, SeenNotAhead, FirstAttemptsAreOwn, IdsAreCreated, OkIsAnswered,
         FailedMeansExhausted, SuccessIsReal, AnswersAreRecorded, PendingIsScheduled,
         Row, Callers, NoAttempt
<1> QED BY <1>1, <1>2 DEF IInv, Parts

\* The inductive invariant holds in every reachable state: the counts that attempts
\* and sweeps have read lag behind the rows, ids name created deliveries, and a
\* success in hand has its answer.
THEOREM Invariance == Spec => []IInv
<1>1. IInv /\ [Next]_vars => IInv'
  <2> SUFFICES ASSUME IInv, [Next]_vars PROVE IInv'
    OBVIOUS
  <2>1. CASE UNCHANGED vars
    <3>1. TypeOK'
      BY <2>1 DEF IInv, TypeOK, vars, rows, running, spent, history
    <3>2. Parts'
      BY <2>1, Quiet DEF vars, running, spent, history
    <3> QED BY <3>1, <3>2 DEF IInv, Parts
  <2>2. CASE Owner
    BY <2>2, OwnerStep
  <2>3. CASE FanOut
    BY <2>3, FanOutStep
  <2>4. CASE Attempt
    BY <2>4, PostStep, EndStep, RecordFailsStep DEF Attempt
  <2>5. CASE Sweep
    BY <2>5, SweepStep
  <2>6. CASE \E d \in Deliveries : Elapse(d)
    BY <2>6, ElapseStep
  <2>7. CASE Crash
    BY <2>7, CrashStep
  <2> QED
    BY <2>1, <2>2, <2>3, <2>4, <2>5, <2>6, <2>7 DEF Next
<1> QED
  BY InitStep, <1>1, PTL DEF Spec

\* The variables keep their types.
THEOREM TypeCorrect == Spec => []TypeOK
<1>1. IInv => TypeOK
  BY DEF IInv
<1> QED
  BY <1>1, Invariance, PTL

\* No delivery is given up before MAX_RETRIES retries have been counted, whatever
\* the number of overlapping attempts and however stale their counts.
THEOREM GivenUpOnlyWhenExhausted == Spec => []FailedMeansExhausted
<1>1. IInv => FailedMeansExhausted
  BY DEF IInv
<1> QED
  BY <1>1, Invariance, PTL

\* A delivery marked success, or with a delivered_at, has had a 2xx answer.
THEOREM SuccessNeedsAnswer == Spec => []SuccessIsReal
<1>1. IInv => SuccessIsReal
  BY DEF IInv
<1> QED
  BY <1>1, Invariance, PTL

\* Without faults a 2xx answer reaches delivered_at and is never erased by the
\* late failure of an overlapping attempt.
THEOREM AnswersAreKept == Spec => []AnswersAreRecorded
<1>1. IInv => AnswersAreRecorded
  BY DEF IInv
<1> QED
  BY <1>1, Invariance, PTL

\* Every pending row can be found by the sweep, and no settled one can.
THEOREM PendingCanBeSwept == Spec => []PendingIsScheduled
<1>1. IInv => PendingIsScheduled
  BY DEF IInv
<1> QED
  BY <1>1, Invariance, PTL

\* Every POST that has ended is counted in its row, is about to be, or was lost to
\* a fault: no increment of attempt_count is lost between overlapping attempts.
THEOREM AttemptsCounted == Spec => []AttemptsAreCounted
<1>1. Init => Books
  <2> SUFFICES ASSUME Init, NEW d \in Deliveries
               PROVE  posts[d] <= count[d] + Cardinality(Unwritten(d))
    BY DEF Books
  <2>1. posts[d] = 0 /\ count[d] = 0
    BY DEF Init
  <2> QED BY <2>1, UnwrittenFinite
<1>2. Books => AttemptsAreCounted
  BY DEF Books, AttemptsAreCounted
<1> QED
  BY <1>1, <1>2, BooksStep, Invariance, PTL DEF Spec

-----------------------------------------------------------------------------
(* Deliveries that are settled *)

Ends == {"success", "failed"}

Settled(d) == status[d] \in Ends

\* Whoever still has a settled delivery in hand has read it before it was settled.
SettledAhead ==
  \A d \in Deliveries : Settled(d) =>
    /\ \A c \in Callers :
         attempt[c] # NoAttempt /\ attempt[c].id = d => attempt[c].seen < count[d]
    /\ \A w \in Sweeps : \A x \in batch[w] : x.id = d => x.seen < count[d]

\* An attempt of d that is being recorded, from a count with retries left that is no
\* longer the row's.
Stale(d) ==
  \E c \in Callers : /\ attempt[c].step \in {"record", "catch"} /\ attempt[c].id = d
                     /\ attempt[c].seen < count[d] /\ attempt[c].seen < MaxRetries

\* A settled delivery is pending again only because its owner has requeued it, or because
\* an attempt failed late that had begun before it was settled.
Reopened ==
  \A d \in Deliveries : Settled(d) /\ status'[d] = "pending" => Requeue(d) \/ Stale(d)

SettledStays == [][Reopened]_vars

\* An attempt or a sweep has read the count seen of delivery d.
InHand(d, seen) ==
  \/ \E c \in Callers : attempt[c] # NoAttempt /\ attempt[c].id = d /\ attempt[c].seen = seen
  \/ \E w \in Sweeps : \E x \in batch[w] : x.id = d /\ x.seen = seen

LEMMA InHandFacts ==
  ASSUME IInv, SettledAhead, NEW d \in Deliveries, NEW seen, InHand(d, seen)
  PROVE  seen \in Nat /\ seen <= count[d] /\ (Settled(d) => seen < count[d])
<1>1. CASE \E c \in Callers :
             attempt[c] # NoAttempt /\ attempt[c].id = d /\ attempt[c].seen = seen
  <2>1. PICK c \in Callers :
          attempt[c] # NoAttempt /\ attempt[c].id = d /\ attempt[c].seen = seen
    BY <1>1
  <2>2. attempt[c].seen \in Nat
    BY <2>1 DEF IInv, TypeOK, AttemptType
  <2> QED BY <2>1, <2>2 DEF IInv, SeenNotAhead, SettledAhead
<1>2. CASE \E w \in Sweeps : \E x \in batch[w] : x.id = d /\ x.seen = seen
  <2>0. PICK w \in Sweeps : \E x \in batch[w] : x.id = d /\ x.seen = seen
    BY <1>2
  <2>1. PICK x \in batch[w] : x.id = d /\ x.seen = seen
    BY <2>0
  <2>2. x \in Snapshots
    BY DEF IInv, TypeOK
  <2>3. x.seen \in Nat
    BY <2>2 DEF Snapshots
  <2> QED BY <2>1, <2>3 DEF IInv, SeenNotAhead, SettledAhead
<1> QED BY <1>1, <1>2 DEF InHand

\* Every step: a row that is settled by it is counted once more, and what is in hand
\* afterwards was in hand before or is of a row that is not settled.
LEMMA AheadAfter ==
  ASSUME IInv, SettledAhead, count' \in [Deliveries -> Nat],
         \A d \in Deliveries :
           /\ count[d] <= count'[d]
           /\ status'[d] \in Ends => Settled(d) \/ count[d] < count'[d],
         \A c \in Callers : attempt'[c] # NoAttempt =>
           \/ InHand(attempt'[c].id, attempt'[c].seen)
           \/ status'[attempt'[c].id] \notin Ends,
         \A w \in Sweeps : \A x \in batch'[w] :
           InHand(x.id, x.seen) \/ status'[x.id] \notin Ends
  PROVE  SettledAhead'
<1> SUFFICES ASSUME NEW d \in Deliveries, status'[d] \in Ends
             PROVE  /\ \A c \in Callers :
                         attempt'[c] # NoAttempt /\ attempt'[c].id = d
                           => attempt'[c].seen < count'[d]
                    /\ \A w \in Sweeps : \A x \in batch'[w] : x.id = d => x.seen < count'[d]
  BY DEF SettledAhead, Settled
<1>1. count[d] \in Nat /\ count'[d] \in Nat
  BY DEF IInv, TypeOK
<1>2. ASSUME NEW seen, InHand(d, seen)
      PROVE  seen < count'[d]
  BY <1>1, <1>2, InHandFacts
<1> QED BY <1>2

\* So it is when rows and what is in hand stay, or go.
LEMMA AheadQuiet ==
  ASSUME IInv, SettledAhead, UNCHANGED count,
         \A d \in Deliveries : status'[d] \in {status[d], "none"},
         \A c \in Callers : \/ attempt'[c] = NoAttempt
                            \/ /\ attempt[c] # NoAttempt
                               /\ attempt'[c].id = attempt[c].id
                               /\ attempt'[c].seen = attempt[c].seen,
         \A w \in Sweeps : batch'[w] \subseteq batch[w]
  PROVE  SettledAhead' /\ Reopened
<1>1. count' \in [Deliveries -> Nat] /\ \A d \in Deliveries : count[d] <= count'[d]
  BY DEF IInv, TypeOK
<1>2. \A d \in Deliveries : status'[d] \in Ends => Settled(d)
  BY DEF Settled, Ends
<1>3. \A c \in Callers : attempt'[c] # NoAttempt => InHand(attempt'[c].id, attempt'[c].seen)
  BY DEF InHand
<1>4. \A w \in Sweeps : \A x \in batch'[w] : InHand(x.id, x.seen)
  BY DEF InHand
<1>5. Reopened
  BY DEF Reopened, Settled, Ends
<1> QED BY <1>1, <1>2, <1>3, <1>4, <1>5, AheadAfter

\* recordAttempt: the row that it settles is counted once more.
LEMMA RecordMoves ==
  ASSUME IInv, SettledAhead, NEW c \in Callers, attempt[c].step \in {"record", "catch"},
         NEW ok \in BOOLEAN, RecordAttempt(c, ok)
  PROVE  /\ count' \in [Deliveries -> Nat]
         /\ \A d \in Deliveries :
              /\ count[d] <= count'[d]
              /\ status'[d] \in Ends => Settled(d) \/ count[d] < count'[d]
         /\ Reopened
<1> DEFINE e == attempt[c].id
           next == IF ok THEN "null" ELSE NextAttemptAfter(attempt[c].seen + 1)
<1>1. /\ attempt[c] # NoAttempt /\ e \in Deliveries /\ attempt[c].seen \in Nat
      /\ count \in [Deliveries -> Nat] /\ MaxRetries \in Nat
      /\ status = [d \in Deliveries |-> status[d]]
  BY AttemptFacts, BudgetAssumption DEF IInv, TypeOK
<1>2. CASE ~ Row(e)
  <2>1. UNCHANGED <<count, status>>
    BY <1>2 DEF RecordAttempt, rows
  <2> QED BY <1>1, <2>1 DEF Reopened, Settled, Ends
<1>3. CASE Row(e)
  <2>1. /\ count' = [count EXCEPT ![e] = count[e] + 1]
        /\ status' = [status EXCEPT ![e] = IF ok THEN "success"
                                           ELSE IF next = "null" THEN "failed"
                                           ELSE "pending"]
    BY <1>3 DEF RecordAttempt, CountAfter, StatusAfter
  <2>2. \A d \in Deliveries : d # e => status'[d] = status[d] /\ count'[d] = count[d]
    BY <1>1, <2>1
  <2>3. count'[e] = count[e] + 1 /\ count' \in [Deliveries -> Nat]
    BY <1>1, <2>1
  <2>4. ASSUME Settled(e), status'[e] = "pending"
        PROVE  Stale(e)
    <3>1. ~ ok /\ next # "null"
      BY <1>1, <2>1, <2>4
    <3>2. NextAttemptAfter(attempt[c].seen + 1) # "null"
      BY <3>1
    <3>3. attempt[c].seen < MaxRetries
      BY <1>1, <3>2 DEF NextAttemptAfter
    <3>4. attempt[c].seen < count[e]
      BY <1>1, <2>4 DEF SettledAhead
    <3> QED BY <3>3, <3>4 DEF Stale
  <2>5. Reopened
    BY <2>2, <2>4 DEF Reopened, Settled, Ends
  <2>6. \A d \in Deliveries : count[d] <= count'[d]
    BY <1>1, <2>2, <2>3
  <2>7. \A d \in Deliveries : status'[d] \in Ends => Settled(d) \/ count[d] < count'[d]
    <3>1. count[e] < count'[e]
      BY <1>1, <2>3
    <3> QED BY <2>2, <3>1 DEF Settled
  <2> QED BY <2>3, <2>5, <2>6, <2>7
<1> QED BY <1>2, <1>3

\* The end of a POST and what is written of it.
LEMMA AheadAttempt ==
  ASSUME IInv, SettledAhead, NEW c \in Callers,
         \/ PostEnds(c) \/ AttemptEnds(c)
         \/ \E applied \in BOOLEAN : RecordFails(c, applied) \/ CatchFails(c, applied)
  PROVE  SettledAhead' /\ Reopened
<1>1. attempt[c].step \in {"post", "record", "catch"}
  BY DEF PostEnds, PostAnswered, PostThrows, AttemptEnds, RecordFails, CatchFails
<1>2. /\ attempt[c] # NoAttempt /\ attempt[c].ok \in BOOLEAN
      /\ attempt = [x \in Callers |-> attempt[x]]
  BY <1>1, AttemptFacts DEF IInv, TypeOK
<1>3. /\ \/ attempt' = [attempt EXCEPT ![c] = NoAttempt]
         \/ \E step, ok : GoOn(c, step, ok)
      /\ \A w \in Sweeps : batch'[w] \subseteq batch[w]
  BY DEF PostEnds, PostAnswered, PostThrows, AttemptEnds, RecordFails, CatchFails
<1>4. \A x \in Callers : \/ attempt'[x] = NoAttempt
                         \/ /\ attempt[x] # NoAttempt
                            /\ attempt'[x].id = attempt[x].id
                            /\ attempt'[x].seen = attempt[x].seen
  <2>1. \A x \in Callers \ {c} : attempt'[x] = attempt[x]
    BY <1>2, <1>3 DEF GoOn
  <2>2. attempt'[c] = NoAttempt \/ (attempt'[c].id = attempt[c].id
                                    /\ attempt'[c].seen = attempt[c].seen)
    BY <1>2, <1>3 DEF GoOn
  <2> QED BY <1>2, <2>1, <2>2
<1>5. CASE UNCHANGED <<count, status>>
  BY <1>3, <1>4, <1>5, AheadQuiet
<1>6. ASSUME NEW ok \in BOOLEAN, RecordAttempt(c, ok), attempt[c].step \in {"record", "catch"}
      PROVE  SettledAhead' /\ Reopened
  <2>1. \A x \in Callers : attempt'[x] # NoAttempt => InHand(attempt'[x].id, attempt'[x].seen)
    BY <1>4 DEF InHand
  <2>2. \A w \in Sweeps : \A x \in batch'[w] : InHand(x.id, x.seen)
    BY <1>3 DEF InHand
  <2> QED BY <1>6, <2>1, <2>2, RecordMoves, AheadAfter
<1>7. CASE PostEnds(c)
  BY <1>5, <1>7 DEF PostEnds, PostAnswered, PostThrows, rows
<1>8. CASE AttemptEnds(c)
  BY <1>6, <1>8 DEF AttemptEnds
<1>9. ASSUME NEW applied \in BOOLEAN, RecordFails(c, applied) \/ CatchFails(c, applied)
      PROVE  SettledAhead' /\ Reopened
  BY <1>2, <1>5, <1>6, <1>9 DEF RecordFails, CatchFails, rows
<1> QED BY <1>7, <1>8, <1>9

\* A row that is new is pending, and so are the rows that a sweep reads.
LEMMA AheadFanOut ==
  ASSUME IInv, SettledAhead, FanOut
  PROVE  SettledAhead' /\ Reopened
<1> DEFINE n == created + 1
<1>1. /\ attempt = [c \in Callers |-> attempt[c]] /\ count \in [Deliveries -> Nat]
      /\ status = [d \in Deliveries |-> status[d]]
  BY DEF IInv, TypeOK
<1>2. UNCHANGED batch
  BY DEF FanOut, DispatchStreamEvent, CreateDelivery, CreateRefused, CreateFails
<1>3. CASE UNCHANGED <<rows, attempt>>
  BY <1>2, <1>3, AheadQuiet DEF rows
<1>4. ASSUME NEW s \in Subs, n <= MaxDeliveries, Insert(n, s),
             \A c \in Callers : \/ attempt'[c] = attempt[c]
                                \/ attempt'[c].id = n
      PROVE  SettledAhead' /\ Reopened
  <2>1. n \in Deliveries /\ UNCHANGED count
    BY <1>4, InsertFacts
  <2>2. status' = [status EXCEPT ![n] = "pending"] /\ ~ Settled(n)
    <3>1. ~ Row(n)
      BY <2>1, BoundsAssumption DEF IInv, IdsAreCreated, TypeOK, Deliveries
    <3> QED BY <1>4, <3>1 DEF Insert, Settled, Ends, Row
  <2>3. \A d \in Deliveries : d # n => status'[d] = status[d]
    BY <1>1, <2>2
  <2>4. status'[n] = "pending"
    BY <1>1, <2>1, <2>2
  <2>5. Reopened
    BY <2>2, <2>3 DEF Reopened, Settled, Ends
  <2>6. \A d \in Deliveries : count[d] <= count'[d] /\ (status'[d] \in Ends => Settled(d))
    BY <1>1, <2>1, <2>3, <2>4 DEF Settled, Ends
  <2>7. \A c \in Callers : attempt'[c] # NoAttempt =>
          InHand(attempt'[c].id, attempt'[c].seen) \/ status'[attempt'[c].id] \notin Ends
    BY <1>4, <2>4 DEF InHand, Ends
  <2>8. \A w \in Sweeps : \A x \in batch'[w] : InHand(x.id, x.seen)
    BY <1>2 DEF InHand
  <2> QED BY <1>1, <2>1, <2>5, <2>6, <2>7, <2>8, AheadAfter
<1>5. ASSUME NEW r \in Dispatches, NEW s \in Subs, CreateDelivery(r, s)
      PROVE  SettledAhead' /\ Reopened
  <2>1. /\ n <= MaxDeliveries /\ Insert(n, s)
        /\ attempt' = [attempt EXCEPT ![n] = [id |-> n, seen |-> 0, step |-> "post",
                                              ok |-> FALSE]]
    BY <1>5 DEF CreateDelivery, Begin
  <2>2. \A c \in Callers : attempt'[c] = attempt[c] \/ attempt'[c].id = n
    BY <1>1, <2>1
  <2> QED BY <1>4, <2>1, <2>2
<1>6. ASSUME NEW r \in Dispatches, NEW s \in Subs, NEW applied \in BOOLEAN,
             CreateFails(r, s, applied)
      PROVE  SettledAhead' /\ Reopened
  <2>1. CASE applied
    BY <1>4, <1>6, <2>1 DEF CreateFails
  <2>2. CASE ~ applied
    BY <1>3, <1>6, <2>2 DEF CreateFails
  <2> QED BY <2>1, <2>2
<1>7. ASSUME \/ \E r \in Dispatches, e \in Events : DispatchStreamEvent(r, e)
             \/ \E r \in Dispatches, s \in Subs : CreateRefused(r, s)
      PROVE  SettledAhead' /\ Reopened
  BY <1>3, <1>7 DEF DispatchStreamEvent, CreateRefused
<1> QED BY <1>5, <1>6, <1>7 DEF FanOut

LEMMA AheadSweep ==
  ASSUME IInv, SettledAhead, NEW w \in Sweeps, StartSweep(w) \/ SweepOn(w) \/ SweepFails(w)
  PROVE  SettledAhead' /\ Reopened
<1>1. /\ attempt = [c \in Callers |-> attempt[c]] /\ count \in [Deliveries -> Nat]
      /\ batch = [v \in Sweeps |-> batch[v]] /\ w \in Callers
  BY DEF IInv, TypeOK, Callers
<1>2. UNCHANGED <<count, status>>
  BY DEF StartSweep, SweepOn, SweepNext, SweepFails, rows
<1>3. /\ count' \in [Deliveries -> Nat] /\ Reopened
      /\ \A d \in Deliveries : count[d] <= count'[d] /\ (status'[d] \in Ends => Settled(d))
  BY <1>1, <1>2 DEF Reopened, Settled, Ends
<1>4. CASE StartSweep(w)
  <2>1. /\ batch' = [batch EXCEPT ![w] = {[id |-> d, seen |-> count[d]] : d \in FindDuePending}]
        /\ UNCHANGED attempt
    BY <1>4 DEF StartSweep
  <2>2. \A d \in FindDuePending : status'[d] \notin Ends
    BY <1>2 DEF FindDuePending, Due, Ends
  <2>3. \A x \in batch'[w] : status'[x.id] \notin Ends
    BY <1>1, <2>1, <2>2
  <2>4. \A v \in Sweeps \ {w} : batch'[v] = batch[v]
    BY <1>1, <2>1
  <2>5. \A v \in Sweeps : \A x \in batch'[v] :
          InHand(x.id, x.seen) \/ status'[x.id] \notin Ends
    BY <2>3, <2>4 DEF InHand
  <2>6. \A c \in Callers : attempt'[c] # NoAttempt => InHand(attempt'[c].id, attempt'[c].seen)
    BY <2>1 DEF InHand
  <2> QED BY <1>3, <2>5, <2>6, AheadAfter
<1>5. ASSUME NEW y \in batch[w], SweepNext(w, y)
      PROVE  SettledAhead' /\ Reopened
  <2>1. /\ \A v \in Sweeps : batch'[v] \subseteq batch[v]
        /\ \/ UNCHANGED attempt
           \/ attempt' = [attempt EXCEPT ![w] = [id |-> y.id, seen |-> y.seen,
                                                 step |-> "post", ok |-> FALSE]]
    BY <1>1, <1>5 DEF SweepNext, Begin
  <2>2. \A v \in Sweeps : \A x \in batch'[v] : InHand(x.id, x.seen)
    BY <2>1 DEF InHand
  <2>3. \A c \in Callers :
          \/ attempt'[c] = attempt[c]
          \/ attempt'[c].id = y.id /\ attempt'[c].seen = y.seen
    BY <1>1, <2>1
  <2>4. InHand(y.id, y.seen)
    BY DEF InHand
  <2>5. ASSUME NEW c \in Callers, attempt'[c] # NoAttempt
        PROVE  InHand(attempt'[c].id, attempt'[c].seen)
    <3>1. CASE attempt'[c] = attempt[c]
      BY <2>5, <3>1 DEF InHand
    <3>2. CASE attempt'[c].id = y.id /\ attempt'[c].seen = y.seen
      BY <2>4, <3>2
    <3> QED BY <2>3, <3>1, <3>2
  <2> QED BY <1>3, <2>2, <2>5, AheadAfter
<1>6. CASE SweepFails(w)
  <2>1. UNCHANGED attempt /\ \A v \in Sweeps : batch'[v] \subseteq batch[v]
    BY <1>1, <1>6 DEF SweepFails
  <2>2. \A c \in Callers : attempt'[c] = NoAttempt \/ attempt[c] # NoAttempt
    BY <2>1
  <2> QED BY <1>2, <2>1, <2>2, AheadQuiet
<1> QED BY <1>4, <1>5, <1>6 DEF SweepOn

LEMMA AheadStep ==
  ASSUME IInv, SettledAhead, [Next]_vars
  PROVE  SettledAhead' /\ Reopened
<1>1. ASSUME UNCHANGED <<count, batch, attempt>>,
             \A d \in Deliveries : status'[d] \in {status[d], "none"}
      PROVE  SettledAhead' /\ Reopened
  BY <1>1, AheadQuiet
<1>2. status = [d \in Deliveries |-> status[d]]
  BY DEF IInv, TypeOK
<1>3. CASE UNCHANGED vars
  BY <1>1, <1>3 DEF vars, rows, running
<1>4. CASE Owner
  <2>1. UNCHANGED <<count, batch, attempt>>
    BY <1>4 DEF Owner, Register, Update, Change, Delete, CheckRetry, Requeue, rows, running
  <2>2. ASSUME NEW s \in Subs, Delete(s)
        PROVE  SettledAhead' /\ Reopened
    BY <1>1, <2>1, <2>2 DEF Delete
  <2>3. ASSUME NEW d \in Deliveries, Requeue(d)
        PROVE  SettledAhead' /\ Reopened
    <3>1. \A x \in Deliveries : x # d => status'[x] = status[x]
      BY <1>2, <2>3 DEF Requeue, rows
    <3>2. status'[d] \in {"pending", status[d]}
      BY <1>2, <2>3 DEF Requeue, rows
    <3>3. Reopened
      BY <2>3, <3>1 DEF Reopened, Settled, Ends
    <3>4. \A x \in Deliveries : status'[x] \in Ends => Settled(x)
      BY <3>1, <3>2 DEF Settled, Ends
    <3>5. count' \in [Deliveries -> Nat] /\ \A x \in Deliveries : count[x] <= count'[x]
      BY <2>1 DEF IInv, TypeOK
    <3>6. /\ \A c \in Callers :
               attempt'[c] # NoAttempt => InHand(attempt'[c].id, attempt'[c].seen)
          /\ \A w \in Sweeps : \A x \in batch'[w] : InHand(x.id, x.seen)
      BY <2>1 DEF InHand
    <3> QED BY <3>3, <3>4, <3>5, <3>6, AheadAfter
  <2>4. CASE UNCHANGED status
    BY <1>1, <2>1, <2>4
  <2>5. \/ UNCHANGED status
        \/ \E s \in Subs : Delete(s)
        \/ \E d \in Deliveries : Requeue(d)
    BY <1>4 DEF Owner, Register, Update, CheckRetry, rows
  <2> QED BY <2>2, <2>3, <2>4, <2>5
<1>5. CASE Attempt
  BY <1>5, AheadAttempt DEF Attempt
<1>6. CASE Sweep
  BY <1>6, AheadSweep DEF Sweep
<1>7. CASE \E d \in Deliveries : Elapse(d)
  BY <1>1, <1>7 DEF Elapse, running
<1>8. CASE Crash
  <2>1. /\ UNCHANGED <<count, status>> /\ \A c \in Callers : attempt'[c] = NoAttempt
        /\ \A w \in Sweeps : batch'[w] \subseteq batch[w]
    BY <1>8 DEF Crash, rows
  <2> QED BY <2>1, AheadQuiet
<1> QED BY <1>3, <1>4, <1>5, <1>6, <1>7, <1>8, AheadFanOut DEF Next

\* attemptDelivery, sweepRetries and retryDelivery: nothing excludes two attempts of one
\* delivery, but the damage is limited.  A settled delivery is taken up again only by its
\* owner, or by an attempt that was under way, or in the batch of a sweep, before it was
\* settled; no sweep that begins later touches it.
THEOREM SettledIsKept == Spec => SettledStays
<1>1. Init => SettledAhead
  BY DEF Init, SettledAhead, Settled, Ends
<1>2. IInv /\ SettledAhead /\ [Next]_vars => SettledAhead'
  BY AheadStep
<1>3. IInv /\ SettledAhead /\ [Next]_vars => [Reopened]_vars
  BY AheadStep
<1> QED BY <1>1, <1>2, <1>3, Invariance, PTL DEF Spec, SettledStays

=============================================================================
