------------------------- MODULE StreamSession_proofs -------------------------
(***************************************************************************)
(* Proofs about StreamSession for every queue depth, retry budget and      *)
(* number of events.                                                       *)
(***************************************************************************)
EXTENDS StreamSession, SequenceTheorems, TLAPS

-----------------------------------------------------------------------------
(* The inductive invariant *)

\* The pump is at work only in these states, and it never leaves its loop with
\* events in the queue: whoever enqueues next finds the queue empty.
PumpState ==
  /\ pump # "off" => state \in {"running", "draining", "errored"}
  /\ pump = "off" => queue = <<>>
  /\ failed => state \in {"errored", "stopped"} /\ queue = <<>>
  /\ state = "errored" => failed
  /\ stopping => state \in {"draining", "errored"}

\* Number of events behind which the queue begins.
Taken == Len(finished) + (IF pump = "off" THEN 0 ELSE 1)

\* Finished events, the one in hand and the queue number on from each other.
Numbered ==
  /\ \A i \in 1..Len(finished) : finished[i] = i
  /\ pump # "off" => current = Taken
  /\ \A i \in 1..Len(queue) : queue[i] = Taken + i
  /\ Taken + Len(queue) <= accepted
  /\ ~ failed => Taken + Len(queue) = accepted

\* Deliveries of the event in hand are covered by its failed attempts, later
\* events have not been delivered, earlier ones are delivered or announced.
Counted ==
  /\ \A e \in Events : delivered[e] <= MaxPublishRetries + 1
  /\ \A e \in Events : e > Taken => delivered[e] = 0
  /\ \A e \in Events : e <= Len(finished) => delivered[e] > 0 \/ e \in announced
  /\ pump \in {"publish", "backoff"} =>
        delivered[current] <= attempts /\ attempts <= MaxPublishRetries

IInv ==
  /\ TypeOK
  /\ PumpState
  /\ Numbered
  /\ Counted

-----------------------------------------------------------------------------
(* Every step preserves it *)

\* A session that was just constructed satisfies the invariant.
LEMMA InitIInv == Init => IInv
  <1> SUFFICES ASSUME Init PROVE IInv
    OBVIOUS
  <1> USE DepthAssumption, RetriesAssumption, EventsAssumption DEF Init
  <1>1. TypeOK
    <2>1. stopping \in BOOLEAN /\ failed \in BOOLEAN
      BY Zenon
    <2>2. /\ queue \in Seq(Events) /\ Len(queue) = 0 /\ finished \in Seq(Events)
          /\ delivered \in [Events -> Nat]
      OBVIOUS
    <2>3. QED
      BY <2>1, <2>2 DEF TypeOK, States
  <1>2. PumpState
    BY DEF PumpState
  <1>3. Taken = 0
    BY DEF Taken
  <1>4. Numbered
    BY <1>3 DEF Numbered
  <1>5. Counted
    BY <1>3 DEF Counted, Events
  <1>6. QED
    BY <1>1, <1>2, <1>4, <1>5 DEF IInv

\* The types and lengths the steps below compute with.
Typed ==
  /\ Len(queue) \in Nat /\ Len(finished) \in Nat /\ Taken \in Nat
  /\ accepted \in Nat /\ accepted <= MaxEvents /\ attempts \in Nat
  /\ pump # "off" => current \in Events
  /\ queue # <<>> => /\ Len(queue) > 0
                     /\ Head(queue) = queue[1] /\ Head(queue) \in Events
                     /\ Tail(queue) \in Seq(Events)
                     /\ Len(Tail(queue)) = Len(queue) - 1
                     /\ \A i \in 1..Len(Tail(queue)) : Tail(queue)[i] = queue[i + 1]
  /\ \A e \in Events : delivered[e] \in Nat
  /\ MaxPublishRetries \in Nat /\ MaxQueueDepth \in Nat \ {0} /\ MaxEvents \in Nat

\* The type invariant in the unfolded form the step lemmas cite.
LEMMA IInvTyped == IInv => Typed
  <1> SUFFICES ASSUME IInv PROVE Typed
    OBVIOUS
  <1> USE DepthAssumption, RetriesAssumption, EventsAssumption DEF IInv
  <1>1. queue \in Seq(Events) /\ finished \in Seq(Events)
    BY DEF TypeOK
  <1>2. Len(queue) \in Nat /\ Len(finished) \in Nat /\ Taken \in Nat
    BY <1>1, LenProperties DEF Taken
  <1>3. queue # <<>> => /\ Len(queue) > 0
                        /\ Head(queue) = queue[1] /\ Head(queue) \in Events
                        /\ Tail(queue) \in Seq(Events)
                        /\ Len(Tail(queue)) = Len(queue) - 1
                        /\ \A i \in 1..Len(Tail(queue)) : Tail(queue)[i] = queue[i + 1]
    <2>1. queue # <<>> => Len(queue) > 0
      BY <1>1, EmptySeq
    <2>2. QED
      BY <1>1, <2>1, HeadTailProperties
  <1>4. pump # "off" => current \in Events
    BY <1>2 DEF TypeOK, Numbered, Taken, Events
  <1>5. /\ accepted \in Nat /\ accepted <= MaxEvents /\ attempts \in Nat
        /\ \A e \in Events : delivered[e] \in Nat
    BY DEF TypeOK
  <1>6. QED
    BY <1>2, <1>3, <1>4, <1>5 DEF Typed

\* The pump finishes the event in hand and goes to the head of its loop.
LEMMA FinishStep ==
  ASSUME IInv, pump # "off", Finish, NextIteration,
         UNCHANGED <<state, stopping, failed, accepted>>
  PROVE  /\ finished' \in Seq(Events) /\ Len(finished') = Len(finished) + 1
         /\ queue' \in Seq(Events) /\ Len(queue') <= MaxQueueDepth
         /\ pump' \in {"publish", "off"} /\ current' \in Nat
         /\ attempts' \in 0..(MaxPublishRetries + 1)
         /\ pump' = "publish" => attempts' = 0 /\ current' \in Events
         /\ Taken' \in {Taken, Taken + 1} /\ Len(finished) + 1 = Taken
         /\ PumpState' /\ Numbered'
  <1> USE DEF IInv
  <1>1. Typed /\ current = Taken /\ Taken = Len(finished) + 1
    BY IInvTyped DEF Numbered, Taken
  <1>2. /\ finished' \in Seq(Events) /\ Len(finished') = Len(finished) + 1
        /\ \A i \in 1..Len(finished) : finished'[i] = finished[i]
        /\ finished'[Len(finished) + 1] = current
    BY <1>1, AppendProperties DEF Finish, TypeOK, Typed
  <1>3. \A i \in 1..Len(finished') : finished'[i] = i
    BY <1>1, <1>2 DEF Numbered, Typed
  <1>4. CASE MayTake
    <2>1. /\ pump' = "publish" /\ current' = queue[1] /\ attempts' = 0
          /\ queue # <<>> /\ queue' = Tail(queue)
          /\ state \in {"running", "draining"}
      BY <1>1, <1>4 DEF NextIteration, MayTake, Take, Shifted, Typed
    <2>2. Taken' = Taken + 1
      BY <1>1, <1>2, <2>1 DEF Taken
    <2>3. /\ Len(queue') = Len(queue) - 1 /\ queue' \in Seq(Events) /\ current' \in Events
          /\ Len(queue) > 0 /\ Len(queue) \in Nat
          /\ \A i \in 1..Len(queue') : queue'[i] = queue[i + 1]
      BY <1>1, <2>1 DEF Typed
    <2>4. current' = Taken + 1
      BY <1>1, <2>1, <2>3 DEF Numbered
    <2>5. \A i \in 1..Len(queue') : queue'[i] = Taken' + i
      <3> SUFFICES ASSUME NEW i \in 1..Len(queue') PROVE queue[i + 1] = Taken + 1 + i
        BY <2>2, <2>3
      <3>1. i + 1 \in 1..Len(queue)
        BY <2>3
      <3>2. QED
        BY <1>1, <3>1 DEF Numbered, Typed
    <2>6. Numbered'
      <3>1. Taken' + Len(queue') = Taken + Len(queue) /\ current' = Taken'
        BY <1>1, <2>2, <2>3, <2>4 DEF Typed
      <3>2. /\ Taken + Len(queue) <= accepted
            /\ ~ failed => Taken + Len(queue) = accepted
        BY DEF Numbered
      <3>3. QED
        BY <1>3, <2>5, <3>1, <3>2 DEF Numbered
    <2>7. PumpState'
      BY <2>1 DEF PumpState
    <2>8. QED
      BY SMTT(30), <1>1, <1>2, <2>1, <2>2, <2>3, <2>6, <2>7 DEF TypeOK, Typed, Events
  <1>5. CASE ~ MayTake
    <2>1. pump' = "off" /\ queue' = queue /\ current' = current /\ attempts' = attempts
      BY <1>5 DEF NextIteration
    <2>2. queue = <<>>
      BY <1>5 DEF MayTake, PumpState, TypeOK, States
    <2>3. Taken' = Taken
      BY <1>1, <1>2, <2>1 DEF Taken
    <2>4. Numbered'
      BY <1>1, <1>3, <2>1, <2>2, <2>3 DEF Numbered, Typed
    <2>5. PumpState'
      BY <2>1, <2>2 DEF PumpState
    <2>6. QED
      BY <1>1, <1>2, <2>1, <2>2, <2>3, <2>4, <2>5 DEF TypeOK, Typed, Events
  <1>6. QED
    BY <1>4, <1>5

\* A publish that resolves delivers and finishes the event in hand.
LEMMA PublishResolvesStep ==
  ASSUME IInv, PublishResolves
  PROVE  IInv'
  <1> USE DEF IInv
  <1>1. /\ pump = "publish" /\ Deliver /\ Finish /\ NextIteration
        /\ UNCHANGED <<state, stopping, failed, accepted, recorded, announced>>
    BY DEF PublishResolves
  <1>2. Typed /\ current \in Events /\ current = Taken
    BY <1>1, IInvTyped DEF Typed, Numbered
  <1>3. /\ finished' \in Seq(Events) /\ Len(finished') = Len(finished) + 1
        /\ queue' \in Seq(Events) /\ Len(queue') <= MaxQueueDepth
        /\ pump' \in {"publish", "off"} /\ current' \in Nat
        /\ attempts' \in 0..(MaxPublishRetries + 1)
        /\ pump' = "publish" => attempts' = 0 /\ current' \in Events
        /\ Taken' \in {Taken, Taken + 1} /\ Len(finished) + 1 = Taken
        /\ PumpState' /\ Numbered'
    BY <1>1, FinishStep
  <1>4. /\ delivered' \in [Events -> Nat]
        /\ delivered'[current] = delivered[current] + 1
        /\ \A e \in Events : e # current => delivered'[e] = delivered[e]
    BY <1>1, <1>2 DEF Deliver, TypeOK
  <1>5. TypeOK'
    BY <1>1, <1>3, <1>4 DEF TypeOK, Waits
  <1>6. Counted'
    <2>1. \A e \in Events : delivered'[e] <= MaxPublishRetries + 1
      BY <1>1, <1>2, <1>4 DEF Counted, Typed
    <2>2. \A e \in Events : e > Taken' => delivered'[e] = 0
      <3> SUFFICES ASSUME NEW e \in Events, e > Taken' PROVE delivered'[e] = 0
        OBVIOUS
      <3>1. e > Taken /\ e # current
        BY <1>2, <1>3 DEF Typed, Events
      <3>2. QED
        BY <1>4, <3>1 DEF Counted
    <2>3. \A e \in Events : e <= Len(finished') => delivered'[e] > 0 \/ e \in announced'
      <3> SUFFICES ASSUME NEW e \in Events, e <= Len(finished')
                   PROVE  delivered'[e] > 0 \/ e \in announced'
        OBVIOUS
      <3>1. CASE e = current
        BY <1>2, <1>4, <3>1 DEF Typed
      <3>2. CASE e # current
        <4>1. e <= Len(finished)
          BY <1>2, <1>3, <3>2 DEF Typed, Events
        <4>2. QED
          BY <1>1, <1>4, <3>2, <4>1 DEF Counted
      <3>3. QED
        BY <3>1, <3>2
    <2>4. pump' \in {"publish", "backoff"} =>
             delivered'[current'] <= attempts' /\ attempts' <= MaxPublishRetries
      <3> SUFFICES ASSUME pump' = "publish"
                   PROVE  delivered'[current'] = 0 /\ attempts' = 0
        BY <1>2, <1>3 DEF Typed
      <3>1. current' = Taken' /\ Taken' = Len(finished') + 1
        BY <1>3 DEF Numbered, Taken
      <3>2. current' > Taken /\ current' \in Events
        BY <1>2, <1>3, <3>1 DEF Typed
      <3>3. QED
        BY SMTT(30), <1>2, <1>3, <1>4, <3>2 DEF Counted, Typed
    <2>5. QED
      BY <2>1, <2>2, <2>3, <2>4 DEF Counted
  <1>7. QED
    BY <1>3, <1>5, <1>6

\* A dead letter that settles, either way, finishes the event in hand.
LEMMA DeadLetterSettlesStep ==
  ASSUME IInv, DeadLetterSettles
  PROVE  IInv'
  <1> USE DEF IInv
  <1>1. /\ pump = "record" /\ Finish /\ NextIteration
        /\ UNCHANGED <<state, stopping, failed, accepted, delivered>>
        /\ announced' = announced \cup {current}
    BY DEF DeadLetterSettles
  <1>2. Typed /\ current \in Events /\ current = Taken
    BY <1>1, IInvTyped DEF Typed, Numbered
  <1>3. /\ finished' \in Seq(Events) /\ Len(finished') = Len(finished) + 1
        /\ queue' \in Seq(Events) /\ Len(queue') <= MaxQueueDepth
        /\ pump' \in {"publish", "off"} /\ current' \in Nat
        /\ attempts' \in 0..(MaxPublishRetries + 1)
        /\ pump' = "publish" => attempts' = 0 /\ current' \in Events
        /\ Taken' \in {Taken, Taken + 1} /\ Len(finished) + 1 = Taken
        /\ PumpState' /\ Numbered'
    BY <1>1, FinishStep
  <1>4. recorded' \in SUBSET Events /\ announced' \in SUBSET Events
    BY <1>1, <1>2 DEF DeadLetterSettles, TypeOK
  <1>5. TypeOK'
    BY <1>1, <1>3, <1>4 DEF TypeOK, Waits
  <1>6. Counted'
    <2>1. \A e \in Events : e > Taken' => delivered'[e] = 0
      BY <1>1, <1>2, <1>3 DEF Counted, Typed, Events
    <2>2. \A e \in Events : e <= Len(finished') => delivered'[e] > 0 \/ e \in announced'
      BY <1>1, <1>2, <1>3 DEF Counted, Typed, Events
    <2>3. pump' \in {"publish", "backoff"} =>
             delivered'[current'] <= attempts' /\ attempts' <= MaxPublishRetries
      <3> SUFFICES ASSUME pump' = "publish"
                   PROVE  delivered'[current'] = 0 /\ attempts' = 0
        BY <1>2, <1>3 DEF Typed
      <3>1. current' = Taken' /\ Taken' = Len(finished') + 1
        BY <1>3 DEF Numbered, Taken
      <3>2. current' > Taken /\ current' \in Events
        BY <1>2, <1>3, <3>1 DEF Typed
      <3>3. QED
        BY <1>1, <1>2, <1>3, <3>2 DEF Counted, Typed
    <2>4. QED
      BY <1>1, <2>1, <2>2, <2>3 DEF Counted
  <1>7. QED
    BY <1>3, <1>5, <1>6

\* A rejected publish backs off, or goes to the dead letter store.
LEMMA PublishRejectsStep ==
  ASSUME IInv, PublishRejects
  PROVE  IInv'
  <1> USE DEF IInv
  <1>1. /\ pump = "publish"
        /\ Deliver \/ UNCHANGED delivered
        /\ attempts' = attempts + 1
        /\ pump' = IF attempts + 1 > MaxPublishRetries THEN "record" ELSE "backoff"
        /\ UNCHANGED <<state, queue, current, stopping, failed, accepted, finished,
                       recorded, announced>>
    BY DEF PublishRejects, BudgetSpent
  <1>2. Typed /\ current \in Events /\ current = Taken /\ Taken = Len(finished) + 1
    BY <1>1, IInvTyped DEF Typed, Numbered, Taken
  <1>3. /\ delivered' \in [Events -> Nat]
        /\ delivered'[current] \in {delivered[current], delivered[current] + 1}
        /\ \A e \in Events : e # current => delivered'[e] = delivered[e]
    BY <1>1, <1>2 DEF Deliver, TypeOK
  <1>4. Taken' = Taken
    BY <1>1 DEF Taken
  <1>5. delivered[current] <= attempts /\ attempts <= MaxPublishRetries
    BY <1>1 DEF Counted
  <1>6. TypeOK'
    BY <1>1, <1>2, <1>3, <1>5 DEF TypeOK, Waits, Typed
  <1>7. PumpState' /\ Numbered'
    BY <1>1, <1>4 DEF PumpState, Numbered
  <1>8. Counted'
    <2>1. \A e \in Events : delivered'[e] <= MaxPublishRetries + 1
      BY <1>2, <1>3, <1>5 DEF Counted, Typed
    <2>2. \A e \in Events : e > Taken' => delivered'[e] = 0
      BY <1>2, <1>3, <1>4 DEF Counted, Typed, Events
    <2>3. \A e \in Events : e <= Len(finished') => delivered'[e] > 0 \/ e \in announced'
      BY <1>1, <1>2, <1>3 DEF Counted, Typed, Events
    <2>4. pump' \in {"publish", "backoff"} =>
             delivered'[current'] <= attempts' /\ attempts' <= MaxPublishRetries
      BY <1>1, <1>2, <1>3, <1>5 DEF Typed
    <2>5. QED
      BY <2>1, <2>2, <2>3, <2>4 DEF Counted
  <1>9. QED
    BY <1>6, <1>7, <1>8

\* enqueue() numbers the event, appends it and may wake the pump.
LEMMA EnqueueStep ==
  ASSUME IInv, Enqueue
  PROVE  IInv'
  <1> USE DEF IInv
  <1> DEFINE e == accepted + 1
             q == Append(queue, e)
  <1>1. /\ accepted < MaxEvents /\ state = "running" /\ Len(queue) < MaxQueueDepth
        /\ accepted' = e
        /\ UNCHANGED <<state, stopping, failed, finished, delivered, recorded, announced>>
    BY DEF Enqueue, HasRoom
  <1>2. Typed /\ ~ failed /\ Taken + Len(queue) = accepted
    BY <1>1, IInvTyped DEF PumpState, Numbered
  <1>3. e \in Events /\ e \in Nat /\ accepted' \in 0..MaxEvents
    BY <1>1, <1>2 DEF Typed, Events
  <1>4. /\ q \in Seq(Events) /\ Len(q) = Len(queue) + 1
        /\ \A i \in 1..Len(queue) : q[i] = queue[i]
        /\ q[Len(queue) + 1] = e
    BY <1>3, AppendProperties DEF TypeOK
  <1>5. CASE pump = "off"
    <2>1. /\ pump' = "publish" /\ current' = Head(q) /\ attempts' = 0 /\ queue' = Tail(q)
      BY <1>1, <1>5 DEF Enqueue, Take, Shifted
    <2>2. queue = <<>> /\ q = <<e>>
      BY <1>5 DEF PumpState
    <2>3. current' = e /\ queue' = <<>>
      BY <2>1, <2>2
    <2>4. Taken' = Taken + 1 /\ Taken = Len(finished) /\ Len(queue') = 0 /\ e = Taken'
      BY <1>1, <1>2, <1>5, <2>1, <2>2, <2>3 DEF Taken, Typed
    <2>5. TypeOK'
      <3>1. /\ queue' \in Seq(Events) /\ Len(queue') <= MaxQueueDepth
            /\ attempts' \in 0..(MaxPublishRetries + 1)
        <4>1. queue' \in Seq(Events)
          BY <2>3
        <4>2. Len(queue') <= MaxQueueDepth
          BY <1>2, <2>4 DEF Typed
        <4>3. attempts' \in 0..(MaxPublishRetries + 1)
          BY <1>2, <2>1 DEF Typed
        <4>4. QED
          BY <4>1, <4>2, <4>3
      <3>2. current' \in Nat /\ pump' \in Waits \cup {"off"}
        BY <1>3, <2>1, <2>3 DEF Waits
      <3>3. QED
        BY <1>1, <1>3, <3>1, <3>2 DEF TypeOK
    <2>6. PumpState'
      BY <1>1, <1>2, <2>1, <2>3 DEF PumpState
    <2>7. Numbered'
      BY <1>1, <1>2, <2>3, <2>4 DEF Numbered, Typed
    <2>8. Counted'
      <3>1. delivered[e] = 0
        BY <1>2, <1>3, <2>4 DEF Counted, Typed
      <3>2. QED
        BY <1>1, <1>2, <1>3, <2>1, <2>3, <2>4, <3>1 DEF Counted, Typed, Events
    <2>9. QED
      BY <2>5, <2>6, <2>7, <2>8
  <1>6. CASE pump # "off"
    <2>1. queue' = q /\ UNCHANGED <<pump, current, attempts>>
      BY <1>1, <1>6 DEF Enqueue
    <2>2. Taken' = Taken
      BY <1>1, <2>1 DEF Taken
    <2>3. TypeOK'
      BY <1>1, <1>2, <1>3, <1>4, <2>1 DEF TypeOK, Typed
    <2>4. PumpState'
      BY <1>1, <1>2, <1>6, <2>1 DEF PumpState
    <2>5. Numbered'
      <3>1. \A i \in 1..Len(queue') : queue'[i] = Taken' + i
        <4> SUFFICES ASSUME NEW i \in 1..(Len(queue) + 1) PROVE q[i] = Taken + i
          BY <1>4, <2>1, <2>2
        <4>1. CASE i = Len(queue) + 1
          BY <1>2, <1>4, <4>1 DEF Typed
        <4>2. CASE i # Len(queue) + 1
          <5>1. i \in 1..Len(queue)
            BY <1>2, <4>2 DEF Typed
          <5>2. QED
            BY <1>4, <5>1 DEF Numbered
        <4>3. QED
          BY <4>1, <4>2
      <3>2. QED
        BY <1>1, <1>2, <1>4, <2>1, <2>2, <3>1 DEF Numbered, Typed
    <2>6. Counted'
      BY <1>1, <2>1, <2>2 DEF Counted
    <2>7. QED
      BY <2>3, <2>4, <2>5, <2>6
  <1>7. QED
    BY <1>5, <1>6

\* The steps that move only the state machine or the back-off.
LEMMA StateStep ==
  ASSUME IInv, Start \/ Stop \/ StopWakes \/ BackoffOver
  PROVE  IInv'
  <1> USE DEF IInv
  <1>1. UNCHANGED <<queue, current, attempts, history>> /\ (pump' = "off" <=> pump = "off")
    BY DEF Start, Stop, StopWakes, BackoffOver
  <1>2. Taken' = Taken
    BY <1>1 DEF Taken, history
  <1>3. /\ state' \in States
        /\ pump' \in Waits \cup {"off"}
    BY DEF Start, Stop, StopWakes, BackoffOver, TypeOK, States, Waits
  <1>4. stopping' \in BOOLEAN
    BY Zenon DEF Start, Stop, StopWakes, BackoffOver, TypeOK
  <1>5. TypeOK'
    BY <1>1, <1>3, <1>4 DEF TypeOK, history
  <1>6. PumpState'
    <2>1. CASE Start
      BY <2>1 DEF Start, PumpState, history
    <2>2. CASE Stop
      BY <2>2 DEF Stop, Settled, PumpState, TypeOK, States, history
    <2>3. CASE StopWakes
      BY <2>3 DEF StopWakes, MayComplete, Settled, PumpState, history
    <2>4. CASE BackoffOver
      BY <2>4 DEF BackoffOver, PumpState, history
    <2>5. QED
      BY <2>1, <2>2, <2>3, <2>4
  <1>7. Numbered'
    BY <1>1, <1>2 DEF Numbered, history
  <1>8. pump' \in {"publish", "backoff"} => pump \in {"publish", "backoff"}
    BY DEF Start, Stop, StopWakes, BackoffOver
  <1>9. Counted'
    BY <1>1, <1>2, <1>8 DEF Counted, history
  <1>10. QED
    BY <1>5, <1>6, <1>7, <1>9

\* fail() drops the queue and leaves the event in hand to the pump.
LEMMA FailStep ==
  ASSUME IInv, Fail
  PROVE  IInv'
  <1> USE DEF IInv
  <1>1. /\ queue' = <<>> /\ state' = "errored" /\ failed' = TRUE
        /\ UNCHANGED <<pump, current, attempts, stopping, accepted, finished,
                       delivered, recorded, announced>>
    BY DEF Fail
  <1>2. Typed /\ Taken' = Taken
    BY <1>1, IInvTyped DEF Taken
  <1>3. queue' \in Seq(Events) /\ Len(queue') = 0
    BY <1>1
  <1>4. TypeOK'
    BY <1>1, <1>2, <1>3 DEF TypeOK, States, Typed
  <1>5. PumpState'
    BY <1>1 DEF PumpState
  <1>6. Numbered'
    <2>1. Taken <= accepted
      BY <1>2 DEF Numbered, Typed
    <2>2. QED
      BY <1>1, <1>2, <1>3, <2>1 DEF Numbered, Typed
  <1>7. Counted'
    BY <1>1, <1>2 DEF Counted
  <1>8. QED
    BY <1>4, <1>5, <1>6, <1>7

\* A step that changes no variable keeps the invariant.
LEMMA StutterStep ==
  ASSUME IInv, UNCHANGED vars
  PROVE  IInv'
  <1> USE DEF IInv, vars, session, history
  <1>1. TypeOK' /\ Taken' = Taken
    BY DEF TypeOK, Taken
  <1>2. PumpState' /\ Numbered' /\ Counted'
    BY <1>1 DEF PumpState, Numbered, Counted
  <1>3. QED
    BY <1>1, <1>2

\* Every step keeps the invariant: one case for each action.
LEMMA NextIInv == IInv /\ [Next]_vars => IInv'
  <1> SUFFICES ASSUME IInv, [Next]_vars PROVE IInv'
    OBVIOUS
  <1>1. CASE Start \/ Stop \/ StopWakes \/ BackoffOver
    BY <1>1, StateStep
  <1>2. CASE Enqueue
    BY <1>2, EnqueueStep
  <1>3. CASE Fail
    BY <1>3, FailStep
  <1>4. CASE PublishResolves
    BY <1>4, PublishResolvesStep
  <1>5. CASE PublishRejects
    BY <1>5, PublishRejectsStep
  <1>6. CASE DeadLetterSettles
    BY <1>6, DeadLetterSettlesStep
  <1>7. CASE UNCHANGED vars
    BY <1>7, StutterStep
  <1>8. QED
    BY <1>1, <1>2, <1>3, <1>4, <1>5, <1>6, <1>7 DEF Next, Pump

\* The strengthened invariant holds in every reachable state.
THEOREM Invariance == Spec => []IInv
  BY InitIInv, NextIInv, PTL DEF Spec

-----------------------------------------------------------------------------
(* The properties of StreamSession *)

\* Every variable keeps its type; in particular the queue never holds more than
\* maxQueueDepth events and no event uses more attempts than its budget.
THEOREM TypeCorrect == Spec => []TypeOK
  <1>1. IInv => TypeOK
    BY DEF IInv
  <1>2. QED
    BY <1>1, Invariance, PTL

\* Events are finished in the order of their acceptance, once each, none left
\* out, however stop(), fail() and rejected publishes interleave.
THEOREM EventsInOrder == Spec => []AcceptedInOrder
  <1>1. IInv => AcceptedInOrder
    <2> SUFFICES ASSUME IInv PROVE AcceptedInOrder
      OBVIOUS
    <2> DEFINE n == Len(finished)
               b == Len(InHand)
    <2>1. Typed /\ finished \in Seq(Events) /\ queue \in Seq(Events)
      BY IInvTyped DEF IInv, TypeOK
    <2>2. /\ InHand \in Seq(Events) /\ b \in {0, 1} /\ Taken = n + b
          /\ b = 1 => InHand[1] = n + 1
      BY <2>1 DEF InHand, Typed, Taken, IInv, Numbered
    <2>3. /\ finished \o InHand \in Seq(Events)
          /\ Len(finished \o InHand) = n + b
          /\ \A i \in 1..(n + b) :
                (finished \o InHand)[i] = IF i <= n THEN finished[i] ELSE InHand[i - n]
      BY <2>1, <2>2, ConcatProperties
    <2> DEFINE done == finished \o InHand
    <2>4. \A i \in 1..(n + b) : done[i] = i
      <3> SUFFICES ASSUME NEW i \in 1..(n + b) PROVE done[i] = i
        OBVIOUS
      <3>1. CASE i <= n
        BY <2>1, <2>3, <3>1 DEF IInv, Numbered, Typed
      <3>2. CASE ~ (i <= n)
        <4>1. b = 1 /\ i = n + 1 /\ i - n = 1
          <5>1. n \in Nat /\ b \in {0, 1}
            BY <2>1, <2>2 DEF Typed
          <5> HIDE DEF n, b
          <5>2. QED
            BY <3>2, <5>1
        <4>2. QED
          BY <2>2, <2>3, <3>2, <4>1
      <3>3. QED
        BY <3>1, <3>2
    <2> HIDE DEF done
    <2>5. done \in Seq(Events) /\ Len(done) = Taken /\ Taken \in Nat /\ Len(queue) \in Nat
      BY <2>1, <2>2, <2>3 DEF done, Typed
    <2>6. /\ Len(done \o queue) = Taken + Len(queue)
          /\ \A i \in 1..(Taken + Len(queue)) :
                (done \o queue)[i] = IF i <= Taken THEN done[i] ELSE queue[i - Taken]
      BY <2>1, <2>5, ConcatProperties
    <2>7. \A i \in 1..(Taken + Len(queue)) : (done \o queue)[i] = i
      <3> SUFFICES ASSUME NEW i \in 1..(Taken + Len(queue)) PROVE (done \o queue)[i] = i
        OBVIOUS
      <3>1. CASE i <= Taken
        BY <2>2, <2>4, <2>5, <2>6, <3>1
      <3>2. CASE ~ (i <= Taken)
        <4>1. i - Taken \in 1..Len(queue) /\ Taken + (i - Taken) = i
          BY <2>5, <3>2
        <4>2. QED
          BY <2>6, <3>2, <4>1 DEF IInv, Numbered
      <3>3. QED
        BY <3>1, <3>2
    <2>8. QED
      BY <2>6, <2>7 DEF AcceptedInOrder, done, IInv, Numbered
  <1>2. QED
    BY <1>1, Invariance, PTL

\* stop() resolves only when every accepted event is finished, unless fail()
\* has dropped the queue.
THEOREM StopLeavesNothing == Spec => []StopDrains
  <1>1. IInv => StopDrains
    <2> SUFFICES ASSUME IInv, state = "stopped", ~ failed
                 PROVE  Len(finished) = accepted /\ pump = "off"
      BY DEF StopDrains
    <2>1. pump = "off" /\ queue = <<>> /\ Typed
      BY IInvTyped DEF IInv, PumpState
    <2>2. Taken = Len(finished) /\ Len(queue) = 0
      BY <2>1 DEF Taken, Typed
    <2>3. QED
      BY <2>1, <2>2 DEF IInv, Numbered, Typed
  <1>2. QED
    BY <1>1, Invariance, PTL

\* No event disappears: it is applied by the coordinator or announced as a dead
\* letter, and it is applied at most maxPublishRetries + 1 times.
THEOREM NoEventDisappears == Spec => []PublishedOrDead
  <1>1. IInv => PublishedOrDead
    <2> SUFFICES ASSUME IInv PROVE PublishedOrDead
      OBVIOUS
    <2>1. ASSUME NEW i \in 1..Len(finished)
          PROVE  delivered[finished[i]] > 0 \/ finished[i] \in announced
      <3>1. finished[i] = i /\ finished[i] \in Events /\ Typed
        BY IInvTyped, ElementOfSeq DEF IInv, TypeOK, Numbered
      <3>2. QED
        BY <3>1 DEF IInv, Counted, Typed
    <2>2. QED
      BY <2>1 DEF PublishedOrDead, IInv, Counted
  <1>2. QED
    BY <1>1, Invariance, PTL
=============================================================================
