---------------------------- MODULE StreamSession ----------------------------
(***************************************************************************)
(* One StreamSession of a worker (session.ts): a bounded queue of events   *)
(* of one stream, the asynchronous pump that publishes them one at a time  *)
(* with retries, and the state machine idle / running / draining /         *)
(* stopped / errored that start(), stop() and fail() drive.                *)
(*                                                                         *)
(* JavaScript runs one synchronous stretch of code at a time, so an action *)
(* is the code between two awaits: the pump is suspended in publish(), in  *)
(* the back-off sleep or in deadLetter(), and everything else can run in   *)
(* between.  publish() may reject although the coordinator has applied the *)
(* event (a lost response), so deliveries are counted apart from outcomes. *)
(* Events are numbered in the order in which enqueue() accepts them.       *)
(***************************************************************************)
EXTENDS Integers, Sequences

CONSTANTS
  MaxQueueDepth,       \* maxQueueDepth
  MaxPublishRetries,   \* maxPublishRetries
  MaxEvents            \* bound: number of events accepted

ASSUME DepthAssumption   == MaxQueueDepth \in Nat \ {0}
ASSUME RetriesAssumption == MaxPublishRetries \in Nat
ASSUME EventsAssumption  == MaxEvents \in Nat

Events == 1..MaxEvents

VARIABLES
  state,       \* this.state
  queue,       \* this.queue
  pump,        \* "off" (processing = false) or what the pump is waiting for
  current,     \* the event the pump has shifted off the queue
  attempts,    \* failed publishes of current
  stopping,    \* a stop() call is waiting for the pump to settle
  failed,      \* history: fail() has been called
  accepted,    \* history: number of events enqueue() has accepted
  finished,    \* history: events whose pump iteration is over, in that order
  delivered,   \* history: how often the coordinator has applied each event
  recorded,    \* the events in the dead-letter store
  announced    \* history: events for which "dead-letter" was emitted

session == <<state, queue, pump, current, attempts, stopping>>
history == <<failed, accepted, finished, delivered, recorded, announced>>
vars    == <<session, history>>

States  == {"idle", "running", "draining", "stopped", "errored"}
Waits   == {"publish", "backoff", "record"}

TypeOK ==
  /\ state \in States
  /\ queue \in Seq(Events)
  /\ Len(queue) <= MaxQueueDepth
  /\ pump \in Waits \cup {"off"}
  /\ current \in Nat
  /\ attempts \in 0..(MaxPublishRetries + 1)
  /\ stopping \in BOOLEAN
  /\ failed \in BOOLEAN
  /\ accepted \in 0..MaxEvents
  /\ finished \in Seq(Events)
  /\ delivered \in [Events -> Nat]
  /\ recorded \in SUBSET Events
  /\ announced \in SUBSET Events

Init ==
  /\ state = "idle" /\ queue = <<>> /\ pump = "off"
  /\ current = 0 /\ attempts = 0 /\ stopping = FALSE
  /\ failed = FALSE /\ accepted = 0 /\ finished = <<>>
  /\ delivered = [e \in Events |-> 0]
  /\ recorded = {} /\ announced = {}

-----------------------------------------------------------------------------
(* The pump *)

\* The pump takes event e off the queue and calls publish().
Take(e) ==
  /\ pump' = "publish"
  /\ current' = e
  /\ attempts' = 0

\* Mutant: the loop does not go on while the session drains.
MayTakeRunning == queue # <<>> /\ state = "running"

\* The condition of pump's loop.
MayTake == queue # <<>> /\ state \in {"running", "draining"}

\* Mutant: the head of the queue is read, not shifted.
ShiftedNot(q) == q

\* The queue after queue.shift().
Shifted(q) == Tail(q)

\* The head of pump's loop: take the next event, or leave the loop and reset
\* processing.
NextIteration ==
  IF MayTake
  THEN /\ Take(Head(queue))
       /\ queue' = Shifted(queue)
  ELSE /\ pump' = "off"
       /\ UNCHANGED <<queue, current, attempts>>

Finish == finished' = Append(finished, current)

Deliver == delivered' = [delivered EXCEPT ![current] = @ + 1]

\* publish() resolves.
PublishResolves ==
  /\ pump = "publish"
  /\ Deliver
  /\ Finish
  /\ NextIteration
  /\ UNCHANGED <<state, stopping, failed, accepted, recorded, announced>>

\* Mutant: one retry too many.
BudgetSpentLate == attempts > MaxPublishRetries

\* attempts++ has exceeded maxRetries.
BudgetSpent == attempts + 1 > MaxPublishRetries

\* publish() rejects; the coordinator may have applied the event nevertheless.
PublishRejects ==
  /\ pump = "publish"
  /\ Deliver \/ UNCHANGED delivered
  /\ attempts' = attempts + 1
  /\ pump' = IF BudgetSpent THEN "record" ELSE "backoff"
  /\ UNCHANGED <<state, queue, current, stopping, failed, accepted, finished,
                 recorded, announced>>

\* The back-off sleep is over: publish again.
BackoffOver ==
  /\ pump = "backoff"
  /\ pump' = "publish"
  /\ UNCHANGED <<state, queue, current, attempts, stopping, history>>

\* deadLetter() settles: a rejection is logged, "dead-letter" is emitted
\* either way, and the pump carries on with the queue.
DeadLetterSettles ==
  /\ pump = "record"
  /\ \/ recorded' = recorded \cup {current}
     \/ UNCHANGED recorded
  /\ announced' = announced \cup {current}
  /\ Finish
  /\ NextIteration
  /\ UNCHANGED <<state, stopping, failed, accepted, delivered>>

-----------------------------------------------------------------------------
(* Calls *)

\* start()
Start ==
  /\ state = "idle"
  /\ state' = "running"
  /\ UNCHANGED <<queue, pump, current, attempts, stopping, history>>

\* Mutant: the depth check lets one event too many in.
HasRoomForOneMore == Len(queue) <= MaxQueueDepth

HasRoom == Len(queue) < MaxQueueDepth

\* enqueue() returns true: the event is queued and, when the pump is idle,
\* taken at once.  In every other state, and when the queue is full, enqueue()
\* returns false and changes nothing.
Enqueue ==
  /\ accepted < MaxEvents
  /\ state = "running"
  /\ HasRoom
  /\ accepted' = accepted + 1
  /\ \/ /\ pump = "off"
        /\ Take(Head(Append(queue, accepted + 1)))
        /\ queue' = Shifted(Append(queue, accepted + 1))
     \/ /\ pump # "off"
        /\ queue' = Append(queue, accepted + 1)
        /\ UNCHANGED <<pump, current, attempts>>
  /\ UNCHANGED <<state, stopping, failed, finished, delivered, recorded, announced>>

\* Mutant: stop() does not wait for the pump.
SettledAlways == TRUE

\* stop() sees processing = false.
Settled == pump = "off"

\* stop(), called once by drainAll(): up to the first sleep, or to the end
\* when the pump is idle.
Stop ==
  /\ ~ stopping
  /\ state \notin {"stopped", "errored"}
  /\ IF Settled
     THEN state' = "stopped" /\ UNCHANGED stopping
     ELSE state' = "draining" /\ stopping' = TRUE
  /\ UNCHANGED <<queue, pump, current, attempts, history>>

\* Mutant: stop() only completes a session that is still draining.
MayCompleteDraining == stopping /\ Settled /\ state = "draining"

MayComplete == stopping /\ Settled

\* stop() wakes up and finds the pump settled.
StopWakes ==
  /\ MayComplete
  /\ state' = "stopped"
  /\ stopping' = FALSE
  /\ UNCHANGED <<queue, pump, current, attempts, history>>

\* fail(), called by the heartbeat when the lock is lost and the session is
\* running or draining.  It drops the queue; a publish under way goes on.
Fail ==
  /\ state \in {"running", "draining"}
  /\ queue' = <<>>
  /\ state' = "errored"
  /\ failed' = TRUE
  /\ UNCHANGED <<pump, current, attempts, stopping, accepted, finished,
                 delivered, recorded, announced>>

Pump == PublishResolves \/ PublishRejects \/ BackoffOver \/ DeadLetterSettles

Next == Start \/ Enqueue \/ Stop \/ StopWakes \/ Fail \/ Pump

\* Every await of the pump settles (the HTTP client times out, timers fire, the
\* file is written or the write fails), and the 10 ms poll of stop() repeats.
Fairness == WF_vars(Pump) /\ WF_vars(StopWakes)

Spec == Init /\ [][Next]_vars /\ Fairness

-----------------------------------------------------------------------------
(* Properties *)

InHand == IF pump = "off" THEN <<>> ELSE <<current>>

\* Events are finished in the order they were accepted, each exactly once and
\* none left out: what is finished, in hand and queued is the sequence
\* 1, 2, 3, ... of accepted events, all of it unless fail() dropped the queue.
AcceptedInOrder ==
  LET line == finished \o InHand \o queue IN
  /\ \A i \in 1..Len(line) : line[i] = i
  /\ Len(line) <= accepted
  /\ ~ failed => Len(line) = accepted

\* stop() resolves only after the last accepted event has been published or
\* dead-lettered, as "drains the queue, then transitions to stopped" says.
StopDrains ==
  state = "stopped" /\ ~ failed => Len(finished) = accepted /\ pump = "off"

\* An event leaves the pump either applied by the coordinator or announced as
\* a dead letter, and retries stay within the budget: no event is published
\* more than MaxPublishRetries + 1 times.
PublishedOrDead ==
  /\ \A i \in 1..Len(finished) :
        delivered[finished[i]] > 0 \/ finished[i] \in announced
  /\ \A e \in Events : delivered[e] <= MaxPublishRetries + 1

\* stop() always resolves, also when fail() strikes while it waits or every
\* publish keeps failing.
StopResolves == stopping ~> state = "stopped"

\* An accepted event is finished eventually, unless fail() drops it.
EventsFinish ==
  \A e \in Events : (accepted >= e) ~> (failed \/ Len(finished) >= e)

\* The class comment: "`dead-letter` (StreamEvent, Error) -- emitted after
\* durable recording", and "an emitted dead-letter means the durable failure
\* record already exists".
DeadLetterDurable == announced \subseteq recorded
=============================================================================
