---------------------------- MODULE Worker_proofs ----------------------------
(***************************************************************************)
(* The parts of a worker, each for every value of its constants.           *)
(*                                                                         *)
(* The poll loop and the shutdown: a cycle hands on every row once and in  *)
(* order, leaves out none that was there when it began, and none runs once *)
(* the sessions are drained.  The invariant behind it relates what was     *)
(* handed on, the rest of the page and the cursor.  The deadline of a      *)
(* shutdown stays armed until the exit, and its hooks run in order.        *)
(*                                                                         *)
(* The dead-letter file: no dead letter that was acknowledged is lost.  The *)
(* invariant behind it: only the first call of the chain has read the file, *)
(* and what it has read, or written to the temporary file, still holds every *)
(* acknowledged record.                                                    *)
(*                                                                         *)
(* The in-process locks: a claim is not evicted before its lease is over,  *)
(* however late the timers fire.  The invariant behind it: every armed timer *)
(* is the one of the present entry of its stream, and is set for the end of *)
(* its present lease.  So the in-process manager, too, implements          *)
(* StreamOwnership.                                                        *)
(*                                                                         *)
(* The event filters: a configuration on which the hash and everything on  *)
(* its way agree stays until somebody changes it, and a scan then repairs  *)
(* the map.  Last, all parts together keep their types.                    *)
(***************************************************************************)
EXTENDS MCWorker, TLAPS

-----------------------------------------------------------------------------
(* The poll loop and the shutdown *)

AtOrBefore(k, l) == k = l \/ Before(k, l)

\* Row k was handed on in this cycle.
Handed(k) == \E i \in 1..Len(offered) : offered[i] = k

\* What was handed on comes before the rest of the page, and neither is behind the
\* cursor that follows.
PagesInOrder ==
  /\ PollCycleInOrder
  /\ \A i \in 1..Len(offered), k \in page : Before(offered[i], k)
  /\ poll = "fetching" =>
       page = {} /\ \A i \in 1..Len(offered) : AtOrBefore(offered[i], cursor)
  /\ poll \in {"paging", "routing"} /\ more =>
       /\ \A i \in 1..Len(offered) : AtOrBefore(offered[i], cursor)
       /\ \A k \in page : AtOrBefore(k, cursor)

\* A row that was there when the cycle began was handed on, is in the page or is
\* still ahead of the cursor.
NothingSkipped ==
  /\ backlog \subseteq stream_data
  /\ poll = "fetching" => \A k \in backlog : Handed(k) \/ Before(cursor, k)
  /\ poll \in {"paging", "routing"} =>
       \A k \in backlog : Handed(k) \/ k \in page \/ (more /\ Before(cursor, k))

\* Hooks run only after a request.
HooksFollowRequest == hook # 0 => shuttingDown

ProcessInv ==
  /\ ProcessTypeOK
  /\ PagesInOrder
  /\ NothingSkipped
  /\ HooksFollowRequest
  /\ NothingRoutedAfterDrain

-----------------------------------------------------------------------------
(* The order of the keys *)

LEMMA KeysAreInts ==
  ASSUME NEW k \in Keys \cup {NoCursor}
  PROVE  k[1] \in Int /\ k[2] \in Int
  BY StampAssumption, PendingAssumption DEF Keys, NoCursor

LEMMA BeforeTransitive ==
  ASSUME NEW j \in Keys \cup {NoCursor}, NEW k \in Keys \cup {NoCursor},
         NEW l \in Keys \cup {NoCursor}, Before(j, k), Before(k, l)
  PROVE  Before(j, l)
  BY KeysAreInts DEF Before

LEMMA NoCursorIsFirst ==
  ASSUME NEW k \in Keys
  PROVE  Before(NoCursor, k)
  BY StampAssumption, PendingAssumption DEF Before, NoCursor, Keys

\* No key is before itself.
LEMMA BeforeIrreflexive ==
  ASSUME NEW k \in Keys \cup {NoCursor}
  PROVE  ~ Before(k, k)
  BY KeysAreInts DEF Before

-----------------------------------------------------------------------------
(* The ingest requests and the steps of the loop keep the types *)

LEMMA PendingStep ==
  ASSUME PendingTypeOK, PendingNext
  PROVE  PendingTypeOK' /\ stream_data \subseteq stream_data'
<1> USE StampAssumption, PendingAssumption
<1>1. CASE Ticks
  BY <1>1 DEF Ticks, PendingTypeOK
<1>2. ASSUME NEW i \in Ingests, IngestEvent(i)
      PROVE  PendingTypeOK' /\ stream_data \subseteq stream_data'
  <2>1. [step |-> "stamped", stamp |-> clock] \in IngestSteps
    BY DEF PendingTypeOK, IngestSteps
  <2> QED BY <1>2, <2>1 DEF IngestEvent, PendingTypeOK
<1>3. ASSUME NEW i \in Ingests, InsertBegins(i)
      PROVE  PendingTypeOK' /\ stream_data \subseteq stream_data'
  <2>1. ingest[i].stamp \in 0..MaxStamp
    BY <1>3 DEF InsertBegins, PendingTypeOK, IngestSteps, NotIngesting
  <2>2. lastId' \in 1..MaxPending
    BY <1>3 DEF InsertBegins, PendingTypeOK
  <2>3. <<ingest[i].stamp, lastId'>> \in Keys
    BY <2>1, <2>2 DEF Keys
  <2>4. [step |-> "inserting", key |-> <<ingest[i].stamp, lastId'>>] \in IngestSteps
    BY <2>3 DEF IngestSteps
  <2> QED BY <1>3, <2>2, <2>4 DEF InsertBegins, PendingTypeOK
<1>4. ASSUME NEW i \in Ingests, NEW committed \in BOOLEAN, InsertEnds(i, committed)
      PROVE  PendingTypeOK' /\ stream_data \subseteq stream_data'
  <2>1. ingest[i].key \in Keys
    BY <1>4 DEF InsertEnds, PendingTypeOK, IngestSteps, NotIngesting
  <2>2. NotIngesting \in IngestSteps
    BY DEF IngestSteps
  <2> QED BY <1>4, <2>1, <2>2 DEF InsertEnds, PendingTypeOK
<1> QED BY <1>1, <1>2, <1>3, <1>4 DEF PendingNext

\* A page is made of rows, and its last row is a key.
LEMMA PageIsKeys ==
  ASSUME ProcessTypeOK, NEW p \in SUBSET After(cursor)
  PROVE  p \in SUBSET Keys /\ \A k \in p : k \in stream_data /\ Before(cursor, k)
  BY DEF ProcessTypeOK, PendingTypeOK, After

LEMMA PageArrivesType ==
  ASSUME ProcessTypeOK, NEW p \in SUBSET After(cursor), PageArrives(p)
  PROVE  ProcessTypeOK'
<1>1. p \in SUBSET Keys
  BY PageIsKeys
<1>2. cursor' \in Keys \cup {NoCursor}
  BY <1>1 DEF PageArrives, ProcessTypeOK
<1>3. page' \in SUBSET Keys /\ more' \in BOOLEAN /\ poll' \in Polls
  BY <1>1 DEF PageArrives, Polls
<1> QED BY <1>2, <1>3 DEF PageArrives, ProcessTypeOK, PendingTypeOK, pendingVars, closing

LEMMA OfferType ==
  ASSUME ProcessTypeOK, NEW k \in page, NEW routed \in BOOLEAN, OfferEvent(k, routed)
  PROVE  ProcessTypeOK'
<1>1. offered' \in Seq(Keys) /\ page' \in SUBSET Keys /\ poll' \in Polls
  BY DEF OfferEvent, ProcessTypeOK, Polls
<1> QED BY <1>1 DEF OfferEvent, ProcessTypeOK, PendingTypeOK, pendingVars, closing

\* A cycle begins, or the loop ends.
LEMMA LoopType ==
  ASSUME ProcessTypeOK, NEW high \in BOOLEAN, LoopGoesOn(high),
         UNCHANGED <<pendingVars, closing>>, boot' \in {"locks", "filter", "running", "failed"}
  PROVE  ProcessTypeOK'
<1>1. /\ poll' \in Polls /\ cursor' \in Keys \cup {NoCursor} /\ page' \in SUBSET Keys
      /\ more' \in BOOLEAN /\ offered' \in Seq(Keys) /\ backlog' \in SUBSET Keys
  <2>1. CASE shuttingDown
    BY <2>1 DEF LoopGoesOn, ProcessTypeOK, Polls, cycle
  <2>2. CASE ~ shuttingDown
    <3>1. PollOnce(high)
      BY <2>2 DEF LoopGoesOn
    <3>2. poll' \in {"sleeping", "fetching"}
      BY <3>1, Zenon DEF PollOnce
    <3>3. /\ cursor' = NoCursor /\ page' = {} /\ more' = FALSE
          /\ offered' = <<>> /\ backlog' = stream_data
      BY <3>1 DEF PollOnce
    <3>4. stream_data \in SUBSET Keys
      BY DEF ProcessTypeOK, PendingTypeOK
    <3>5. more' \in BOOLEAN
      BY <3>3
    <3> QED BY <3>2, <3>3, <3>4, <3>5 DEF Polls
  <2> QED BY <2>1, <2>2
<1> QED BY <1>1 DEF ProcessTypeOK, PendingTypeOK, pendingVars, closing

-----------------------------------------------------------------------------
(* The order and the completeness of a cycle *)

\* What is handed on are keys.
LEMMA OfferedAreKeys ==
  ASSUME ProcessTypeOK, NEW i \in 1..Len(offered)
  PROVE  offered[i] \in Keys
  BY DEF ProcessTypeOK

LEMMA PageArrivesInOrder ==
  ASSUME ProcessInv, NEW p \in SUBSET After(cursor), PageArrives(p)
  PROVE  PagesInOrder' /\ NothingSkipped'
<1> USE DEF ProcessInv
<1>1. /\ poll = "fetching" /\ poll' = "paging" /\ page' = p
      /\ offered' = offered /\ backlog' = backlog /\ stream_data' = stream_data
      /\ p \in SUBSET Keys
      /\ \A k \in p : Before(cursor, k)
  BY PageIsKeys DEF PageArrives, pendingVars
<1>2. cursor \in Keys \cup {NoCursor}
  BY DEF ProcessTypeOK
<1>3. ASSUME NEW i \in 1..Len(offered), NEW k \in p
      PROVE  Before(offered[i], k)
  <2>1. AtOrBefore(offered[i], cursor) /\ Before(cursor, k)
    BY <1>1, <1>3 DEF PagesInOrder
  <2>2. CASE offered[i] = cursor
    BY <2>1, <2>2
  <2>3. CASE Before(offered[i], cursor)
    BY <1>1, <1>2, <1>3, <2>1, <2>3, BeforeTransitive, OfferedAreKeys
  <2> QED BY <2>1, <2>2, <2>3 DEF AtOrBefore
<1>4. ASSUME more'
      PROVE  cursor' \in p /\ \A k \in p : AtOrBefore(k, cursor')
  BY <1>4 DEF PageArrives, IsLast, AtOrBefore
<1>5. PagesInOrder'
  <2>1. PollCycleInOrder'
    BY <1>1 DEF PagesInOrder, PollCycleInOrder
  <2>2. \A i \in 1..Len(offered') : more' => AtOrBefore(offered'[i], cursor')
    BY <1>1, <1>3, <1>4 DEF AtOrBefore
  <2> QED BY <1>1, <1>3, <1>4, <2>1, <2>2 DEF PagesInOrder
<1>6. ASSUME NEW k \in backlog, Before(cursor, k), k \notin p
      PROVE  more' /\ Before(cursor', k)
  <2>1. k \in After(cursor) \ p
    BY <1>6 DEF NothingSkipped, After
  <2>2. more'
    BY <2>1 DEF PageArrives, IsPage
  <2>3. \A l \in p : Before(l, k)
    BY <2>1 DEF PageArrives, IsPage
  <2> QED BY <1>4, <2>2, <2>3
<1>7. NothingSkipped'
  <2>1. \A k \in backlog : Handed(k)' \/ k \in p \/ (more' /\ Before(cursor', k))
    BY <1>1, <1>6 DEF NothingSkipped, Handed
  <2> QED BY <1>1, <2>1 DEF NothingSkipped
<1> QED BY <1>5, <1>7

LEMMA OfferInOrder ==
  ASSUME ProcessInv, NEW k \in page, NEW routed \in BOOLEAN, OfferEvent(k, routed)
  PROVE  PagesInOrder' /\ NothingSkipped'
<1> USE DEF ProcessInv
<1>1. /\ poll = "paging" /\ poll' \in {"paging", "routing"}
      /\ page' = page \ {k} /\ offered' = Append(offered, k)
      /\ UNCHANGED <<cursor, more, backlog, stream_data>>
      /\ \A l \in page' : Before(k, l)
  BY DEF OfferEvent, pendingVars
<1>2. /\ Len(offered') = Len(offered) + 1 /\ Len(offered) \in Nat
      /\ \A i \in 1..Len(offered) : offered'[i] = offered[i]
      /\ offered'[Len(offered) + 1] = k
  BY <1>1 DEF ProcessTypeOK
<1>3. \A i \in 1..Len(offered') : i = Len(offered) + 1 \/ i \in 1..Len(offered)
  BY <1>2
<1>4. PollCycleInOrder'
  <2> SUFFICES ASSUME NEW i \in 1..Len(offered'), NEW j \in 1..Len(offered'), i < j
               PROVE  Before(offered'[i], offered'[j])
    BY DEF PollCycleInOrder
  <2>1. i \in 1..Len(offered)
    BY <1>2
  <2>2. CASE j = Len(offered) + 1
    BY <1>2, <2>1, <2>2 DEF PagesInOrder
  <2>3. CASE j \in 1..Len(offered)
    BY <1>2, <2>1, <2>3 DEF PagesInOrder, PollCycleInOrder
  <2> QED BY <1>3, <2>2, <2>3
<1>5. \A i \in 1..Len(offered'), l \in page' : Before(offered'[i], l)
  BY <1>1, <1>2, <1>3 DEF PagesInOrder
<1>6. more => /\ \A i \in 1..Len(offered') : AtOrBefore(offered'[i], cursor)
              /\ \A l \in page' : AtOrBefore(l, cursor)
  BY <1>1, <1>2, <1>3 DEF PagesInOrder
<1>7. PagesInOrder'
  BY <1>1, <1>4, <1>5, <1>6 DEF PagesInOrder, AtOrBefore
<1>8. ASSUME NEW l \in backlog, Handed(l) \/ l = k
      PROVE  Handed(l)'
  BY <1>2, <1>3, <1>8 DEF Handed
<1>9. NothingSkipped'
  BY <1>1, <1>8 DEF NothingSkipped
<1> QED BY <1>7, <1>9

\* A new cycle has handed on nothing and begins before every row.
LEMMA LoopInOrder ==
  ASSUME ProcessInv, NEW high \in BOOLEAN, LoopGoesOn(high), UNCHANGED pendingVars
  PROVE  PagesInOrder' /\ NothingSkipped'
<1> USE DEF ProcessInv
<1>1. CASE shuttingDown
  <2>1. poll' = "over" /\ UNCHANGED cycle /\ UNCHANGED pendingVars
    BY <1>1 DEF LoopGoesOn
  <2> QED BY <2>1 DEF cycle, pendingVars, PagesInOrder, NothingSkipped, PollCycleInOrder
<1>2. CASE ~ shuttingDown
  <2>1. /\ poll' \in {"fetching", "sleeping"} /\ cursor' = NoCursor /\ page' = {}
        /\ offered' = <<>> /\ backlog' = stream_data /\ stream_data' = stream_data
    BY <1>2 DEF LoopGoesOn, PollOnce, pendingVars
  <2>2. \A k \in stream_data : Before(NoCursor, k)
    BY NoCursorIsFirst DEF ProcessTypeOK, PendingTypeOK
  <2>3. 1..Len(offered') = {}
    BY <2>1
  <2>4. PagesInOrder'
    BY <2>1, <2>3 DEF PagesInOrder, PollCycleInOrder
  <2>5. NothingSkipped'
    BY <2>1, <2>2 DEF NothingSkipped
  <2> QED BY <2>4, <2>5
<1> QED BY <1>1, <1>2

\* The steps that leave the rows, the page and what was handed on alone.
LEMMA CycleUnchanged ==
  ASSUME ProcessInv, UNCHANGED cycle, stream_data \subseteq stream_data',
         \/ poll' = poll
         \/ poll' \in {"none", "sleeping", "over"}
         \/ poll = "routing" /\ poll' = "paging"
         \/ poll = "paging" /\ poll' = "fetching" /\ page = {} /\ more
  PROVE  PagesInOrder' /\ NothingSkipped'
<1> USE DEF ProcessInv, cycle
<1>1. PagesInOrder'
  BY DEF PagesInOrder, PollCycleInOrder, AtOrBefore, Before
<1>2. NothingSkipped'
  BY DEF NothingSkipped, Handed, Before
<1> QED BY <1>1, <1>2

-----------------------------------------------------------------------------
(* Every step *)

LEMMA InvBooting ==
  ASSUME ProcessInv, Booting
  PROVE  ProcessInv'
<1>1. ASSUME NEW ok \in BOOLEAN, LocksInstalled(ok)
      PROVE  ProcessInv'
  <2>1. /\ UNCHANGED <<pendingVars, poll, cycle, closing>>
        /\ boot' \in {"locks", "filter", "running", "failed"}
    BY <1>1 DEF LocksInstalled
  <2>2. ProcessTypeOK'
    BY <2>1 DEF ProcessInv, ProcessTypeOK, PendingTypeOK, pendingVars, cycle, closing
  <2>3. PagesInOrder' /\ NothingSkipped'
    BY <2>1, CycleUnchanged DEF pendingVars
  <2> QED BY <2>1, <2>2, <2>3 DEF ProcessInv, HooksFollowRequest,
             NothingRoutedAfterDrain, Draining, closing
<1>2. ASSUME NEW high \in BOOLEAN, FilterInstalled(high)
      PROVE  ProcessInv'
  <2>1. LoopGoesOn(high) /\ UNCHANGED <<pendingVars, closing>> /\ boot' = "running"
    BY <1>2 DEF FilterInstalled
  <2>2. ProcessTypeOK' /\ PagesInOrder' /\ NothingSkipped'
    BY <2>1, LoopType, LoopInOrder DEF ProcessInv
  <2>3. Draining => shuttingDown
    BY DEF ProcessInv, Draining, HooksFollowRequest, ProcessTypeOK
  <2> QED BY <2>1, <2>2, <2>3 DEF ProcessInv, HooksFollowRequest,
             NothingRoutedAfterDrain, Draining, closing, LoopGoesOn
<1> QED BY <1>1, <1>2 DEF Booting

\* The loop never runs while the sessions are drained, so its steps need not look.
LEMMA InvPolling ==
  ASSUME ProcessInv, Polling
  PROVE  ProcessInv'
<1>1. poll \notin {"none", "over"} /\ ~ Draining
  BY DEF Polling, PageArrives, FetchFails, OfferEvent, RouteSettles, PageDone, SleepOver,
         ProcessInv, NothingRoutedAfterDrain
<1>2. UNCHANGED closing /\ UNCHANGED <<pendingVars, boot>>
  BY DEF Polling, PageArrives, FetchFails, OfferEvent, RouteSettles, PageDone, SleepOver
<1>3. HooksFollowRequest' /\ NothingRoutedAfterDrain'
  BY <1>1, <1>2 DEF ProcessInv, HooksFollowRequest, NothingRoutedAfterDrain, Draining,
                    closing
<1>4. ASSUME NEW p \in SUBSET After(cursor), PageArrives(p)
      PROVE  ProcessInv'
  BY <1>3, <1>4, PageArrivesType, PageArrivesInOrder DEF ProcessInv
<1>5. ASSUME NEW k \in page, NEW routed \in BOOLEAN, OfferEvent(k, routed)
      PROVE  ProcessInv'
  BY <1>3, <1>5, OfferType, OfferInOrder DEF ProcessInv
<1>6. ASSUME NEW high \in BOOLEAN, SleepOver(high)
      PROVE  ProcessInv'
  <2>1. LoopGoesOn(high) /\ boot' \in {"locks", "filter", "running", "failed"}
    BY <1>6 DEF SleepOver, ProcessInv, ProcessTypeOK
  <2> QED BY <1>2, <1>3, <2>1, LoopType, LoopInOrder DEF ProcessInv
<1>7. ASSUME UNCHANGED cycle, poll' \in Polls,
             \/ poll' \in {"sleeping", "over"}
             \/ poll = "routing" /\ poll' = "paging"
             \/ poll = "paging" /\ poll' = "fetching" /\ page = {} /\ more
      PROVE  ProcessInv'
  <2>1. ProcessTypeOK'
    BY <1>2, <1>7 DEF ProcessInv, ProcessTypeOK, PendingTypeOK, pendingVars, cycle, closing
  <2>2. PagesInOrder' /\ NothingSkipped'
    BY <1>2, <1>7, CycleUnchanged DEF pendingVars
  <2> QED BY <1>3, <2>1, <2>2 DEF ProcessInv
<1>8. CASE FetchFails
  BY <1>7, <1>8 DEF FetchFails, CycleEnds, Polls
<1>9. CASE RouteSettles
  BY <1>7, <1>9 DEF RouteSettles, Polls
<1>10. ASSUME NEW high \in BOOLEAN, PageDone(high)
       PROVE  ProcessInv'
  <2>1. more \in BOOLEAN
    BY DEF ProcessInv, ProcessTypeOK
  <2> QED BY <1>7, <1>10, <2>1 DEF PageDone, StopsPaging, CycleEnds, Polls
<1> QED BY <1>4, <1>5, <1>6, <1>8, <1>9, <1>10 DEF Polling

\* The shutdown leaves the loop alone; its drain hook begins when the loop is over.
LEMMA InvClosing ==
  ASSUME ProcessInv, Closing
  PROVE  ProcessInv'
<1> USE DEF ProcessInv
<1>1. UNCHANGED <<pendingVars, boot, poll, cycle>>
  BY DEF Closing, RequestShutdown, PollSettled, HookSettles, Deadline
<1>2. PagesInOrder' /\ NothingSkipped'
  BY <1>1, CycleUnchanged DEF pendingVars
<1>3. Len(Hooks) = 7
  BY DEF Hooks
<1>4. hook \in 0..7 /\ waits \in BOOLEAN
  BY <1>3 DEF ProcessTypeOK
<1>5. CASE RequestShutdown
  <2>1. hook' = 1 /\ shuttingDown' = TRUE /\ ProcessTypeOK'
    BY <1>1, <1>3, <1>5 DEF RequestShutdown, ProcessTypeOK, PendingTypeOK, pendingVars, cycle
  <2> QED BY <1>2, <2>1 DEF HooksFollowRequest, NothingRoutedAfterDrain, Draining
<1>6. CASE PollSettled
  <2>1. ProcessTypeOK'
    BY <1>1, <1>6 DEF PollSettled, ProcessTypeOK, PendingTypeOK, pendingVars, cycle
  <2> QED BY <1>1, <1>2, <1>6, <2>1 DEF PollSettled, HooksFollowRequest,
             NothingRoutedAfterDrain, Draining
<1>7. ASSUME NEW failed \in BOOLEAN, HookSettles(failed)
      PROVE  ProcessInv'
  <2>1. hook > 0 /\ ~ waits /\ shuttingDown' = shuttingDown /\ hadError' \in BOOLEAN
    BY <1>7 DEF HookSettles, ProcessTypeOK
  <2>2. CASE HooksLeft
    <3>1. /\ hook' = hook + 1 /\ hook' \in 0..7
          /\ waits' = (hook' = 2 /\ AwaitsPoll) /\ waits' \in BOOLEAN
          /\ UNCHANGED <<shutdown, exit>>
      BY <1>3, <1>4, <1>7, <2>2 DEF HookSettles, NextHook, HooksLeft
    <3>2. ProcessTypeOK'
      BY <1>1, <1>3, <2>1, <3>1 DEF ProcessTypeOK, PendingTypeOK, pendingVars, cycle
    <3>3. hook >= 2 => poll \in {"none", "over"}
      BY <2>1 DEF NothingRoutedAfterDrain, Draining
    <3>4. Draining' => poll' \in {"none", "over"}
      <4>1. CASE hook' = 2
        <5>1. ~ waits' => ~ PollPending
          BY <3>1, <4>1, Zenon DEF AwaitsPoll
        <5> QED BY <1>1, <5>1 DEF Draining, PollPending
      <4>2. CASE hook' # 2
        <5>1. hook' >= 2 => hook >= 2
          BY <1>4, <3>1, <4>2
        <5> QED BY <1>1, <3>3, <5>1 DEF Draining
      <4> QED BY <4>1, <4>2
    <3> QED BY <1>2, <2>1, <3>2, <3>4 DEF HooksFollowRequest, NothingRoutedAfterDrain
  <2>3. CASE ~ HooksLeft
    <3>1. hook' = 0 /\ shutdown' = "done" /\ exit' \in {0, 1} /\ waits' = waits
      BY <1>7, <2>3 DEF HookSettles
    <3>2. ProcessTypeOK'
      BY <1>1, <1>3, <2>1, <3>1 DEF ProcessTypeOK, PendingTypeOK, pendingVars, cycle
    <3> QED BY <1>2, <3>1, <3>2 DEF HooksFollowRequest, NothingRoutedAfterDrain, Draining
  <2> QED BY <2>2, <2>3
<1>8. CASE Deadline
  <2>1. ProcessTypeOK'
    BY <1>1, <1>8 DEF Deadline, ProcessTypeOK, PendingTypeOK, pendingVars, cycle
  <2> QED BY <1>1, <1>2, <1>8, <2>1 DEF Deadline, HooksFollowRequest,
             NothingRoutedAfterDrain, Draining
<1> QED BY <1>5, <1>6, <1>7, <1>8 DEF Closing

\* Rows that appear behind the back of the loop change nothing of its cycle.
LEMMA InvIngesting ==
  ASSUME ProcessInv, Ingesting
  PROVE  ProcessInv'
<1>1. PendingTypeOK' /\ stream_data \subseteq stream_data'
  BY PendingStep DEF ProcessInv, ProcessTypeOK, Ingesting
<1>2. UNCHANGED <<boot, poll, cycle, closing>>
  BY DEF Ingesting
<1>3. ProcessTypeOK'
  BY <1>1, <1>2 DEF ProcessInv, ProcessTypeOK, cycle, closing
<1>4. PagesInOrder' /\ NothingSkipped'
  BY <1>1, <1>2, CycleUnchanged
<1> QED BY <1>2, <1>3, <1>4 DEF ProcessInv, HooksFollowRequest, NothingRoutedAfterDrain,
           Draining, closing

LEMMA InvInit == ProcessInit => ProcessInv
<1> SUFFICES ASSUME ProcessInit PROVE ProcessInv
  OBVIOUS
<1> USE DEF ProcessInit
<1>1. PendingTypeOK
  BY StampAssumption, PendingAssumption DEF PendingInit, PendingTypeOK, IngestSteps
<1>2. Len(Hooks) = 7
  BY DEF Hooks
<1>3. ProcessTypeOK
  <2>1. more \in BOOLEAN /\ shuttingDown \in BOOLEAN /\ waits \in BOOLEAN
        /\ hadError \in BOOLEAN
    BY Zenon
  <2>2. /\ boot \in {"locks", "filter", "running", "failed"} /\ poll \in Polls
        /\ cursor \in Keys \cup {NoCursor} /\ page \in SUBSET Keys
        /\ shutdown \in {"idle", "shutting-down", "done"} /\ hook \in 0..Len(Hooks)
        /\ exit \in {0, 1, Running} /\ offered \in Seq(Keys) /\ backlog \in SUBSET Keys
    BY <1>2 DEF Polls
  <2> QED BY <1>1, <2>1, <2>2 DEF ProcessTypeOK
<1>4. 1..Len(offered) = {}
  OBVIOUS
<1>5. PagesInOrder /\ NothingSkipped
  BY <1>4 DEF PagesInOrder, PollCycleInOrder, NothingSkipped
<1> QED BY <1>3, <1>5 DEF ProcessInv, HooksFollowRequest, NothingRoutedAfterDrain, Draining

-----------------------------------------------------------------------------

\* The invariant, for all values of the constants.
THEOREM ProcessInvariance == ProcessSpec => []ProcessInv
<1>1. ProcessInv /\ [ProcessNext]_workerVars => ProcessInv'
  <2> SUFFICES ASSUME ProcessInv, [ProcessNext]_workerVars PROVE ProcessInv'
    OBVIOUS
  <2>1. CASE UNCHANGED workerVars
    <3>1. UNCHANGED <<pendingVars, boot, poll, cycle, closing>>
      BY <2>1 DEF workerVars
    <3>2. ProcessTypeOK'
      BY <3>1 DEF ProcessInv, ProcessTypeOK, PendingTypeOK, pendingVars, cycle, closing
    <3>3. PagesInOrder' /\ NothingSkipped'
      BY <3>1, CycleUnchanged DEF pendingVars
    <3> QED BY <3>1, <3>2, <3>3 DEF ProcessInv, HooksFollowRequest,
               NothingRoutedAfterDrain, Draining, closing
  <2> QED BY <2>1, InvBooting, InvPolling, InvClosing, InvIngesting DEF ProcessNext
<1> QED BY InvInit, <1>1, PTL DEF ProcessSpec

\* getPendingEvents and pollOnce: a cycle hands on every row at most once and in order,
\* and one that comes to the end of the table has left out no row that was there when
\* it began: rows that are inserted meanwhile push none of them out of a page.
THEOREM CyclesAreExact == ProcessSpec => []PollCycleExact
<1>1. ProcessInv => PollCycleExact
  BY DEF ProcessInv, PagesInOrder, NothingSkipped, PollCycleExact, PollCycleComplete,
         Exhausted, Handed
<1> QED BY <1>1, ProcessInvariance, PTL

\* The drain hook and pollPromise: nothing is routed once the sessions are drained,
\* whenever the shutdown is requested.
THEOREM DrainIsFinal == ProcessSpec => []NothingRoutedAfterDrain
  BY ProcessInvariance, PTL DEF ProcessInv

\* The flag, the state of the shutdown, its hooks and the exit belong together: from the
\* first request to the exit a hook is running and the deadline is armed, and the code is
\* 0 only if every hook has settled and none has failed.
ShutdownPhases ==
  /\ shuttingDown <=> shutdown # "idle"
  /\ Alive <=> shutdown # "done"
  /\ Alive => (hook # 0 <=> DeadlineArmed)
  /\ waits => hook = 2
  /\ exit = 0 => hook = 0 /\ ~ hadError

\* Hooks run one after another, each of them, and the last one ends the process.
HooksInOrder ==
  [][hook' # hook =>
       \/ hook' = hook + 1
       \/ hook = Len(Hooks) /\ hook' = 0 /\ exit' = IF hadError' THEN 1 ELSE 0]_workerVars

LEMMA PhasesStep ==
  ASSUME ProcessTypeOK, ShutdownPhases, [ProcessNext]_workerVars
  PROVE  /\ ShutdownPhases'
         /\ hook' # hook =>
              \/ hook' = hook + 1
              \/ hook = Len(Hooks) /\ hook' = 0 /\ exit' = IF hadError' THEN 1 ELSE 0
<1>1. /\ Len(Hooks) = 7 /\ hook \in 0..7
      /\ shutdown \in {"idle", "shutting-down", "done"}
      /\ shuttingDown \in BOOLEAN /\ waits \in BOOLEAN /\ hadError \in BOOLEAN
      /\ Running = 2
  BY DEF Hooks, ProcessTypeOK, Running
<1>2. ASSUME UNCHANGED closing
      PROVE  ShutdownPhases' /\ hook' = hook
  BY <1>2 DEF closing, ShutdownPhases, Alive, DeadlineArmed
<1>3. CASE UNCHANGED workerVars \/ Booting \/ Polling \/ Ingesting
  BY <1>2, <1>3 DEF workerVars, Booting, LocksInstalled, FilterInstalled, Polling,
     PageArrives, FetchFails, OfferEvent, RouteSettles, PageDone, SleepOver, Ingesting
<1>4. CASE RequestShutdown
  <2>1. Alive /\ shutdown = "idle" /\ hook = 0
    BY <1>4 DEF RequestShutdown, ShutdownPhases, DeadlineArmed
  <2> QED BY <1>4, <2>1 DEF RequestShutdown, ShutdownPhases, Alive, DeadlineArmed, Running
<1>5. CASE PollSettled
  BY <1>5 DEF PollSettled, ShutdownPhases, Alive, DeadlineArmed
<1>6. ASSUME NEW failed \in BOOLEAN, HookSettles(failed)
      PROVE  /\ ShutdownPhases'
             /\ \/ hook' = hook + 1
                \/ hook = Len(Hooks) /\ hook' = 0 /\ exit' = IF hadError' THEN 1 ELSE 0
  <2>1. Alive /\ hook # 0 /\ ~ waits /\ shutdown = "shutting-down"
        /\ shuttingDown /\ shuttingDown' = shuttingDown
    BY <1>1, <1>6 DEF HookSettles, ShutdownPhases, DeadlineArmed
  <2>2. CASE HooksLeft
    <3>1. /\ hook' = hook + 1 /\ UNCHANGED <<shutdown, exit>>
          /\ waits' = (hook' = 2 /\ AwaitsPoll)
      BY <1>6, <2>2 DEF HookSettles, NextHook
    <3>2. hook' # 0
      BY <1>1, <3>1
    <3>3. waits' => hook' = 2
      BY <3>1, Zenon
    <3>4. exit' = Running /\ exit' # 0 /\ shutdown' = "shutting-down"
      BY <1>1, <2>1, <3>1 DEF Alive
    <3> QED BY <2>1, <3>1, <3>2, <3>3, <3>4 DEF ShutdownPhases, Alive, DeadlineArmed
  <2>3. CASE ~ HooksLeft
    <3>1. /\ hook' = 0 /\ shutdown' = "done" /\ waits' = waits
          /\ exit' = IF hadError' THEN 1 ELSE 0
      BY <1>6, <2>3 DEF HookSettles
    <3>2. hook = Len(Hooks)
      BY <1>1, <2>3 DEF HooksLeft
    <3>3. exit' # Running /\ (exit' = 0 => ~ hadError')
      BY <1>1, <3>1
    <3> QED BY <2>1, <3>1, <3>2, <3>3 DEF ShutdownPhases, Alive, DeadlineArmed
  <2> QED BY <2>2, <2>3
<1>7. CASE Deadline
  BY <1>1, <1>7 DEF Deadline, ShutdownPhases, Alive, DeadlineArmed
<1> QED BY <1>2, <1>3, <1>4, <1>5, <1>6, <1>7
        DEF ProcessNext, Closing, RequestShutdown, PollSettled, Deadline

\* GracefulShutdown: whatever hangs or fails, in whatever state of start() and of the
\* poll loop the request comes, the deadline stays armed until the process has exited, and
\* an exit code of 0 is not a shutdown that was cut short.
THEOREM DeadlineUntilTheExit == ProcessSpec => []ShutdownPhases
<1>1. ProcessInit => ShutdownPhases
  BY DEF ProcessInit, ShutdownPhases, Alive, DeadlineArmed, Running
<1>2. ProcessTypeOK /\ ShutdownPhases /\ [ProcessNext]_workerVars => ShutdownPhases'
  BY PhasesStep
<1>3. ProcessInv => ProcessTypeOK
  BY DEF ProcessInv
<1> QED BY <1>1, <1>2, <1>3, ProcessInvariance, PTL DEF ProcessSpec

\* GracefulShutdown.requestShutdown: no hook is skipped and none runs twice, however often the
\* shutdown is requested, and one that failed shows in the exit code.
THEOREM HooksRunInOrder == ProcessSpec => HooksInOrder
<1>1. ProcessTypeOK /\ ShutdownPhases /\ [ProcessNext]_workerVars =>
        [hook' # hook =>
           \/ hook' = hook + 1
           \/ /\ hook = Len(Hooks) /\ hook' = 0
              /\ exit' = IF hadError' THEN 1 ELSE 0]_workerVars
  BY PhasesStep
<1>2. ProcessInv => ProcessTypeOK
  BY DEF ProcessInv
<1> QED BY <1>1, <1>2, ProcessInvariance, DeadlineUntilTheExit, PTL
        DEF ProcessSpec, HooksInOrder

-----------------------------------------------------------------------------
(* The dead-letter file *)

\* Only the first call of the chain is past the queue.
OneAtATime ==
  \A c \in Recorders : call[c].step \in {"read", "written", "renamed"} => Runs(c)

\* What a call has in hand holds its own record and every acknowledged one.
NothingMissing ==
  \A c \in Recorders :
    /\ call[c].step \in {"read", "written"} =>
         recorded \subseteq call[c].records /\ call[c].key \in call[c].records
    /\ call[c].step = "written" => temporary = call[c].records
    /\ call[c].step = "renamed" => call[c].key \in file

LettersInv == LettersTypeOK /\ OneAtATime /\ NothingMissing /\ DeadLettersKept

-----------------------------------------------------------------------------

LEMMA InitInv == LettersInit => LettersInv
  BY DEF LettersInit, LettersInv, LettersTypeOK, OneAtATime, NothingMissing,
         DeadLettersKept, NoCall, CallSteps

\* A call that is under way has a key and records.
LEMMA UnderWay ==
  ASSUME LettersTypeOK, NEW c \in Recorders, call[c].step # "none"
  PROVE  /\ call[c] \in [step : {"queued", "read", "written", "renamed"}, key : Letters,
                         records : SUBSET Letters]
         /\ call[c].key \in Letters /\ call[c].records \in SUBSET Letters
  BY DEF LettersTypeOK, CallSteps, NoCall

\* The first call of the chain is appended to it or stands before the new one.
LEMMA InvRecord ==
  ASSUME LettersInv, NEW c \in Recorders, NEW k \in Letters, RecordLetter(c, k)
  PROVE  LettersInv'
<1> USE DEF RecordLetter
<1>1. LettersTypeOK'
  BY DEF LettersInv, LettersTypeOK, CallSteps
<1>2. ASSUME NEW d \in Recorders, d # c PROVE call'[d] = call[d]
  BY <1>2 DEF LettersInv, LettersTypeOK
<1>3. call'[c].step = "queued"
  BY DEF LettersInv, LettersTypeOK
<1>4. ASSUME NEW d \in Recorders, Runs(d) PROVE Runs(d)'
  <2>1. Len(chain) > 0 /\ chain \in Seq(Recorders)
    BY <1>4 DEF Runs, LettersInv, LettersTypeOK
  <2>2. chain' # <<>> /\ Head(chain') = Head(chain)
    BY <2>1
  <2> QED BY <1>4, <2>2 DEF Runs
<1>5. OneAtATime'
  BY <1>2, <1>3, <1>4 DEF LettersInv, OneAtATime
<1>6. NothingMissing'
  BY <1>2, <1>3 DEF LettersInv, NothingMissing
<1> QED BY <1>1, <1>5, <1>6 DEF LettersInv, DeadLettersKept

\* A call reads, writes or renames.
LEMMA InvWork ==
  ASSUME LettersInv, NEW c \in Recorders,
         ReadLetters(c) \/ WriteTemporary(c) \/ RenameTemporary(c)
  PROVE  LettersInv'
<1>1. call[c].step # "none" /\ Runs(c) /\ chain' = chain /\ recorded' = recorded
  BY DEF ReadLetters, WriteTemporary, RenameTemporary
<1>2. /\ call[c].key \in Letters /\ call[c].records \in SUBSET Letters
      /\ call[c] \in [step : {"queued", "read", "written", "renamed"}, key : Letters,
                      records : SUBSET Letters]
  BY <1>1, UnderWay DEF LettersInv
<1>3. ASSUME NEW d \in Recorders, d # c
      PROVE  call'[d] = call[d] /\ call[d].step \notin {"read", "written", "renamed"}
  <2>1. call'[d] = call[d]
    BY <1>3 DEF ReadLetters, WriteTemporary, RenameTemporary, GoesTo, LettersInv,
                LettersTypeOK
  <2>2. ~ Runs(d)
    BY <1>1, <1>3 DEF Runs
  <2> QED BY <2>1, <2>2 DEF LettersInv, OneAtATime
<1>4. Runs(c)'
  BY <1>1 DEF Runs
<1>5. OneAtATime'
  BY <1>3, <1>4 DEF OneAtATime
<1>6. CASE ReadLetters(c)
  <2>1. call'[c] = [call[c] EXCEPT !.step = "read", !.records = file \cup {call[c].key}]
    BY <1>6 DEF ReadLetters, GoesTo, LettersInv, LettersTypeOK
  <2>2. /\ call'[c].step = "read" /\ call'[c].key = call[c].key
        /\ call'[c].records = file \cup {call[c].key}
    BY <1>2, <2>1
  <2>3. LettersTypeOK'
    BY <1>2, <1>6 DEF ReadLetters, GoesTo, LettersInv, LettersTypeOK, CallSteps
  <2>4. NothingMissing'
    BY <1>1, <1>3, <2>2, <1>6 DEF ReadLetters, NothingMissing, LettersInv, DeadLettersKept
  <2> QED BY <1>5, <1>6, <2>3, <2>4 DEF LettersInv, DeadLettersKept, ReadLetters
<1>7. CASE WriteTemporary(c)
  <2>1. call'[c] = [call[c] EXCEPT !.step = "written", !.records = call[c].records]
    BY <1>7 DEF WriteTemporary, GoesTo, LettersInv, LettersTypeOK
  <2>2. /\ call'[c].step = "written" /\ call'[c].key = call[c].key
        /\ call'[c].records = call[c].records
    BY <1>2, <2>1
  <2>3. LettersTypeOK'
    BY <1>2, <1>7 DEF WriteTemporary, GoesTo, LettersInv, LettersTypeOK, CallSteps
  <2>4. NothingMissing'
    BY <1>1, <1>3, <2>2, <1>7 DEF WriteTemporary, NothingMissing, LettersInv
  <2> QED BY <1>5, <1>7, <2>3, <2>4 DEF LettersInv, DeadLettersKept, WriteTemporary
<1>8. CASE RenameTemporary(c)
  <2>1. call'[c] = [call[c] EXCEPT !.step = "renamed", !.records = call[c].records]
    BY <1>8 DEF RenameTemporary, GoesTo, LettersInv, LettersTypeOK
  <2>2. /\ call'[c].step = "renamed" /\ call'[c].key = call[c].key
    BY <1>2, <2>1
  <2>3. LettersTypeOK'
    BY <1>2, <1>8 DEF RenameTemporary, GoesTo, LettersInv, LettersTypeOK, CallSteps
  <2>4. file' = call[c].records /\ recorded \subseteq file' /\ call[c].key \in file'
    BY <1>8 DEF RenameTemporary, NothingMissing, LettersInv
  <2>5. NothingMissing'
    BY <1>3, <2>2, <2>4 DEF NothingMissing
  <2> QED BY <1>1, <1>5, <2>3, <2>4, <2>5 DEF LettersInv, DeadLettersKept
<1> QED BY <1>6, <1>7, <1>8

\* A call settles: nothing is under way when the next one starts.
LEMMA InvSettle ==
  ASSUME LettersInv, NEW c \in Recorders, RecordResolves(c) \/ RecordRejects(c)
  PROVE  LettersInv'
<1>1. Runs(c) /\ call[c].step # "none" /\ file' = file /\ Leaves(c)
  BY DEF RecordResolves, RecordRejects, LettersInv, OneAtATime
<1>2. ASSUME NEW d \in Recorders
      PROVE  call'[d].step \notin {"read", "written", "renamed"}
  <2>1. CASE d = c
    BY <1>1, <2>1 DEF Leaves, NoCall, LettersInv, LettersTypeOK
  <2>2. CASE d # c
    <3>1. call'[d] = call[d] /\ ~ Runs(d)
      BY <1>1, <2>2 DEF Leaves, Runs, LettersInv, LettersTypeOK
    <3> QED BY <3>1 DEF LettersInv, OneAtATime
  <2> QED BY <2>1, <2>2
<1>3. OneAtATime' /\ NothingMissing'
  BY <1>2 DEF OneAtATime, NothingMissing
<1>4. call[c].key \in Letters
  BY <1>1, UnderWay DEF LettersInv
<1>5. recorded' \subseteq file' /\ recorded' \in SUBSET Letters
  <2>1. CASE RecordResolves(c)
    BY <1>1, <1>4, <2>1 DEF RecordResolves, LettersInv, NothingMissing, DeadLettersKept,
                            LettersTypeOK
  <2>2. CASE RecordRejects(c)
    BY <1>1, <2>2 DEF RecordRejects, LettersInv, DeadLettersKept, LettersTypeOK
  <2> QED BY <2>1, <2>2
<1>6. chain' \in Seq(Recorders)
  BY <1>1 DEF Leaves, Runs, LettersInv, LettersTypeOK
<1>7. call' \in [Recorders -> CallSteps] /\ temporary' \in SUBSET Letters
  BY <1>1 DEF Leaves, RecordResolves, RecordRejects, LettersInv, LettersTypeOK, CallSteps
<1>8. LettersTypeOK'
  BY <1>1, <1>5, <1>6, <1>7 DEF LettersInv, LettersTypeOK
<1> QED BY <1>3, <1>5, <1>8 DEF LettersInv, DeadLettersKept

LEMMA InvCrash ==
  ASSUME LettersInv, LettersCrash
  PROVE  LettersInv'
<1>1. \A c \in Recorders : call'[c].step = "none"
  BY DEF LettersCrash, NoCall
<1>2. LettersTypeOK'
  BY DEF LettersCrash, LettersInv, LettersTypeOK, CallSteps
<1>3. OneAtATime' /\ NothingMissing'
  BY <1>1 DEF OneAtATime, NothingMissing
<1> QED BY <1>2, <1>3 DEF LettersCrash, LettersInv, DeadLettersKept

\* The invariant, for every set of calls and letters.
THEOREM LettersInvariance == LettersSpec => []LettersInv
<1>1. LettersInv /\ [LettersNext]_letterVars => LettersInv'
  <2> SUFFICES ASSUME LettersInv, [LettersNext]_letterVars PROVE LettersInv'
    OBVIOUS
  <2>1. CASE UNCHANGED letterVars
    BY <2>1 DEF letterVars, LettersInv, LettersTypeOK, OneAtATime, NothingMissing,
                DeadLettersKept, Runs
  <2>2. CASE LettersNext
    BY <2>2, InvRecord, InvWork, InvSettle, InvCrash DEF LettersNext
  <2> QED BY <2>1, <2>2
<1> QED BY InitInv, <1>1, PTL DEF LettersSpec

\* FileDeadLetterStore.record: what was acknowledged is in the file and stays there.
THEOREM AcknowledgedLettersAreKept == LettersSpec => []DeadLettersKept
  BY LettersInvariance, PTL DEF LettersInv

-----------------------------------------------------------------------------
(* The in-process locks *)

\* The armed timers are those of the present leases.
TimersAreCurrent ==
  \A t \in timers : /\ entry[t.stream].token = t.token
                    /\ entry[t.stream].expiresAt = t.at

LocalInv == LocalTypeOK /\ TimersAreCurrent

\* What a step may do to an entry: the body of LocalClaimKept.
ClaimKept ==
  \A s \in LocalStreams :
    entry[s] # NoEntry /\ entry'[s] = NoEntry =>
      entry[s].expiresAt <= now \/ entry[s].token \in givenUp'

-----------------------------------------------------------------------------

LEMMA EntryFields ==
  ASSUME LocalTypeOK, NEW s \in LocalStreams
  PROVE  /\ entry[s] # NoEntry => entry[s].token \in Tokens
         /\ entry[s].token \in Tokens => entry[s] # NoEntry
         /\ entry[s] = NoEntry => entry[s].token = 0
  BY LocalBoundsAssumption DEF LocalTypeOK, Entries, NoEntry, Tokens

LEMMA TimerFields ==
  ASSUME LocalTypeOK, NEW t \in timers
  PROVE  t \in Timers /\ t.stream \in LocalStreams /\ t.token \in Tokens /\ t.at \in Nat
  BY DEF LocalTypeOK, Timers

\* clearTimeout leaves no timer of the stream.
LEMMA ClearedLeavesNone ==
  ASSUME LocalInv, NEW s \in LocalStreams
  PROVE  \A t \in ClearedTimers(s) : t \in timers /\ t.stream # s
  BY DEF LocalInv, TimersAreCurrent, ClearedTimers, TimerOf

\* acquire and renew.
LEMMA InvSet ==
  ASSUME LocalInv, NEW s \in LocalStreams, NEW tok \in Tokens, SetEntry(s, tok),
         now' = now, issued' \in SUBSET (Tokens \X LocalStreams), givenUp' = givenUp
  PROVE  LocalInv' /\ ClaimKept
<1> DEFINE e == [token |-> tok, expiresAt |-> now + LocalTTL]
           n == [stream |-> s, token |-> tok, at |-> now + LocalTTL]
<1>1. now \in Nat /\ now + LocalTTL \in Nat
  BY LocalTTLAssumption, LocalBoundsAssumption DEF LocalInv, LocalTypeOK
<1>2. e \in Entries /\ n \in Timers
  BY <1>1 DEF Entries, Timers
<1>3. entry'[s] = e /\ \A r \in LocalStreams \ {s} : entry'[r] = entry[r]
  BY DEF SetEntry, LocalInv, LocalTypeOK
<1>4. timers' = ClearedTimers(s) \cup {n}
  BY DEF SetEntry
<1>5. LocalTypeOK'
  <2>1. entry' \in [LocalStreams -> Entries \cup {NoEntry}]
    BY <1>2 DEF SetEntry, LocalInv, LocalTypeOK
  <2>2. timers' \in SUBSET Timers
    BY <1>2, <1>4, ClearedLeavesNone DEF LocalInv, LocalTypeOK
  <2> QED BY <2>1, <2>2 DEF LocalInv, LocalTypeOK
<1>6. TimersAreCurrent'
  <2> SUFFICES ASSUME NEW t \in timers'
               PROVE  entry'[t.stream].token = t.token /\ entry'[t.stream].expiresAt = t.at
    BY DEF TimersAreCurrent
  <2>1. CASE t = n
    BY <1>3, <2>1
  <2>2. CASE t \in ClearedTimers(s)
    <3>1. t \in timers /\ t.stream # s
      BY <2>2, ClearedLeavesNone
    <3>2. t.stream \in LocalStreams
      BY <3>1, TimerFields DEF LocalInv
    <3> QED BY <3>1, <3>2, <1>3 DEF LocalInv, TimersAreCurrent
  <2> QED BY <2>1, <2>2, <1>4
<1>7. e # NoEntry
  BY LocalBoundsAssumption DEF NoEntry, Tokens
<1>8. ClaimKept
  BY <1>3, <1>7 DEF ClaimKept
<1> QED BY <1>5, <1>6, <1>8 DEF LocalInv

\* release
LEMMA InvRelease ==
  ASSUME LocalInv, NEW s \in LocalStreams, NEW tok \in Tokens, LocalRelease(s, tok)
  PROVE  LocalInv' /\ ClaimKept
<1>1. entry'[s] = NoEntry /\ \A r \in LocalStreams \ {s} : entry'[r] = entry[r]
  BY DEF LocalRelease, LocalInv, LocalTypeOK
<1>2. timers' = ClearedTimers(s)
  BY DEF LocalRelease
<1>3. LocalTypeOK'
  BY <1>2, ClearedLeavesNone DEF LocalRelease, LocalInv, LocalTypeOK
<1>4. TimersAreCurrent'
  <2> SUFFICES ASSUME NEW t \in timers'
               PROVE  entry'[t.stream].token = t.token /\ entry'[t.stream].expiresAt = t.at
    BY DEF TimersAreCurrent
  <2>1. t \in timers /\ t.stream # s
    BY <1>2, ClearedLeavesNone
  <2>2. t.stream \in LocalStreams
    BY <2>1, TimerFields DEF LocalInv
  <2> QED BY <2>1, <2>2, <1>1 DEF LocalInv, TimersAreCurrent
<1>5. ClaimKept
  BY <1>1 DEF ClaimKept, LocalRelease
<1> QED BY <1>3, <1>4, <1>5 DEF LocalInv

\* releaseAll
LEMMA InvReleaseAll ==
  ASSUME LocalInv, LocalReleaseAll
  PROVE  LocalInv' /\ ClaimKept
<1>1. timers' = {}
  <2> SUFFICES ASSUME NEW t \in timers PROVE t \in UNION {TimerOf(s) : s \in LocalStreams}
    BY DEF LocalReleaseAll
  <2>1. t.stream \in LocalStreams /\ t \in TimerOf(t.stream)
    BY TimerFields DEF LocalInv, TimersAreCurrent, TimerOf
  <2> QED BY <2>1
<1>2. entry' \in [LocalStreams -> Entries \cup {NoEntry}]
  BY DEF LocalReleaseAll
<1>3. givenUp' \in SUBSET Tokens
  BY DEF LocalReleaseAll, LocalInv, LocalTypeOK
<1>4. LocalInv'
  BY <1>1, <1>2, <1>3 DEF LocalInv, LocalTypeOK, TimersAreCurrent, LocalReleaseAll
<1>5. ClaimKept
  BY EntryFields DEF ClaimKept, LocalReleaseAll, LocalInv
<1> QED BY <1>4, <1>5

\* A timer fires: it is the only one of its stream, and its lease is over.
LEMMA InvFires ==
  ASSUME LocalInv, NEW t \in timers, TimerFires(t)
  PROVE  LocalInv' /\ ClaimKept
<1>1. t \in Timers /\ t.stream \in LocalStreams
  BY TimerFields DEF LocalInv
<1>2. entry' = [entry EXCEPT ![t.stream] = NoEntry] /\ entry[t.stream].expiresAt <= now
  BY DEF TimerFires, LocalInv, TimersAreCurrent
<1>3. entry'[t.stream] = NoEntry /\ \A r \in LocalStreams \ {t.stream} : entry'[r] = entry[r]
  BY <1>1, <1>2 DEF LocalInv, LocalTypeOK
<1>4. LocalTypeOK'
  BY <1>2 DEF TimerFires, LocalInv, LocalTypeOK
<1>5. TimersAreCurrent'
  <2> SUFFICES ASSUME NEW x \in timers'
               PROVE  entry'[x.stream].token = x.token /\ entry'[x.stream].expiresAt = x.at
    BY DEF TimersAreCurrent
  <2>1. x \in timers /\ x # t
    BY DEF TimerFires
  <2>2. x \in Timers /\ x.stream \in LocalStreams
    BY <2>1, TimerFields DEF LocalInv
  <2>3. x.stream # t.stream
    <3> SUFFICES ASSUME x.stream = t.stream PROVE FALSE
      OBVIOUS
    <3>1. x.token = t.token /\ x.at = t.at
      BY <2>1 DEF LocalInv, TimersAreCurrent
    <3> QED BY <1>1, <2>1, <2>2, <3>1 DEF Timers
  <2> QED BY <1>3, <2>1, <2>2, <2>3 DEF LocalInv, TimersAreCurrent
<1>6. ClaimKept
  BY <1>2, <1>3 DEF ClaimKept
<1> QED BY <1>4, <1>5, <1>6 DEF LocalInv

LEMMA InvTime ==
  ASSUME LocalInv, TimePasses
  PROVE  LocalInv' /\ ClaimKept
<1>1. now' \in 0..MaxNow
  BY LocalBoundsAssumption DEF TimePasses, LocalInv, LocalTypeOK
<1> QED BY <1>1 DEF TimePasses, LocalInv, LocalTypeOK, TimersAreCurrent, ClaimKept

LEMMA InvNext ==
  ASSUME LocalInv, LocalNext
  PROVE  LocalInv' /\ ClaimKept
<1>1. CASE \E s \in LocalStreams, tok \in Tokens : LocalAcquire(s, tok)
  <2>1. PICK s \in LocalStreams, tok \in Tokens : LocalAcquire(s, tok)
    BY <1>1
  <2>2. issued' \in SUBSET (Tokens \X LocalStreams)
    BY <2>1 DEF LocalAcquire, LocalInv, LocalTypeOK
  <2> QED BY <2>1, <2>2, InvSet DEF LocalAcquire
<1>2. CASE \E s \in LocalStreams, tok \in Tokens : LocalRenew(s, tok)
  BY <1>2, InvSet DEF LocalRenew, LocalInv, LocalTypeOK
<1>3. CASE \E s \in LocalStreams, tok \in Tokens : LocalRelease(s, tok)
  BY <1>3, InvRelease
<1> QED BY <1>1, <1>2, <1>3, InvReleaseAll, InvFires, InvTime DEF LocalNext

-----------------------------------------------------------------------------

\* The invariant, for every set of streams, TTL and bound.
THEOREM LocalInvariance == LocalSpec => []LocalInv
<1>1. LocalInit => LocalInv
  BY LocalBoundsAssumption DEF LocalInit, LocalInv, LocalTypeOK, TimersAreCurrent
<1>2. LocalInv /\ [LocalNext]_localVars => LocalInv'
  <2> SUFFICES ASSUME LocalInv, [LocalNext]_localVars PROVE LocalInv'
    OBVIOUS
  <2>1. CASE UNCHANGED localVars
    BY <2>1 DEF localVars, LocalInv, LocalTypeOK, TimersAreCurrent
  <2> QED BY <2>1, InvNext
<1> QED BY <1>1, <1>2, PTL DEF LocalSpec

\* acquire, renew and evictIfCurrent: no timer evicts a claim whose lease, counted from
\* the last renewal, still runs.
THEOREM LocalClaimsAreKept == LocalSpec => LocalClaimKept
<1>1. LocalInv /\ [LocalNext]_localVars => [ClaimKept]_localVars
  BY InvNext
<1> QED BY <1>1, LocalInvariance, PTL DEF LocalSpec, LocalClaimKept, ClaimKept

-----------------------------------------------------------------------------
(* The in-process locks implement StreamOwnership *)

LEMMA HeldFields ==
  ASSUME LocalTypeOK, NEW s \in LocalStreams
  PROVE  /\ Held(s)[1] \in {"nobody", "self"}
         /\ entry[s].token = 0 <=> entry[s] = NoEntry
<1>1. entry[s] \in Entries \cup {NoEntry}
  BY DEF LocalTypeOK
<1>2. entry[s] \in Entries => entry[s].token # 0
  BY LocalBoundsAssumption DEF Entries, Tokens
<1>3. NoEntry.token = 0
  BY DEF NoEntry
<1> QED BY <1>1, <1>2, <1>3 DEF Held

\* A step after which every stream has its holder or none ends claims.
LEMMA LocalClaimsEnd ==
  ASSUME UNCHANGED issued,
         \A s \in LocalStreams : Held(s)' = Held(s) \/ Held(s)' = <<"nobody", 0>>
  PROVE  LocalOwn!Next
<1> DEFINE S == {s \in LocalStreams : Held(s)' # Held(s)}
<1>1. \A s \in LocalStreams : Held(s)' = IF s \in S THEN <<"nobody", 0>> ELSE Held(s)
  OBVIOUS
<1>2. LocalOwn!End(S)
  BY <1>1 DEF LocalOwn!End, LocalOwn!Nobody
<1>3. S \in SUBSET LocalStreams
  OBVIOUS
<1> QED BY <1>2, <1>3 DEF LocalOwn!Next

LEMMA LocalAcquireClaims ==
  ASSUME LocalTypeOK, NEW s \in LocalStreams, NEW tok \in Tokens, LocalAcquire(s, tok)
  PROVE  LocalOwn!Next
<1> DEFINE holder == [x \in LocalStreams |-> Held(x)]
           granted == {x[1] : x \in issued}
<1>1. tok \notin granted
  <2>1. ~ \E x \in issued : x[1] = tok
    BY LocalBoundsAssumption DEF LocalAcquire, Tokens
  <2> QED BY <2>1
<1>2. granted' = granted \cup {tok}
  <2>1. issued' = issued \cup {<<tok, s>>} /\ <<tok, s>>[1] = tok
    BY DEF LocalAcquire
  <2>2. ASSUME NEW y
        PROVE  (\E x \in issued' : x[1] = y) <=> (\E x \in issued : x[1] = y) \/ y = tok
    BY <2>1
  <2>3. granted' = {x[1] : x \in issued'}
    OBVIOUS
  <2> QED BY <2>2, <2>3
<1>3. /\ entry'[s] = [token |-> tok, expiresAt |-> now + LocalTTL]
      /\ \A x \in LocalStreams : x # s => entry'[x] = entry[x]
  BY DEF LocalAcquire, SetEntry, LocalTypeOK
<1>4. Held(s)' = <<"self", tok>> /\ \A x \in LocalStreams : x # s => Held(x)' = Held(x)
  <2>1. entry'[s].token = tok /\ tok # 0
    BY <1>3, LocalBoundsAssumption DEF Tokens
  <2>2. entry'[s] # NoEntry
    BY <2>1 DEF NoEntry
  <2> QED BY <1>3, <2>1, <2>2 DEF Held
<1>5. holder' = [holder EXCEPT ![s] = <<"self", tok>>] /\ holder[s][1] \in {"nobody", "self"}
  BY <1>4, HeldFields
<1>6. LocalOwn!Claim("self", s, tok)
  BY <1>1, <1>2, <1>5 DEF LocalOwn!Claim
<1> QED BY <1>6 DEF LocalOwn!Next

LEMMA LocalOwnershipStep ==
  ASSUME LocalTypeOK, [LocalNext]_localVars
  PROVE  [LocalOwn!Next]_LocalOwn!vars
<1>1. CASE UNCHANGED <<entry, issued>>
  BY <1>1 DEF LocalOwn!vars, Held
<1>2. ASSUME NEW s \in LocalStreams, NEW tok \in Tokens, LocalAcquire(s, tok)
      PROVE  LocalOwn!Next
  BY <1>2, LocalAcquireClaims
<1>3. ASSUME NEW s \in LocalStreams, NEW tok \in Tokens, LocalRenew(s, tok)
      PROVE  LocalOwn!Next
  <2>1. /\ entry'[s] = [token |-> tok, expiresAt |-> now + LocalTTL]
        /\ \A x \in LocalStreams : x # s => entry'[x] = entry[x]
        /\ entry[s].token = tok /\ UNCHANGED issued
    BY <1>3 DEF LocalRenew, SetEntry, LocalTypeOK
  <2>2. tok # 0
    BY LocalBoundsAssumption DEF Tokens
  <2>3. entry[s] # NoEntry /\ entry'[s] # NoEntry /\ entry'[s].token = entry[s].token
    BY <2>1, <2>2 DEF NoEntry
  <2>4. \A x \in LocalStreams : Held(x)' = Held(x)
    BY <2>1, <2>3 DEF Held
  <2> QED BY <2>1, <2>4, LocalClaimsEnd
<1>4. ASSUME UNCHANGED issued,
             \A x \in LocalStreams : entry'[x] = entry[x] \/ entry'[x] = NoEntry
      PROVE  LocalOwn!Next
  BY <1>4, LocalClaimsEnd DEF Held
<1>5. ASSUME NEW s \in LocalStreams, NEW tok \in Tokens, LocalRelease(s, tok)
      PROVE  LocalOwn!Next
  BY <1>4, <1>5 DEF LocalRelease, LocalTypeOK
<1>6. CASE LocalReleaseAll
  BY <1>4, <1>6 DEF LocalReleaseAll
<1>7. ASSUME NEW t \in timers, TimerFires(t)
      PROVE  LocalOwn!Next
  BY <1>4, <1>7 DEF TimerFires, LocalTypeOK
<1>8. TimePasses => UNCHANGED <<entry, issued>>
  BY DEF TimePasses
<1>9. UNCHANGED localVars => UNCHANGED <<entry, issued>>
  BY DEF localVars
<1> QED BY <1>1, <1>2, <1>3, <1>5, <1>6, <1>7, <1>8, <1>9 DEF LocalNext

\* MemoryLockManager implements the interface that PostgresLockManager does: a stream
\* has one claim at a time, every claim is new, and one that was released, evicted or
\* replaced never holds a stream again, however late the timers fire.
THEOREM LocalLocksImplementOwnership == LocalSpec => LocalOwnership
<1>1. LocalInit => LocalOwn!Init
  BY DEF LocalInit, LocalOwn!Init, LocalOwn!Nobody, Held
<1>2. LocalInv /\ [LocalNext]_localVars => [LocalOwn!Next]_LocalOwn!vars
  BY LocalOwnershipStep DEF LocalInv
<1> QED BY <1>1, <1>2, LocalInvariance, PTL DEF LocalSpec, LocalOwnership, LocalOwn!Spec

-----------------------------------------------------------------------------
(* The event filters *)

Snapshots == [read : {TRUE}, hash : Filters] \cup {NoSnapshot}

LEMMA EmptyIsFilter == Empty \in Filters
  BY DEF Empty, Filters

LEMMA AppliedIsFilter ==
  ASSUME NEW map \in Filters, NEW change \in Changes
  PROVE  Applied(map, change) \in Filters
  BY DEF Applied, Filters, Changes

LEMMA MergedIsFilter ==
  ASSUME NEW map \in Filters, NEW read \in Filters
  PROVE  Merged(map, read) \in Filters
  BY DEF Merged, Filters

\* What was read of the hash.
LEMMA ReadIsSnapshot ==
  ASSUME NEW h \in Filters
  PROVE  /\ [read |-> TRUE, hash |-> h] \in Snapshots
         /\ [read |-> TRUE, hash |-> h] # NoSnapshot
  BY DEF Snapshots, NoSnapshot

LEMMA SnapshotFields ==
  ASSUME NEW x \in Snapshots, x # NoSnapshot
  PROVE  x.hash \in Filters
  BY DEF Snapshots

\* A write that is under way.
LEMMA WriteFields ==
  ASSUME NEW x \in Writes, x.step \in {"hash", "publish"}
  PROVE  x.change \in Changes
  BY DEF Writes, NoWrite

LEMMA WriteMovesOn ==
  ASSUME NEW x \in Writes
  PROVE  /\ x.step = "wait" => [x EXCEPT !.step = "hash"] \in Writes
         /\ x.step = "hash" => [x EXCEPT !.step = "publish"] \in Writes
         /\ NoWrite \in Writes
  BY DEF Writes, NoWrite

LEMMA WriteBegins ==
  ASSUME NEW change \in Changes
  PROVE  /\ [step |-> "hash", change |-> change] \in Writes
         /\ [step |-> "wait", change |-> change] \in Writes
  BY DEF Writes

\* Redis changes its hash or sends the message, and nothing else.
LEMMA CommandType ==
  ASSUME FilterTypeOK, NEW w \in FilterWorkers,
         write[w].step \in {"hash", "publish"}, ExecuteCommand(w)
  PROVE  hash' \in Filters /\ channel' \in [FilterWorkers -> Seq(Changes)]
<1>1. write[w] \in Writes
  BY DEF FilterTypeOK
<1>2. write[w].change \in Changes
  BY <1>1, WriteFields
<1>3. CASE write[w].step = "hash"
  <2>1. hash' = Applied(hash, write[w].change) /\ UNCHANGED channel
    BY <1>3 DEF ExecuteCommand
  <2>2. hash \in Filters /\ channel \in [FilterWorkers -> Seq(Changes)]
    BY DEF FilterTypeOK
  <2> QED BY <1>2, <2>1, <2>2, AppliedIsFilter
<1>4. CASE write[w].step = "publish"
  <2>1. ASSUME NEW v \in FilterWorkers
        PROVE  Append(channel[v], write[w].change) \in Seq(Changes)
    BY <1>2 DEF FilterTypeOK
  <2>2. \A v \in FilterWorkers : channel[v] \in Seq(Changes)
    BY DEF FilterTypeOK
  <2>3. /\ channel' = [v \in FilterWorkers |->
                        IF Listening(v) THEN Append(channel[v], write[w].change)
                        ELSE channel[v]]
        /\ UNCHANGED hash
    BY <1>4 DEF ExecuteCommand
  <2>4. channel' \in [FilterWorkers -> Seq(Changes)]
    BY <2>1, <2>2, <2>3
  <2> QED BY <2>3, <2>4 DEF FilterTypeOK
<1> QED BY <1>3, <1>4

\* The budgets.
LEMMA FaultType ==
  ASSUME FilterTypeOK, FilterFault
  PROVE  filterFaults' \in 0..MaxFilterFaults /\ filterChanges' \in 0..MaxFilterChanges
  BY FilterBoundsAssumption DEF FilterTypeOK, FilterFault

LEMMA EnsureStartedType ==
  ASSUME FilterTypeOK, NEW w \in FilterWorkers, EnsureStarted(w)
  PROVE  /\ phase' \in [FilterWorkers -> Phases]
         /\ \A v \in FilterWorkers :
              phase'[v] \in {"read", "listening"} => phase[v] \in {"read", "listening"}
  BY DEF FilterTypeOK, EnsureStarted, Phases

-----------------------------------------------------------------------------

FilterInstall(w) == StartFilter(w) \/ Install(w) \/ InstallFails(w)

LEMMA FilterInstallType ==
  ASSUME FilterTypeOK, NEW w \in FilterWorkers, FilterInstall(w)
  PROVE  FilterTypeOK'
<1> USE DEF FilterTypeOK, Snapshots
<1>1. CASE StartFilter(w)
  BY <1>1, EnsureStartedType DEF StartFilter, filterSpent
<1>2. CASE InstallReads(w)
  <2>1. snapshot' \in [FilterWorkers -> Snapshots] /\ snapshot'[w] # NoSnapshot
    BY <1>2, ReadIsSnapshot DEF InstallReads
  <2>2. phase' \in [FilterWorkers -> Phases]
    BY <1>2 DEF InstallReads, Phases
  <2> QED BY <1>2, <2>1, <2>2 DEF InstallReads, filterSpent
<1>3. CASE InstallSubscribes(w)
  BY <1>3 DEF InstallSubscribes, filterSpent, Phases
<1>4. CASE Started(w)
  <2>1. snapshot[w] \in Snapshots /\ snapshot[w] # NoSnapshot
    BY <1>4 DEF Started
  <2>2. Merged(configs[w], snapshot[w].hash) \in Filters
    BY <2>1, SnapshotFields, MergedIsFilter
  <2>3. configs' \in [FilterWorkers -> Filters]
    BY <1>4, <2>2 DEF Started, MergeSnapshot
  <2>4. write' \in [FilterWorkers -> Writes]
    <3>1. (IF write[w].step = "wait" THEN [write[w] EXCEPT !.step = "hash"] ELSE write[w])
             \in Writes
      BY WriteMovesOn
    <3> QED BY <1>4, <3>1 DEF Started
  <2>5. /\ snapshot' \in [FilterWorkers -> Snapshots]
        /\ phase' \in [FilterWorkers -> Phases]
    BY <1>4 DEF Started, MergeSnapshot, Phases
  <2>6. \A v \in FilterWorkers :
          phase'[v] \in {"read", "listening"} => snapshot'[v] # NoSnapshot
    BY <1>4 DEF Started, MergeSnapshot
  <2> QED BY <1>4, <2>3, <2>4, <2>5, <2>6 DEF Started, filterSpent
<1>5. CASE InstallFails(w)
  BY <1>5, FaultType, WriteMovesOn DEF InstallFails, Phases
<1> QED BY <1>1, <1>2, <1>3, <1>4, <1>5 DEF FilterInstall, Install

FilterWrites(w) ==
  \/ \E change \in Changes : ChangeFilter(w, change)
  \/ WriteGoesOn(w) \/ WriteRepeats(w) \/ WriteFails(w)

LEMMA FilterWritesType ==
  ASSUME FilterTypeOK, NEW w \in FilterWorkers, FilterWrites(w)
  PROVE  FilterTypeOK'
<1> USE DEF FilterTypeOK
<1>1. CASE \E change \in Changes : ChangeFilter(w, change)
  <2>1. PICK change \in Changes : ChangeFilter(w, change)
    BY <1>1
  <2>2. configs' \in [FilterWorkers -> Filters]
    BY <2>1, AppliedIsFilter DEF ChangeFilter
  <2>3. write' \in [FilterWorkers -> Writes]
    BY <2>1, WriteBegins DEF ChangeFilter
  <2>4. filterChanges' \in 0..MaxFilterChanges
    BY <2>1, FilterBoundsAssumption DEF ChangeFilter
  <2> QED BY <2>1, <2>2, <2>3, <2>4, EnsureStartedType DEF ChangeFilter
<1>2. CASE WriteGoesOn(w)
  <2>1. (IF write[w].step = "hash" THEN [write[w] EXCEPT !.step = "publish"] ELSE NoWrite)
           \in Writes
    BY WriteMovesOn
  <2> QED BY <1>2, <2>1, CommandType DEF WriteGoesOn, filterSpent
<1>3. CASE WriteRepeats(w)
  BY <1>3, CommandType, FaultType DEF WriteRepeats
<1>4. CASE WriteFails(w)
  BY <1>4, FaultType, WriteMovesOn DEF WriteFails
<1> QED BY <1>1, <1>2, <1>3, <1>4 DEF FilterWrites

FilterFollows(w) ==
  \/ ReceiveChange(w) \/ LoseMessages(w)
  \/ ReconcileReads(w) \/ ReconcileApplies(w) \/ ReconcileFails(w)

LEMMA FilterFollowsType ==
  ASSUME FilterTypeOK, NEW w \in FilterWorkers, FilterFollows(w)
  PROVE  FilterTypeOK'
<1> USE DEF FilterTypeOK, Snapshots
<1>1. CASE ReceiveChange(w)
  <2>1. Head(channel[w]) \in Changes /\ Tail(channel[w]) \in Seq(Changes)
    BY <1>1 DEF ReceiveChange
  <2>2. Applied(configs[w], Head(channel[w])) \in Filters
    BY <2>1, AppliedIsFilter
  <2>3. configs' \in [FilterWorkers -> Filters]
    BY <1>1, <2>2 DEF ReceiveChange
  <2>4. channel' \in [FilterWorkers -> Seq(Changes)]
    BY <1>1, <2>1 DEF ReceiveChange
  <2> QED BY <1>1, <2>3, <2>4 DEF ReceiveChange, filterSpent
<1>2. CASE LoseMessages(w)
  <2>1. channel' \in [FilterWorkers -> Seq(Changes)]
    <3>1. <<>> \in Seq(Changes)
      OBVIOUS
    <3> QED BY <1>2, <3>1 DEF LoseMessages
  <2> QED BY <1>2, <2>1, FaultType DEF LoseMessages
<1>3. CASE ReconcileReads(w)
  <2>1. snapshot' \in [FilterWorkers -> Snapshots] /\ snapshot'[w] # NoSnapshot
    BY <1>3, ReadIsSnapshot DEF ReconcileReads
  <2> QED BY <1>3, <2>1 DEF ReconcileReads, filterSpent
<1>4. CASE ReconcileApplies(w)
  <2>1. snapshot[w] \in Snapshots /\ snapshot[w] # NoSnapshot
    BY <1>4 DEF ReconcileApplies
  <2>2. Merged(configs[w], snapshot[w].hash) \in Filters
    BY <2>1, SnapshotFields, MergedIsFilter
  <2> QED BY <1>4, <2>2 DEF ReconcileApplies, MergeSnapshot, filterSpent
<1>5. CASE ReconcileFails(w)
  BY <1>5, FaultType DEF ReconcileFails
<1> QED BY <1>1, <1>2, <1>3, <1>4, <1>5 DEF FilterFollows

FilterLeaves(w) == CloseFilter(w) \/ ReplaceWorker(w)

LEMMA FilterLeavesType ==
  ASSUME FilterTypeOK, NEW w \in FilterWorkers, FilterLeaves(w)
  PROVE  FilterTypeOK'
<1> USE DEF FilterTypeOK, Snapshots
<1>1. ASSUME Disconnect(w)
      PROVE  /\ snapshot' \in [FilterWorkers -> Snapshots]
             /\ channel' \in [FilterWorkers -> Seq(Changes)]
             /\ write' \in [FilterWorkers -> Writes]
             /\ \A v \in FilterWorkers \ {w} : snapshot'[v] = snapshot[v]
  <2>1. NoWrite \in Writes /\ NoSnapshot \in Snapshots /\ <<>> \in Seq(Changes)
    BY DEF Writes
  <2> HIDE DEF Snapshots
  <2>2. /\ snapshot \in [FilterWorkers -> Snapshots]
        /\ channel \in [FilterWorkers -> Seq(Changes)]
        /\ write \in [FilterWorkers -> Writes]
    BY DEF Snapshots
  <2> HIDE DEF FilterTypeOK
  <2> QED BY <1>1, <2>1, <2>2 DEF Disconnect
<1>2. CASE CloseFilter(w)
  BY <1>1, <1>2 DEF CloseFilter, filterSpent, Phases
<1>3. CASE ReplaceWorker(w)
  BY <1>1, <1>3, FaultType, EmptyIsFilter DEF ReplaceWorker, Phases
<1> QED BY <1>2, <1>3 DEF FilterLeaves

\* EventFilter and RedisFilterConfigStore: the maps, the hash, the messages and the
\* writes of a fleet hold configurations, and a store that waits for its subscriber has
\* read the hash.
THEOREM FilterTypes == FilterSpec => []FilterTypeOK
<1>1. FilterInit => FilterTypeOK
  BY FilterBoundsAssumption, EmptyIsFilter, WriteMovesOn
     DEF FilterInit, FilterTypeOK, Phases, Writes
<1>2. FilterTypeOK /\ [FilterNext]_filterVars => FilterTypeOK'
  <2> SUFFICES ASSUME FilterTypeOK, [FilterNext]_filterVars PROVE FilterTypeOK'
    OBVIOUS
  <2>1. CASE UNCHANGED filterVars
    BY <2>1 DEF filterVars, filterSpent, FilterTypeOK
  <2>2. CASE FilterNext
    <3>1. PICK w \in FilterWorkers :
            FilterInstall(w) \/ FilterWrites(w) \/ FilterFollows(w) \/ FilterLeaves(w)
      BY <2>2 DEF FilterNext, FilterInstall, FilterWrites, FilterFollows, FilterLeaves
    <3> QED BY <3>1, FilterInstallType, FilterWritesType, FilterFollowsType,
               FilterLeavesType
  <2> QED BY <2>1, <2>2
<1> QED BY <1>1, <1>2, PTL DEF FilterSpec

\* Nothing that is on its way to a map or to the hash says of stream s anything but c, and
\* neither does the hash.
Says(change, s, c) == change.stream = s => change.to = c
SnapshotSays(read, s, c) == read # NoSnapshot => read.hash[s] = c
ChannelSays(messages, s, c) == \A i \in 1..Len(messages) : Says(messages[i], s, c)
WriteSays(x, s, c) == x # NoWrite => Says(x.change, s, c)

Agreed(s, c) ==
  /\ hash[s] = c
  /\ \A w \in FilterWorkers : /\ SnapshotSays(snapshot[w], s, c)
                              /\ ChannelSays(channel[w], s, c)
                              /\ WriteSays(write[w], s, c)

ChangesFilter(s) ==
  \E w \in FilterWorkers, change \in Changes : change.stream = s /\ ChangeFilter(w, change)

\* Map w keeps what it has of s or takes over c, unless its worker is replaced.
Follows(w, s, c) == configs'[w][s] \in {configs[w][s], c} \/ ReplaceWorker(w)

\* An agreement lasts until somebody changes the configuration of the stream, and until
\* then no map moves away from it.
AgreementStays ==
  [][\A s \in FilterStreams, c \in FilterConfigs \cup {Unset} :
       Agreed(s, c) /\ ~ ChangesFilter(s) =>
         Agreed(s, c)' /\ \A w \in FilterWorkers : Follows(w, s, c)]_filterVars

\* A start or a scan that is applied while all agree on a configuration leaves the map
\* with it, whatever the map has missed.
ScansRepair ==
  [][\A w \in FilterWorkers, s \in FilterStreams, c \in FilterConfigs :
       Agreed(s, c) /\ (Started(w) \/ ReconcileApplies(w)) => configs'[w][s] = c]_filterVars

LEMMA AppliedSays ==
  ASSUME NEW map \in Filters, NEW change \in Changes, NEW s \in FilterStreams, NEW c,
         Says(change, s, c)
  PROVE  Applied(map, change)[s] \in {map[s], c}
  BY DEF Applied, Filters, Says

LEMMA MergedSays ==
  ASSUME NEW map, NEW read, NEW s \in FilterStreams, NEW c, read[s] = c
  PROVE  /\ Merged(map, read)[s] \in {map[s], c}
         /\ c # Unset => Merged(map, read)[s] = c
  BY DEF Merged

LEMMA MessagesSay ==
  ASSUME NEW q \in Seq(Changes), NEW s, NEW c, ChannelSays(q, s, c)
  PROVE  /\ \A x \in Changes : Says(x, s, c) => ChannelSays(Append(q, x), s, c)
         /\ q # <<>> => Says(Head(q), s, c) /\ ChannelSays(Tail(q), s, c)
<1>1. ASSUME NEW x \in Changes, Says(x, s, c)
      PROVE  ChannelSays(Append(q, x), s, c)
  <2>1. /\ Len(Append(q, x)) = Len(q) + 1 /\ Len(q) \in Nat
        /\ \A i \in 1..Len(q) : Append(q, x)[i] = q[i]
        /\ Append(q, x)[Len(q) + 1] = x
    OBVIOUS
  <2>2. \A i \in 1..(Len(q) + 1) : i \in 1..Len(q) \/ i = Len(q) + 1
    BY <2>1
  <2> QED BY <1>1, <2>1, <2>2 DEF ChannelSays
<1>2. ASSUME q # <<>>
      PROVE  Says(Head(q), s, c) /\ ChannelSays(Tail(q), s, c)
  <2>1. /\ Len(q) \in Nat /\ Len(q) > 0 /\ Head(q) = q[1] /\ Len(Tail(q)) = Len(q) - 1
        /\ \A i \in 1..(Len(q) - 1) : Tail(q)[i] = q[i + 1]
    BY <1>2
  <2>2. 1 \in 1..Len(q) /\ \A i \in 1..(Len(q) - 1) : i + 1 \in 1..Len(q)
    BY <2>1
  <2> QED BY <2>1, <2>2 DEF ChannelSays
<1> QED BY <1>1, <1>2

\* A write that moves on is about the same change.
LEMMA WriteStillSays ==
  ASSUME NEW x \in Writes, NEW s, NEW c, WriteSays(x, s, c), x.step \in {"wait", "hash"}
  PROVE  /\ WriteSays([x EXCEPT !.step = "hash"], s, c)
         /\ WriteSays([x EXCEPT !.step = "publish"], s, c)
<1>1. x # NoWrite /\ x \in [step : {"wait", "hash", "publish"}, change : Changes]
  BY DEF Writes, NoWrite
<1>2. /\ [x EXCEPT !.step = "hash"].change = x.change
      /\ [x EXCEPT !.step = "publish"].change = x.change
  BY <1>1
<1> QED BY <1>1, <1>2 DEF WriteSays

\* Redis executes a command that says nothing else.
LEMMA CommandSays ==
  ASSUME FilterTypeOK, NEW w \in FilterWorkers, NEW s \in FilterStreams, NEW c,
         Agreed(s, c), write[w].step \in {"hash", "publish"}, ExecuteCommand(w)
  PROVE  hash'[s] = c /\ \A v \in FilterWorkers : ChannelSays(channel'[v], s, c)
<1>1. write[w] \in Writes /\ hash \in Filters
      /\ \A v \in FilterWorkers : channel[v] \in Seq(Changes)
  BY DEF FilterTypeOK
<1>2. write[w].change \in Changes /\ Says(write[w].change, s, c)
  <2>1. write[w] # NoWrite
    BY DEF NoWrite
  <2> QED BY <1>1, <2>1, WriteFields DEF Agreed, WriteSays
<1>3. CASE write[w].step = "hash"
  <2>1. hash' = Applied(hash, write[w].change) /\ UNCHANGED channel
    BY <1>3 DEF ExecuteCommand
  <2> QED BY <1>1, <1>2, <2>1, AppliedSays DEF Agreed
<1>4. CASE write[w].step = "publish"
  <2>1. /\ channel' = [v \in FilterWorkers |->
                        IF Listening(v) THEN Append(channel[v], write[w].change)
                        ELSE channel[v]]
        /\ UNCHANGED hash
    BY <1>4 DEF ExecuteCommand
  <2>2. ASSUME NEW v \in FilterWorkers
        PROVE  ChannelSays(channel'[v], s, c)
    <3>1. ChannelSays(channel[v], s, c)
      BY DEF Agreed
    <3>2. ChannelSays(Append(channel[v], write[w].change), s, c)
      BY <1>1, <1>2, <3>1, MessagesSay
    <3> QED BY <2>1, <3>1, <3>2
  <2> QED BY <2>1, <2>2 DEF Agreed
<1> QED BY <1>3, <1>4

\* An agreement after a step: what is new says c.
LEMMA AgreedAfter ==
  ASSUME NEW s, NEW c, Agreed(s, c), hash'[s] = c,
         \A v \in FilterWorkers :
           /\ snapshot'[v] = snapshot[v] \/ SnapshotSays(snapshot'[v], s, c)
           /\ channel'[v] = channel[v] \/ ChannelSays(channel'[v], s, c)
           /\ write'[v] = write[v] \/ WriteSays(write'[v], s, c)
  PROVE  Agreed(s, c)'
  BY DEF Agreed

LEMMA NothingSays ==
  ASSUME NEW s, NEW c
  PROVE  SnapshotSays(NoSnapshot, s, c) /\ ChannelSays(<<>>, s, c) /\ WriteSays(NoWrite, s, c)
  BY DEF SnapshotSays, ChannelSays, WriteSays

\* One map is merged with what its worker has read.
LEMMA MergeFollows ==
  ASSUME FilterTypeOK, NEW w \in FilterWorkers, NEW s \in FilterStreams, NEW c,
         Agreed(s, c), snapshot[w] # NoSnapshot, MergeSnapshot(w)
  PROVE  /\ \A v \in FilterWorkers : configs'[v][s] \in {configs[v][s], c}
         /\ c # Unset => configs'[w][s] = c
         /\ \A v \in FilterWorkers :
              snapshot'[v] = snapshot[v] \/ SnapshotSays(snapshot'[v], s, c)
<1>1. snapshot[w].hash[s] = c
  BY DEF Agreed, SnapshotSays
<1>2. /\ configs = [v \in FilterWorkers |-> configs[v]]
      /\ snapshot = [v \in FilterWorkers |-> snapshot[v]]
  BY DEF FilterTypeOK
<1>3. /\ configs'[w] = Merged(configs[w], snapshot[w].hash) /\ snapshot'[w] = NoSnapshot
      /\ \A v \in FilterWorkers \ {w} : configs'[v] = configs[v] /\ snapshot'[v] = snapshot[v]
  BY <1>2 DEF MergeSnapshot
<1> QED BY <1>1, <1>3, MergedSays, NothingSays

LEMMA InstallKeepsAgreement ==
  ASSUME FilterTypeOK, NEW w \in FilterWorkers, FilterInstall(w),
         NEW s \in FilterStreams, NEW c, Agreed(s, c)
  PROVE  Agreed(s, c)' /\ \A v \in FilterWorkers : configs'[v][s] \in {configs[v][s], c}
<1> USE NothingSays
<1>1. /\ snapshot = [v \in FilterWorkers |-> snapshot[v]]
      /\ write = [v \in FilterWorkers |-> write[v]] /\ write[w] \in Writes
  BY DEF FilterTypeOK
<1>2. hash[s] = c
  BY DEF Agreed
<1>3. CASE StartFilter(w) \/ InstallSubscribes(w)
  BY <1>2, <1>3, AgreedAfter DEF StartFilter, InstallSubscribes
<1>4. CASE InstallReads(w)
  <2>1. SnapshotSays([read |-> TRUE, hash |-> hash], s, c)
    BY <1>2 DEF SnapshotSays
  <2>2. /\ snapshot' = [snapshot EXCEPT ![w] = [read |-> TRUE, hash |-> hash]]
        /\ UNCHANGED <<hash, configs, channel, write>>
    BY <1>4 DEF InstallReads
  <2>3. \A v \in FilterWorkers :
          snapshot'[v] = snapshot[v] \/ SnapshotSays(snapshot'[v], s, c)
    BY <1>1, <2>1, <2>2
  <2> QED BY <1>2, <2>2, <2>3, AgreedAfter
<1>5. CASE Started(w)
  <2>1. snapshot[w] # NoSnapshot /\ MergeSnapshot(w) /\ UNCHANGED <<hash, channel>>
    BY <1>5 DEF Started, FilterTypeOK
  <2>2. WriteSays(write[w], s, c)
    BY DEF Agreed
  <2>3. \A v \in FilterWorkers : write'[v] = write[v] \/ WriteSays(write'[v], s, c)
    <3>1. write'[w] = IF write[w].step = "wait" THEN [write[w] EXCEPT !.step = "hash"]
                      ELSE write[w]
      BY <1>1, <1>5 DEF Started
    <3>2. \A v \in FilterWorkers \ {w} : write'[v] = write[v]
      BY <1>1, <1>5 DEF Started
    <3>3. CASE write[w].step = "wait"
      <4>1. WriteSays([write[w] EXCEPT !.step = "hash"], s, c)
        BY <1>1, <2>2, <3>3, WriteStillSays
      <4> QED BY <3>1, <3>2, <3>3, <4>1
    <3>4. CASE write[w].step # "wait"
      BY <3>1, <3>2, <3>4
    <3> QED BY <3>3, <3>4
  <2> QED BY <1>2, <2>1, <2>3, MergeFollows, AgreedAfter
<1>6. CASE InstallFails(w)
  <2>1. /\ snapshot' = [snapshot EXCEPT ![w] = NoSnapshot]
        /\ write' = [write EXCEPT ![w] = NoWrite] /\ UNCHANGED <<hash, configs, channel>>
    BY <1>6 DEF InstallFails
  <2>2. \A v \in FilterWorkers :
          /\ snapshot'[v] = snapshot[v] \/ SnapshotSays(snapshot'[v], s, c)
          /\ write'[v] = write[v] \/ WriteSays(write'[v], s, c)
    BY <1>1, <2>1
  <2> QED BY <1>2, <2>1, <2>2, AgreedAfter
<1> QED BY <1>3, <1>4, <1>5, <1>6 DEF FilterInstall, Install

LEMMA WritesKeepAgreement ==
  ASSUME FilterTypeOK, NEW w \in FilterWorkers, FilterWrites(w),
         NEW s \in FilterStreams, NEW c, Agreed(s, c), ~ ChangesFilter(s)
  PROVE  Agreed(s, c)' /\ \A v \in FilterWorkers : configs'[v][s] \in {configs[v][s], c}
<1> USE NothingSays
<1>1. /\ configs = [v \in FilterWorkers |-> configs[v]]
      /\ write = [v \in FilterWorkers |-> write[v]] /\ write[w] \in Writes
      /\ configs[w] \in Filters
  BY DEF FilterTypeOK
<1>2. hash[s] = c /\ WriteSays(write[w], s, c)
  BY DEF Agreed
<1>3. ASSUME NEW change \in Changes, ChangeFilter(w, change)
      PROVE  Agreed(s, c)' /\ \A v \in FilterWorkers : configs'[v][s] \in {configs[v][s], c}
  <2>1. change.stream # s
    BY <1>3 DEF ChangesFilter
  <2>2. Says(change, s, c)
    BY <2>1 DEF Says
  <2> DEFINE begun == [step |-> IF phase[w] = "started" THEN "hash" ELSE "wait",
                       change |-> change]
  <2>3. WriteSays(begun, s, c)
    BY <2>2 DEF WriteSays
  <2>4. /\ configs' = [configs EXCEPT ![w] = Applied(@, change)]
        /\ write' = [write EXCEPT ![w] = begun] /\ UNCHANGED <<hash, snapshot, channel>>
    BY <1>3 DEF ChangeFilter
  <2> HIDE DEF begun
  <2>5. \A v \in FilterWorkers : write'[v] = write[v] \/ WriteSays(write'[v], s, c)
    BY <1>1, <2>3, <2>4
  <2>6. \A v \in FilterWorkers : configs'[v][s] \in {configs[v][s], c}
    BY <1>1, <2>2, <2>4, AppliedSays
  <2> QED BY <1>2, <2>4, <2>5, <2>6, AgreedAfter
<1>4. CASE WriteGoesOn(w)
  <2>1. /\ write[w].step \in {"hash", "publish"} /\ ExecuteCommand(w)
        /\ UNCHANGED <<configs, snapshot>>
        /\ write'[w] = IF write[w].step = "hash" THEN [write[w] EXCEPT !.step = "publish"]
                       ELSE NoWrite
        /\ \A v \in FilterWorkers \ {w} : write'[v] = write[v]
    BY <1>1, <1>4 DEF WriteGoesOn
  <2>2. hash'[s] = c /\ \A v \in FilterWorkers : ChannelSays(channel'[v], s, c)
    BY <2>1, CommandSays
  <2>3. WriteSays(write'[w], s, c)
    <3>1. CASE write[w].step = "hash"
      <4>1. WriteSays([write[w] EXCEPT !.step = "publish"], s, c)
        BY <1>1, <1>2, <3>1, WriteStillSays
      <4> QED BY <2>1, <3>1, <4>1
    <3>2. CASE write[w].step = "publish"
      BY <2>1, <3>2
    <3> QED BY <2>1, <3>1, <3>2
  <2> QED BY <2>1, <2>2, <2>3, AgreedAfter
<1>5. CASE WriteRepeats(w)
  <2>1. /\ write[w].step \in {"hash", "publish"} /\ ExecuteCommand(w)
        /\ UNCHANGED <<configs, snapshot, write>>
    BY <1>5 DEF WriteRepeats
  <2>2. hash'[s] = c /\ \A v \in FilterWorkers : ChannelSays(channel'[v], s, c)
    BY <2>1, CommandSays
  <2> QED BY <2>1, <2>2, AgreedAfter
<1>6. CASE WriteFails(w)
  <2>1. \A v \in FilterWorkers : write'[v] = write[v] \/ WriteSays(write'[v], s, c)
    BY <1>1, <1>6 DEF WriteFails
  <2> QED BY <1>2, <1>6, <2>1, AgreedAfter DEF WriteFails
<1> QED BY <1>3, <1>4, <1>5, <1>6 DEF FilterWrites

LEMMA FollowsKeepAgreement ==
  ASSUME FilterTypeOK, NEW w \in FilterWorkers, FilterFollows(w),
         NEW s \in FilterStreams, NEW c, Agreed(s, c)
  PROVE  Agreed(s, c)' /\ \A v \in FilterWorkers : configs'[v][s] \in {configs[v][s], c}
<1> USE NothingSays
<1>1. /\ configs = [v \in FilterWorkers |-> configs[v]] /\ configs[w] \in Filters
      /\ channel = [v \in FilterWorkers |-> channel[v]] /\ channel[w] \in Seq(Changes)
      /\ snapshot = [v \in FilterWorkers |-> snapshot[v]]
  BY DEF FilterTypeOK
<1>2. hash[s] = c /\ ChannelSays(channel[w], s, c)
  BY DEF Agreed
<1>3. CASE ReceiveChange(w)
  <2>1. /\ channel[w] # <<>> /\ UNCHANGED <<hash, snapshot, write>>
        /\ configs'[w] = Applied(configs[w], Head(channel[w]))
        /\ channel'[w] = Tail(channel[w])
        /\ \A v \in FilterWorkers \ {w} : configs'[v] = configs[v] /\ channel'[v] = channel[v]
    BY <1>1, <1>3 DEF ReceiveChange
  <2>2. Head(channel[w]) \in Changes
    BY <1>1, <2>1
  <2>3. Says(Head(channel[w]), s, c) /\ ChannelSays(channel'[w], s, c)
    BY <1>1, <1>2, <2>1, MessagesSay
  <2>4. configs'[w][s] \in {configs[w][s], c}
    BY <1>1, <2>1, <2>2, <2>3, AppliedSays
  <2> QED BY <1>2, <2>1, <2>3, <2>4, AgreedAfter
<1>4. CASE LoseMessages(w)
  <2>1. \A v \in FilterWorkers : channel'[v] = channel[v] \/ ChannelSays(channel'[v], s, c)
    BY <1>1, <1>4 DEF LoseMessages
  <2> QED BY <1>2, <1>4, <2>1, AgreedAfter DEF LoseMessages
<1>5. CASE ReconcileReads(w)
  <2>1. SnapshotSays([read |-> TRUE, hash |-> hash], s, c)
    BY <1>2 DEF SnapshotSays
  <2>2. /\ snapshot' = [snapshot EXCEPT ![w] = [read |-> TRUE, hash |-> hash]]
        /\ UNCHANGED <<hash, configs, channel, write>>
    BY <1>5 DEF ReconcileReads
  <2>3. \A v \in FilterWorkers :
          snapshot'[v] = snapshot[v] \/ SnapshotSays(snapshot'[v], s, c)
    BY <1>1, <2>1, <2>2
  <2> QED BY <1>2, <2>2, <2>3, AgreedAfter
<1>6. CASE ReconcileApplies(w)
  BY <1>2, <1>6, MergeFollows, AgreedAfter DEF ReconcileApplies
<1>7. CASE ReconcileFails(w)
  <2>1. \A v \in FilterWorkers :
          snapshot'[v] = snapshot[v] \/ SnapshotSays(snapshot'[v], s, c)
    BY <1>1, <1>7 DEF ReconcileFails
  <2> QED BY <1>2, <1>7, <2>1, AgreedAfter DEF ReconcileFails
<1> QED BY <1>3, <1>4, <1>5, <1>6, <1>7 DEF FilterFollows

LEMMA LeavesKeepAgreement ==
  ASSUME FilterTypeOK, NEW w \in FilterWorkers, FilterLeaves(w),
         NEW s \in FilterStreams, NEW c, Agreed(s, c)
  PROVE  Agreed(s, c)' /\ \A v \in FilterWorkers : Follows(v, s, c)
<1>1. UNCHANGED hash /\ Disconnect(w)
  BY DEF FilterLeaves, CloseFilter, ReplaceWorker
<1>2. /\ configs = [v \in FilterWorkers |-> configs[v]]
      /\ channel = [v \in FilterWorkers |-> channel[v]]
      /\ snapshot = [v \in FilterWorkers |-> snapshot[v]]
      /\ write = [v \in FilterWorkers |-> write[v]]
  BY DEF FilterTypeOK
<1>3. /\ snapshot'[w] = NoSnapshot /\ channel'[w] = <<>> /\ write'[w] = NoWrite
      /\ \A v \in FilterWorkers \ {w} :
           snapshot'[v] = snapshot[v] /\ channel'[v] = channel[v] /\ write'[v] = write[v]
  BY <1>1, <1>2 DEF Disconnect
<1>4. hash'[s] = c
  BY <1>1 DEF Agreed
<1>5. Agreed(s, c)'
  BY <1>3, <1>4, AgreedAfter, NothingSays
<1>6. CASE CloseFilter(w)
  BY <1>5, <1>6 DEF CloseFilter, Follows
<1>7. CASE ReplaceWorker(w)
  <2>1. \A v \in FilterWorkers \ {w} : configs'[v] = configs[v]
    BY <1>2, <1>7 DEF ReplaceWorker
  <2> QED BY <1>5, <1>7, <2>1 DEF Follows
<1> QED BY <1>6, <1>7 DEF FilterLeaves

\* EventFilter and RedisFilterConfigStore: once the hash and everything on its way agree
\* on the configuration of a stream, only setConfig and clearConfig end that; no late
\* message, repeated command or old snapshot brings an earlier configuration back.
THEOREM AgreementLasts == FilterSpec => AgreementStays
<1>1. FilterTypeOK /\ [FilterNext]_filterVars =>
        [\A s \in FilterStreams, c \in FilterConfigs \cup {Unset} :
           Agreed(s, c) /\ ~ ChangesFilter(s) =>
             Agreed(s, c)' /\ \A w \in FilterWorkers : Follows(w, s, c)]_filterVars
  <2> SUFFICES ASSUME FilterTypeOK, FilterNext,
                      NEW s \in FilterStreams, NEW c \in FilterConfigs \cup {Unset},
                      Agreed(s, c), ~ ChangesFilter(s)
               PROVE  Agreed(s, c)' /\ \A w \in FilterWorkers : Follows(w, s, c)
    OBVIOUS
  <2>1. PICK w \in FilterWorkers :
          FilterInstall(w) \/ FilterWrites(w) \/ FilterFollows(w) \/ FilterLeaves(w)
    BY DEF FilterNext, FilterInstall, FilterWrites, FilterFollows, FilterLeaves
  <2>2. CASE FilterLeaves(w)
    BY <2>2, LeavesKeepAgreement
  <2>3. CASE FilterInstall(w) \/ FilterWrites(w) \/ FilterFollows(w)
    BY <2>3, InstallKeepsAgreement, WritesKeepAgreement, FollowsKeepAgreement DEF Follows
  <2> QED BY <2>1, <2>2, <2>3
<1> QED BY <1>1, FilterTypes, PTL DEF FilterSpec, AgreementStays

\* doStart and reconcile: under such an agreement the snapshot repairs whatever a lost
\* message has left in the map.
THEOREM ScansRepairMaps == FilterSpec => ScansRepair
<1>1. FilterTypeOK =>
        [\A w \in FilterWorkers, s \in FilterStreams, c \in FilterConfigs :
           Agreed(s, c) /\ (Started(w) \/ ReconcileApplies(w))
             => configs'[w][s] = c]_filterVars
  <2> SUFFICES ASSUME FilterTypeOK, NEW w \in FilterWorkers, NEW s \in FilterStreams,
                      NEW c \in FilterConfigs, Agreed(s, c),
                      Started(w) \/ ReconcileApplies(w)
               PROVE  configs'[w][s] = c
    OBVIOUS
  <2>1. snapshot[w] # NoSnapshot /\ MergeSnapshot(w)
    BY DEF Started, ReconcileApplies, FilterTypeOK
  <2>2. c # Unset
    BY UnsetAssumption
  <2> QED BY <2>1, <2>2, MergeFollows
<1> QED BY <1>1, FilterTypes, PTL DEF FilterSpec, ScansRepair

-----------------------------------------------------------------------------
(* All parts *)

\* A behaviour of the run is one of every part: the parts share no variable, and those
\* that stand still stutter.
THEOREM PartsRunAlone == Spec => FilterSpec /\ ProcessSpec /\ LettersSpec /\ LocalSpec
<1>1. Init => FilterInit /\ ProcessInit /\ LettersInit /\ LocalInit
  BY DEF Init
<1>2. [Next]_<<part, filterVars, workerVars, letterVars, localVars>> =>
        /\ [FilterNext]_filterVars /\ [ProcessNext]_workerVars
        /\ [LettersNext]_letterVars /\ [LocalNext]_localVars
  BY DEF Next
<1> QED BY <1>1, <1>2, PTL DEF Spec, FilterSpec, ProcessSpec, LettersSpec, LocalSpec

\* Every part of a worker keeps its types: the filters, the poll loop with the shutdown,
\* the dead-letter file and the in-process locks.
THEOREM WorkerTypes == Spec => []WorkerTypeOK
<1>1. ProcessInv /\ LettersInv /\ LocalInv /\ FilterTypeOK => WorkerTypeOK
  BY DEF ProcessInv, LettersInv, LocalInv, WorkerTypeOK
<1> QED BY <1>1, PartsRunAlone, FilterTypes, ProcessInvariance, LettersInvariance,
           LocalInvariance, PTL

=============================================================================
