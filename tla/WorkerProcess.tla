---------------------------- MODULE WorkerProcess ----------------------------
(***************************************************************************)
(* The life of one worker process (worker.ts): start(), the poll loop that *)
(* pages through the pending events of the API and routes them one by one, *)
(* and the graceful shutdown with its hooks and its deadline.  Sessions    *)
(* and locks are those of SessionRegistry; here a route() call has only an *)
(* outcome, and the queues are at the high watermark or not.               *)
(***************************************************************************)
EXTENDS PendingEvents, Sequences

CONSTANTS
  BatchLimit    \* POLL_BATCH_SIZE

ASSUME BatchLimitAssumption == BatchLimit \in Nat \ {0}

VARIABLES
  boot,          \* how far start() is
  poll,          \* what the poll loop is at
  cursor,        \* the cursor of the next page
  page,          \* rows of the current page that are not routed yet
  more,          \* the page was full: it came with a nextCursor
  shuttingDown,  \* the flag the poll loop looks at
  shutdown,      \* GracefulShutdown.state
  hook,          \* the hook that is running; 0 when none is
  waits,         \* the drain hook holds a pollPromise that has not settled
  hadError,      \* a hook has failed
  exit,          \* the exit code of the process, or Running
  offered,       \* history: the rows of this cycle that were handed on, in order
  backlog        \* history: the rows that were there when this cycle began

cycle       == <<cursor, page, more, offered, backlog>>
closing     == <<shuttingDown, shutdown, hook, waits, hadError, exit>>
workerVars  == <<pendingVars, boot, poll, cycle, closing>>

Running == 2

\* The hooks in the order of their registration.
Hooks == <<"stop poll loop", "drain sessions", "release locks", "close lock manager",
           "close filter store", "close http pool", "stop metrics server">>

\* "none": there is no loop (yet); "over": pollPromise has resolved.
Polls == {"none", "fetching", "paging", "routing", "sleeping", "over"}

ProcessTypeOK ==
  /\ PendingTypeOK
  /\ boot \in {"locks", "filter", "running", "failed"}
  /\ poll \in Polls
  /\ cursor \in Keys \cup {NoCursor}
  /\ page \in SUBSET Keys
  /\ more \in BOOLEAN
  /\ shuttingDown \in BOOLEAN
  /\ shutdown \in {"idle", "shutting-down", "done"}
  /\ hook \in 0..Len(Hooks)
  /\ waits \in BOOLEAN
  /\ hadError \in BOOLEAN
  /\ exit \in {0, 1, Running}
  /\ offered \in Seq(Keys)
  /\ backlog \in SUBSET Keys

ProcessInit ==
  /\ PendingInit
  /\ boot = "locks"
  /\ poll = "none"
  /\ cursor = NoCursor /\ page = {} /\ more = FALSE
  /\ shuttingDown = FALSE /\ shutdown = "idle" /\ hook = 0 /\ waits = FALSE
  /\ hadError = FALSE /\ exit = Running
  /\ offered = <<>> /\ backlog = {}

Alive == exit = Running

-----------------------------------------------------------------------------
(* start() *)

\* A new poll cycle; nothing is fetched when the queues are at the watermark.
PollOnce(high) ==
  /\ poll' = IF high THEN "sleeping" ELSE "fetching"
  /\ cursor' = NoCursor /\ page' = {} /\ more' = FALSE
  /\ offered' = <<>> /\ backlog' = stream_data

\* while (!shuttingDown), at the top of the loop.
LoopGoesOn(high) ==
  IF shuttingDown THEN poll' = "over" /\ UNCHANGED cycle ELSE PollOnce(high)

\* The lock manager is installed, or start() returns without a registry.
LocksInstalled(ok) ==
  /\ Alive
  /\ boot = "locks"
  /\ boot' = IF ok THEN "filter" ELSE "failed"
  /\ UNCHANGED <<pendingVars, poll, cycle, closing>>

\* The filter has started or failed to, which is only logged: the registry is made
\* and the loop begins, after a shutdown too.
FilterInstalled(high) ==
  /\ Alive
  /\ boot = "filter"
  /\ boot' = "running"
  /\ LoopGoesOn(high)
  /\ UNCHANGED <<pendingVars, closing>>

-----------------------------------------------------------------------------
(* The poll loop *)

\* pollOnce returns; the loop ends or sleeps.
CycleEnds == poll' = IF shuttingDown THEN "over" ELSE "sleeping"

\* GET /streams/pending is answered with page p, and with a nextCursor if it is full.
PageArrives(p) ==
  /\ Alive
  /\ poll = "fetching"
  /\ IsPage(p, BatchLimit, cursor)
  /\ page' = p
  /\ more' = (Cardinality(p) = BatchLimit)
  /\ IF more' THEN \E k \in p : IsLast(k, p) /\ cursor' = k ELSE UNCHANGED cursor
  /\ poll' = "paging"
  /\ UNCHANGED <<pendingVars, boot, closing, offered, backlog>>

\* GET /streams/pending fails: logged, and the cycle is over.
FetchFails ==
  /\ Alive
  /\ poll = "fetching"
  /\ CycleEnds
  /\ UNCHANGED <<pendingVars, boot, cycle, closing>>

\* Event k comes next in the page: dropped as malformed or filtered, or routed.
OfferEvent(k, routed) ==
  /\ Alive
  /\ poll = "paging"
  /\ \A l \in page \ {k} : Before(k, l)
  /\ page' = page \ {k}
  /\ offered' = Append(offered, k)
  /\ poll' = IF routed THEN "routing" ELSE "paging"
  /\ UNCHANGED <<pendingVars, boot, cursor, more, closing, backlog>>

\* route() settles; whatever its outcome, the loop goes on to the next event.
RouteSettles ==
  /\ Alive
  /\ poll = "routing"
  /\ poll' = "paging"
  /\ UNCHANGED <<pendingVars, boot, cycle, closing>>

\* Stop paging: no cursor, a short page, or the queues at the watermark.
StopsPaging(high) == ~ more \/ high

\* The page is worked off: another one is fetched, unless paging stops here.
PageDone(high) ==
  /\ Alive
  /\ poll = "paging"
  /\ page = {}
  /\ IF StopsPaging(high) \/ shuttingDown THEN CycleEnds ELSE poll' = "fetching"
  /\ UNCHANGED <<pendingVars, boot, cycle, closing>>

\* sleep() is over.
SleepOver(high) ==
  /\ Alive
  /\ poll = "sleeping"
  /\ LoopGoesOn(high)
  /\ UNCHANGED <<pendingVars, boot, closing>>

-----------------------------------------------------------------------------
(* The graceful shutdown *)

\* pollPromise as the drain hook finds it: resolved until start() has a loop.
PollPending == poll \notin {"none", "over"}

\* Mutant: the drain hook does not wait for the poll loop.
AwaitsNothing == FALSE

\* await pollPromise, in the drain hook.
AwaitsPoll == PollPending

\* requestShutdown: a signal, or an exception nobody caught.  The first request runs
\* the first hook, the others are ignored.
RequestShutdown ==
  /\ Alive
  /\ shutdown = "idle"
  /\ shutdown' = "shutting-down"
  /\ hook' = 1
  /\ shuttingDown' = TRUE
  /\ UNCHANGED <<pendingVars, boot, poll, cycle, waits, hadError, exit>>

\* Hook h + 1 follows hook h.
NextHook == /\ hook' = hook + 1
            /\ waits' = (hook' = 2 /\ AwaitsPoll)

\* pollPromise settles: the drain goes on to drainAll().
PollSettled ==
  /\ Alive
  /\ waits
  /\ poll = "over"
  /\ waits' = FALSE
  /\ UNCHANGED <<pendingVars, boot, poll, cycle, shuttingDown, shutdown, hook,
                 hadError, exit>>

\* Mutant: off by one.
HooksLeftInclusive == hook <= Len(Hooks)

HooksLeft == hook < Len(Hooks)

\* The running hook settles and the next one starts; after the last the process
\* exits with a code that tells whether one failed.
HookSettles(failed) ==
  /\ Alive
  /\ hook > 0 /\ ~ waits
  /\ failed => hook \in {2, 7}   \* the others catch and log what they meet
  /\ hadError' = (hadError \/ failed)
  /\ IF HooksLeft
     THEN NextHook /\ UNCHANGED <<shutdown, exit>>
     ELSE /\ hook' = 0
          /\ shutdown' = "done"
          /\ exit' = IF hadError' THEN 1 ELSE 0
          /\ UNCHANGED waits
  /\ UNCHANGED <<pendingVars, boot, poll, cycle, shuttingDown>>

\* Mutant: a hook that fails clears the timer.
DeadlineUntilFailure == shutdown = "shutting-down" /\ ~ hadError

\* The timer runs from the first request until the last hook has settled.
DeadlineArmed == shutdown = "shutting-down"

\* The deadline passes before the hooks are through.
Deadline ==
  /\ Alive
  /\ DeadlineArmed
  /\ shutdown' = "done"
  /\ exit' = 1
  /\ UNCHANGED <<pendingVars, boot, poll, cycle, shuttingDown, hook, waits, hadError>>

-----------------------------------------------------------------------------

Booting == \/ \E ok \in BOOLEAN : LocksInstalled(ok)
           \/ \E high \in BOOLEAN : FilterInstalled(high)

Polling == \/ \E p \in SUBSET After(cursor) : PageArrives(p)
           \/ FetchFails
           \/ \E k \in page, routed \in BOOLEAN : OfferEvent(k, routed)
           \/ RouteSettles
           \/ \E high \in BOOLEAN : PageDone(high) \/ SleepOver(high)

Closing == \/ RequestShutdown \/ PollSettled
           \/ \E failed \in BOOLEAN : HookSettles(failed)
           \/ Deadline

Ingesting == PendingNext /\ UNCHANGED <<boot, poll, cycle, closing>>

ProcessNext == Booting \/ Polling \/ Closing \/ Ingesting

ProcessSpec == ProcessInit /\ [][ProcessNext]_workerVars

\* The deadline is a timer of the process, and nothing cancels it before the last
\* hook has settled.  Hooks, fetches and routes may hang.
ProcessFairness == WF_workerVars(Deadline)

-----------------------------------------------------------------------------
(* Properties *)

\* A poll cycle hands on every row at most once and in the order of (timestamp, id),
\* although rows are inserted between its pages, out of order and with equal
\* timestamps.
PollCycleInOrder ==
  \A i, j \in 1..Len(offered) : i < j => Before(offered[i], offered[j])

\* The cycle has come to a page that was not full, and has handed all of it on.
Exhausted == poll = "paging" /\ page = {} /\ ~ more

\* A poll cycle that comes to the end of the table leaves out no row that was
\* there when it began.
PollCycleComplete ==
  Exhausted => \A k \in backlog : \E i \in 1..Len(offered) : offered[i] = k

\* Both: the pages of a poll cycle are the table, once, in order and without a gap.
PollCycleExact == PollCycleInOrder /\ PollCycleComplete

\* The drain of the sessions has begun, or what comes after it.
Draining == hook >= 2 /\ ~ waits

\* No poll cycle is under way once the drain of the sessions has begun, and none
\* begins after it: whenever the shutdown is requested, and however far start() is.
NothingRoutedAfterDrain == Draining => poll \in {"none", "over"}

\* The process is gone some time after the first request, whatever hangs.
ShutdownEnds == (shutdown = "shutting-down") ~> (shutdown = "done")
=============================================================================
