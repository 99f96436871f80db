--------------------------- MODULE SessionRegistry ---------------------------
(***************************************************************************)
(* A fleet of workers sharing the streams: the SessionRegistry of every    *)
(* worker (session-registry.ts) on top of the lock protocol of             *)
(* StreamLocks.  route() claims a stream before it spawns a session for    *)
(* it, concurrent route() calls share one acquire, a heartbeat renews the  *)
(* claim, a lost claim fails the session, and drainAll() stops the         *)
(* sessions and gives everything back.                                     *)
(*                                                                         *)
(* A session is reduced to what the others see of it: whether it is        *)
(* running or draining, and whether its pump is publishing an event (its   *)
(* inside is module StreamSession).  fail() does not interrupt the pump: a *)
(* pump outlives its session until the publish or its retries are over.    *)
(*                                                                         *)
(* Time is the database's clock.  Timers fire in the instant they are due, *)
(* and a statement is answered within MaxLag of being issued: MaxLag says  *)
(* how slow the network, the database and the event loop may be.           *)
(***************************************************************************)
EXTENDS Integers, Sequences, FiniteSets

CONSTANTS
  Workers,
  Streams,
  None,
  Callers,       \* concurrent route() calls per worker
  MaxSessions,   \* maxConcurrentSessions
  TTL,           \* lockManager.ttlMs
  HeartbeatMs,   \* heartbeatMs
  MaxSkew,       \* distance of a worker's clock from the database's
  MaxLag,        \* longest time between issuing a statement and its answer
  MaxMissed,     \* most consecutive renewals of a claim that may be rejected
  MaxTime,       \* bound: the clock stops here, and all timers are due
  MaxTokens,     \* bound: number of acquires
  MaxPending     \* bound: statements queued on one connection

ASSUME NoneAssumption == None \notin Workers /\ None \notin Streams
ASSUME TimeAssumption == TTL \in Nat \ {0} /\ MaxSkew \in Nat
\* The constructor refuses heartbeatMs >= ttlMs.
ASSUME HeartbeatAssumption == HeartbeatMs \in Nat \ {0} /\ HeartbeatMs < TTL
ASSUME LagAssumption == MaxLag \in Nat /\ MaxMissed \in Nat /\ MaxSessions \in Nat
ASSUME BoundAssumption == MaxTime \in Nat /\ MaxTokens \in Nat /\ MaxPending \in Nat

VARIABLES
  now, row, lastToken, conn, result, lost, granted,   \* as in StreamLocks
  sentAt,       \* sentAt[w][i]: when conn[w][i] was issued
  mode,         \* mode[w]: "up", in one of the phases of shutdown, or "down"
  sessions,     \* sessions[w][s]: state of the session of s, or "none"
  lockTokens,   \* lockTokens[w][s]: token of the claim on s, or 0
  heartbeats,   \* heartbeats[w][s]: the armed timer of s, or NoTimer
  inflight,     \* inflight[w]: streams with an entry in inflightAcquires
  calls,        \* calls[w][c]: what the route() call c is doing
  pumps,        \* pumps[w]: <<stream, token>> of the sessions publishing now
  stopping,     \* stopping[w]: <<stream, token>> of the sessions whose stop() waits
                \* for the pump
  missed        \* missed[w][s]: renewals rejected since the last answered one

lockVars == <<now, row, lastToken, conn, result, lost, granted>>
registry == <<mode, sessions, lockTokens, heartbeats, inflight, calls, pumps,
              stopping, missed>>
vars     == <<lockVars, sentAt, registry>>

NoTimer == [token |-> 0, due |-> 0]
Idle    == [pc |-> "idle", stream |-> None, token |-> 0]

\* The tokens a worker holds on to: those of its sessions, and those that an
\* acquire has returned to a route() call that has not resumed yet.
Held(w) ==
  {[stream |-> s, token |-> lockTokens[w][s]] :
      s \in {s \in Streams : lockTokens[w][s] # 0}}
  \cup
  {[stream |-> calls[w][c].stream, token |-> calls[w][c].token] :
      c \in {c \in Callers : calls[w][c].pc = "resume" /\ calls[w][c].token # 0}}

Locks == INSTANCE StreamLocks WITH claims <- [w \in Workers |-> Held(w)]

TypeOK ==
  /\ now \in Nat /\ lastToken \in Nat
  /\ row \in [Streams -> Locks!Rows]
  /\ conn \in [Workers -> Seq(Locks!Stmts)]
  /\ sentAt \in [Workers -> Seq(Nat)]
  /\ \A w \in Workers : Len(sentAt[w]) = Len(conn[w])
  /\ result \in [Workers -> {"none", "yes", "no"}]
  /\ lost \in SUBSET Nat /\ granted \in SUBSET Nat
  /\ mode \in [Workers -> {"up", "draining", "drained", "releasing", "closing", "down"}]
  /\ sessions \in [Workers -> [Streams -> {"none", "running", "draining"}]]
  /\ lockTokens \in [Workers -> [Streams -> Nat]]
  /\ heartbeats \in [Workers -> [Streams -> [token : Nat, due : Nat]]]
  /\ inflight \in [Workers -> SUBSET Streams]
  /\ calls \in [Workers -> [Callers -> [pc : {"idle", "waiting", "resume"},
                                        stream : Streams \cup {None}, token : Nat]]]
  /\ pumps \in [Workers -> SUBSET (Streams \X Nat)]
  /\ stopping \in [Workers -> SUBSET (Streams \X Nat)]
  /\ missed \in [Workers -> [Streams -> Nat]]

Init ==
  /\ now = 0
  /\ row = [s \in Streams |-> Locks!NoRow]
  /\ lastToken = 0
  /\ conn = [w \in Workers |-> <<>>]
  /\ sentAt = [w \in Workers |-> <<>>]
  /\ result = [w \in Workers |-> "none"]
  /\ lost = {} /\ granted = {}
  /\ mode = [w \in Workers |-> "up"]
  /\ sessions = [w \in Workers |-> [s \in Streams |-> "none"]]
  /\ lockTokens = [w \in Workers |-> [s \in Streams |-> 0]]
  /\ heartbeats = [w \in Workers |-> [s \in Streams |-> NoTimer]]
  /\ inflight = [w \in Workers |-> {}]
  /\ calls = [w \in Workers |-> [c \in Callers |-> Idle]]
  /\ pumps = [w \in Workers |-> {}]
  /\ stopping = [w \in Workers |-> {}]
  /\ missed = [w \in Workers |-> [s \in Streams |-> 0]]

-----------------------------------------------------------------------------
(* Statements *)

\* The continuations of a settled acquire run as microtasks, before any other
\* code of the worker.
Resuming(w) == \E c \in Callers : calls[w][c].pc = "resume"

\* drainAll() calls stop() on every session before anything else can run.
Stopping(w) == mode[w] = "draining" /\ \E s \in Streams : sessions[w][s] = "running"

Active(w) == mode[w] # "down" /\ ~ Resuming(w) /\ ~ Stopping(w)

\* The worker issues a statement / a sequence of statements.
Send(w, stmts) ==
  /\ Len(conn[w]) + Len(stmts) <= MaxPending
  /\ conn' = [conn EXCEPT ![w] = @ \o stmts]
  /\ sentAt' = [sentAt EXCEPT ![w] = @ \o [i \in 1..Len(stmts) |-> now]]

\* The first statement of w is answered; stmts are issued in reaction to it.
Receive(w, stmts) ==
  /\ conn' = [conn EXCEPT ![w] = Tail(@) \o stmts]
  /\ sentAt' = [sentAt EXCEPT ![w] = Tail(@) \o [i \in 1..Len(stmts) |-> now]]
  /\ result' = [result EXCEPT ![w] = "none"]

ReleaseStmt(s, t) == Locks!ReleaseStmt([stream |-> s, token |-> t])

ReleaseAllStmt == [op |-> "releaseAll", stream |-> None, token |-> 0, expires |-> 0]

\* The database executes the first statement of w.
Execute(w) ==
  /\ UNCHANGED <<sentAt, registry>>
  /\ \/ Locks!ExecAcquire(w)
     \/ Locks!ExecRenew(w)
     \/ Locks!ExecRelease(w)
     \/ Locks!ExecReleaseAll(w)

First(w) == Head(conn[w])

-----------------------------------------------------------------------------
(* route() *)

\* enqueue() into the session of s, reached with the claim t.
Publish(w, s, t) ==
  IF sessions[w][s] = "running" THEN pumps' = [pumps EXCEPT ![w] = @ \cup {<<s, t>>}]
                                ELSE UNCHANGED pumps

\* The stream has a session: enqueue, "enqueued" or "rejected".
RouteExisting(w, s) ==
  /\ mode[w] = "up" /\ Active(w)
  /\ sessions[w][s] # "none"
  /\ Publish(w, s, lockTokens[w][s])
  /\ UNCHANGED <<lockVars, sentAt, mode, sessions, lockTokens, heartbeats,
                 inflight, calls, stopping, missed>>

\* No session, and capacity left: acquireDeduplicated().  (At capacity route()
\* returns "capacity" and changes nothing.)
RouteAcquire(w, c, s) ==
  /\ mode[w] = "up" /\ Active(w)
  /\ calls[w][c] = Idle
  /\ sessions[w][s] = "none"
  /\ Cardinality({x \in Streams : sessions[w][x] # "none"}) < MaxSessions
  /\ calls' = [calls EXCEPT ![w][c] = [pc |-> "waiting", stream |-> s, token |-> 0]]
  /\ \/ /\ s \in inflight[w]
        /\ UNCHANGED <<inflight, lastToken, conn, sentAt>>
     \/ /\ s \notin inflight[w]
        /\ inflight' = [inflight EXCEPT ![w] = @ \cup {s}]
        /\ lastToken < MaxTokens
        /\ lastToken' = lastToken + 1
        /\ \E clock \in Locks!WorkerClock :
              Send(w, <<[op |-> "acquire", stream |-> s, token |-> lastToken + 1,
                         expires |-> clock + TTL]>>)
  /\ UNCHANGED <<now, row, result, lost, granted, mode, sessions, lockTokens,
                 heartbeats, pumps, stopping, missed>>

\* The acquire settles: its entry leaves inflightAcquires, and every route()
\* that awaits it is going to resume with the token, or null.
AcquireSettles(w) ==
  /\ Active(w)
  /\ \E r \in {"yes", "no"} : Locks!Answered(w, "acquire", r)
  /\ inflight' = [inflight EXCEPT ![w] = @ \ {First(w).stream}]
  /\ calls' = [calls EXCEPT ![w] = [c \in Callers |->
       IF @[c].pc = "waiting" /\ @[c].stream = First(w).stream
       THEN [pc |-> "resume", stream |-> First(w).stream,
             token |-> IF result[w] = "yes" THEN First(w).token ELSE 0]
       ELSE @[c]]]
  /\ Receive(w, <<>>)
  /\ UNCHANGED <<now, row, lastToken, lost, granted, mode, sessions, lockTokens,
                 heartbeats, pumps, stopping, missed>>

\* The acquire rejects: route() rethrows to its caller.
AcquireRejects(w) ==
  /\ Active(w)
  /\ conn[w] # <<>> /\ First(w).op = "acquire"
  /\ inflight' = [inflight EXCEPT ![w] = @ \ {First(w).stream}]
  /\ calls' = [calls EXCEPT ![w] = [c \in Callers |->
       IF @[c].pc = "waiting" /\ @[c].stream = First(w).stream THEN Idle ELSE @[c]]]
  /\ Receive(w, <<>>)
  /\ UNCHANGED <<now, row, lastToken, lost, granted, mode, sessions, lockTokens,
                 heartbeats, pumps, stopping, missed>>

\* route() resumes with null: "locked".
RouteLocked(w, c) ==
  /\ mode[w] # "down"
  /\ calls[w][c].pc = "resume" /\ calls[w][c].token = 0
  /\ calls' = [calls EXCEPT ![w][c] = Idle]
  /\ UNCHANGED <<lockVars, sentAt, mode, sessions, lockTokens, heartbeats,
                 inflight, pumps, stopping, missed>>

\* route() resumes and finds that another call has spawned the session:
\* a token of its own is released, the event goes to that session.
RouteRaced(w, c) ==
  LET s == calls[w][c].stream
      t == calls[w][c].token
  IN
  /\ mode[w] # "down"
  /\ calls[w][c].pc = "resume" /\ t # 0
  /\ sessions[w][s] # "none"
  /\ Send(w, IF lockTokens[w][s] # t THEN <<ReleaseStmt(s, t)>> ELSE <<>>)
  /\ Publish(w, s, lockTokens[w][s])
  /\ calls' = [calls EXCEPT ![w][c] = Idle]
  /\ UNCHANGED <<now, row, lastToken, result, lost, granted, mode, sessions,
                 lockTokens, heartbeats, inflight, stopping, missed>>

\* Mutant: the spawned session is not started.
SpawnedIdle == "idle"

\* The state of a session after spawn() and start().
Spawned == "running"

\* Mutant: the timer is armed with the TTL instead of the heartbeat interval.
NextBeatTTL == now + TTL

\* When a timer armed now is due.
NextBeat == now + HeartbeatMs

\* route() resumes as the owner: heartbeat, session, first event.
RouteSpawns(w, c) ==
  LET s == calls[w][c].stream
      t == calls[w][c].token
  IN
  /\ mode[w] # "down"
  /\ calls[w][c].pc = "resume" /\ t # 0
  /\ sessions[w][s] = "none"
  /\ lockTokens' = [lockTokens EXCEPT ![w][s] = t]
  /\ heartbeats' = [heartbeats EXCEPT ![w][s] = [token |-> t, due |-> NextBeat]]
  /\ sessions' = [sessions EXCEPT ![w][s] = Spawned]
  /\ missed' = [missed EXCEPT ![w][s] = 0]
  /\ pumps' = [pumps EXCEPT ![w] = @ \cup {<<s, t>>}]
  /\ calls' = [calls EXCEPT ![w][c] = Idle]
  /\ UNCHANGED <<lockVars, sentAt, mode, inflight, stopping>>

-----------------------------------------------------------------------------
(* The end of a session, and the heartbeat *)

\* Mutant: the listener forgets to delete the token.
EvictKeepsToken(w, s) ==
  /\ sessions' = [sessions EXCEPT ![w][s] = "none"]
  /\ heartbeats' = [heartbeats EXCEPT ![w][s] = NoTimer]
  /\ missed' = [missed EXCEPT ![w][s] = 0]
  /\ UNCHANGED lockTokens

\* The state listener on "stopped" and "errored": the session, its token and
\* its timer leave the maps.  (The release is issued by the caller.)
Evict(w, s) ==
  /\ sessions' = [sessions EXCEPT ![w][s] = "none"]
  /\ lockTokens' = [lockTokens EXCEPT ![w][s] = 0]
  /\ heartbeats' = [heartbeats EXCEPT ![w][s] = NoTimer]
  /\ missed' = [missed EXCEPT ![w][s] = 0]

Due(timer) == timer # NoTimer /\ (timer.due <= now \/ now = MaxTime)

\* tick(): the timer fires and, if its token is still the stream's, issues a
\* renewal.
HeartbeatFires(w, s) ==
  /\ Active(w)
  /\ Due(heartbeats[w][s])
  /\ heartbeats' = [heartbeats EXCEPT ![w][s] = NoTimer]
  /\ IF lockTokens[w][s] = heartbeats[w][s].token
     THEN \E clock \in Locks!WorkerClock :
             Send(w, <<[op |-> "renew", stream |-> s, token |-> lockTokens[w][s],
                        expires |-> clock + TTL]>>)
     ELSE UNCHANGED <<conn, sentAt>>
  /\ UNCHANGED <<now, row, lastToken, result, lost, granted, mode, sessions,
                 lockTokens, inflight, calls, pumps, stopping, missed>>

\* scheduleNext(): re-arm, unless the token has been released or replaced.
ScheduleNext(w, s, t) ==
  heartbeats' = IF lockTokens[w][s] = t
                THEN [heartbeats EXCEPT ![w][s] = [token |-> t, due |-> NextBeat]]
                ELSE heartbeats

\* renew() returns true.
RenewReturnsTrue(w) ==
  /\ Active(w)
  /\ Locks!Answered(w, "renew", "yes")
  /\ ScheduleNext(w, First(w).stream, First(w).token)
  /\ missed' = [missed EXCEPT ![w][First(w).stream] = 0]
  /\ Receive(w, <<>>)
  /\ UNCHANGED <<now, row, lastToken, lost, granted, mode, sessions, lockTokens,
                 inflight, calls, pumps, stopping>>

\* Mutant: the loss is noticed, but the session is left alone.
FailsNothing(w, s) == FALSE

\* There is a session to fail: it is running or draining.
FailsSession(w, s) == sessions[w][s] # "none"

\* renew() returns false: the session of the stream, whichever it is by now,
\* fails, and its listener releases its token.  Its pump goes on.
RenewReturnsFalse(w) ==
  LET s == First(w).stream IN
  /\ Active(w)
  /\ Locks!Answered(w, "renew", "no")
  /\ lost' = lost \cup {First(w).token}
  /\ \/ /\ FailsSession(w, s)
        /\ Receive(w, <<ReleaseStmt(s, lockTokens[w][s])>>)
        /\ Evict(w, s)
     \/ /\ ~ FailsSession(w, s)
        /\ Receive(w, <<>>)
        /\ UNCHANGED <<sessions, lockTokens, heartbeats, missed>>
  /\ UNCHANGED <<now, row, lastToken, granted, mode, inflight, calls, pumps, stopping>>

\* Mutant: the catch branch does not re-arm the timer.
NoRetry(w) == UNCHANGED heartbeats

\* The catch branch of tick().
RetryLater(w) == ScheduleNext(w, First(w).stream, First(w).token)

\* renew() rejects: "transient backend blip", try again on the next tick.
RenewRejects(w) ==
  /\ Active(w)
  /\ conn[w] # <<>> /\ First(w).op = "renew"
  /\ missed[w][First(w).stream] < MaxMissed
  /\ missed' = [missed EXCEPT ![w][First(w).stream] = @ + 1]
  /\ RetryLater(w)
  /\ Receive(w, <<>>)
  /\ UNCHANGED <<now, row, lastToken, lost, granted, mode, sessions, lockTokens,
                 inflight, calls, pumps, stopping>>

\* release() or releaseAll() returns or rejects: it is only logged and counted.
ReleaseSettles(w) ==
  /\ Active(w)
  /\ conn[w] # <<>> /\ First(w).op \in {"release", "releaseAll"}
  /\ Receive(w, <<>>)
  /\ UNCHANGED <<now, row, lastToken, lost, granted, registry>>

\* The pump of a session runs out of events, or the last retries of a session
\* that has failed are over.
PumpSettles(w, p) ==
  /\ Active(w)
  /\ p \in pumps[w]
  /\ pumps' = [pumps EXCEPT ![w] = @ \ {p}]
  /\ UNCHANGED <<lockVars, sentAt, mode, sessions, lockTokens, heartbeats,
                 inflight, calls, stopping, missed>>

-----------------------------------------------------------------------------
(* drainAll(), shutdown and crash *)

\* The drain hook: the poll loop has ended (no route() is under way), every
\* session is going to be stopped.
DrainBegins(w) ==
  /\ mode[w] = "up"
  /\ \A c \in Callers : calls[w][c] = Idle
  /\ mode' = [mode EXCEPT ![w] = "draining"]
  /\ UNCHANGED <<lockVars, sentAt, sessions, lockTokens, heartbeats, inflight,
                 calls, pumps, stopping, missed>>

\* Mutant: stop() does not wait for the pump.
NeverBusy(w, s) == FALSE

\* The pump of the session of s is processing.
Busy(w, s) == <<s, lockTokens[w][s]>> \in pumps[w]

\* stop() of a session whose pump is busy: it drains.
StopWaits(w, s) ==
  /\ mode[w] = "draining"
  /\ sessions[w][s] = "running" /\ Busy(w, s)
  /\ sessions' = [sessions EXCEPT ![w][s] = "draining"]
  /\ stopping' = [stopping EXCEPT ![w] = @ \cup {<<s, lockTokens[w][s]>>}]
  /\ UNCHANGED <<lockVars, sentAt, mode, lockTokens, heartbeats, inflight,
                 calls, pumps, missed>>

\* stop() finds the pump idle, at once or after waiting: "stopped", and the
\* listener releases the lock.
StopEnds(w, s) ==
  /\ mode[w] = "draining"
  /\ sessions[w][s] # "none" /\ ~ Busy(w, s)
  /\ sessions[w][s] = "draining" => Active(w)
  /\ Evict(w, s)
  /\ Send(w, <<ReleaseStmt(s, lockTokens[w][s])>>)
  /\ UNCHANGED <<now, row, lastToken, result, lost, granted, mode, inflight,
                 calls, pumps, stopping>>

\* Every stop() has resolved, also that of a session that failed meanwhile and
\* whose pump went on: the maps are cleared, releaseAll() is issued.
DrainReleasesAll(w) ==
  /\ mode[w] = "draining"
  /\ \A s \in Streams : sessions[w][s] = "none"
  /\ stopping[w] \cap pumps[w] = {}
  /\ mode' = [mode EXCEPT ![w] = "drained"]
  /\ stopping' = [stopping EXCEPT ![w] = {}]
  /\ Send(w, <<ReleaseAllStmt>>)
  /\ UNCHANGED <<now, row, lastToken, result, lost, granted, sessions, lockTokens,
                 heartbeats, inflight, calls, pumps, missed>>

NextPhase == [drained |-> "releasing", releasing |-> "closing"]

\* The hooks "release locks" and "close lock manager" issue releaseAll() again,
\* each when the one before it has settled.
ReleasesAgain(w) ==
  /\ mode[w] \in DOMAIN NextPhase
  /\ conn[w] = <<>>
  /\ mode' = [mode EXCEPT ![w] = NextPhase[@]]
  /\ Send(w, <<ReleaseAllStmt>>)
  /\ UNCHANGED <<now, row, lastToken, result, lost, granted, sessions, lockTokens,
                 heartbeats, inflight, calls, pumps, stopping, missed>>

\* The process is gone, and with it everything it kept in memory.
Gone(w) ==
  /\ mode' = [mode EXCEPT ![w] = "down"]
  /\ sessions' = [sessions EXCEPT ![w] = [s \in Streams |-> "none"]]
  /\ lockTokens' = [lockTokens EXCEPT ![w] = [s \in Streams |-> 0]]
  /\ heartbeats' = [heartbeats EXCEPT ![w] = [s \in Streams |-> NoTimer]]
  /\ inflight' = [inflight EXCEPT ![w] = {}]
  /\ calls' = [calls EXCEPT ![w] = [c \in Callers |-> Idle]]
  /\ pumps' = [pumps EXCEPT ![w] = {}]
  /\ stopping' = [stopping EXCEPT ![w] = {}]
  /\ missed' = [missed EXCEPT ![w] = [s \in Streams |-> 0]]
  /\ conn' = [conn EXCEPT ![w] = <<>>]
  /\ sentAt' = [sentAt EXCEPT ![w] = <<>>]
  /\ result' = [result EXCEPT ![w] = "none"]
  /\ UNCHANGED <<now, row, lastToken, lost, granted>>

\* The last releaseAll() has settled (a rejection is logged): the process exits.
Exit(w) ==
  /\ mode[w] = "closing"
  /\ conn[w] = <<>>
  /\ Gone(w)

\* A crash, or the shutdown timer's exit(1).
Crash(w) == mode[w] # "down" /\ Gone(w)

\* The replacement starts under the same id.
Restart(w) ==
  /\ mode[w] = "down"
  /\ mode' = [mode EXCEPT ![w] = "up"]
  /\ UNCHANGED <<lockVars, sentAt, sessions, lockTokens, heartbeats, inflight,
                 calls, pumps, stopping, missed>>

\* Time passes, but not past an answer or a timer that is due.
Timely(w) ==
  /\ ~ Resuming(w) /\ ~ Stopping(w)
  /\ \A i \in 1..Len(sentAt[w]) : now < sentAt[w][i] + MaxLag
  /\ \A s \in Streams : ~ Due(heartbeats[w][s])

Tick ==
  /\ now < MaxTime
  /\ \A w \in Workers : Timely(w)
  /\ now' = now + 1
  /\ UNCHANGED <<row, lastToken, conn, result, lost, granted, sentAt, registry>>

\* What a worker does by itself once it is due.
Progress(w) ==
  \/ Execute(w)
  \/ AcquireSettles(w)
  \/ \E c \in Callers : RouteLocked(w, c) \/ RouteRaced(w, c) \/ RouteSpawns(w, c)
  \/ \E s \in Streams : HeartbeatFires(w, s)
  \/ RenewReturnsTrue(w)
  \/ RenewReturnsFalse(w)
  \/ ReleaseSettles(w)
  \/ \E s \in Streams : StopWaits(w, s) \/ StopEnds(w, s)
  \/ DrainReleasesAll(w)
  \/ ReleasesAgain(w)
  \/ Exit(w)

Next ==
  \/ Tick
  \/ \E w \in Workers :
        \/ Progress(w)
        \/ \E s \in Streams : RouteExisting(w, s)
        \/ \E c \in Callers, s \in Streams : RouteAcquire(w, c, s)
        \/ AcquireRejects(w)
        \/ RenewRejects(w)
        \/ \E p \in pumps[w] : PumpSettles(w, p)
        \/ DrainBegins(w)
        \/ Crash(w)
        \/ Restart(w)

\* Time goes on, and an answer or a timer that is due is not put off for ever.
Fairness == WF_vars(Tick) /\ \A w \in Workers : WF_vars(Progress(w))

Spec == Init /\ [][Next]_vars /\ Fairness

-----------------------------------------------------------------------------
(* Properties *)

\* Worker w holds stream s: the row is w's, by this very claim, and unexpired.
Owns(w, s, t) ==
  row[s].owner = w /\ row[s].token = t /\ row[s].expires > now

\* The TTL outlasts MaxMissed + 1 heartbeats with slow answers, one more answer
\* and the clock error: with it a renewal in time is possible.
TTLSuffices == (MaxMissed + 1) * (HeartbeatMs + MaxLag) + MaxLag + MaxSkew < TTL

\* "An unowned session can never process events": whatever is published for a
\* stream is published by the worker that holds the stream's unexpired row.
OnlyOwnerPublishes ==
  \A w \in Workers : \A p \in pumps[w] : Owns(w, p[1], p[2])

\* The heartbeat keeps the lock alive for as long as the session lives, across
\* MaxMissed missed renewals in a row; so no stream has a session in two workers.
SessionKeepsLock ==
  \A w \in Workers, s \in Streams :
     sessions[w][s] # "none" => Owns(w, s, lockTokens[w][s])

\* A session never outlives its heartbeat: either a timer is armed for its
\* token, or a renewal of that token is on the way.
HeartbeatNeverStops ==
  \A w \in Workers, s \in Streams : sessions[w][s] # "none" =>
     \/ heartbeats[w][s].token = lockTokens[w][s] /\ lockTokens[w][s] # 0
     \/ \E i \in 1..Len(conn[w]) :
          conn[w][i].op = "renew" /\ conn[w][i].stream = s
          /\ conn[w][i].token = lockTokens[w][s]

\* A session whose claim is gone is failed: the heartbeat finds out.
LossDetected ==
  \A w \in Workers, s \in Streams :
     (sessions[w][s] # "none" /\ ~ Owns(w, s, lockTokens[w][s]))
        ~> (sessions[w][s] = "none" \/ Owns(w, s, lockTokens[w][s]))

\* SessionRegistryOptions: "Hard cap on simultaneously-active sessions".
HardCap ==
  \A w \in Workers :
     Cardinality({s \in Streams : sessions[w][s] # "none"}) <= MaxSessions

\* The registries use the lock as StreamLocks lets them.
LockProtocol == Locks!Spec
=============================================================================
