----------------------------- MODULE StreamLocks -----------------------------
(***************************************************************************)
(* The distributed stream lock of the processing workers: the table        *)
(* stream_locks, and the PostgresLockManager of every worker that reads    *)
(* and writes it (leader-election.ts).                                     *)
(*                                                                         *)
(* A call of acquire / renew / release / releaseAll is three steps: the    *)
(* worker builds the statement (the new token and the expiry come from the *)
(* WORKER's clock at that moment), the database executes it atomically     *)
(* (NOW() is the DATABASE's clock at that moment), and the worker resumes  *)
(* with the result.  Each worker has one connection (one PgClient), whose  *)
(* statements are executed in the order they were issued, one at a time.   *)
(* A statement can be rejected with or without having been executed, and a *)
(* worker can crash between any two steps; its replacement may run under   *)
(* the same id (POD_NAME), so a crash only forgets the worker's own state. *)
(***************************************************************************)
EXTENDS Integers, Sequences

CONSTANTS
  Workers,     \* worker ids
  Streams,     \* stream ids
  None,        \* "no worker", and the stream of a releaseAll statement
  TTL,         \* ttlMs
  MaxSkew,     \* the largest distance of a worker's clock from the database's
  MaxTime,     \* bound: the clock stops here
  MaxTokens,   \* bound: number of acquire calls
  MaxPending   \* bound: statements queued on one connection

ASSUME NoneAssumption == None \notin Workers /\ None \notin Streams
ASSUME TimeAssumption == TTL \in Nat \ {0} /\ MaxSkew \in Nat
ASSUME BoundAssumption == MaxTime \in Nat /\ MaxTokens \in Nat /\ MaxPending \in Nat

VARIABLES
  now,         \* the database's clock
  row,         \* row[s]: the row of stream_locks with key s, or NoRow
  lastToken,   \* randomUUID: tokens are numbered in the order they are drawn
  conn,        \* conn[w]: statements issued by w and not yet answered
  result,      \* result[w]: outcome of the first of them, once executed
  claims,      \* claims[w]: the LockTokens w holds on to
  lost,        \* history: tokens some renew() reported as lost
  granted      \* history: tokens that were written into the table

vars == <<now, row, lastToken, conn, result, claims, lost, granted>>

NoRow == [owner |-> None, token |-> 0, expires |-> 0]

Rows  == [owner : Workers \cup {None}, token : Nat, expires : Int]
Ops   == {"acquire", "renew", "release", "releaseAll"}
Stmts == [op : Ops, stream : Streams \cup {None}, token : Nat, expires : Int]
LockTokens == [stream : Streams, token : Nat]

TypeOK ==
  /\ now \in Nat
  /\ row \in [Streams -> Rows]
  /\ lastToken \in Nat
  /\ conn \in [Workers -> Seq(Stmts)]
  /\ result \in [Workers -> {"none", "yes", "no"}]
  /\ claims \in [Workers -> SUBSET LockTokens]
  /\ lost \in SUBSET Nat
  /\ granted \in SUBSET Nat

Init ==
  /\ now = 0
  /\ row = [s \in Streams |-> NoRow]
  /\ lastToken = 0
  /\ conn = [w \in Workers |-> <<>>]
  /\ result = [w \in Workers |-> "none"]
  /\ claims = [w \in Workers |-> {}]
  /\ lost = {}
  /\ granted = {}

-----------------------------------------------------------------------------
(* Issuing statements *)

\* Date.now() on a worker.
WorkerClock == (now - MaxSkew) .. (now + MaxSkew)

\* Mutant: the token is left out.
ReleaseStmtNoToken(c) ==
  [op |-> "release", stream |-> c.stream, token |-> None, expires |-> 0]

ReleaseStmt(c) ==
  [op |-> "release", stream |-> c.stream, token |-> c.token, expires |-> 0]

Issue(w, stmt) ==
  /\ Len(conn[w]) < MaxPending
  /\ conn' = [conn EXCEPT ![w] = Append(conn[w], stmt)]

\* Mutant: a re-entrant acquire presents the token the row already has.
SameToken(w, s) == IF row[s].owner = w THEN row[s].token ELSE lastToken + 1

\* randomUUID()
FreshToken(w, s) == lastToken + 1

\* acquire(streamId), up to the query.
CallAcquire(w, s) ==
  /\ lastToken < MaxTokens
  /\ lastToken' = lastToken + 1
  /\ \E clock \in WorkerClock :
        Issue(w, [op |-> "acquire", stream |-> s, token |-> FreshToken(w, s),
                  expires |-> clock + TTL])
  /\ UNCHANGED <<now, row, result, claims, lost, granted>>

\* renew(streamId, token), up to the query.
CallRenew(w, c) ==
  /\ c \in claims[w]
  /\ \E clock \in WorkerClock :
        Issue(w, [op |-> "renew", stream |-> c.stream, token |-> c.token,
                  expires |-> clock + TTL])
  /\ UNCHANGED <<now, row, lastToken, result, claims, lost, granted>>

\* release(streamId, token), up to the query: the caller has already dropped
\* the token (the registry's state listener).
CallRelease(w, c) ==
  /\ c \in claims[w]
  /\ Issue(w, ReleaseStmt(c))
  /\ claims' = [claims EXCEPT ![w] = @ \ {c}]
  /\ UNCHANGED <<now, row, lastToken, result, lost, granted>>

\* releaseAll(), up to the query: drainAll has cleared lockTokens, and the
\* worker has waited for the poll loop, so no acquire is on its way.
CallReleaseAll(w) ==
  /\ \A i \in 1..Len(conn[w]) : conn[w][i].op # "acquire"
  /\ Issue(w, [op |-> "releaseAll", stream |-> None, token |-> 0, expires |-> 0])
  /\ claims' = [claims EXCEPT ![w] = {}]
  /\ UNCHANGED <<now, row, lastToken, result, lost, granted>>

-----------------------------------------------------------------------------
(* The database executes the first statement of a connection *)

Executing(w, op) ==
  /\ conn[w] # <<>>
  /\ result[w] = "none"
  /\ Head(conn[w]).op = op

Answer(w, r) == result' = [result EXCEPT ![w] = r]

Expired(s) == row[s].expires <= now

\* Mutant: the WHERE clause compares with a stale NOW(), one tick too far.
ClaimableEarly(w, s) ==
  row[s].owner = None \/ row[s].expires <= now + 1 \/ row[s].owner = w

\* INSERT ... ON CONFLICT DO UPDATE ... WHERE expires_at <= NOW() OR same owner.
Claimable(w, s) == row[s].owner = None \/ Expired(s) \/ row[s].owner = w

ExecAcquire(w) ==
  /\ Executing(w, "acquire")
  /\ LET q == Head(conn[w]) IN
     \/ /\ Claimable(w, q.stream)
        /\ row' = [row EXCEPT ![q.stream] =
                     [owner |-> w, token |-> q.token, expires |-> q.expires]]
        /\ granted' = granted \cup {q.token}
        /\ Answer(w, "yes")
     \/ /\ ~ Claimable(w, q.stream)
        /\ Answer(w, "no")
        /\ UNCHANGED <<row, granted>>
  /\ UNCHANGED <<now, lastToken, conn, claims, lost>>

\* owner_id = $3 AND owner_token = $4: the row still is this very claim.
Current(w, q) == row[q.stream].owner = w /\ row[q.stream].token = q.token

Renewable(w, q) == Current(w, q) /\ ~ Expired(q.stream)

\* Mutant: the renewal adds the TTL to the row's own expiry.
RenewedLonger(q) == row[q.stream].expires + TTL

Renewed(q) == q.expires

ExecRenew(w) ==
  /\ Executing(w, "renew")
  /\ LET q == Head(conn[w]) IN
     \/ /\ Renewable(w, q)
        /\ row' = [row EXCEPT ![q.stream].expires = Renewed(q)]
        /\ Answer(w, "yes")
     \/ /\ ~ Renewable(w, q)
        /\ Answer(w, "no")
        /\ UNCHANGED row
  /\ UNCHANGED <<now, lastToken, conn, claims, lost, granted>>

\* Mutant: the DELETE compares the owner but not the token.
ReleasableByOwner(w, q) == row[q.stream].owner = w

Releasable(w, q) == Current(w, q)

ExecRelease(w) ==
  /\ Executing(w, "release")
  /\ LET q == Head(conn[w]) IN
     \/ /\ Releasable(w, q)
        /\ row' = [row EXCEPT ![q.stream] = NoRow]
        /\ Answer(w, "yes")
     \/ /\ ~ Releasable(w, q)
        /\ Answer(w, "no")
        /\ UNCHANGED row
  /\ UNCHANGED <<now, lastToken, conn, claims, lost, granted>>

ExecReleaseAll(w) ==
  /\ Executing(w, "releaseAll")
  /\ row' = [s \in Streams |-> IF row[s].owner = w THEN NoRow ELSE row[s]]
  /\ Answer(w, "yes")
  /\ UNCHANGED <<now, lastToken, conn, claims, lost, granted>>

-----------------------------------------------------------------------------
(* The worker resumes with the outcome *)

Answered(w, op, r) ==
  /\ conn[w] # <<>>
  /\ Head(conn[w]).op = op
  /\ result[w] = r

HeadClaim(w) == [stream |-> Head(conn[w]).stream, token |-> Head(conn[w]).token]

\* The first statement of w is answered; stmts are issued in reaction to it.
Resume(w, stmts) ==
  /\ conn' = [conn EXCEPT ![w] = Tail(conn[w]) \o stmts]
  /\ result' = [result EXCEPT ![w] = "none"]

\* acquire() returns a LockToken.
AcquireReturns(w) ==
  /\ Answered(w, "acquire", "yes")
  /\ claims' = [claims EXCEPT ![w] = @ \cup {HeadClaim(w)}]
  /\ Resume(w, <<>>)
  /\ UNCHANGED <<now, row, lastToken, lost, granted>>

\* renew() returns false: "ownership lost".  If the caller still holds the
\* token it drops it, and its session's state listener releases it.
RenewReturnsFalse(w) ==
  /\ Answered(w, "renew", "no")
  /\ claims' = [claims EXCEPT ![w] = @ \ {HeadClaim(w)}]
  /\ lost' = lost \cup {HeadClaim(w).token}
  /\ Resume(w, IF HeadClaim(w) \in claims[w]
                 THEN <<ReleaseStmt(HeadClaim(w))>> ELSE <<>>)
  /\ UNCHANGED <<now, row, lastToken, granted>>

\* acquire() returns null, renew() returns true, release() and releaseAll()
\* return: nothing changes for the caller.
OthersReturn(w) ==
  /\ \/ Answered(w, "acquire", "no")
     \/ Answered(w, "renew", "yes")
     \/ \E op \in {"release", "releaseAll"}, r \in {"yes", "no"} : Answered(w, op, r)
  /\ Resume(w, <<>>)
  /\ UNCHANGED <<now, row, lastToken, claims, lost, granted>>

\* The query rejects, executed or not: acquire throws, a heartbeat keeps the
\* token and tries again, a failed release is only logged.
Reject(w) ==
  /\ conn[w] # <<>>
  /\ Resume(w, <<>>)
  /\ UNCHANGED <<now, row, lastToken, claims, lost, granted>>

\* The process dies; what the database has not executed yet is gone.
Crash(w) ==
  /\ conn[w] # <<>> \/ claims[w] # {}
  /\ conn' = [conn EXCEPT ![w] = <<>>]
  /\ result' = [result EXCEPT ![w] = "none"]
  /\ claims' = [claims EXCEPT ![w] = {}]
  /\ UNCHANGED <<now, row, lastToken, lost, granted>>

Tick ==
  /\ now < MaxTime
  /\ now' = now + 1
  /\ UNCHANGED <<row, lastToken, conn, result, claims, lost, granted>>

Next ==
  \/ Tick
  \/ \E w \in Workers :
        \/ \E s \in Streams : CallAcquire(w, s)
        \/ \E c \in claims[w] : CallRenew(w, c) \/ CallRelease(w, c)
        \/ CallReleaseAll(w)
        \/ ExecAcquire(w)
        \/ ExecRenew(w)
        \/ ExecRelease(w)
        \/ ExecReleaseAll(w)
        \/ AcquireReturns(w)
        \/ RenewReturnsFalse(w)
        \/ OthersReturn(w)
        \/ Reject(w)
        \/ Crash(w)

Spec == Init /\ [][Next]_vars

-----------------------------------------------------------------------------
(* Properties *)

\* A lease never reaches further into the future than one TTL and one clock
\* error, whatever was delayed, retried or re-claimed on the way: a stream
\* whose owner has crashed is claimable again after that time.
LeaseBounded ==
  \A s \in Streams :
     row[s].owner # None => row[s].expires <= now + TTL + MaxSkew

\* renew() = false is final (LockManager.renew: "ownership lost, drop the
\* session"): a token reported as lost never holds a live row again, although
\* the row may still carry it and later statements with it may be on the way.
LostStaysLost ==
  \A s \in Streams :
     row[s].owner # None /\ row[s].token \in lost => Expired(s)

\* A worker that holds on to the claim by which it owns an unexpired row keeps
\* the row: no statement of another worker, and no delayed release of an
\* earlier claim of its own, deletes it or hands it over.
LiveClaimKept ==
  [][ \A w \in Workers : \A c \in claims[w] \cap claims'[w] :
        (Current(w, c) /\ ~ Expired(c.stream)) => row'[c.stream].owner = w ]_vars

\* The lock table implements the abstract ownership of streams: the holder of
\* a stream is the owner and the token of its row while the row is unexpired.
Holder(s) ==
  IF row[s].owner # None /\ ~ Expired(s) THEN <<row[s].owner, row[s].token>>
                                        ELSE <<None, 0>>

Own == INSTANCE StreamOwnership
         WITH Claims <- 1..MaxTokens,
              holder <- [s \in Streams |-> Holder(s)],
              used   <- granted

Ownership == Own!Spec
=============================================================================
