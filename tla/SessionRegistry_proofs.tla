------------------------ MODULE SessionRegistry_proofs ------------------------
(***************************************************************************)
(* Proofs about SessionRegistry for any number of workers, streams and     *)
(* concurrent route() calls, any intervals and any delays: the heartbeat   *)
(* of a session never stops, and the registries use the lock only as       *)
(* StreamLocks lets them.                                                  *)
(*                                                                         *)
(* Workers meet only in the database, so the invariant is one formula per  *)
(* worker, and a step of one worker leaves those of the others alone.      *)
(***************************************************************************)
EXTENDS SessionRegistry, SequenceTheorems, TLAPS

Resumes(w, c) == calls[w][c].pc = "resume"

\* The i-th statement of w is of this kind and about this stream.
IsStmt(w, i, op, s) == conn[w][i].op = op /\ conn[w][i].stream = s

-----------------------------------------------------------------------------
(* The inductive invariant *)

\* A session and the token of its claim come and go together.
SessionsLocked(w) ==
  \A s \in Streams : sessions[w][s] = "none" <=> lockTokens[w][s] = 0

\* An armed timer is that of the present claim.
TimersCurrent(w) ==
  \A s \in Streams : heartbeats[w][s] # NoTimer =>
     heartbeats[w][s].token = lockTokens[w][s] /\ lockTokens[w][s] # 0

\* A session has a timer, or a renewal of its claim on the way.
Beating(w) ==
  \A s \in Streams : sessions[w][s] # "none" =>
     \/ heartbeats[w][s].token = lockTokens[w][s]
     \/ \E i \in 1..Len(conn[w]) :
           IsStmt(w, i, "renew", s) /\ conn[w][i].token = lockTokens[w][s]

\* What is on a connection is about a stream and a claim, except releaseAll().
StatementsKnown(w) ==
  \A i \in 1..Len(conn[w]) : conn[w][i].op # "releaseAll" =>
     conn[w][i].stream \in Streams /\ conn[w][i].token # 0

CallsKnown(w) ==
  \A c \in Callers : calls[w][c].pc # "idle" => calls[w][c].stream \in Streams

\* An acquire is the only one of its stream, which has no session yet; some
\* route() waits for it, and none resumes from an earlier one.
AcquiresAwaited(w) ==
  \A i \in 1..Len(conn[w]), s \in Streams : IsStmt(w, i, "acquire", s) =>
     /\ s \in inflight[w]
     /\ sessions[w][s] = "none"
     /\ \E c \in Callers : calls[w][c].pc = "waiting" /\ calls[w][c].stream = s
     /\ \A c \in Callers : Resumes(w, c) => calls[w][c].stream # s
     /\ \A j \in 1..Len(conn[w]) : IsStmt(w, j, "acquire", s) => j = i

\* A renewal is of the present claim on its stream; or the stream is given up,
\* and the renewal will be answered before any later acquire of the stream.
RenewsCurrent(w) ==
  \A i \in 1..Len(conn[w]), s \in Streams : IsStmt(w, i, "renew", s) =>
     \/ conn[w][i].token = lockTokens[w][s]
     \/ /\ lockTokens[w][s] = 0
        /\ \A c \in Callers : Resumes(w, c) /\ calls[w][c].token # 0
                                 => calls[w][c].stream # s
        /\ \A j \in 1..Len(conn[w]) : IsStmt(w, j, "acquire", s) => i < j

\* The calls that resume do so from the same acquire, and the first of them
\* has spawned the session with its token.
ResumesAlike(w) ==
  /\ \A c, d \in Callers : Resumes(w, c) /\ Resumes(w, d) =>
        calls[w][c].stream = calls[w][d].stream /\ calls[w][c].token = calls[w][d].token
  /\ \A c \in Callers : Resumes(w, c) /\ calls[w][c].token # 0 =>
        lockTokens[w][calls[w][c].stream] \in {0, calls[w][c].token}

\* A worker that drains has no route() under way, and at the end no session.
DrainedQuiet(w) ==
  /\ mode[w] # "up" => \A c \in Callers : calls[w][c] = Idle
  /\ mode[w] \in {"drained", "releasing", "closing"} =>
        \A s \in Streams : sessions[w][s] = "none"

NothingAnswered(w) == conn[w] = <<>> => result[w] = "none"

WInv(w) ==
  /\ SessionsLocked(w) /\ TimersCurrent(w) /\ Beating(w)
  /\ StatementsKnown(w) /\ CallsKnown(w)
  /\ AcquiresAwaited(w) /\ RenewsCurrent(w) /\ ResumesAlike(w)
  /\ DrainedQuiet(w) /\ NothingAnswered(w)

IInv == TypeOK /\ \A w \in Workers : WInv(w)

-----------------------------------------------------------------------------
(* What happens to a connection *)

\* One more element at the end of a sequence.
LEMMA OneMore ==
  ASSUME NEW S, NEW q \in Seq(S), NEW x \in S
  PROVE  /\ q \o <<x>> \in Seq(S)
         /\ Len(q) \in Nat
         /\ Len(q \o <<x>>) = Len(q) + 1
         /\ \A i \in 1..Len(q) : i \in 1..Len(q \o <<x>>) /\ (q \o <<x>>)[i] = q[i]
         /\ (q \o <<x>>)[Len(q) + 1] = x
         /\ q \o <<x>> # <<>>
         /\ q \o <<x>> = Append(q, x)
  <1> DEFINE y == <<x>>
  <1>1. y \in Seq(S) /\ Len(y) = 1 /\ y[1] = x
    OBVIOUS
  <1>2. Len(q) \in Nat
    OBVIOUS
  <1>3. /\ q \o y \in Seq(S)
        /\ Len(q \o y) = Len(q) + Len(y)
        /\ \A i \in 1 .. Len(q) + Len(y) :
              (q \o y)[i] = IF i <= Len(q) THEN q[i] ELSE y[i - Len(q)]
    <2> HIDE DEF y
    <2> QED BY <1>1, ConcatProperties, Zenon
  <1>4. /\ Append(q, x) \in Seq(S)
        /\ Len(Append(q, x)) = Len(q) + 1
        /\ \A i \in 1..Len(q) : Append(q, x)[i] = q[i]
        /\ Append(q, x)[Len(q) + 1] = x
    BY AppendProperties
  <1>5. /\ Len(q \o y) = Len(q) + 1
        /\ \A i \in 1..Len(q) : i \in 1..Len(q \o y) /\ (q \o y)[i] = q[i]
        /\ (q \o y)[Len(q) + 1] = x
        /\ q \o y # <<>>
    <2> DEFINE z == q \o y
               n == Len(q)
    <2>1. Len(z) = n + 1 /\ n \in Nat
      BY <1>1, <1>2, <1>3
    <2>2. \A i \in 1..(n + 1) : z[i] = IF i <= n THEN q[i] ELSE y[i - n]
      BY <1>1, <1>3
    <2>3. z # <<>>
      BY <2>1
    <2> HIDE DEF z, n, y
    <2>4. /\ \A i \in 1..n : i \in 1..Len(z) /\ z[i] = q[i]
          /\ z[n + 1] = x
      BY <1>1, <2>1, <2>2
    <2>5. QED
      BY <2>1, <2>3, <2>4 DEF z, n
  <1>6. q \o y = Append(q, x)
    <2> DEFINE z == q \o y
               a == Append(q, x)
    <2>1. z \in Seq(S) /\ a \in Seq(S) /\ Len(z) = Len(a)
      BY <1>3, <1>4, <1>5
    <2>2. \A i \in 1..Len(z) : z[i] = a[i]
      BY <1>2, <1>4, <1>5
    <2> HIDE DEF z, a
    <2>3. z = a
      BY <2>1, <2>2, SeqEqual
    <2>4. QED
      BY <2>3 DEF z, a
  <1>7. QED
    BY <1>2, <1>3, <1>5, <1>6

\* Without its first element everything moves up by one.
LEMMA OneLess ==
  ASSUME NEW S, NEW q \in Seq(S), q # <<>>
  PROVE  /\ Tail(q) \in Seq(S)
         /\ Len(q) \in Nat \ {0}
         /\ Len(Tail(q)) = Len(q) - 1
         /\ \A i \in 1..Len(Tail(q)) : i + 1 \in 1..Len(q) /\ Tail(q)[i] = q[i + 1]
         /\ Head(q) = q[1] /\ Head(q) \in S /\ 1 \in 1..Len(q)
         /\ \A j \in 1..Len(q) : j = 1 \/ (j - 1 \in 1..Len(Tail(q)) /\ Tail(q)[j - 1] = q[j])
  <1>1. /\ Head(q) \in S
        /\ Tail(q) \in Seq(S)
        /\ Len(Tail(q)) = Len(q) - 1
        /\ \A i \in 1..Len(Tail(q)) : Tail(q)[i] = q[i + 1]
    BY HeadTailProperties
  <1>2. Len(q) \in Nat \ {0}
    BY EmptySeq
  <1>3. Head(q) = q[1]
    OBVIOUS
  <1> DEFINE z == Tail(q)
             n == Len(q)
             m == Len(z)
  <1>4. n \in Nat \ {0} /\ m = n - 1 /\ \A i \in 1..m : z[i] = q[i + 1]
    BY <1>1, <1>2
  <1> HIDE DEF z, n, m
  <1>5. \A i \in 1..m : i + 1 \in 1..n /\ z[i] = q[i + 1]
    BY <1>4
  <1>6. \A j \in 1..n : j = 1 \/ (j - 1 \in 1..m /\ z[j - 1] = q[j])
    BY <1>4
  <1>7. 1 \in 1..n
    BY <1>4
  <1>8. QED
    BY <1>1, <1>2, <1>3, <1>5, <1>6, <1>7 DEF z, n, m

\* The part of the type invariant that is about the connections.
ConnType ==
  /\ conn \in [Workers -> Seq(Locks!Stmts)]
  /\ sentAt \in [Workers -> Seq(Nat)]
  /\ \A w \in Workers : Len(sentAt[w]) = Len(conn[w])
  /\ now \in Nat

\* Send() of one statement appends it.
LEMMA SendOne ==
  ASSUME ConnType, NEW w \in Workers, NEW q \in Locks!Stmts, Send(w, <<q>>), now' \in Nat
  PROVE  /\ ConnType'
         /\ \A v \in Workers : v # w => conn'[v] = conn[v]
         /\ conn' = [conn EXCEPT ![w] = Append(conn[w], q)]
         /\ Len(conn[w]) \in Nat /\ Len(conn[w]) < MaxPending
         /\ Len(conn'[w]) = Len(conn[w]) + 1
         /\ \A i \in 1..Len(conn[w]) : i \in 1..Len(conn'[w]) /\ conn'[w][i] = conn[w][i]
         /\ conn'[w][Len(conn[w]) + 1] = q
         /\ conn'[w] # <<>>
  <1>1. conn[w] \in Seq(Locks!Stmts) /\ sentAt[w] \in Seq(Nat) /\ now \in Nat
        /\ Len(sentAt[w]) = Len(conn[w])
    BY DEF ConnType
  <1>2. /\ conn' = [conn EXCEPT ![w] = conn[w] \o <<q>>]
        /\ sentAt' = [sentAt EXCEPT ![w] = sentAt[w] \o [i \in 1..Len(<<q>>) |-> now]]
        /\ Len(conn[w]) + 1 <= MaxPending
    BY DEF Send
  <1>3. [i \in 1..Len(<<q>>) |-> now] = <<now>>
    OBVIOUS
  <1>4. sentAt' = [sentAt EXCEPT ![w] = sentAt[w] \o <<now>>]
    BY <1>2, <1>3
  <1> DEFINE c == conn[w] \o <<q>>
             a == sentAt[w] \o <<now>>
  <1>5. /\ c \in Seq(Locks!Stmts)
        /\ Len(conn[w]) \in Nat
        /\ Len(c) = Len(conn[w]) + 1
        /\ \A i \in 1..Len(conn[w]) : i \in 1..Len(c) /\ c[i] = conn[w][i]
        /\ c[Len(conn[w]) + 1] = q
        /\ c # <<>>
        /\ c = Append(conn[w], q)
    BY <1>1, OneMore
  <1>6. a \in Seq(Nat) /\ Len(a) = Len(sentAt[w]) + 1
    BY <1>1, OneMore
  <1>7. conn' = [conn EXCEPT ![w] = c] /\ sentAt' = [sentAt EXCEPT ![w] = a]
    BY <1>2, <1>4
  <1> HIDE DEF c, a
  <1>8. /\ ConnType'
        /\ \A v \in Workers : v # w => conn'[v] = conn[v]
        /\ conn'[w] = c
    BY <1>1, <1>5, <1>6, <1>7 DEF ConnType
  <1>9. Len(conn[w]) < MaxPending
    BY <1>2, <1>5, BoundAssumption
  <1>10. QED
    BY <1>5, <1>7, <1>8, <1>9

\* Send() of nothing changes nothing.
LEMMA SendNothing ==
  ASSUME ConnType, NEW w \in Workers, Send(w, <<>>)
  PROVE  conn' = conn /\ sentAt' = sentAt
  <1>1. conn[w] \in Seq(Locks!Stmts) /\ sentAt[w] \in Seq(Nat)
    BY DEF ConnType
  <1>2. /\ conn' = [conn EXCEPT ![w] = conn[w] \o <<>>]
        /\ sentAt' = [sentAt EXCEPT ![w] = sentAt[w] \o [i \in 1..Len(<<>>) |-> now]]
    BY DEF Send
  <1>3. [i \in 1..Len(<<>>) |-> now] = <<>>
    OBVIOUS
  <1>4. conn[w] \o <<>> = conn[w] /\ sentAt[w] \o <<>> = sentAt[w]
    BY <1>1, ConcatEmptySeq
  <1>5. conn' = [conn EXCEPT ![w] = conn[w]] /\ sentAt' = [sentAt EXCEPT ![w] = sentAt[w]]
    BY <1>2, <1>3, <1>4
  <1>6. QED
    BY <1>5 DEF ConnType

\* Receive() takes the first statement off.
LEMMA ReceiveNothing ==
  ASSUME ConnType, NEW w \in Workers, conn[w] # <<>>, Receive(w, <<>>), now' \in Nat
  PROVE  /\ ConnType'
         /\ \A v \in Workers : v # w => conn'[v] = conn[v]
         /\ conn' = [conn EXCEPT ![w] = Tail(conn[w]) \o <<>>]
         /\ result' = [result EXCEPT ![w] = "none"]
         /\ Len(conn[w]) \in Nat \ {0}
         /\ Len(conn'[w]) = Len(conn[w]) - 1
         /\ \A i \in 1..Len(conn'[w]) :
               i + 1 \in 1..Len(conn[w]) /\ conn'[w][i] = conn[w][i + 1]
         /\ \A j \in 1..Len(conn[w]) :
               j = 1 \/ (j - 1 \in 1..Len(conn'[w]) /\ conn'[w][j - 1] = conn[w][j])
         /\ First(w) = conn[w][1] /\ First(w) \in Locks!Stmts /\ 1 \in 1..Len(conn[w])
  <1>1. conn[w] \in Seq(Locks!Stmts) /\ sentAt[w] \in Seq(Nat) /\ now \in Nat
        /\ Len(sentAt[w]) = Len(conn[w])
    BY DEF ConnType
  <1>2. sentAt[w] # <<>>
    BY <1>1, EmptySeq
  <1>3. /\ conn' = [conn EXCEPT ![w] = Tail(conn[w]) \o <<>>]
        /\ sentAt' = [sentAt EXCEPT ![w] = Tail(sentAt[w]) \o [i \in 1..Len(<<>>) |-> now]]
        /\ result' = [result EXCEPT ![w] = "none"]
    BY DEF Receive
  <1>4. [i \in 1..Len(<<>>) |-> now] = <<>>
    OBVIOUS
  <1> DEFINE c == Tail(conn[w])
             a == Tail(sentAt[w])
  <1>5. /\ c \in Seq(Locks!Stmts)
        /\ Len(conn[w]) \in Nat \ {0}
        /\ Len(c) = Len(conn[w]) - 1
        /\ \A i \in 1..Len(c) : i + 1 \in 1..Len(conn[w]) /\ c[i] = conn[w][i + 1]
        /\ Head(conn[w]) = conn[w][1] /\ Head(conn[w]) \in Locks!Stmts /\ 1 \in 1..Len(conn[w])
        /\ \A j \in 1..Len(conn[w]) : j = 1 \/ (j - 1 \in 1..Len(c) /\ c[j - 1] = conn[w][j])
    BY <1>1, OneLess
  <1>6. a \in Seq(Nat) /\ Len(a) = Len(sentAt[w]) - 1
    BY <1>1, <1>2, OneLess
  <1>7. sentAt' = [sentAt EXCEPT ![w] = a \o <<>>]
    BY <1>3, <1>4
  <1> HIDE DEF c, a
  <1>8. c \o <<>> = c /\ a \o <<>> = a
    BY <1>5, <1>6, ConcatEmptySeq
  <1>9. conn' = [conn EXCEPT ![w] = c] /\ sentAt' = [sentAt EXCEPT ![w] = a]
    BY <1>3, <1>7, <1>8 DEF c
  <1>10. /\ ConnType'
         /\ \A v \in Workers : v # w => conn'[v] = conn[v]
         /\ conn'[w] = c
    BY <1>1, <1>5, <1>6, <1>9 DEF ConnType
  <1>11. QED
    BY <1>3, <1>5, <1>10 DEF First

\* Receive() with a reaction: the first statement off, the reaction at the end.
LEMMA ReceiveOne ==
  ASSUME ConnType, NEW w \in Workers, conn[w] # <<>>, NEW q \in Locks!Stmts,
         Receive(w, <<q>>), now' \in Nat
  PROVE  /\ ConnType'
         /\ \A v \in Workers : v # w => conn'[v] = conn[v]
         /\ conn' = [conn EXCEPT ![w] = Tail(conn[w]) \o <<q>>]
         /\ result' = [result EXCEPT ![w] = "none"]
         /\ Len(conn[w]) \in Nat \ {0}
         /\ \A i \in 1..Len(conn'[w]) :
               \/ i + 1 \in 1..Len(conn[w]) /\ conn'[w][i] = conn[w][i + 1]
               \/ i = Len(conn[w]) /\ conn'[w][i] = q
         /\ \A j \in 1..Len(conn[w]) :
               j = 1 \/ (j - 1 \in 1..Len(conn'[w]) /\ conn'[w][j - 1] = conn[w][j])
         /\ First(w) = conn[w][1] /\ First(w) \in Locks!Stmts /\ 1 \in 1..Len(conn[w])
         /\ conn'[w] # <<>>
  <1>1. conn[w] \in Seq(Locks!Stmts) /\ sentAt[w] \in Seq(Nat) /\ now \in Nat
        /\ Len(sentAt[w]) = Len(conn[w])
    BY DEF ConnType
  <1>2. sentAt[w] # <<>>
    BY <1>1, EmptySeq
  <1>3. /\ conn' = [conn EXCEPT ![w] = Tail(conn[w]) \o <<q>>]
        /\ sentAt' = [sentAt EXCEPT ![w] = Tail(sentAt[w]) \o [i \in 1..Len(<<q>>) |-> now]]
        /\ result' = [result EXCEPT ![w] = "none"]
    BY DEF Receive
  <1>4. [i \in 1..Len(<<q>>) |-> now] = <<now>>
    OBVIOUS
  <1> DEFINE c == Tail(conn[w])
             a == Tail(sentAt[w])
  <1>5. /\ c \in Seq(Locks!Stmts)
        /\ Len(conn[w]) \in Nat \ {0}
        /\ Len(c) = Len(conn[w]) - 1
        /\ \A i \in 1..Len(c) : i + 1 \in 1..Len(conn[w]) /\ c[i] = conn[w][i + 1]
        /\ Head(conn[w]) = conn[w][1] /\ Head(conn[w]) \in Locks!Stmts /\ 1 \in 1..Len(conn[w])
        /\ \A j \in 1..Len(conn[w]) : j = 1 \/ (j - 1 \in 1..Len(c) /\ c[j - 1] = conn[w][j])
    BY <1>1, OneLess
  <1>6. a \in Seq(Nat) /\ Len(a) = Len(sentAt[w]) - 1
    BY <1>1, <1>2, OneLess
  <1>7. sentAt' = [sentAt EXCEPT ![w] = a \o <<now>>]
    BY <1>3, <1>4
  <1> DEFINE d == c \o <<q>>
             b == a \o <<now>>
  <1>8. conn' = [conn EXCEPT ![w] = d] /\ sentAt' = [sentAt EXCEPT ![w] = b]
    BY <1>3, <1>7
  <1> HIDE DEF c, a
  <1>9. /\ d \in Seq(Locks!Stmts)
        /\ Len(c) \in Nat
        /\ Len(d) = Len(c) + 1
        /\ \A i \in 1..Len(c) : i \in 1..Len(d) /\ d[i] = c[i]
        /\ d[Len(c) + 1] = q
        /\ d # <<>>
    BY <1>5, OneMore
  <1>10. b \in Seq(Nat) /\ Len(b) = Len(a) + 1
    BY <1>1, <1>6, OneMore
  <1> HIDE DEF d, b
  <1>11. Len(b) = Len(d)
    BY <1>1, <1>5, <1>6, <1>9, <1>10
  <1>12. /\ ConnType'
         /\ \A v \in Workers : v # w => conn'[v] = conn[v]
         /\ conn'[w] = d
    BY <1>1, <1>8, <1>9, <1>10, <1>11 DEF ConnType
  <1>13. \A i \in 1..Len(d) :
               \/ i + 1 \in 1..Len(conn[w]) /\ d[i] = conn[w][i + 1]
               \/ i = Len(conn[w]) /\ d[i] = q
    <2> TAKE i \in 1..Len(d)
    <2>1. i \in 1..Len(c) \/ i = Len(c) + 1
      BY <1>9
    <2>2. QED
      BY <1>5, <1>9, <2>1
  <1>14. \A j \in 1..Len(conn[w]) :
               j = 1 \/ (j - 1 \in 1..Len(d) /\ d[j - 1] = conn[w][j])
    BY <1>5, <1>9
  <1>15. QED
    BY <1>3, <1>5, <1>9, <1>12, <1>13, <1>14 DEF First

-----------------------------------------------------------------------------
(* Types *)

LEMMA TypeGivesConn == TypeOK => ConnType
  BY DEF TypeOK, ConnType

\* What is sent is a statement.
LEMMA StatementTypes ==
  /\ \A s \in Streams, t \in Nat, e \in Int :
        /\ [op |-> "acquire", stream |-> s, token |-> t, expires |-> e] \in Locks!Stmts
        /\ [op |-> "renew", stream |-> s, token |-> t, expires |-> e] \in Locks!Stmts
  /\ \A s \in Streams, t \in Nat : ReleaseStmt(s, t) \in Locks!Stmts
  /\ ReleaseAllStmt \in Locks!Stmts
  BY DEF Locks!Stmts, Locks!Ops, Locks!ReleaseStmt, ReleaseStmt, ReleaseAllStmt

\* Workers read their clocks in whole units.
LEMMA ClockTypes == TypeOK => \A clock \in Locks!WorkerClock : clock + TTL \in Int
  BY TimeAssumption DEF TypeOK, Locks!WorkerClock

\* The first statement of a connection.
LEMMA FirstType ==
  ASSUME TypeOK, NEW w \in Workers, StatementsKnown(w), conn[w] # <<>>
  PROVE  /\ First(w) \in Locks!Stmts
         /\ First(w) = conn[w][1] /\ 1 \in 1..Len(conn[w])
         /\ First(w).token \in Nat
         /\ First(w).op # "releaseAll" => First(w).stream \in Streams /\ First(w).token # 0
  <1>1. conn[w] \in Seq(Locks!Stmts)
    BY DEF TypeOK
  <1>2. First(w) \in Locks!Stmts /\ First(w) = conn[w][1] /\ 1 \in 1..Len(conn[w])
    BY <1>1, OneLess DEF First
  <1>3. QED
    BY <1>2 DEF StatementsKnown, Locks!Stmts

\* What the database does to a row.
LEMMA ExecTypes ==
  ASSUME TypeOK, NEW w \in Workers, Execute(w)
  PROVE  /\ TypeOK'
         /\ UNCHANGED <<now, lastToken, conn, lost, sentAt, registry>>
         /\ conn[w] # <<>>
         /\ \A v \in Workers : v # w => result'[v] = result[v]
  <1>1. conn[w] # <<>> => Head(conn[w]) \in Locks!Stmts
    BY OneLess DEF TypeOK
  <1>2. CASE Locks!ExecAcquire(w)
    <2> DEFINE q == Head(conn[w])
    <2>1. /\ q \in Locks!Stmts /\ conn[w] # <<>>
          /\ UNCHANGED <<now, lastToken, conn, lost, sentAt, registry>>
      BY <1>1, <1>2 DEF Locks!ExecAcquire, Locks!Executing, Execute
    <2>2. result' \in [Workers -> {"none", "yes", "no"}]
          /\ \A v \in Workers : v # w => result'[v] = result[v]
      BY <1>2 DEF Locks!ExecAcquire, Locks!Answer, TypeOK
    <2>3. row' \in [Streams -> Locks!Rows] /\ granted' \in SUBSET Nat
      <3>1. [owner |-> w, token |-> q.token, expires |-> q.expires] \in Locks!Rows
            /\ q.token \in Nat
        BY <2>1 DEF Locks!Stmts, Locks!Rows
      <3>2. \/ row' = row /\ granted' = granted
            \/ /\ row' = [row EXCEPT ![q.stream] =
                           [owner |-> w, token |-> q.token, expires |-> q.expires]]
               /\ granted' = granted \cup {q.token}
        BY <1>2 DEF Locks!ExecAcquire
      <3> HIDE DEF q
      <3>3. row' \in [Streams -> Locks!Rows]
        BY <3>1, <3>2 DEF TypeOK
      <3>4. granted' \in SUBSET Nat
        BY <3>1, <3>2 DEF TypeOK
      <3>5. QED
        BY <3>3, <3>4
    <2>4. QED
      BY <2>1, <2>2, <2>3 DEF TypeOK, registry
  <1>3. CASE Locks!ExecRenew(w)
    <2> DEFINE q == Head(conn[w])
    <2>1. /\ q \in Locks!Stmts /\ conn[w] # <<>>
          /\ UNCHANGED <<now, lastToken, conn, lost, granted, sentAt, registry>>
      BY <1>1, <1>3 DEF Locks!ExecRenew, Locks!Executing, Execute
    <2>2. result' \in [Workers -> {"none", "yes", "no"}]
          /\ \A v \in Workers : v # w => result'[v] = result[v]
      BY <1>3 DEF Locks!ExecRenew, Locks!Answer, TypeOK
    <2>3. row' \in [Streams -> Locks!Rows]
      <3>1. q.expires \in Int
        BY <2>1 DEF Locks!Stmts
      <3>2. row' = row \/ row' = [row EXCEPT ![q.stream].expires = q.expires]
        BY <1>3 DEF Locks!ExecRenew, Locks!Renewed
      <3> HIDE DEF q
      <3>3. \A r \in Locks!Rows : [r EXCEPT !.expires = q.expires] \in Locks!Rows
        BY <3>1 DEF Locks!Rows
      <3>4. row \in [Streams -> Locks!Rows]
        BY DEF TypeOK
      <3>5. CASE row' = [row EXCEPT ![q.stream].expires = q.expires]
        <4>1. \A s \in Streams : row'[s] = IF s = q.stream
                 THEN [row[s] EXCEPT !.expires = q.expires] ELSE row[s]
          BY <3>4, <3>5
        <4>2. DOMAIN row' = Streams /\ row' = [s \in DOMAIN row' |-> row'[s]]
          BY <3>4, <3>5
        <4>3. \A s \in Streams : row'[s] \in Locks!Rows
          BY <3>3, <3>4, <4>1
        <4>4. QED
          BY <4>2, <4>3
      <3>6. QED
        BY <3>2, <3>4, <3>5
    <2>4. QED
      BY <2>1, <2>2, <2>3 DEF TypeOK, registry
  <1>4. CASE Locks!ExecRelease(w)
    <2>1. /\ conn[w] # <<>>
          /\ UNCHANGED <<now, lastToken, conn, lost, granted, sentAt, registry>>
      BY <1>4 DEF Locks!ExecRelease, Locks!Executing, Execute
    <2>2. result' \in [Workers -> {"none", "yes", "no"}]
          /\ \A v \in Workers : v # w => result'[v] = result[v]
      BY <1>4 DEF Locks!ExecRelease, Locks!Answer, TypeOK
    <2>3. row' \in [Streams -> Locks!Rows]
      <3>1. Locks!NoRow \in Locks!Rows
        BY DEF Locks!NoRow, Locks!Rows
      <3>2. QED
        BY <1>4, <3>1 DEF Locks!ExecRelease, TypeOK
    <2>4. QED
      BY <2>1, <2>2, <2>3 DEF TypeOK, registry
  <1>5. CASE Locks!ExecReleaseAll(w)
    <2>1. /\ conn[w] # <<>>
          /\ UNCHANGED <<now, lastToken, conn, lost, granted, sentAt, registry>>
      BY <1>5 DEF Locks!ExecReleaseAll, Locks!Executing, Execute
    <2>2. result' \in [Workers -> {"none", "yes", "no"}]
          /\ \A v \in Workers : v # w => result'[v] = result[v]
      BY <1>5 DEF Locks!ExecReleaseAll, Locks!Answer, TypeOK
    <2>3. row' \in [Streams -> Locks!Rows]
      <3>1. Locks!NoRow \in Locks!Rows
        BY DEF Locks!NoRow, Locks!Rows
      <3>2. QED
        BY <1>5, <3>1 DEF Locks!ExecReleaseAll, TypeOK
    <2>4. QED
      BY <2>1, <2>2, <2>3 DEF TypeOK, registry
  <1>6. QED
    BY <1>2, <1>3, <1>4, <1>5 DEF Execute

-----------------------------------------------------------------------------
(* Steps that leave the worker's claims alone *)

\* What WInv(v) is about, except mode and the answer of the database: the same
\* sessions and connection, and at most a call that resumes has ended.
Untouched(v) ==
  /\ \A s \in Streams : sessions'[v][s] = "none" <=> sessions[v][s] = "none"
  /\ lockTokens'[v] = lockTokens[v] /\ heartbeats'[v] = heartbeats[v]
  /\ inflight'[v] = inflight[v] /\ conn'[v] = conn[v]
  /\ \A c \in Callers : \/ calls'[v][c] = calls[v][c]
                        \/ calls[v][c].pc = "resume" /\ calls'[v][c] = Idle

\* Such a step keeps the invariant of the worker.
LEMMA UntouchedKeeps ==
  ASSUME NEW v \in Workers, WInv(v), Untouched(v), DrainedQuiet(v)', NothingAnswered(v)'
  PROVE  WInv(v)'
  <1>1. SessionsLocked(v)'
    BY DEF Untouched, WInv, SessionsLocked
  <1>2. TimersCurrent(v)'
    BY DEF Untouched, WInv, TimersCurrent
  <1>3. Beating(v)' /\ StatementsKnown(v)'
    BY DEF Untouched, WInv, Beating, StatementsKnown, IsStmt
  <1>4. \A c \in Callers :
           /\ Resumes(v, c)' => Resumes(v, c) /\ calls'[v][c] = calls[v][c]
           /\ calls[v][c].pc = "waiting" => calls'[v][c] = calls[v][c]
           /\ calls'[v][c].pc # "idle" => calls'[v][c] = calls[v][c]
    BY DEF Untouched, Resumes, Idle
  <1>5. CallsKnown(v)'
    BY <1>4 DEF WInv, CallsKnown
  <1>6. ResumesAlike(v)'
    BY <1>4 DEF Untouched, WInv, ResumesAlike
  <1>7. AcquiresAwaited(v)'
    BY <1>4 DEF Untouched, WInv, AcquiresAwaited, IsStmt
  <1>8. RenewsCurrent(v)'
    BY <1>4 DEF Untouched, WInv, RenewsCurrent, IsStmt
  <1>9. QED
    BY <1>1, <1>2, <1>3, <1>5, <1>6, <1>7, <1>8 DEF WInv

\* A worker that nothing happens to keeps its invariant.
LEMMA OthersKeep ==
  ASSUME NEW v \in Workers, WInv(v), Untouched(v), mode'[v] = mode[v], result'[v] = result[v]
  PROVE  WInv(v)'
  <1>1. NothingAnswered(v)'
    BY DEF Untouched, WInv, NothingAnswered
  <1>2. DrainedQuiet(v)'
    BY DEF Untouched, WInv, DrainedQuiet, Idle
  <1>3. QED
    BY <1>1, <1>2, UntouchedKeeps

\* The step of a worker keeps the invariant if it keeps the worker's part.
LEMMA StepKeeps ==
  ASSUME IInv, NEW w \in Workers, TypeOK', WInv(w)',
         \A v \in Workers : v # w =>
            Untouched(v) /\ mode'[v] = mode[v] /\ result'[v] = result[v]
  PROVE  IInv'
  <1>1. ASSUME NEW v \in Workers PROVE WInv(v)'
    <2>1. CASE v = w
      BY <2>1
    <2>2. CASE v # w
      BY <2>2, OthersKeep DEF IInv
    <2>3. QED
      BY <2>1, <2>2
  <1>2. QED
    BY <1>1 DEF IInv

\* The database executes.
LEMMA ExecuteKeeps ==
  ASSUME IInv, NEW w \in Workers, Execute(w)
  PROVE  IInv'
  <1>1. /\ TypeOK'
        /\ UNCHANGED <<now, lastToken, conn, lost, sentAt, registry>>
        /\ conn[w] # <<>>
        /\ \A v \in Workers : v # w => result'[v] = result[v]
    BY ExecTypes DEF IInv
  <1>2. \A v \in Workers : Untouched(v) /\ mode'[v] = mode[v]
    BY <1>1 DEF Untouched, registry
  <1>3. WInv(w)'
    <2>1. NothingAnswered(w)' /\ DrainedQuiet(w)'
      BY <1>1 DEF NothingAnswered, DrainedQuiet, IInv, WInv, registry
    <2>2. QED
      BY <1>2, <2>1, UntouchedKeeps DEF IInv
  <1>4. QED
    BY <1>1, <1>2, <1>3, StepKeeps

\* Time passes.
LEMMA TickKeeps ==
  ASSUME IInv, Tick
  PROVE  IInv'
  <1>1. TypeOK'
    BY DEF IInv, TypeOK, Tick, registry
  <1>2. \A v \in Workers : Untouched(v) /\ mode'[v] = mode[v] /\ result'[v] = result[v]
    BY DEF Untouched, Tick, registry
  <1>3. \A v \in Workers : WInv(v)'
    BY <1>2, OthersKeep DEF IInv
  <1>4. QED
    BY <1>1, <1>3 DEF IInv

\* Pumps: their types, and that nothing else depends on them.
LEMMA PublishTypes ==
  ASSUME TypeOK, NEW w \in Workers, NEW s \in Streams, NEW t \in Nat, Publish(w, s, t)
  PROVE  pumps' \in [Workers -> SUBSET (Streams \X Nat)]
  <1> DEFINE p == <<s, t>>
             P == Streams \X Nat
  <1>1. p \in P
    OBVIOUS
  <1>2. pumps' = [pumps EXCEPT ![w] = pumps[w] \cup {p}] \/ pumps' = pumps
    BY DEF Publish
  <1>3. pumps \in [Workers -> SUBSET P]
    BY DEF TypeOK
  <1> HIDE DEF p, P
  <1>4. pumps' \in [Workers -> SUBSET P]
    BY <1>1, <1>2, <1>3
  <1>5. QED
    BY <1>4 DEF P

LEMMA RouteExistingKeeps ==
  ASSUME IInv, NEW w \in Workers, NEW s \in Streams, RouteExisting(w, s)
  PROVE  IInv'
  <1>1. lockTokens[w][s] \in Nat
    BY DEF IInv, TypeOK
  <1>2. pumps' \in [Workers -> SUBSET (Streams \X Nat)]
    BY <1>1, PublishTypes DEF IInv, RouteExisting
  <1>3. TypeOK'
    BY <1>2 DEF IInv, TypeOK, RouteExisting, lockVars
  <1>4. \A v \in Workers : Untouched(v) /\ mode'[v] = mode[v] /\ result'[v] = result[v]
    BY DEF Untouched, RouteExisting, lockVars
  <1>5. QED
    BY <1>3, <1>4, OthersKeep, StepKeeps DEF IInv

LEMMA PumpSettlesKeeps ==
  ASSUME IInv, NEW w \in Workers, NEW p, PumpSettles(w, p)
  PROVE  IInv'
  <1>1. TypeOK'
    BY DEF IInv, TypeOK, PumpSettles, lockVars
  <1>2. \A v \in Workers : Untouched(v) /\ mode'[v] = mode[v] /\ result'[v] = result[v]
    BY DEF Untouched, PumpSettles, lockVars
  <1>3. QED
    BY <1>1, <1>2, OthersKeep, StepKeeps DEF IInv

LEMMA DrainBeginsKeeps ==
  ASSUME IInv, NEW w \in Workers, DrainBegins(w)
  PROVE  IInv'
  <1>1. TypeOK'
    BY DEF IInv, TypeOK, DrainBegins, lockVars
  <1>2. \A v \in Workers : Untouched(v) /\ (v # w => mode'[v] = mode[v]) /\ result'[v] = result[v]
    BY DEF Untouched, DrainBegins, lockVars, IInv, TypeOK
  <1>3. DrainedQuiet(w)' /\ NothingAnswered(w)'
    BY DEF DrainedQuiet, NothingAnswered, DrainBegins, lockVars, IInv, WInv, TypeOK
  <1>4. QED
    BY <1>1, <1>2, <1>3, UntouchedKeeps, StepKeeps DEF IInv

LEMMA StopWaitsKeeps ==
  ASSUME IInv, NEW w \in Workers, NEW s \in Streams, StopWaits(w, s)
  PROVE  IInv'
  <1>1. TypeOK'
    BY DEF IInv, TypeOK, StopWaits, lockVars
  <1>2. \A v \in Workers : Untouched(v) /\ mode'[v] = mode[v] /\ result'[v] = result[v]
    BY DEF Untouched, StopWaits, lockVars, IInv, TypeOK
  <1>3. QED
    BY <1>1, <1>2, OthersKeep, StepKeeps DEF IInv

LEMMA RestartKeeps ==
  ASSUME IInv, NEW w \in Workers, Restart(w)
  PROVE  IInv'
  <1>1. TypeOK'
    BY DEF IInv, TypeOK, Restart, lockVars
  <1>2. \A v \in Workers : Untouched(v) /\ (v # w => mode'[v] = mode[v]) /\ result'[v] = result[v]
    BY DEF Untouched, Restart, lockVars, IInv, TypeOK
  <1>3. DrainedQuiet(w)' /\ NothingAnswered(w)'
    BY DEF DrainedQuiet, NothingAnswered, Restart, lockVars, IInv, WInv, TypeOK
  <1>4. QED
    BY <1>1, <1>2, <1>3, UntouchedKeeps, StepKeeps DEF IInv

\* route() resumes with null.
LEMMA RouteLockedKeeps ==
  ASSUME IInv, NEW w \in Workers, NEW c \in Callers, RouteLocked(w, c)
  PROVE  IInv'
  <1>1. Idle \in [pc : {"idle", "waiting", "resume"}, stream : Streams \cup {None}, token : Nat]
    BY DEF Idle
  <1>2. TypeOK'
    BY <1>1 DEF IInv, TypeOK, RouteLocked, lockVars
  <1>3. \A v \in Workers : Untouched(v) /\ mode'[v] = mode[v] /\ result'[v] = result[v]
    BY DEF Untouched, RouteLocked, lockVars, IInv, TypeOK
  <1>4. QED
    BY <1>2, <1>3, OthersKeep, StepKeeps DEF IInv

\* route() resumes and finds a session: it is the session of the same acquire,
\* so there is no token to give back.
LEMMA RouteRacedKeeps ==
  ASSUME IInv, NEW w \in Workers, NEW c \in Callers, RouteRaced(w, c)
  PROVE  IInv' /\ UNCHANGED <<conn, lockTokens>>
  <1> DEFINE s == calls[w][c].stream
             t == calls[w][c].token
  <1>1. s \in Streams /\ t \in Nat /\ Resumes(w, c) /\ t # 0
    BY DEF IInv, TypeOK, WInv, CallsKnown, Resumes, RouteRaced
  <1>2. lockTokens[w][s] = t
    BY <1>1 DEF IInv, WInv, ResumesAlike, SessionsLocked, RouteRaced
  <1>3. ConnType
    BY TypeGivesConn DEF IInv
  <1>4. Send(w, <<>>)
    BY <1>2 DEF RouteRaced
  <1>5. UNCHANGED <<conn, sentAt>>
    BY <1>3, <1>4, SendNothing
  <1>6. Publish(w, s, t)
    BY <1>2 DEF RouteRaced
  <1>7. pumps' \in [Workers -> SUBSET (Streams \X Nat)]
    <2> HIDE DEF s, t
    <2> QED BY <1>1, <1>6, PublishTypes DEF IInv
  <1>8. Idle \in [pc : {"idle", "waiting", "resume"}, stream : Streams \cup {None}, token : Nat]
    BY DEF Idle
  <1>9. TypeOK'
    BY <1>5, <1>7, <1>8 DEF IInv, TypeOK, RouteRaced
  <1>10. \A v \in Workers : Untouched(v) /\ mode'[v] = mode[v] /\ result'[v] = result[v]
    BY <1>5 DEF Untouched, RouteRaced, IInv, TypeOK
  <1>11. QED
    BY <1>5, <1>9, <1>10, OthersKeep, StepKeeps DEF IInv, RouteRaced

-----------------------------------------------------------------------------
(* Steps that change sessions and claims *)

LEMMA TimerTypes ==
  TypeOK => /\ \A t \in Nat : [token |-> t, due |-> NextBeat] \in [token : Nat, due : Nat]
            /\ NoTimer \in [token : Nat, due : Nat]
  BY HeartbeatAssumption DEF TypeOK, NextBeat, NoTimer

LEMMA CallTypes ==
  /\ Idle \in [pc : {"idle", "waiting", "resume"}, stream : Streams \cup {None}, token : Nat]
  /\ \A p \in {"idle", "waiting", "resume"}, s \in Streams, t \in Nat :
        [pc |-> p, stream |-> s, token |-> t]
           \in [pc : {"idle", "waiting", "resume"}, stream : Streams \cup {None}, token : Nat]
  BY DEF Idle

\* route() resumes as the owner.
LEMMA RouteSpawnsKeeps ==
  ASSUME IInv, NEW w \in Workers, NEW c \in Callers, RouteSpawns(w, c)
  PROVE  IInv'
  <1> DEFINE s == calls[w][c].stream
             t == calls[w][c].token
  <1>1. /\ s \in Streams /\ t \in Nat /\ Resumes(w, c) /\ t # 0
        /\ sessions[w][s] = "none" /\ lockTokens[w][s] = 0
    BY DEF IInv, TypeOK, WInv, CallsKnown, SessionsLocked, Resumes, RouteSpawns
  <1>2. /\ lockTokens' = [lockTokens EXCEPT ![w][s] = t]
        /\ heartbeats' = [heartbeats EXCEPT ![w][s] = [token |-> t, due |-> NextBeat]]
        /\ sessions' = [sessions EXCEPT ![w][s] = "running"]
        /\ missed' = [missed EXCEPT ![w][s] = 0]
        /\ pumps' = [pumps EXCEPT ![w] = pumps[w] \cup {<<s, t>>}]
        /\ calls' = [calls EXCEPT ![w][c] = Idle]
        /\ UNCHANGED <<now, row, lastToken, conn, result, lost, granted, sentAt, mode,
                       inflight, stopping>>
    BY DEF RouteSpawns, Spawned, lockVars
  <1>3. \A d \in Callers : Resumes(w, d) =>
           calls[w][d].stream = s /\ calls[w][d].token = t
    BY <1>1 DEF IInv, WInv, ResumesAlike
  <1>4. calls[w][c] # Idle
    BY <1>1 DEF Resumes, Idle
  <1> HIDE DEF s, t
  <1>5. TypeOK'
    <2>1. heartbeats' \in [Workers -> [Streams -> [token : Nat, due : Nat]]]
      BY <1>1, <1>2, TimerTypes DEF IInv, TypeOK
    <2>2. calls' \in [Workers -> [Callers -> [pc : {"idle", "waiting", "resume"},
                                        stream : Streams \cup {None}, token : Nat]]]
      BY <1>2, CallTypes DEF IInv, TypeOK
    <2>3. pumps' \in [Workers -> SUBSET (Streams \X Nat)]
      <3> DEFINE p == <<s, t>>
                 P == Streams \X Nat
      <3>1. p \in P
        BY <1>1
      <3>2. pumps' = [pumps EXCEPT ![w] = pumps[w] \cup {p}]
        BY <1>2
      <3>3. pumps \in [Workers -> SUBSET P]
        BY DEF IInv, TypeOK
      <3> HIDE DEF p, P
      <3>4. pumps' \in [Workers -> SUBSET P]
        BY <3>1, <3>2, <3>3
      <3>5. QED
        BY <3>4 DEF P
    <2>4. QED
      BY <1>1, <1>2, <2>1, <2>2, <2>3 DEF IInv, TypeOK
  <1>6. \A v \in Workers : v # w =>
           Untouched(v) /\ mode'[v] = mode[v] /\ result'[v] = result[v]
    BY <1>2 DEF Untouched, IInv, TypeOK
  <1>7. /\ \A x \in Streams : sessions'[w][x] = IF x = s THEN "running" ELSE sessions[w][x]
        /\ \A x \in Streams : lockTokens'[w][x] = IF x = s THEN t ELSE lockTokens[w][x]
        /\ \A x \in Streams : heartbeats'[w][x] =
              IF x = s THEN [token |-> t, due |-> NextBeat] ELSE heartbeats[w][x]
        /\ \A d \in Callers : calls'[w][d] = IF d = c THEN Idle ELSE calls[w][d]
        /\ inflight'[w] = inflight[w] /\ conn'[w] = conn[w] /\ mode'[w] = mode[w]
        /\ result'[w] = result[w]
    BY <1>1, <1>2 DEF IInv, TypeOK
  <1>8. WInv(w) /\ TypeOK
    BY DEF IInv
  <1>9. SessionsLocked(w)' /\ TimersCurrent(w)' /\ StatementsKnown(w)'
    BY <1>1, <1>7, <1>8 DEF WInv, SessionsLocked, TimersCurrent, StatementsKnown
  <1>10. Beating(w)'
    BY <1>1, <1>7, <1>8 DEF WInv, Beating, IsStmt
  <1>11. CallsKnown(w)' /\ ResumesAlike(w)'
    BY <1>1, <1>3, <1>7, <1>8 DEF WInv, CallsKnown, ResumesAlike, Resumes, Idle
  <1>12. \A i \in 1..Len(conn[w]) : ~ IsStmt(w, i, "acquire", s)
    BY <1>1, <1>3, <1>8 DEF WInv, AcquiresAwaited
  <1>13. AcquiresAwaited(w)'
    <2> SUFFICES ASSUME NEW i \in 1..Len(conn[w]), NEW x \in Streams, IsStmt(w, i, "acquire", x)
                 PROVE  /\ x \in inflight[w]
                        /\ sessions'[w][x] = "none"
                        /\ \E d \in Callers : calls'[w][d].pc = "waiting" /\ calls'[w][d].stream = x
                        /\ \A d \in Callers : Resumes(w, d)' => calls'[w][d].stream # x
                        /\ \A j \in 1..Len(conn[w]) : IsStmt(w, j, "acquire", x) => j = i
      BY <1>7 DEF AcquiresAwaited, IsStmt
    <2>1. x # s
      BY <1>12
    <2>2. QED
      BY <1>1, <1>7, <1>8, <2>1 DEF WInv, AcquiresAwaited, Resumes, Idle
  <1>14. \A i \in 1..Len(conn[w]) : ~ IsStmt(w, i, "renew", s)
    BY <1>1, <1>3, <1>8 DEF WInv, RenewsCurrent, StatementsKnown, IsStmt
  <1>15. RenewsCurrent(w)'
    <2> SUFFICES ASSUME NEW i \in 1..Len(conn[w]), NEW x \in Streams, IsStmt(w, i, "renew", x)
                 PROVE  \/ conn[w][i].token = lockTokens'[w][x]
                        \/ /\ lockTokens'[w][x] = 0
                           /\ \A d \in Callers : Resumes(w, d)' /\ calls'[w][d].token # 0
                                                    => calls'[w][d].stream # x
                           /\ \A j \in 1..Len(conn[w]) : IsStmt(w, j, "acquire", x) => i < j
      BY <1>7 DEF RenewsCurrent, IsStmt
    <2>1. x # s
      BY <1>14
    <2>2. QED
      BY <1>7, <1>8, <2>1 DEF WInv, RenewsCurrent, Resumes, Idle
  <1>16. DrainedQuiet(w)' /\ NothingAnswered(w)'
    BY <1>4, <1>7, <1>8 DEF WInv, DrainedQuiet, NothingAnswered, s
  <1>17. WInv(w)'
    BY <1>9, <1>10, <1>11, <1>13, <1>15, <1>16 DEF WInv
  <1>18. QED
    BY <1>5, <1>6, <1>17, StepKeeps

\* route() issues an acquire, or joins the one that is on its way.
LEMMA RouteAcquireKeeps ==
  ASSUME IInv, NEW w \in Workers, NEW c \in Callers, NEW s \in Streams,
         RouteAcquire(w, c, s)
  PROVE  IInv'
  <1>1. /\ calls[w][c] = Idle /\ sessions[w][s] = "none" /\ mode[w] = "up"
        /\ \A d \in Callers : ~ Resumes(w, d)
        /\ calls' = [calls EXCEPT ![w][c] = [pc |-> "waiting", stream |-> s, token |-> 0]]
        /\ UNCHANGED <<now, row, result, lost, granted, mode, sessions, lockTokens,
                       heartbeats, pumps, stopping, missed>>
    BY DEF RouteAcquire, Active, Resuming, Resumes
  <1>2. WInv(w) /\ TypeOK /\ ConnType /\ now' \in Nat
    BY <1>1, TypeGivesConn DEF IInv, TypeOK
  <1>3. calls' \in [Workers -> [Callers -> [pc : {"idle", "waiting", "resume"},
                                        stream : Streams \cup {None}, token : Nat]]]
    BY <1>1, CallTypes DEF IInv, TypeOK
  <1>4. /\ \A d \in Callers : calls'[w][d] =
              IF d = c THEN [pc |-> "waiting", stream |-> s, token |-> 0] ELSE calls[w][d]
        /\ \A v \in Workers : v # w => calls'[v] = calls[v]
    BY <1>1, <1>2 DEF TypeOK
  <1>5. /\ \A d \in Callers : ~ Resumes(w, d)'
        /\ calls'[w][c].pc = "waiting" /\ calls'[w][c].stream = s
        /\ \A d \in Callers : calls[w][d].pc = "waiting" => calls'[w][d] = calls[w][d]
    BY <1>1, <1>4 DEF Resumes, Idle
  <1>6. CallsKnown(w)' /\ ResumesAlike(w)'
    BY <1>2, <1>4, <1>5 DEF WInv, CallsKnown, ResumesAlike
  <1>7. SessionsLocked(w)' /\ TimersCurrent(w)' /\ DrainedQuiet(w)'
    BY <1>1, <1>2 DEF WInv, SessionsLocked, TimersCurrent, DrainedQuiet
  <1>8. CASE UNCHANGED <<inflight, lastToken, conn, sentAt>>
    <2>1. TypeOK'
      BY <1>1, <1>2, <1>3, <1>8 DEF TypeOK
    <2>2. \A v \in Workers : v # w =>
             Untouched(v) /\ mode'[v] = mode[v] /\ result'[v] = result[v]
      BY <1>1, <1>4, <1>8 DEF Untouched
    <2>3. Beating(w)' /\ StatementsKnown(w)' /\ NothingAnswered(w)'
      BY <1>1, <1>2, <1>8 DEF WInv, Beating, StatementsKnown, NothingAnswered, IsStmt
    <2>4. AcquiresAwaited(w)'
      BY <1>1, <1>2, <1>5, <1>8 DEF WInv, AcquiresAwaited, IsStmt
    <2>5. RenewsCurrent(w)'
      BY <1>1, <1>2, <1>5, <1>8 DEF WInv, RenewsCurrent, IsStmt
    <2>6. WInv(w)'
      BY <1>6, <1>7, <2>3, <2>4, <2>5 DEF WInv
    <2>7. QED
      BY <2>1, <2>2, <2>6, StepKeeps
  <1>9. CASE /\ s \notin inflight[w]
             /\ inflight' = [inflight EXCEPT ![w] = inflight[w] \cup {s}]
             /\ lastToken' = lastToken + 1
             /\ \E clock \in Locks!WorkerClock :
                   Send(w, <<[op |-> "acquire", stream |-> s, token |-> lastToken + 1,
                              expires |-> clock + TTL]>>)
    <2>1. PICK clock \in Locks!WorkerClock :
             Send(w, <<[op |-> "acquire", stream |-> s, token |-> lastToken + 1,
                        expires |-> clock + TTL]>>)
      BY <1>9
    <2> DEFINE q == [op |-> "acquire", stream |-> s, token |-> lastToken + 1,
                     expires |-> clock + TTL]
    <2>2. lastToken \in Nat /\ lastToken' \in Nat /\ lastToken + 1 # 0
      BY <1>2, <1>9 DEF TypeOK
    <2>3. /\ q \in Locks!Stmts /\ q.op = "acquire" /\ q.stream = s /\ q.token # 0
          /\ Send(w, <<q>>)
      BY <1>2, <1>9, <2>1, <2>2, ClockTypes, StatementTypes
    <2> HIDE DEF q
    <2> DEFINE n == Len(conn[w])
    <2>4. /\ ConnType'
          /\ \A v \in Workers : v # w => conn'[v] = conn[v]
          /\ n \in Nat /\ Len(conn'[w]) = n + 1
          /\ \A i \in 1..n : i \in 1..Len(conn'[w]) /\ conn'[w][i] = conn[w][i]
          /\ conn'[w][n + 1] = q
          /\ conn'[w] # <<>>
      BY <1>2, <2>3, SendOne
    <2>5. /\ inflight' \in [Workers -> SUBSET Streams]
          /\ inflight'[w] = inflight[w] \cup {s}
          /\ \A v \in Workers : v # w => inflight'[v] = inflight[v]
      BY <1>2, <1>9 DEF TypeOK
    <2>6. TypeOK'
      BY <1>1, <1>2, <1>3, <2>2, <2>4, <2>5 DEF TypeOK, ConnType
    <2>7. \A v \in Workers : v # w =>
             Untouched(v) /\ mode'[v] = mode[v] /\ result'[v] = result[v]
      BY <1>1, <1>4, <2>4, <2>5 DEF Untouched
    <2> HIDE DEF n
    <2>8. \A i \in 1..Len(conn'[w]) : \/ i \in 1..n /\ conn'[w][i] = conn[w][i]
                                      \/ i = n + 1 /\ conn'[w][i] = q
      BY <2>4
    <2>9. \A i \in 1..Len(conn'[w]) : \A op, x :
             IsStmt(w, i, op, x)' => \/ i \in 1..n /\ IsStmt(w, i, op, x)
                                     \/ i = n + 1 /\ op = "acquire" /\ x = s
      BY <2>3, <2>8 DEF IsStmt
    <2>10. \A i \in 1..n : ~ IsStmt(w, i, "acquire", s)
      BY <1>2, <1>9 DEF WInv, AcquiresAwaited, n
    <2>11. StatementsKnown(w)' /\ NothingAnswered(w)'
      BY <1>2, <2>3, <2>4, <2>8 DEF WInv, StatementsKnown, NothingAnswered, n
    <2>12. Beating(w)'
      BY <1>1, <1>2, <2>4 DEF WInv, Beating, IsStmt, n
    <2>13. AcquiresAwaited(w)'
      <3> SUFFICES ASSUME NEW i \in 1..Len(conn'[w]), NEW x \in Streams,
                          IsStmt(w, i, "acquire", x)'
                   PROVE  /\ x \in inflight'[w]
                          /\ sessions'[w][x] = "none"
                          /\ \E d \in Callers :
                                calls'[w][d].pc = "waiting" /\ calls'[w][d].stream = x
                          /\ \A d \in Callers : Resumes(w, d)' => calls'[w][d].stream # x
                          /\ \A j \in 1..Len(conn'[w]) : IsStmt(w, j, "acquire", x)' => j = i
        BY DEF AcquiresAwaited
      <3>1. CASE x = s
        <4>1. \A j \in 1..Len(conn'[w]) : IsStmt(w, j, "acquire", s)' => j = n + 1
          BY <2>9, <2>10
        <4>2. QED
          BY <1>1, <1>5, <2>5, <3>1, <4>1
      <3>2. CASE x # s
        <4>1. i \in 1..n /\ IsStmt(w, i, "acquire", x)
          BY <2>9, <3>2
        <4>2. \A j \in 1..Len(conn'[w]) : IsStmt(w, j, "acquire", x)' =>
                 j \in 1..n /\ IsStmt(w, j, "acquire", x)
          BY <2>9, <3>2
        <4>3. /\ x \in inflight[w] /\ sessions[w][x] = "none"
              /\ \E d \in Callers : calls[w][d].pc = "waiting" /\ calls[w][d].stream = x
              /\ \A j \in 1..n : IsStmt(w, j, "acquire", x) => j = i
          BY <1>2, <4>1 DEF WInv, AcquiresAwaited, n
        <4>4. QED
          BY <1>1, <1>5, <2>5, <4>2, <4>3
      <3>3. QED
        BY <3>1, <3>2
    <2>14. RenewsCurrent(w)'
      <3> SUFFICES ASSUME NEW i \in 1..Len(conn'[w]), NEW x \in Streams,
                          IsStmt(w, i, "renew", x)'
                   PROVE  \/ conn'[w][i].token = lockTokens'[w][x]
                          \/ /\ lockTokens'[w][x] = 0
                             /\ \A j \in 1..Len(conn'[w]) :
                                   IsStmt(w, j, "acquire", x)' => i < j
        BY <1>5 DEF RenewsCurrent
      <3>1. i \in 1..n /\ IsStmt(w, i, "renew", x) /\ conn'[w][i] = conn[w][i]
        BY <2>4, <2>9
      <3>2. \/ conn[w][i].token = lockTokens[w][x]
            \/ lockTokens[w][x] = 0 /\ \A j \in 1..n : IsStmt(w, j, "acquire", x) => i < j
        BY <1>2, <3>1 DEF WInv, RenewsCurrent, n
      <3>3. \A j \in 1..Len(conn'[w]) : IsStmt(w, j, "acquire", x)' =>
               j = n + 1 \/ (j \in 1..n /\ IsStmt(w, j, "acquire", x))
        BY <2>9
      <3>4. i < n + 1
        BY <2>4, <3>1
      <3>5. QED
        BY <1>1, <3>1, <3>2, <3>3, <3>4
    <2>15. WInv(w)'
      BY <1>6, <1>7, <2>11, <2>12, <2>13, <2>14 DEF WInv
    <2>16. QED
      BY <2>6, <2>7, <2>15, StepKeeps
  <1>10. QED
    BY <1>8, <1>9 DEF RouteAcquire

\* An acquire settles or rejects: its callers resume alike, or are idle.
LEMMA AcquireEnds ==
  ASSUME IInv, NEW w \in Workers, ~ Resuming(w), mode[w] # "down",
         conn[w] # <<>>, First(w).op = "acquire",
         NEW r, r = Idle \/ r = [pc |-> "resume", stream |-> First(w).stream, token |-> 0]
                  \/ r = [pc |-> "resume", stream |-> First(w).stream, token |-> First(w).token],
         inflight' = [inflight EXCEPT ![w] = inflight[w] \ {First(w).stream}],
         calls' = [calls EXCEPT ![w] = [c \in Callers |->
            IF calls[w][c].pc = "waiting" /\ calls[w][c].stream = First(w).stream
            THEN r ELSE calls[w][c]]],
         Receive(w, <<>>),
         UNCHANGED <<now, row, lastToken, lost, granted, mode, sessions, lockTokens,
                     heartbeats, pumps, stopping, missed>>
  PROVE  /\ IInv'
         /\ First(w).stream \in Streams /\ First(w).token # 0
         /\ lockTokens[w][First(w).stream] = 0
         /\ \E c \in Callers : calls'[w][c] = r
         /\ \A c \in Callers : calls'[w][c] = r \/ (calls'[w][c] = calls[w][c] /\ ~ Resumes(w, c))
         /\ \A v \in Workers : v # w => calls'[v] = calls[v]
  <1> DEFINE s == First(w).stream
             t == First(w).token
             n == Len(conn[w])
  <1>1. WInv(w) /\ TypeOK /\ ConnType /\ now' \in Nat
    BY TypeGivesConn DEF IInv, TypeOK
  <1>2. /\ s \in Streams /\ t # 0 /\ t \in Nat
        /\ First(w) = conn[w][1] /\ 1 \in 1..n /\ First(w).op = "acquire"
    BY <1>1, FirstType DEF WInv
  <1>3. /\ ConnType'
        /\ \A v \in Workers : v # w => conn'[v] = conn[v]
        /\ result' = [result EXCEPT ![w] = "none"]
        /\ n \in Nat \ {0} /\ Len(conn'[w]) = n - 1
        /\ \A i \in 1..Len(conn'[w]) : i + 1 \in 1..n /\ conn'[w][i] = conn[w][i + 1]
        /\ \A j \in 1..n : j = 1 \/ (j - 1 \in 1..Len(conn'[w]) /\ conn'[w][j - 1] = conn[w][j])
    BY <1>1, ReceiveNothing
  <1>4. IsStmt(w, 1, "acquire", s)
    BY <1>2 DEF IsStmt
  <1>5. /\ sessions[w][s] = "none" /\ lockTokens[w][s] = 0
        /\ \E c \in Callers : calls[w][c].pc = "waiting" /\ calls[w][c].stream = s
        /\ \A j \in 1..n : IsStmt(w, j, "acquire", s) => j = 1
    BY <1>1, <1>2, <1>4 DEF WInv, AcquiresAwaited, SessionsLocked
  <1>6. \A j \in 1..n : ~ IsStmt(w, j, "renew", s)
    <2> SUFFICES ASSUME NEW j \in 1..n, IsStmt(w, j, "renew", s) PROVE FALSE
      OBVIOUS
    <2>1. conn[w][j].token # 0
      BY <1>1 DEF WInv, StatementsKnown, IsStmt
    <2>2. j < 1
      BY <1>1, <1>2, <1>4, <1>5, <2>1 DEF WInv, RenewsCurrent
    <2>3. QED
      BY <1>3, <2>2
  <1> HIDE DEF s, t, n
  <1>7. /\ \A c \in Callers : calls'[w][c] =
              IF calls[w][c].pc = "waiting" /\ calls[w][c].stream = s THEN r ELSE calls[w][c]
        /\ \A v \in Workers : v # w => calls'[v] = calls[v]
        /\ inflight'[w] = inflight[w] \ {s}
        /\ \A v \in Workers : v # w => inflight'[v] = inflight[v]
        /\ inflight' \in [Workers -> SUBSET Streams]
    BY <1>1 DEF TypeOK, s
  <1>8. \A c \in Callers : ~ Resumes(w, c)
    BY DEF Resuming, Resumes
  <1>9. r = Idle \/ r = [pc |-> "resume", stream |-> s, token |-> 0]
          \/ r = [pc |-> "resume", stream |-> s, token |-> t]
    BY DEF s, t
  <1>10. calls' \in [Workers -> [Callers -> [pc : {"idle", "waiting", "resume"},
                                        stream : Streams \cup {None}, token : Nat]]]
    <2>1. r \in [pc : {"idle", "waiting", "resume"}, stream : Streams \cup {None}, token : Nat]
      BY <1>2, <1>9, CallTypes
    <2> DEFINE R == [pc : {"idle", "waiting", "resume"}, stream : Streams \cup {None}, token : Nat]
               f == [c \in Callers |->
                      IF calls[w][c].pc = "waiting" /\ calls[w][c].stream = First(w).stream
                      THEN r ELSE calls[w][c]]
    <2>2. calls \in [Workers -> [Callers -> R]] /\ r \in R
      BY <1>1, <2>1 DEF TypeOK
    <2> HIDE DEF R
    <2>3. f \in [Callers -> R] /\ calls' = [calls EXCEPT ![w] = f]
      BY <2>2
    <2> HIDE DEF f
    <2>4. calls' \in [Workers -> [Callers -> R]]
      BY <2>2, <2>3
    <2>5. QED
      BY <2>4 DEF R
  <1>11. result' \in [Workers -> {"none", "yes", "no"}] /\ result'[w] = "none"
         /\ \A v \in Workers : v # w => result'[v] = result[v]
    BY <1>1, <1>3 DEF TypeOK
  <1>12. TypeOK'
    BY <1>1, <1>3, <1>7, <1>10, <1>11 DEF TypeOK, ConnType
  <1>13. \A v \in Workers : v # w =>
            Untouched(v) /\ mode'[v] = mode[v] /\ result'[v] = result[v]
    BY <1>3, <1>7, <1>11 DEF Untouched
  <1>14. \A i \in 1..Len(conn'[w]) : \A op, x :
            IsStmt(w, i, op, x)' => IsStmt(w, i + 1, op, x) /\ i + 1 \in 1..n /\ i + 1 # 1
    BY <1>3 DEF IsStmt
  <1>15. \A c \in Callers : Resumes(w, c)' => calls'[w][c] = r /\ r.stream = s
    <2>1. r.pc = "resume" => r.stream = s
      BY <1>9 DEF Idle
    <2>2. \A c \in Callers : calls'[w][c].pc = "resume" => calls'[w][c] = r
      BY <1>7, <1>8 DEF Resumes
    <2>3. QED
      BY <2>1, <2>2 DEF Resumes
  <1>16. SessionsLocked(w)' /\ TimersCurrent(w)' /\ NothingAnswered(w)'
    BY <1>1, <1>11 DEF WInv, SessionsLocked, TimersCurrent, NothingAnswered
  <1>17. StatementsKnown(w)'
    <2>1. \A i \in 1..n : conn[w][i].op # "releaseAll" =>
             conn[w][i].stream \in Streams /\ conn[w][i].token # 0
      BY <1>1 DEF WInv, StatementsKnown, n
    <2>2. QED
      BY <1>3, <2>1 DEF StatementsKnown
  <1>18. CallsKnown(w)'
    BY <1>1, <1>2, <1>7, <1>9 DEF WInv, CallsKnown, Idle
  <1>19. ResumesAlike(w)'
    BY <1>5, <1>15 DEF ResumesAlike
  <1>20. DrainedQuiet(w)'
    BY <1>1, <1>7 DEF WInv, DrainedQuiet, Idle
  <1>21. Beating(w)'
    <2> SUFFICES ASSUME NEW x \in Streams, sessions[w][x] # "none",
                        heartbeats[w][x].token # lockTokens[w][x]
                 PROVE  \E i \in 1..Len(conn'[w]) :
                           IsStmt(w, i, "renew", x)' /\ conn'[w][i].token = lockTokens[w][x]
      BY DEF Beating
    <2>1. PICK j \in 1..n : IsStmt(w, j, "renew", x) /\ conn[w][j].token = lockTokens[w][x]
      BY <1>1 DEF WInv, Beating, n
    <2>2. j # 1
      BY <1>2, <2>1 DEF IsStmt
    <2>3. j - 1 \in 1..Len(conn'[w]) /\ conn'[w][j - 1] = conn[w][j]
      BY <1>3, <2>2
    <2>4. QED
      BY <2>1, <2>3 DEF IsStmt
  <1>22. AcquiresAwaited(w)'
    <2> SUFFICES ASSUME NEW i \in 1..Len(conn'[w]), NEW x \in Streams,
                        IsStmt(w, i, "acquire", x)'
                 PROVE  /\ x \in inflight'[w]
                        /\ sessions[w][x] = "none"
                        /\ \E d \in Callers :
                              calls'[w][d].pc = "waiting" /\ calls'[w][d].stream = x
                        /\ \A d \in Callers : Resumes(w, d)' => calls'[w][d].stream # x
                        /\ \A j \in 1..Len(conn'[w]) : IsStmt(w, j, "acquire", x)' => j = i
      BY DEF AcquiresAwaited
    <2>1. IsStmt(w, i + 1, "acquire", x) /\ i + 1 \in 1..n /\ x # s
      BY <1>5, <1>14
    <2>2. /\ x \in inflight[w] /\ sessions[w][x] = "none"
          /\ \E d \in Callers : calls[w][d].pc = "waiting" /\ calls[w][d].stream = x
          /\ \A j \in 1..n : IsStmt(w, j, "acquire", x) => j = i + 1
      BY <1>1, <2>1 DEF WInv, AcquiresAwaited, n
    <2>3. \A j \in 1..Len(conn'[w]) : IsStmt(w, j, "acquire", x)' => j = i
      BY <1>14, <2>2
    <2>4. QED
      BY <1>7, <1>15, <2>1, <2>2, <2>3
  <1>23. RenewsCurrent(w)'
    <2> SUFFICES ASSUME NEW i \in 1..Len(conn'[w]), NEW x \in Streams,
                        IsStmt(w, i, "renew", x)'
                 PROVE  \/ conn'[w][i].token = lockTokens[w][x]
                        \/ /\ lockTokens[w][x] = 0
                           /\ \A d \in Callers : Resumes(w, d)' => calls'[w][d].stream # x
                           /\ \A j \in 1..Len(conn'[w]) : IsStmt(w, j, "acquire", x)' => i < j
      BY DEF RenewsCurrent
    <2>1. /\ IsStmt(w, i + 1, "renew", x) /\ i + 1 \in 1..n /\ x # s
          /\ conn'[w][i] = conn[w][i + 1]
      BY <1>3, <1>6, <1>14
    <2>2. \/ conn[w][i + 1].token = lockTokens[w][x]
          \/ /\ lockTokens[w][x] = 0
             /\ \A j \in 1..n : IsStmt(w, j, "acquire", x) => i + 1 < j
      BY <1>1, <2>1 DEF WInv, RenewsCurrent, n
    <2>3. (\A j \in 1..n : IsStmt(w, j, "acquire", x) => i + 1 < j)
             => \A j \in 1..Len(conn'[w]) : IsStmt(w, j, "acquire", x)' => i < j
      BY <1>14
    <2>4. QED
      BY <1>15, <2>1, <2>2, <2>3
  <1>24. WInv(w)'
    BY <1>16, <1>17, <1>18, <1>19, <1>20, <1>21, <1>22, <1>23 DEF WInv
  <1>25. IInv'
    BY <1>12, <1>13, <1>24, StepKeeps
  <1>26. QED
    BY <1>2, <1>5, <1>7, <1>8, <1>25 DEF s, t

\* While no call resumes: statements are answered or issued, no acquire among
\* the new ones, and sessions may be given up together with their tokens.
LEMMA ClaimsGivenUp ==
  ASSUME TypeOK, NEW w \in Workers, WInv(w), NEW k \in {0, 1},
         \A c \in Callers : ~ Resumes(w, c),
         calls'[w] = calls[w], inflight'[w] = inflight[w],
         \A x \in Streams :
            \/ sessions'[w][x] = sessions[w][x] /\ lockTokens'[w][x] = lockTokens[w][x]
            \/ sessions[w][x] # "none" /\ sessions'[w][x] = "none" /\ lockTokens'[w][x] = 0,
         \A i \in 1..Len(conn'[w]) :
            \/ i + k \in 1..Len(conn[w]) /\ conn'[w][i] = conn[w][i + k]
            \/ /\ conn'[w][i].op # "acquire"
               /\ conn'[w][i].op # "releaseAll" =>
                     conn'[w][i].stream \in Streams /\ conn'[w][i].token # 0
               /\ conn'[w][i].op = "renew" =>
                     conn'[w][i].token = lockTokens'[w][conn'[w][i].stream]
  PROVE  /\ SessionsLocked(w)' /\ StatementsKnown(w)' /\ CallsKnown(w)'
         /\ ResumesAlike(w)' /\ AcquiresAwaited(w)' /\ RenewsCurrent(w)'
  <1>1. SessionsLocked(w)'
    BY DEF WInv, SessionsLocked
  <1>2. StatementsKnown(w)'
    BY DEF WInv, StatementsKnown
  <1>3. CallsKnown(w)' /\ ResumesAlike(w)'
    BY DEF WInv, CallsKnown, ResumesAlike, Resumes
  <1>4. \A i \in 1..Len(conn'[w]), x \in Streams : IsStmt(w, i, "acquire", x)' =>
           i + k \in 1..Len(conn[w]) /\ IsStmt(w, i + k, "acquire", x)
    BY DEF IsStmt
  <1>5. AcquiresAwaited(w)'
    <2> SUFFICES ASSUME NEW i \in 1..Len(conn'[w]), NEW x \in Streams,
                        IsStmt(w, i, "acquire", x)'
                 PROVE  /\ x \in inflight[w]
                        /\ sessions'[w][x] = "none"
                        /\ \E d \in Callers :
                              calls[w][d].pc = "waiting" /\ calls[w][d].stream = x
                        /\ \A j \in 1..Len(conn'[w]) : IsStmt(w, j, "acquire", x)' => j = i
      BY DEF AcquiresAwaited, Resumes
    <2>1. i + k \in 1..Len(conn[w]) /\ IsStmt(w, i + k, "acquire", x)
      BY <1>4
    <2>2. /\ x \in inflight[w] /\ sessions[w][x] = "none"
          /\ \E d \in Callers : calls[w][d].pc = "waiting" /\ calls[w][d].stream = x
          /\ \A j \in 1..Len(conn[w]) : IsStmt(w, j, "acquire", x) => j = i + k
      BY <2>1 DEF WInv, AcquiresAwaited
    <2>3. \A j \in 1..Len(conn'[w]) : IsStmt(w, j, "acquire", x)' => j = i
      <3> TAKE j \in 1..Len(conn'[w])
      <3> HAVE IsStmt(w, j, "acquire", x)'
      <3>1. j + k = i + k
        BY <1>4, <2>2
      <3>2. QED
        BY <3>1
    <2>4. QED
      BY <2>2, <2>3
  <1>6. RenewsCurrent(w)'
    <2> SUFFICES ASSUME NEW i \in 1..Len(conn'[w]), NEW x \in Streams,
                        IsStmt(w, i, "renew", x)'
                 PROVE  \/ conn'[w][i].token = lockTokens'[w][x]
                        \/ /\ lockTokens'[w][x] = 0
                           /\ \A j \in 1..Len(conn'[w]) : IsStmt(w, j, "acquire", x)' => i < j
      BY DEF RenewsCurrent, Resumes
    <2>1. CASE i + k \in 1..Len(conn[w]) /\ conn'[w][i] = conn[w][i + k]
      <3>1. IsStmt(w, i + k, "renew", x)
        BY <2>1 DEF IsStmt
      <3>2. \/ conn[w][i + k].token = lockTokens[w][x]
            \/ /\ lockTokens[w][x] = 0
               /\ \A j \in 1..Len(conn[w]) : IsStmt(w, j, "acquire", x) => i + k < j
        BY <2>1, <3>1 DEF WInv, RenewsCurrent
      <3>3. (\A j \in 1..Len(conn[w]) : IsStmt(w, j, "acquire", x) => i + k < j)
              => \A j \in 1..Len(conn'[w]) : IsStmt(w, j, "acquire", x)' => i < j
        <4> HAVE \A j \in 1..Len(conn[w]) : IsStmt(w, j, "acquire", x) => i + k < j
        <4> TAKE j \in 1..Len(conn'[w])
        <4> HAVE IsStmt(w, j, "acquire", x)'
        <4>1. i + k < j + k
          BY <1>4
        <4>2. QED
          BY <4>1
      <3>4. sessions[w][x] # "none" =>
               \A j \in 1..Len(conn'[w]) : ~ IsStmt(w, j, "acquire", x)'
        BY <1>4 DEF WInv, AcquiresAwaited
      <3>5. QED
        BY <2>1, <3>2, <3>3, <3>4 DEF WInv, SessionsLocked
    <2>2. CASE conn'[w][i].token = lockTokens'[w][conn'[w][i].stream]
      BY <2>2 DEF IsStmt
    <2>3. QED
      BY <2>1, <2>2 DEF IsStmt
  <1>7. QED
    BY <1>1, <1>2, <1>3, <1>5, <1>6

\* Answered statements: a renewal goes on beating where it stood.
LEMMA BeatsShift ==
  ASSUME TypeOK, NEW w \in Workers, WInv(w), NEW k \in {0, 1}, NEW x \in Streams,
         \A j \in 1..Len(conn[w]) :
            (k = 1 /\ j = 1) \/ (j - k \in 1..Len(conn'[w]) /\ conn'[w][j - k] = conn[w][j]),
         sessions[w][x] # "none", lockTokens'[w][x] = lockTokens[w][x],
         \/ heartbeats'[w][x] = heartbeats[w][x]
         \/ heartbeats'[w][x].token = lockTokens[w][x],
         k = 1 /\ IsStmt(w, 1, "renew", x) /\ conn[w][1].token = lockTokens[w][x] =>
            heartbeats'[w][x].token = lockTokens[w][x]
  PROVE  \/ heartbeats'[w][x].token = lockTokens'[w][x]
         \/ \E i \in 1..Len(conn'[w]) :
               IsStmt(w, i, "renew", x)' /\ conn'[w][i].token = lockTokens'[w][x]
  <1>1. CASE heartbeats'[w][x].token # lockTokens[w][x]
    <2>1. PICK j \in 1..Len(conn[w]) :
             IsStmt(w, j, "renew", x) /\ conn[w][j].token = lockTokens[w][x]
      BY <1>1 DEF WInv, Beating
    <2>2. j - k \in 1..Len(conn'[w]) /\ conn'[w][j - k] = conn[w][j]
      BY <1>1, <2>1
    <2>3. QED
      BY <2>1, <2>2 DEF IsStmt
  <1>2. QED
    BY <1>1

LEMMA NobodyResumes ==
  ASSUME NEW w \in Workers, WInv(w), ~ Resuming(w) \/ mode[w] # "up"
  PROVE  \A c \in Callers : ~ Resumes(w, c)
  BY DEF WInv, DrainedQuiet, Resuming, Resumes, Idle

\* renew() returns true or rejects: the timer is armed again, for the claim the
\* renewal was for.
LEMMA RenewEnds ==
  ASSUME IInv, NEW w \in Workers, ~ Resuming(w), conn[w] # <<>>, First(w).op = "renew",
         ScheduleNext(w, First(w).stream, First(w).token), Receive(w, <<>>),
         missed' \in [Workers -> [Streams -> Nat]],
         UNCHANGED <<now, row, lastToken, lost, granted, mode, sessions, lockTokens,
                     inflight, calls, pumps, stopping>>
  PROVE  IInv'
  <1> DEFINE s == First(w).stream
             t == First(w).token
  <1>1. WInv(w) /\ TypeOK /\ ConnType /\ now' \in Nat
    BY TypeGivesConn DEF IInv, TypeOK
  <1>2. /\ s \in Streams /\ t # 0 /\ t \in Nat
        /\ First(w) = conn[w][1] /\ 1 \in 1..Len(conn[w])
    BY <1>1, FirstType DEF WInv
  <1>3. /\ ConnType'
        /\ \A v \in Workers : v # w => conn'[v] = conn[v]
        /\ result' = [result EXCEPT ![w] = "none"]
        /\ \A i \in 1..Len(conn'[w]) : i + 1 \in 1..Len(conn[w]) /\ conn'[w][i] = conn[w][i + 1]
        /\ \A j \in 1..Len(conn[w]) :
              j = 1 \/ (j - 1 \in 1..Len(conn'[w]) /\ conn'[w][j - 1] = conn[w][j])
    BY <1>1, ReceiveNothing
  <1>4. heartbeats' = IF lockTokens[w][s] = t
                      THEN [heartbeats EXCEPT ![w][s] = [token |-> t, due |-> NextBeat]]
                      ELSE heartbeats
    BY DEF ScheduleNext
  <1>5. conn[w][1].stream = s /\ conn[w][1].token = t
    BY <1>2
  <1> HIDE DEF s, t
  <1>6. /\ heartbeats' \in [Workers -> [Streams -> [token : Nat, due : Nat]]]
        /\ \A v \in Workers : v # w => heartbeats'[v] = heartbeats[v]
        /\ \A x \in Streams : \/ heartbeats'[w][x] = heartbeats[w][x]
                              \/ heartbeats'[w][x].token = lockTokens[w][x] /\ lockTokens[w][x] # 0
        /\ lockTokens[w][s] = t => heartbeats'[w][s].token = t
    BY <1>1, <1>2, <1>4, TimerTypes DEF TypeOK
  <1>7. result' \in [Workers -> {"none", "yes", "no"}] /\ result'[w] = "none"
        /\ \A v \in Workers : v # w => result'[v] = result[v]
    BY <1>1, <1>3 DEF TypeOK
  <1>8. TypeOK'
    BY <1>1, <1>3, <1>6, <1>7 DEF TypeOK, ConnType
  <1>9. \A v \in Workers : v # w =>
           Untouched(v) /\ mode'[v] = mode[v] /\ result'[v] = result[v]
    BY <1>3, <1>6, <1>7 DEF Untouched
  <1>10. TimersCurrent(w)'
    BY <1>1, <1>6 DEF WInv, TimersCurrent
  <1>11. Beating(w)'
    <2> SUFFICES ASSUME NEW x \in Streams, sessions[w][x] # "none"
                 PROVE  \/ heartbeats'[w][x].token = lockTokens'[w][x]
                        \/ \E i \in 1..Len(conn'[w]) :
                              IsStmt(w, i, "renew", x)' /\ conn'[w][i].token = lockTokens'[w][x]
      BY DEF Beating
    <2>1. IsStmt(w, 1, "renew", x) /\ conn[w][1].token = lockTokens[w][x] =>
             heartbeats'[w][x].token = lockTokens[w][x]
      BY <1>5, <1>6 DEF IsStmt
    <2>2. \A j \in 1..Len(conn[w]) :
            (1 = 1 /\ j = 1) \/ (j - 1 \in 1..Len(conn'[w]) /\ conn'[w][j - 1] = conn[w][j])
      BY <1>3
    <2>3. \/ heartbeats'[w][x] = heartbeats[w][x]
          \/ heartbeats'[w][x].token = lockTokens[w][x]
      BY <1>6
    <2>4. QED
      BY <1>1, <2>1, <2>2, <2>3, BeatsShift
  <1>12. /\ SessionsLocked(w)' /\ StatementsKnown(w)' /\ CallsKnown(w)'
         /\ ResumesAlike(w)' /\ AcquiresAwaited(w)' /\ RenewsCurrent(w)'
    BY <1>1, <1>3, NobodyResumes, ClaimsGivenUp
  <1>13. DrainedQuiet(w)' /\ NothingAnswered(w)'
    BY <1>1, <1>7 DEF WInv, DrainedQuiet, NothingAnswered
  <1>14. WInv(w)'
    BY <1>10, <1>11, <1>12, <1>13 DEF WInv
  <1>15. QED
    BY <1>8, <1>9, <1>14, StepKeeps

LEMMA RenewReturnsTrueKeeps ==
  ASSUME IInv, NEW w \in Workers, RenewReturnsTrue(w)
  PROVE  IInv'
  <1>1. /\ ~ Resuming(w) /\ conn[w] # <<>> /\ First(w).op = "renew"
        /\ ScheduleNext(w, First(w).stream, First(w).token) /\ Receive(w, <<>>)
        /\ UNCHANGED <<now, row, lastToken, lost, granted, mode, sessions, lockTokens,
                       inflight, calls, pumps, stopping>>
    BY DEF RenewReturnsTrue, Active, Locks!Answered, First
  <1>2. missed' \in [Workers -> [Streams -> Nat]]
    BY DEF RenewReturnsTrue, IInv, TypeOK
  <1>3. QED
    BY <1>1, <1>2, RenewEnds

LEMMA RenewRejectsKeeps ==
  ASSUME IInv, NEW w \in Workers, RenewRejects(w)
  PROVE  IInv'
  <1>1. /\ ~ Resuming(w) /\ conn[w] # <<>> /\ First(w).op = "renew"
        /\ ScheduleNext(w, First(w).stream, First(w).token) /\ Receive(w, <<>>)
        /\ UNCHANGED <<now, row, lastToken, lost, granted, mode, sessions, lockTokens,
                       inflight, calls, pumps, stopping>>
    BY DEF RenewRejects, RetryLater, Active
  <1>2. missed' \in [Workers -> [Streams -> Nat]]
    <2> DEFINE s == First(w).stream
    <2>1. s \in Streams
      BY <1>1, FirstType DEF IInv, WInv
    <2>2. missed' = [missed EXCEPT ![w][s] = missed[w][s] + 1]
      BY DEF RenewRejects
    <2> HIDE DEF s
    <2>3. missed[w][s] + 1 \in Nat
      BY <2>1 DEF IInv, TypeOK
    <2>4. QED
      BY <2>2, <2>3 DEF IInv, TypeOK
  <1>3. QED
    BY <1>1, <1>2, RenewEnds

\* release() or releaseAll() settles.
LEMMA ReleaseSettlesKeeps ==
  ASSUME IInv, NEW w \in Workers, ReleaseSettles(w)
  PROVE  IInv'
  <1>1. WInv(w) /\ TypeOK /\ ConnType /\ now' \in Nat
    BY TypeGivesConn DEF IInv, TypeOK, ReleaseSettles
  <1>2. /\ ~ Resuming(w) /\ conn[w] # <<>> /\ First(w).op # "renew"
        /\ Receive(w, <<>>)
        /\ UNCHANGED <<now, row, lastToken, lost, granted, registry>>
    BY DEF ReleaseSettles, Active
  <1>3. /\ ConnType'
        /\ \A v \in Workers : v # w => conn'[v] = conn[v]
        /\ result' = [result EXCEPT ![w] = "none"]
        /\ \A i \in 1..Len(conn'[w]) : i + 1 \in 1..Len(conn[w]) /\ conn'[w][i] = conn[w][i + 1]
        /\ \A j \in 1..Len(conn[w]) :
              j = 1 \/ (j - 1 \in 1..Len(conn'[w]) /\ conn'[w][j - 1] = conn[w][j])
        /\ First(w) = conn[w][1]
    BY <1>1, <1>2, ReceiveNothing
  <1>4. result' \in [Workers -> {"none", "yes", "no"}] /\ result'[w] = "none"
        /\ \A v \in Workers : v # w => result'[v] = result[v]
    BY <1>1, <1>3 DEF TypeOK
  <1>5. TypeOK'
    BY <1>1, <1>2, <1>3, <1>4 DEF TypeOK, ConnType, registry
  <1>6. \A v \in Workers : v # w =>
           Untouched(v) /\ mode'[v] = mode[v] /\ result'[v] = result[v]
    BY <1>2, <1>3, <1>4 DEF Untouched, registry
  <1>7. Beating(w)'
    <2> SUFFICES ASSUME NEW x \in Streams, sessions[w][x] # "none"
                 PROVE  \/ heartbeats'[w][x].token = lockTokens'[w][x]
                        \/ \E i \in 1..Len(conn'[w]) :
                              IsStmt(w, i, "renew", x)' /\ conn'[w][i].token = lockTokens'[w][x]
      BY <1>2 DEF Beating, registry
    <2>1. ~ IsStmt(w, 1, "renew", x)
      BY <1>2, <1>3 DEF IsStmt
    <2>2. \A j \in 1..Len(conn[w]) :
            (1 = 1 /\ j = 1) \/ (j - 1 \in 1..Len(conn'[w]) /\ conn'[w][j - 1] = conn[w][j])
      BY <1>3
    <2>3. lockTokens' = lockTokens /\ heartbeats' = heartbeats
      BY <1>2 DEF registry
    <2>4. QED
      BY <1>1, <2>1, <2>2, <2>3, BeatsShift
  <1>8. sessions' = sessions /\ lockTokens' = lockTokens /\ calls' = calls /\ inflight' = inflight
    BY <1>2 DEF registry
  <1>9. /\ SessionsLocked(w)' /\ StatementsKnown(w)' /\ CallsKnown(w)'
        /\ ResumesAlike(w)' /\ AcquiresAwaited(w)' /\ RenewsCurrent(w)'
    BY <1>1, <1>2, <1>3, <1>8, NobodyResumes, ClaimsGivenUp
  <1>10. TimersCurrent(w)' /\ DrainedQuiet(w)' /\ NothingAnswered(w)'
    BY <1>1, <1>2, <1>4 DEF WInv, TimersCurrent, DrainedQuiet, NothingAnswered, registry
  <1>11. WInv(w)'
    BY <1>7, <1>9, <1>10 DEF WInv
  <1>12. QED
    BY <1>5, <1>6, <1>11, StepKeeps

\* A session leaves the maps, with its token and its timer.
LEMMA EvictStep ==
  ASSUME TypeOK, NEW w \in Workers, NEW s \in Streams, Evict(w, s)
  PROVE  /\ sessions' \in [Workers -> [Streams -> {"none", "running", "draining"}]]
         /\ lockTokens' \in [Workers -> [Streams -> Nat]]
         /\ heartbeats' \in [Workers -> [Streams -> [token : Nat, due : Nat]]]
         /\ missed' \in [Workers -> [Streams -> Nat]]
         /\ \A v \in Workers : v # w => /\ sessions'[v] = sessions[v]
                                        /\ lockTokens'[v] = lockTokens[v]
                                        /\ heartbeats'[v] = heartbeats[v]
         /\ \A x \in Streams : x # s => /\ sessions'[w][x] = sessions[w][x]
                                        /\ lockTokens'[w][x] = lockTokens[w][x]
                                        /\ heartbeats'[w][x] = heartbeats[w][x]
         /\ sessions'[w][s] = "none" /\ lockTokens'[w][s] = 0 /\ heartbeats'[w][s] = NoTimer
  <1>1. NoTimer \in [token : Nat, due : Nat]
    BY DEF NoTimer
  <1>2. QED
    BY <1>1 DEF Evict, TypeOK

\* renew() returns false: the claim was that of the session, which is failed,
\* or there is no session and no claim.
LEMMA RenewReturnsFalseKeeps ==
  ASSUME IInv, NEW w \in Workers, RenewReturnsFalse(w)
  PROVE  /\ IInv'
         /\ conn[w] # <<>> /\ First(w).op = "renew" /\ result[w] = "no"
         /\ First(w).stream \in Streams
         /\ \A c \in Callers : ~ Resumes(w, c)
         /\ lost' = lost \cup {First(w).token}
         /\ UNCHANGED <<now, row, lastToken, granted, mode, inflight, calls>>
         /\ result' = [result EXCEPT ![w] = "none"]
         /\ \A v \in Workers : v # w => lockTokens'[v] = lockTokens[v]
         /\ \A x \in Streams : x # First(w).stream => lockTokens'[w][x] = lockTokens[w][x]
         /\ lockTokens'[w][First(w).stream] = 0 /\ First(w).token # 0
         /\ \/ /\ lockTokens[w][First(w).stream] = First(w).token
               /\ conn' = [conn EXCEPT ![w] =
                     Tail(conn[w]) \o <<ReleaseStmt(First(w).stream, First(w).token)>>]
            \/ /\ lockTokens[w][First(w).stream] = 0
               /\ conn' = [conn EXCEPT ![w] = Tail(conn[w]) \o <<>>]
  <1> DEFINE s == First(w).stream
             t == First(w).token
  <1>1. /\ ~ Resuming(w) /\ conn[w] # <<>> /\ First(w).op = "renew" /\ result[w] = "no"
        /\ lost' = lost \cup {t}
        /\ UNCHANGED <<now, row, lastToken, granted, mode, inflight, calls, pumps, stopping>>
    BY DEF RenewReturnsFalse, Active, Locks!Answered, First
  <1>2. WInv(w) /\ TypeOK /\ ConnType /\ now' \in Nat
    BY <1>1, TypeGivesConn DEF IInv, TypeOK
  <1>3. /\ s \in Streams /\ t # 0 /\ t \in Nat
        /\ First(w) = conn[w][1] /\ 1 \in 1..Len(conn[w])
    BY <1>1, <1>2, FirstType DEF WInv
  <1>4. \A c \in Callers : ~ Resumes(w, c)
    BY <1>1, <1>2, NobodyResumes
  <1>5. lockTokens[w][s] \in {0, t}
    <2>1. IsStmt(w, 1, "renew", s) /\ conn[w][1].token = t
      BY <1>1, <1>3 DEF IsStmt
    <2>2. QED
      BY <1>2, <1>3, <2>1 DEF WInv, RenewsCurrent
  <1>6. sessions[w][s] = "none" <=> lockTokens[w][s] = 0
    BY <1>2, <1>3 DEF WInv, SessionsLocked
  <1>7. /\ conn[w][1].stream = s /\ conn[w][1].token = t
        /\ lost' \in SUBSET Nat
    BY <1>1, <1>2, <1>3 DEF TypeOK
  <1>8. /\ sessions[w][s] # "none" =>
             Receive(w, <<ReleaseStmt(s, lockTokens[w][s])>>) /\ Evict(w, s)
        /\ sessions[w][s] = "none" =>
             Receive(w, <<>>) /\ UNCHANGED <<sessions, lockTokens, heartbeats, missed>>
    BY DEF RenewReturnsFalse, FailsSession
  <1>9. CASE sessions[w][s] # "none"
    <2>1. lockTokens[w][s] = t
      BY <1>5, <1>6, <1>9
    <2> DEFINE q == ReleaseStmt(s, t)
    <2>2. q \in Locks!Stmts /\ q.op = "release" /\ q.stream = s /\ q.token = t
      <3>1. q \in Locks!Stmts
        BY <1>3, StatementTypes
      <3>2. q.op = "release" /\ q.stream = s /\ q.token = t
        BY DEF ReleaseStmt, Locks!ReleaseStmt
      <3>3. QED
        BY <3>1, <3>2
    <2>3. Receive(w, <<q>>) /\ Evict(w, s)
      BY <1>8, <1>9, <2>1
    <2> HIDE DEF q
    <2>4. /\ ConnType'
          /\ \A v \in Workers : v # w => conn'[v] = conn[v]
          /\ conn' = [conn EXCEPT ![w] = Tail(conn[w]) \o <<q>>]
          /\ result' = [result EXCEPT ![w] = "none"]
          /\ \A i \in 1..Len(conn'[w]) :
                \/ i + 1 \in 1..Len(conn[w]) /\ conn'[w][i] = conn[w][i + 1]
                \/ i = Len(conn[w]) /\ conn'[w][i] = q
          /\ \A j \in 1..Len(conn[w]) :
                j = 1 \/ (j - 1 \in 1..Len(conn'[w]) /\ conn'[w][j - 1] = conn[w][j])
      BY <1>1, <1>2, <2>2, <2>3, ReceiveOne
    <2> HIDE DEF s, t
    <2>5. /\ sessions' \in [Workers -> [Streams -> {"none", "running", "draining"}]]
          /\ lockTokens' \in [Workers -> [Streams -> Nat]]
          /\ heartbeats' \in [Workers -> [Streams -> [token : Nat, due : Nat]]]
          /\ missed' \in [Workers -> [Streams -> Nat]]
          /\ \A v \in Workers : v # w => /\ sessions'[v] = sessions[v]
                                         /\ lockTokens'[v] = lockTokens[v]
                                         /\ heartbeats'[v] = heartbeats[v]
          /\ \A x \in Streams : x # s => /\ sessions'[w][x] = sessions[w][x]
                                         /\ lockTokens'[w][x] = lockTokens[w][x]
                                         /\ heartbeats'[w][x] = heartbeats[w][x]
          /\ sessions'[w][s] = "none" /\ lockTokens'[w][s] = 0 /\ heartbeats'[w][s] = NoTimer
      BY <1>2, <1>3, <2>3, EvictStep
    <2>6. result' \in [Workers -> {"none", "yes", "no"}] /\ result'[w] = "none"
          /\ \A v \in Workers : v # w => result'[v] = result[v]
      BY <1>2, <2>4 DEF TypeOK
    <2>7. TypeOK'
      BY <1>1, <1>2, <1>7, <2>4, <2>5, <2>6 DEF TypeOK, ConnType
    <2>8. \A v \in Workers : v # w =>
             Untouched(v) /\ mode'[v] = mode[v] /\ result'[v] = result[v]
      BY <1>1, <2>4, <2>5, <2>6 DEF Untouched
    <2>9. TimersCurrent(w)'
      BY <1>2, <2>5 DEF WInv, TimersCurrent
    <2>10. Beating(w)'
      <3> SUFFICES ASSUME NEW x \in Streams, sessions'[w][x] # "none"
                   PROVE  \/ heartbeats'[w][x].token = lockTokens'[w][x]
                          \/ \E i \in 1..Len(conn'[w]) :
                                IsStmt(w, i, "renew", x)' /\ conn'[w][i].token = lockTokens'[w][x]
        BY DEF Beating
      <3>1. x # s
        BY <2>5
      <3>2. ~ IsStmt(w, 1, "renew", x)
        BY <1>7, <3>1 DEF IsStmt
      <3>3. \A j \in 1..Len(conn[w]) :
              (1 = 1 /\ j = 1) \/ (j - 1 \in 1..Len(conn'[w]) /\ conn'[w][j - 1] = conn[w][j])
        BY <2>4
      <3>4. /\ sessions[w][x] # "none" /\ lockTokens'[w][x] = lockTokens[w][x]
            /\ heartbeats'[w][x] = heartbeats[w][x]
        BY <2>5, <3>1
      <3>5. QED
        BY <1>2, <3>2, <3>3, <3>4, BeatsShift
    <2>11. /\ SessionsLocked(w)' /\ StatementsKnown(w)' /\ CallsKnown(w)'
           /\ ResumesAlike(w)' /\ AcquiresAwaited(w)' /\ RenewsCurrent(w)'
      <3>1. \A x \in Streams :
               \/ sessions'[w][x] = sessions[w][x] /\ lockTokens'[w][x] = lockTokens[w][x]
               \/ sessions[w][x] # "none" /\ sessions'[w][x] = "none" /\ lockTokens'[w][x] = 0
        BY <1>9, <2>5 DEF s
      <3>2. \A i \in 1..Len(conn'[w]) :
               \/ i + 1 \in 1..Len(conn[w]) /\ conn'[w][i] = conn[w][i + 1]
               \/ /\ conn'[w][i].op # "acquire"
                  /\ conn'[w][i].op # "releaseAll" =>
                        conn'[w][i].stream \in Streams /\ conn'[w][i].token # 0
                  /\ conn'[w][i].op = "renew" =>
                        conn'[w][i].token = lockTokens'[w][conn'[w][i].stream]
        BY <1>3, <2>2, <2>4 DEF s, t
      <3>3. QED
        BY <1>1, <1>2, <1>4, <3>1, <3>2, ClaimsGivenUp
    <2>12. DrainedQuiet(w)' /\ NothingAnswered(w)'
      BY <1>1, <1>2, <2>5, <2>6 DEF WInv, DrainedQuiet, NothingAnswered
    <2>13. WInv(w)'
      BY <2>9, <2>10, <2>11, <2>12 DEF WInv
    <2>14. IInv'
      BY <2>7, <2>8, <2>13, StepKeeps
    <2>15. QED
      BY <1>1, <1>3, <1>4, <2>1, <2>4, <2>5, <2>14 DEF s, t, q
  <1>10. CASE sessions[w][s] = "none"
    <2>1. Receive(w, <<>>) /\ UNCHANGED <<sessions, lockTokens, heartbeats, missed>>
          /\ lockTokens[w][s] = 0
      BY <1>6, <1>8, <1>10
    <2>2. /\ ConnType'
          /\ \A v \in Workers : v # w => conn'[v] = conn[v]
          /\ conn' = [conn EXCEPT ![w] = Tail(conn[w]) \o <<>>]
          /\ result' = [result EXCEPT ![w] = "none"]
          /\ \A i \in 1..Len(conn'[w]) : i + 1 \in 1..Len(conn[w]) /\ conn'[w][i] = conn[w][i + 1]
          /\ \A j \in 1..Len(conn[w]) :
                j = 1 \/ (j - 1 \in 1..Len(conn'[w]) /\ conn'[w][j - 1] = conn[w][j])
      BY <1>1, <1>2, <2>1, ReceiveNothing
    <2>3. result' \in [Workers -> {"none", "yes", "no"}] /\ result'[w] = "none"
          /\ \A v \in Workers : v # w => result'[v] = result[v]
      BY <1>2, <2>2 DEF TypeOK
    <2>4. TypeOK'
      BY <1>1, <1>2, <1>7, <2>1, <2>2, <2>3 DEF TypeOK, ConnType
    <2>5. \A v \in Workers : v # w =>
             Untouched(v) /\ mode'[v] = mode[v] /\ result'[v] = result[v]
      BY <1>1, <2>1, <2>2, <2>3 DEF Untouched
    <2>6. Beating(w)'
      <3> SUFFICES ASSUME NEW x \in Streams, sessions[w][x] # "none"
                   PROVE  \/ heartbeats'[w][x].token = lockTokens'[w][x]
                          \/ \E i \in 1..Len(conn'[w]) :
                                IsStmt(w, i, "renew", x)' /\ conn'[w][i].token = lockTokens'[w][x]
        BY <2>1 DEF Beating
      <3>1. ~ IsStmt(w, 1, "renew", x)
        BY <1>7, <1>10 DEF IsStmt
      <3>2. \A j \in 1..Len(conn[w]) :
              (1 = 1 /\ j = 1) \/ (j - 1 \in 1..Len(conn'[w]) /\ conn'[w][j - 1] = conn[w][j])
        BY <2>2
      <3>3. QED
        BY <1>2, <2>1, <3>1, <3>2, BeatsShift
    <2>7. /\ SessionsLocked(w)' /\ StatementsKnown(w)' /\ CallsKnown(w)'
          /\ ResumesAlike(w)' /\ AcquiresAwaited(w)' /\ RenewsCurrent(w)'
      BY <1>1, <1>2, <1>4, <2>1, <2>2, ClaimsGivenUp
    <2>8. TimersCurrent(w)' /\ DrainedQuiet(w)' /\ NothingAnswered(w)'
      BY <1>1, <1>2, <2>1, <2>3 DEF WInv, TimersCurrent, DrainedQuiet, NothingAnswered
    <2>9. WInv(w)'
      BY <2>6, <2>7, <2>8 DEF WInv
    <2>10. IInv'
      BY <2>4, <2>5, <2>9, StepKeeps
    <2>11. QED
      BY <1>1, <1>3, <1>4, <2>1, <2>2, <2>10
  <1>11. QED
    BY <1>9, <1>10

\* A timer fires: its token is that of the present claim, so a renewal is issued.
LEMMA HeartbeatFiresKeeps ==
  ASSUME IInv, NEW w \in Workers, NEW s \in Streams, HeartbeatFires(w, s)
  PROVE  /\ IInv'
         /\ lockTokens[w][s] \in Nat \ {0} /\ Len(conn[w]) < MaxPending
         /\ \E clock \in Locks!WorkerClock :
               conn' = [conn EXCEPT ![w] = Append(conn[w],
                  [op |-> "renew", stream |-> s, token |-> lockTokens[w][s],
                   expires |-> clock + TTL])]
         /\ UNCHANGED <<now, row, lastToken, result, lost, granted, lockTokens, calls>>
  <1>1. WInv(w) /\ TypeOK /\ ConnType /\ now' \in Nat
    BY TypeGivesConn DEF IInv, TypeOK, HeartbeatFires
  <1>2. /\ ~ Resuming(w) /\ heartbeats[w][s] # NoTimer
        /\ heartbeats' = [heartbeats EXCEPT ![w][s] = NoTimer]
        /\ UNCHANGED <<now, row, lastToken, result, lost, granted, mode, sessions,
                       lockTokens, inflight, calls, pumps, stopping, missed>>
    BY DEF HeartbeatFires, Active, Due
  <1>3. heartbeats[w][s].token = lockTokens[w][s] /\ lockTokens[w][s] \in Nat \ {0}
    BY <1>1, <1>2 DEF WInv, TimersCurrent, TypeOK
  <1>4. PICK clock \in Locks!WorkerClock :
           Send(w, <<[op |-> "renew", stream |-> s, token |-> lockTokens[w][s],
                      expires |-> clock + TTL]>>)
    BY <1>3 DEF HeartbeatFires
  <1> DEFINE q == [op |-> "renew", stream |-> s, token |-> lockTokens[w][s],
                   expires |-> clock + TTL]
  <1>5. q \in Locks!Stmts
    BY <1>1, <1>3, ClockTypes, StatementTypes
  <1>6. q.op = "renew" /\ q.stream = s /\ q.token = lockTokens[w][s] /\ Send(w, <<q>>)
    BY <1>4
  <1> HIDE DEF q
  <1>7. /\ ConnType'
        /\ \A v \in Workers : v # w => conn'[v] = conn[v]
        /\ conn' = [conn EXCEPT ![w] = Append(conn[w], q)]
        /\ Len(conn[w]) \in Nat /\ Len(conn[w]) < MaxPending
        /\ Len(conn'[w]) = Len(conn[w]) + 1
        /\ \A i \in 1..Len(conn[w]) : i \in 1..Len(conn'[w]) /\ conn'[w][i] = conn[w][i]
        /\ conn'[w][Len(conn[w]) + 1] = q
        /\ conn'[w] # <<>>
    BY <1>1, <1>5, <1>6, SendOne
  <1>8. /\ heartbeats' \in [Workers -> [Streams -> [token : Nat, due : Nat]]]
        /\ \A v \in Workers : v # w => heartbeats'[v] = heartbeats[v]
        /\ \A x \in Streams : x # s => heartbeats'[w][x] = heartbeats[w][x]
        /\ heartbeats'[w][s] = NoTimer
    BY <1>1, <1>2, TimerTypes DEF TypeOK
  <1>9. TypeOK'
    BY <1>1, <1>2, <1>7, <1>8 DEF TypeOK, ConnType
  <1>10. \A v \in Workers : v # w =>
            Untouched(v) /\ mode'[v] = mode[v] /\ result'[v] = result[v]
    BY <1>2, <1>7, <1>8 DEF Untouched
  <1>11. TimersCurrent(w)'
    BY <1>1, <1>2, <1>8 DEF WInv, TimersCurrent
  <1> DEFINE n == Len(conn[w])
  <1>12. /\ n \in Nat /\ Len(conn'[w]) = n + 1 /\ conn'[w][n + 1] = q
         /\ \A i \in 1..n : i \in 1..Len(conn'[w]) /\ conn'[w][i] = conn[w][i]
    BY <1>7
  <1> HIDE DEF n
  <1>13. Beating(w)'
    <2> SUFFICES ASSUME NEW x \in Streams, sessions[w][x] # "none"
                 PROVE  \/ heartbeats'[w][x].token = lockTokens'[w][x]
                        \/ \E i \in 1..Len(conn'[w]) :
                              IsStmt(w, i, "renew", x)' /\ conn'[w][i].token = lockTokens'[w][x]
      BY <1>2 DEF Beating
    <2>1. CASE x = s
      <3>1. n + 1 \in 1..Len(conn'[w])
        BY <1>12
      <3>2. QED
        BY <1>2, <1>6, <1>12, <2>1, <3>1 DEF IsStmt
    <2>2. CASE x # s /\ heartbeats[w][x].token = lockTokens[w][x]
      BY <1>2, <1>8, <2>2
    <2>3. CASE \E j \in 1..n : IsStmt(w, j, "renew", x) /\ conn[w][j].token = lockTokens[w][x]
      BY <1>2, <1>12, <2>3 DEF IsStmt
    <2>4. QED
      BY <1>1, <2>1, <2>2, <2>3 DEF WInv, Beating, n
  <1>14. /\ SessionsLocked(w)' /\ StatementsKnown(w)' /\ CallsKnown(w)'
         /\ ResumesAlike(w)' /\ AcquiresAwaited(w)' /\ RenewsCurrent(w)'
    <2>1. \A i \in 1..Len(conn'[w]) :
             \/ i + 0 \in 1..n /\ conn'[w][i] = conn[w][i + 0]
             \/ conn'[w][i] = q
      BY <1>12
    <2>2. \A i \in 1..Len(conn'[w]) :
             \/ i + 0 \in 1..Len(conn[w]) /\ conn'[w][i] = conn[w][i + 0]
             \/ /\ conn'[w][i].op # "acquire"
                /\ conn'[w][i].op # "releaseAll" =>
                      conn'[w][i].stream \in Streams /\ conn'[w][i].token # 0
                /\ conn'[w][i].op = "renew" =>
                      conn'[w][i].token = lockTokens'[w][conn'[w][i].stream]
      BY <1>2, <1>3, <1>6, <2>1 DEF n
    <2>3. QED
      BY <1>1, <1>2, <2>2, NobodyResumes, ClaimsGivenUp
  <1>15. DrainedQuiet(w)' /\ NothingAnswered(w)'
    BY <1>1, <1>2, <1>7 DEF WInv, DrainedQuiet, NothingAnswered
  <1>16. WInv(w)'
    BY <1>11, <1>13, <1>14, <1>15 DEF WInv
  <1>17. IInv'
    BY <1>9, <1>10, <1>16, StepKeeps
  <1>18. QED
    BY <1>2, <1>3, <1>7, <1>17 DEF q

\* stop() ends: the session's token is given up and released.
LEMMA StopEndsKeeps ==
  ASSUME IInv, NEW w \in Workers, NEW s \in Streams, StopEnds(w, s)
  PROVE  /\ IInv'
         /\ lockTokens[w][s] \in Nat \ {0} /\ Len(conn[w]) < MaxPending
         /\ conn' = [conn EXCEPT ![w] = Append(conn[w], ReleaseStmt(s, lockTokens[w][s]))]
         /\ UNCHANGED <<now, row, lastToken, result, lost, granted, calls>>
         /\ \A c \in Callers : ~ Resumes(w, c)
         /\ \A v \in Workers : v # w => lockTokens'[v] = lockTokens[v]
         /\ \A x \in Streams : x # s => lockTokens'[w][x] = lockTokens[w][x]
         /\ lockTokens'[w][s] = 0
  <1>1. WInv(w) /\ TypeOK /\ ConnType /\ now' \in Nat
    BY TypeGivesConn DEF IInv, TypeOK, StopEnds
  <1>2. /\ mode[w] = "draining" /\ sessions[w][s] # "none"
        /\ Evict(w, s) /\ Send(w, <<ReleaseStmt(s, lockTokens[w][s])>>)
        /\ UNCHANGED <<now, row, lastToken, result, lost, granted, mode, inflight,
                       calls, pumps, stopping>>
    BY DEF StopEnds
  <1>3. lockTokens[w][s] \in Nat \ {0}
    BY <1>1, <1>2 DEF WInv, SessionsLocked, TypeOK
  <1>4. \A c \in Callers : ~ Resumes(w, c)
    BY <1>1, <1>2, NobodyResumes
  <1> DEFINE q == ReleaseStmt(s, lockTokens[w][s])
  <1>5. q \in Locks!Stmts
    BY <1>3, StatementTypes
  <1>6. q.op = "release" /\ q.stream = s /\ q.token = lockTokens[w][s]
    BY DEF ReleaseStmt, Locks!ReleaseStmt
  <1>7. Send(w, <<q>>)
    BY <1>2
  <1> HIDE DEF q
  <1>8. /\ ConnType'
        /\ \A v \in Workers : v # w => conn'[v] = conn[v]
        /\ conn' = [conn EXCEPT ![w] = Append(conn[w], q)]
        /\ Len(conn[w]) \in Nat /\ Len(conn[w]) < MaxPending
        /\ Len(conn'[w]) = Len(conn[w]) + 1
        /\ \A i \in 1..Len(conn[w]) : i \in 1..Len(conn'[w]) /\ conn'[w][i] = conn[w][i]
        /\ conn'[w][Len(conn[w]) + 1] = q
        /\ conn'[w] # <<>>
    BY <1>1, <1>5, <1>7, SendOne
  <1>9. /\ sessions' \in [Workers -> [Streams -> {"none", "running", "draining"}]]
        /\ lockTokens' \in [Workers -> [Streams -> Nat]]
        /\ heartbeats' \in [Workers -> [Streams -> [token : Nat, due : Nat]]]
        /\ missed' \in [Workers -> [Streams -> Nat]]
        /\ \A v \in Workers : v # w => /\ sessions'[v] = sessions[v]
                                       /\ lockTokens'[v] = lockTokens[v]
                                       /\ heartbeats'[v] = heartbeats[v]
        /\ \A x \in Streams : x # s => /\ sessions'[w][x] = sessions[w][x]
                                       /\ lockTokens'[w][x] = lockTokens[w][x]
                                       /\ heartbeats'[w][x] = heartbeats[w][x]
        /\ sessions'[w][s] = "none" /\ lockTokens'[w][s] = 0 /\ heartbeats'[w][s] = NoTimer
    BY <1>1, <1>2, EvictStep
  <1>10. TypeOK'
    BY <1>1, <1>2, <1>8, <1>9 DEF TypeOK, ConnType
  <1>11. \A v \in Workers : v # w =>
            Untouched(v) /\ mode'[v] = mode[v] /\ result'[v] = result[v]
    BY <1>2, <1>8, <1>9 DEF Untouched
  <1>12. TimersCurrent(w)'
    BY <1>1, <1>9 DEF WInv, TimersCurrent
  <1>13. \A x \in Streams : sessions'[w][x] # "none" => x # s
    BY <1>9
  <1>14. Beating(w)'
    <2> SUFFICES ASSUME NEW x \in Streams, sessions'[w][x] # "none"
                 PROVE  \/ heartbeats'[w][x].token = lockTokens'[w][x]
                        \/ \E i \in 1..Len(conn'[w]) :
                              IsStmt(w, i, "renew", x)' /\ conn'[w][i].token = lockTokens'[w][x]
      BY DEF Beating
    <2>1. /\ sessions[w][x] # "none" /\ lockTokens'[w][x] = lockTokens[w][x]
          /\ heartbeats'[w][x] = heartbeats[w][x]
      BY <1>9, <1>13
    <2>2. \A j \in 1..Len(conn[w]) :
            (0 = 1 /\ j = 1) \/ (j - 0 \in 1..Len(conn'[w]) /\ conn'[w][j - 0] = conn[w][j])
      BY <1>8
    <2>3. QED
      BY <1>1, <2>1, <2>2, BeatsShift
  <1> DEFINE n == Len(conn[w])
  <1>15. /\ n \in Nat /\ Len(conn'[w]) = n + 1 /\ conn'[w][n + 1] = q
         /\ \A i \in 1..n : i \in 1..Len(conn'[w]) /\ conn'[w][i] = conn[w][i]
    BY <1>8
  <1> HIDE DEF n
  <1>16. /\ SessionsLocked(w)' /\ StatementsKnown(w)' /\ CallsKnown(w)'
         /\ ResumesAlike(w)' /\ AcquiresAwaited(w)' /\ RenewsCurrent(w)'
    <2>1. \A i \in 1..Len(conn'[w]) :
             \/ i + 0 \in 1..n /\ conn'[w][i] = conn[w][i + 0]
             \/ conn'[w][i] = q
      BY <1>15
    <2>2. \A i \in 1..Len(conn'[w]) :
             \/ i + 0 \in 1..Len(conn[w]) /\ conn'[w][i] = conn[w][i + 0]
             \/ /\ conn'[w][i].op # "acquire"
                /\ conn'[w][i].op # "releaseAll" =>
                      conn'[w][i].stream \in Streams /\ conn'[w][i].token # 0
                /\ conn'[w][i].op = "renew" =>
                      conn'[w][i].token = lockTokens'[w][conn'[w][i].stream]
      BY <1>3, <1>6, <2>1 DEF n
    <2>3. \A x \in Streams :
             \/ sessions'[w][x] = sessions[w][x] /\ lockTokens'[w][x] = lockTokens[w][x]
             \/ sessions[w][x] # "none" /\ sessions'[w][x] = "none" /\ lockTokens'[w][x] = 0
      BY <1>2, <1>9
    <2>4. QED
      BY <1>1, <1>2, <1>4, <2>2, <2>3, ClaimsGivenUp
  <1>17. DrainedQuiet(w)' /\ NothingAnswered(w)'
    BY <1>1, <1>2, <1>8 DEF WInv, DrainedQuiet, NothingAnswered
  <1>18. WInv(w)'
    BY <1>12, <1>14, <1>16, <1>17 DEF WInv
  <1>19. IInv'
    BY <1>10, <1>11, <1>18, StepKeeps
  <1>20. QED
    BY <1>2, <1>3, <1>4, <1>8, <1>9, <1>19 DEF q

\* drainAll() and the hooks after it issue releaseAll() when no session is left.
LEMMA ReleasesAll ==
  ASSUME IInv, NEW w \in Workers, mode[w] # "up",
         \A s \in Streams : sessions[w][s] = "none",
         mode' \in [Workers -> {"up", "draining", "drained", "releasing", "closing", "down"}],
         mode'[w] # "up", \A v \in Workers : v # w => mode'[v] = mode[v],
         stopping' \in [Workers -> SUBSET (Streams \X Nat)],
         Send(w, <<ReleaseAllStmt>>),
         UNCHANGED <<now, row, lastToken, result, lost, granted, sessions, lockTokens,
                     heartbeats, inflight, calls, pumps, missed>>
  PROVE  /\ IInv'
         /\ Len(conn[w]) < MaxPending
         /\ conn' = [conn EXCEPT ![w] = Append(conn[w], ReleaseAllStmt)]
         /\ \A i \in 1..Len(conn[w]) : conn[w][i].op # "acquire"
         /\ \A c \in Callers : ~ Resumes(w, c)
         /\ \A s \in Streams : lockTokens[w][s] = 0
  <1>1. WInv(w) /\ TypeOK /\ ConnType /\ now' \in Nat
    BY TypeGivesConn DEF IInv, TypeOK
  <1>2. \A c \in Callers : ~ Resumes(w, c) /\ calls[w][c] = Idle
    BY <1>1, NobodyResumes DEF WInv, DrainedQuiet
  <1>3. \A s \in Streams : lockTokens[w][s] = 0
    BY <1>1 DEF WInv, SessionsLocked
  <1>4. \A i \in 1..Len(conn[w]) : conn[w][i].op # "acquire"
    <2> SUFFICES ASSUME NEW i \in 1..Len(conn[w]), conn[w][i].op = "acquire" PROVE FALSE
      OBVIOUS
    <2>1. conn[w][i].stream \in Streams
      BY <1>1 DEF WInv, StatementsKnown
    <2>2. \E c \in Callers : calls[w][c].pc = "waiting"
      BY <1>1, <2>1 DEF WInv, AcquiresAwaited, IsStmt
    <2>3. QED
      BY <1>2, <2>2 DEF Idle
  <1> DEFINE q == ReleaseAllStmt
  <1>5. q \in Locks!Stmts
    BY StatementTypes
  <1>6. q.op = "releaseAll"
    BY DEF ReleaseAllStmt
  <1>7. Send(w, <<q>>)
    OBVIOUS
  <1> HIDE DEF q
  <1>8. /\ ConnType'
        /\ \A v \in Workers : v # w => conn'[v] = conn[v]
        /\ conn' = [conn EXCEPT ![w] = Append(conn[w], q)]
        /\ Len(conn[w]) \in Nat /\ Len(conn[w]) < MaxPending
        /\ Len(conn'[w]) = Len(conn[w]) + 1
        /\ \A i \in 1..Len(conn[w]) : i \in 1..Len(conn'[w]) /\ conn'[w][i] = conn[w][i]
        /\ conn'[w][Len(conn[w]) + 1] = q
        /\ conn'[w] # <<>>
    BY <1>1, <1>5, <1>7, SendOne
  <1>9. TypeOK'
    BY <1>1, <1>8 DEF TypeOK, ConnType
  <1>10. \A v \in Workers : v # w =>
            Untouched(v) /\ mode'[v] = mode[v] /\ result'[v] = result[v]
    BY <1>8 DEF Untouched
  <1> DEFINE n == Len(conn[w])
  <1>11. /\ n \in Nat /\ Len(conn'[w]) = n + 1 /\ conn'[w][n + 1] = q
         /\ \A i \in 1..n : i \in 1..Len(conn'[w]) /\ conn'[w][i] = conn[w][i]
    BY <1>8
  <1> HIDE DEF n
  <1>12. /\ SessionsLocked(w)' /\ StatementsKnown(w)' /\ CallsKnown(w)'
         /\ ResumesAlike(w)' /\ AcquiresAwaited(w)' /\ RenewsCurrent(w)'
    <2>1. \A i \in 1..Len(conn'[w]) :
             \/ i + 0 \in 1..n /\ conn'[w][i] = conn[w][i + 0]
             \/ conn'[w][i] = q
      BY <1>11
    <2>2. \A i \in 1..Len(conn'[w]) :
             \/ i + 0 \in 1..Len(conn[w]) /\ conn'[w][i] = conn[w][i + 0]
             \/ /\ conn'[w][i].op # "acquire"
                /\ conn'[w][i].op # "releaseAll" =>
                      conn'[w][i].stream \in Streams /\ conn'[w][i].token # 0
                /\ conn'[w][i].op = "renew" =>
                      conn'[w][i].token = lockTokens'[w][conn'[w][i].stream]
      BY <1>6, <2>1 DEF n
    <2>3. QED
      BY <1>1, <1>2, <2>2, ClaimsGivenUp
  <1>13. TimersCurrent(w)' /\ Beating(w)'
    BY <1>1 DEF WInv, TimersCurrent, Beating
  <1>14. DrainedQuiet(w)' /\ NothingAnswered(w)'
    BY <1>1, <1>2, <1>8 DEF DrainedQuiet, NothingAnswered
  <1>15. WInv(w)'
    BY <1>12, <1>13, <1>14 DEF WInv
  <1>16. IInv'
    BY <1>9, <1>10, <1>15, StepKeeps
  <1>17. QED
    BY <1>2, <1>3, <1>4, <1>8, <1>16 DEF q

LEMMA DrainReleasesAllKeeps ==
  ASSUME IInv, NEW w \in Workers, DrainReleasesAll(w)
  PROVE  /\ IInv'
         /\ Len(conn[w]) < MaxPending
         /\ conn' = [conn EXCEPT ![w] = Append(conn[w], ReleaseAllStmt)]
         /\ \A i \in 1..Len(conn[w]) : conn[w][i].op # "acquire"
         /\ \A c \in Callers : ~ Resumes(w, c)
         /\ \A s \in Streams : lockTokens[w][s] = 0
         /\ UNCHANGED <<now, row, lastToken, result, lost, granted, lockTokens, calls>>
  <1>1. /\ mode[w] # "up" /\ \A s \in Streams : sessions[w][s] = "none"
        /\ Send(w, <<ReleaseAllStmt>>)
        /\ UNCHANGED <<now, row, lastToken, result, lost, granted, sessions, lockTokens,
                       heartbeats, inflight, calls, pumps, missed>>
    BY DEF DrainReleasesAll
  <1>2. /\ mode' \in [Workers -> {"up", "draining", "drained", "releasing", "closing", "down"}]
        /\ mode'[w] # "up" /\ \A v \in Workers : v # w => mode'[v] = mode[v]
        /\ stopping' \in [Workers -> SUBSET (Streams \X Nat)]
    BY DEF DrainReleasesAll, IInv, TypeOK
  <1>3. QED
    BY <1>1, <1>2, ReleasesAll

LEMMA ReleasesAgainKeeps ==
  ASSUME IInv, NEW w \in Workers, ReleasesAgain(w)
  PROVE  /\ IInv'
         /\ Len(conn[w]) < MaxPending
         /\ conn' = [conn EXCEPT ![w] = Append(conn[w], ReleaseAllStmt)]
         /\ \A i \in 1..Len(conn[w]) : conn[w][i].op # "acquire"
         /\ \A c \in Callers : ~ Resumes(w, c)
         /\ \A s \in Streams : lockTokens[w][s] = 0
         /\ UNCHANGED <<now, row, lastToken, result, lost, granted, lockTokens, calls>>
  <1>1. /\ mode[w] \in DOMAIN NextPhase
        /\ mode' = [mode EXCEPT ![w] = NextPhase[mode[w]]]
        /\ Send(w, <<ReleaseAllStmt>>)
        /\ UNCHANGED <<now, row, lastToken, result, lost, granted, sessions, lockTokens,
                       heartbeats, inflight, calls, pumps, stopping, missed>>
    BY DEF ReleasesAgain
  <1>2. mode[w] \in {"drained", "releasing"} /\ NextPhase[mode[w]] \in {"releasing", "closing"}
    BY <1>1 DEF NextPhase
  <1>3. \A s \in Streams : sessions[w][s] = "none"
    BY <1>2 DEF IInv, WInv, DrainedQuiet
  <1>4. /\ mode' \in [Workers -> {"up", "draining", "drained", "releasing", "closing", "down"}]
        /\ mode'[w] # "up" /\ \A v \in Workers : v # w => mode'[v] = mode[v]
        /\ stopping' \in [Workers -> SUBSET (Streams \X Nat)]
    BY <1>1, <1>2 DEF IInv, TypeOK
  <1>5. QED
    BY <1>1, <1>2, <1>3, <1>4, ReleasesAll

\* The process is gone: it is left with nothing.
LEMMA GoneKeeps ==
  ASSUME IInv, NEW w \in Workers, Gone(w)
  PROVE  /\ IInv'
         /\ conn' = [conn EXCEPT ![w] = <<>>] /\ result' = [result EXCEPT ![w] = "none"]
         /\ UNCHANGED <<now, row, lastToken, lost, granted>>
         /\ \A s \in Streams : lockTokens'[w][s] = 0
         /\ \A c \in Callers : ~ Resumes(w, c)'
         /\ \A v \in Workers : v # w => lockTokens'[v] = lockTokens[v] /\ calls'[v] = calls[v]
  <1>1. TypeOK
    BY DEF IInv
  <1>2. <<>> \in Seq(Locks!Stmts) /\ <<>> \in Seq(Nat) /\ Len(<<>>) = 0
    OBVIOUS
  <1>3. /\ conn' = [conn EXCEPT ![w] = <<>>]
        /\ sentAt' = [sentAt EXCEPT ![w] = <<>>]
        /\ result' = [result EXCEPT ![w] = "none"]
        /\ UNCHANGED <<now, row, lastToken, lost, granted>>
    BY DEF Gone
  <1>4. /\ conn' \in [Workers -> Seq(Locks!Stmts)]
        /\ sentAt' \in [Workers -> Seq(Nat)]
        /\ \A v \in Workers : Len(sentAt'[v]) = Len(conn'[v])
        /\ result' \in [Workers -> {"none", "yes", "no"}]
        /\ conn'[w] = <<>> /\ result'[w] = "none"
        /\ \A v \in Workers : v # w => conn'[v] = conn[v] /\ result'[v] = result[v]
    BY <1>1, <1>2, <1>3 DEF TypeOK
  <1>5. /\ mode' \in [Workers -> {"up", "draining", "drained", "releasing", "closing", "down"}]
        /\ sessions' \in [Workers -> [Streams -> {"none", "running", "draining"}]]
        /\ lockTokens' \in [Workers -> [Streams -> Nat]]
        /\ inflight' \in [Workers -> SUBSET Streams]
        /\ pumps' \in [Workers -> SUBSET (Streams \X Nat)]
        /\ stopping' \in [Workers -> SUBSET (Streams \X Nat)]
        /\ missed' \in [Workers -> [Streams -> Nat]]
    BY <1>1 DEF TypeOK, Gone
  <1>6. heartbeats' \in [Workers -> [Streams -> [token : Nat, due : Nat]]]
        /\ calls' \in [Workers -> [Callers -> [pc : {"idle", "waiting", "resume"},
                                        stream : Streams \cup {None}, token : Nat]]]
    <2>1. [s \in Streams |-> NoTimer] \in [Streams -> [token : Nat, due : Nat]]
      BY <1>1, TimerTypes
    <2>2. [c \in Callers |-> Idle] \in [Callers -> [pc : {"idle", "waiting", "resume"},
                                        stream : Streams \cup {None}, token : Nat]]
      BY CallTypes
    <2>3. QED
      BY <1>1, <2>1, <2>2 DEF TypeOK, Gone
  <1>7. TypeOK'
    BY <1>1, <1>3, <1>4, <1>5, <1>6 DEF TypeOK
  <1>8. /\ sessions'[w] = [s \in Streams |-> "none"] /\ lockTokens'[w] = [s \in Streams |-> 0]
        /\ heartbeats'[w] = [s \in Streams |-> NoTimer]
        /\ calls'[w] = [c \in Callers |-> Idle]
        /\ \A v \in Workers : v # w =>
              /\ sessions'[v] = sessions[v] /\ lockTokens'[v] = lockTokens[v]
              /\ heartbeats'[v] = heartbeats[v] /\ calls'[v] = calls[v]
              /\ inflight'[v] = inflight[v] /\ mode'[v] = mode[v]
    BY <1>1 DEF TypeOK, Gone
  <1>9. \A v \in Workers : v # w =>
           Untouched(v) /\ mode'[v] = mode[v] /\ result'[v] = result[v]
    BY <1>4, <1>8 DEF Untouched
  <1>10. WInv(w)'
    <2>1. \A i \in 1..Len(conn'[w]) : FALSE
      BY <1>4
    <2>2. /\ \A s \in Streams : /\ sessions'[w][s] = "none" /\ lockTokens'[w][s] = 0
                                /\ heartbeats'[w][s] = NoTimer
          /\ \A c \in Callers : calls'[w][c] = Idle
      BY <1>8
    <2>3. SessionsLocked(w)' /\ TimersCurrent(w)' /\ Beating(w)'
      BY <2>2 DEF SessionsLocked, TimersCurrent, Beating
    <2>4. StatementsKnown(w)' /\ AcquiresAwaited(w)' /\ RenewsCurrent(w)'
      BY <2>1 DEF StatementsKnown, AcquiresAwaited, RenewsCurrent
    <2>5. CallsKnown(w)' /\ ResumesAlike(w)'
      BY <2>2 DEF CallsKnown, ResumesAlike, Resumes, Idle
    <2>6. DrainedQuiet(w)' /\ NothingAnswered(w)'
      BY <1>4, <2>2 DEF DrainedQuiet, NothingAnswered
    <2>7. QED
      BY <2>3, <2>4, <2>5, <2>6 DEF WInv
  <1>11. IInv'
    BY <1>7, <1>9, <1>10, StepKeeps DEF IInv
  <1>12. QED
    BY <1>3, <1>8, <1>11 DEF Resumes, Idle

-----------------------------------------------------------------------------
(* Every step *)

LEMMA InitInv == Init => IInv
  <1> SUFFICES ASSUME Init PROVE IInv
    OBVIOUS
  <1>1. /\ \A w \in Workers : conn[w] = <<>> /\ sentAt[w] = <<>> /\ result[w] = "none"
        /\ \A w \in Workers : \A s \in Streams :
              /\ sessions[w][s] = "none" /\ lockTokens[w][s] = 0
              /\ heartbeats[w][s] = NoTimer
        /\ \A w \in Workers : \A c \in Callers : calls[w][c] = Idle
        /\ \A w \in Workers : mode[w] = "up"
    BY DEF Init
  <1>2. TypeOK
    <2>1. Locks!NoRow \in Locks!Rows
      BY DEF Locks!NoRow, Locks!Rows
    <2>2. row \in [Streams -> Locks!Rows]
      BY <2>1 DEF Init
    <2>3. /\ conn \in [Workers -> Seq(Locks!Stmts)] /\ sentAt \in [Workers -> Seq(Nat)]
          /\ \A w \in Workers : Len(sentAt[w]) = Len(conn[w])
      BY <1>1 DEF Init
    <2>4. NoTimer \in [token : Nat, due : Nat]
      BY DEF NoTimer
    <2>5. heartbeats \in [Workers -> [Streams -> [token : Nat, due : Nat]]]
      BY <2>4 DEF Init
    <2>6. calls \in [Workers -> [Callers -> [pc : {"idle", "waiting", "resume"},
                                        stream : Streams \cup {None}, token : Nat]]]
      BY CallTypes DEF Init
    <2>7. QED
      BY <2>2, <2>3, <2>5, <2>6 DEF Init, TypeOK
  <1>3. ASSUME NEW w \in Workers PROVE WInv(w)
    <2>1. \A i \in 1..Len(conn[w]) : FALSE
      BY <1>1
    <2>2. SessionsLocked(w) /\ TimersCurrent(w) /\ Beating(w)
      BY <1>1 DEF SessionsLocked, TimersCurrent, Beating
    <2>3. StatementsKnown(w) /\ AcquiresAwaited(w) /\ RenewsCurrent(w)
      BY <2>1 DEF StatementsKnown, AcquiresAwaited, RenewsCurrent
    <2>4. CallsKnown(w) /\ ResumesAlike(w)
      BY <1>1 DEF CallsKnown, ResumesAlike, Resumes, Idle
    <2>5. DrainedQuiet(w) /\ NothingAnswered(w)
      BY <1>1 DEF DrainedQuiet, NothingAnswered
    <2>6. QED
      BY <2>2, <2>3, <2>4, <2>5 DEF WInv
  <1>4. QED
    BY <1>2, <1>3 DEF IInv

\* The two continuations of an acquire are instances of AcquireEnds.
LEMMA AcquireSettlesKeeps ==
  ASSUME IInv, NEW w \in Workers, AcquireSettles(w)
  PROVE  /\ IInv'
         /\ conn[w] # <<>> /\ First(w).op = "acquire" /\ result[w] \in {"yes", "no"}
         /\ First(w).stream \in Streams /\ First(w).token # 0
         /\ \A c \in Callers : ~ Resumes(w, c)
         /\ \E c \in Callers : Resumes(w, c)'
         /\ \A c \in Callers : Resumes(w, c)' =>
               calls'[w][c] = [pc |-> "resume", stream |-> First(w).stream,
                               token |-> IF result[w] = "yes" THEN First(w).token ELSE 0]
         /\ \A v \in Workers : v # w => calls'[v] = calls[v]
         /\ conn' = [conn EXCEPT ![w] = Tail(conn[w]) \o <<>>]
         /\ result' = [result EXCEPT ![w] = "none"]
         /\ UNCHANGED <<now, row, lastToken, lost, granted, lockTokens>>
  <1> DEFINE r == [pc |-> "resume", stream |-> First(w).stream,
                   token |-> IF result[w] = "yes" THEN First(w).token ELSE 0]
  <1>1. /\ ~ Resuming(w) /\ mode[w] # "down"
        /\ conn[w] # <<>> /\ First(w).op = "acquire" /\ result[w] \in {"yes", "no"}
        /\ inflight' = [inflight EXCEPT ![w] = inflight[w] \ {First(w).stream}]
        /\ Receive(w, <<>>)
        /\ UNCHANGED <<now, row, lastToken, lost, granted, mode, sessions, lockTokens,
                       heartbeats, pumps, stopping, missed>>
    BY DEF AcquireSettles, Active, Locks!Answered, First
  <1>2. calls' = [calls EXCEPT ![w] = [c \in Callers |->
            IF calls[w][c].pc = "waiting" /\ calls[w][c].stream = First(w).stream
            THEN r ELSE calls[w][c]]]
    BY DEF AcquireSettles
  <1>3. \/ r = Idle
        \/ r = [pc |-> "resume", stream |-> First(w).stream, token |-> 0]
        \/ r = [pc |-> "resume", stream |-> First(w).stream, token |-> First(w).token]
    BY <1>1
  <1>4. r.pc = "resume"
    OBVIOUS
  <1> HIDE DEF r
  <1>5. /\ IInv'
        /\ First(w).stream \in Streams /\ First(w).token # 0
        /\ \E c \in Callers : calls'[w][c] = r
        /\ \A c \in Callers : calls'[w][c] = r \/ (calls'[w][c] = calls[w][c] /\ ~ Resumes(w, c))
        /\ \A v \in Workers : v # w => calls'[v] = calls[v]
    BY <1>1, <1>2, <1>3, AcquireEnds, ZenonT(60)
  <1>6. \A c \in Callers : ~ Resumes(w, c)
    BY <1>1 DEF Resuming, Resumes
  <1>7. /\ \E c \in Callers : Resumes(w, c)'
        /\ \A c \in Callers : Resumes(w, c)' => calls'[w][c] = r
    BY <1>4, <1>5 DEF Resumes
  <1>8. /\ conn' = [conn EXCEPT ![w] = Tail(conn[w]) \o <<>>]
        /\ result' = [result EXCEPT ![w] = "none"]
    <2>1. [i \in 1..Len(<<>>) |-> now] = <<>>
      OBVIOUS
    <2>2. QED
      BY <1>1 DEF Receive
  <1>9. QED
    BY <1>1, <1>5, <1>6, <1>7, <1>8 DEF r

LEMMA AcquireRejectsKeeps ==
  ASSUME IInv, NEW w \in Workers, AcquireRejects(w)
  PROVE  /\ IInv'
         /\ conn[w] # <<>>
         /\ \A c \in Callers : ~ Resumes(w, c) /\ ~ Resumes(w, c)'
         /\ \A v \in Workers : v # w => calls'[v] = calls[v]
         /\ conn' = [conn EXCEPT ![w] = Tail(conn[w]) \o <<>>]
         /\ result' = [result EXCEPT ![w] = "none"]
         /\ UNCHANGED <<now, row, lastToken, lost, granted, lockTokens>>
  <1>1. /\ ~ Resuming(w) /\ mode[w] # "down"
        /\ conn[w] # <<>> /\ First(w).op = "acquire"
        /\ inflight' = [inflight EXCEPT ![w] = inflight[w] \ {First(w).stream}]
        /\ Receive(w, <<>>)
        /\ UNCHANGED <<now, row, lastToken, lost, granted, mode, sessions, lockTokens,
                       heartbeats, pumps, stopping, missed>>
    BY DEF AcquireRejects, Active
  <1>2. calls' = [calls EXCEPT ![w] = [c \in Callers |->
            IF calls[w][c].pc = "waiting" /\ calls[w][c].stream = First(w).stream
            THEN Idle ELSE calls[w][c]]]
    BY DEF AcquireRejects
  <1>3. /\ IInv'
        /\ \A c \in Callers : calls'[w][c] = Idle \/ (calls'[w][c] = calls[w][c] /\ ~ Resumes(w, c))
        /\ \A v \in Workers : v # w => calls'[v] = calls[v]
    BY <1>1, <1>2, AcquireEnds
  <1>4. \A c \in Callers : ~ Resumes(w, c) /\ ~ Resumes(w, c)'
    BY <1>1, <1>3 DEF Resuming, Resumes, Idle
  <1>5. /\ conn' = [conn EXCEPT ![w] = Tail(conn[w]) \o <<>>]
        /\ result' = [result EXCEPT ![w] = "none"]
    BY <1>1 DEF Receive
  <1>6. QED
    BY <1>1, <1>3, <1>4, <1>5

\* The invariant is inductive.
LEMMA NextInv == IInv /\ [Next]_vars => IInv'
  <1> SUFFICES ASSUME IInv, [Next]_vars PROVE IInv'
    OBVIOUS
  <1>1. CASE Tick
    BY <1>1, TickKeeps
  <1>2. ASSUME NEW w \in Workers, Progress(w) PROVE IInv'
    <2>1. CASE Execute(w)
      BY <2>1, ExecuteKeeps
    <2>2. CASE AcquireSettles(w)
      BY <2>2, AcquireSettlesKeeps
    <2>3. ASSUME NEW c \in Callers, RouteLocked(w, c) \/ RouteRaced(w, c) \/ RouteSpawns(w, c)
          PROVE  IInv'
      BY <2>3, RouteLockedKeeps, RouteRacedKeeps, RouteSpawnsKeeps
    <2>4. ASSUME NEW s \in Streams, HeartbeatFires(w, s) PROVE IInv'
      BY <2>4, HeartbeatFiresKeeps
    <2>5. CASE RenewReturnsTrue(w)
      BY <2>5, RenewReturnsTrueKeeps
    <2>6. CASE RenewReturnsFalse(w)
      BY <2>6, RenewReturnsFalseKeeps
    <2>7. CASE ReleaseSettles(w)
      BY <2>7, ReleaseSettlesKeeps
    <2>8. ASSUME NEW s \in Streams, StopWaits(w, s) \/ StopEnds(w, s) PROVE IInv'
      BY <2>8, StopWaitsKeeps, StopEndsKeeps
    <2>9. CASE DrainReleasesAll(w)
      BY <2>9, DrainReleasesAllKeeps
    <2>10. CASE ReleasesAgain(w)
      BY <2>10, ReleasesAgainKeeps
    <2>11. CASE Exit(w)
      BY <2>11, GoneKeeps DEF Exit
    <2>12. QED
      BY <1>2, <2>1, <2>2, <2>3, <2>4, <2>5, <2>6, <2>7, <2>8, <2>9, <2>10, <2>11 DEF Progress
  <1>3. ASSUME NEW w \in Workers, NEW s \in Streams, RouteExisting(w, s) PROVE IInv'
    BY <1>3, RouteExistingKeeps
  <1>4. ASSUME NEW w \in Workers, NEW c \in Callers, NEW s \in Streams, RouteAcquire(w, c, s)
        PROVE  IInv'
    BY <1>4, RouteAcquireKeeps
  <1>5. ASSUME NEW w \in Workers, AcquireRejects(w) \/ RenewRejects(w) PROVE IInv'
    BY <1>5, AcquireRejectsKeeps, RenewRejectsKeeps
  <1>6. ASSUME NEW w \in Workers, NEW p \in pumps[w], PumpSettles(w, p) PROVE IInv'
    BY <1>6, PumpSettlesKeeps
  <1>7. ASSUME NEW w \in Workers, DrainBegins(w) \/ Restart(w) PROVE IInv'
    BY <1>7, DrainBeginsKeeps, RestartKeeps
  <1>8. ASSUME NEW w \in Workers, Crash(w) PROVE IInv'
    BY <1>8, GoneKeeps DEF Crash
  <1>9. CASE UNCHANGED vars
    <2>1. TypeOK'
      BY <1>9 DEF IInv, TypeOK, vars, lockVars, registry
    <2>2. \A v \in Workers : Untouched(v) /\ mode'[v] = mode[v] /\ result'[v] = result[v]
      BY <1>9 DEF Untouched, vars, lockVars, registry
    <2>3. QED
      BY <2>1, <2>2, OthersKeep DEF IInv
  <1>10. QED
    BY <1>1, <1>2, <1>3, <1>4, <1>5, <1>6, <1>7, <1>8, <1>9 DEF Next

\* The inductive invariant of the fleet: whatever route(), the heartbeats, the
\* drain and the database do, sessions, tokens, timers and the statements on
\* their way agree with each other.
THEOREM RegistryInvariance == Spec => []IInv
  <1>1. QED
    BY InitInv, NextInv, PTL DEF Spec

\* The registries' variables keep their types: no statement without its time, no
\* timer and no call of a stream that is none.
THEOREM TypeCorrect == Spec => []TypeOK
  <1>1. IInv => TypeOK
    BY DEF IInv
  <1>2. QED
    BY <1>1, RegistryInvariance, PTL

\* A session never outlives its heartbeat (tick() and scheduleNext()), whatever
\* is delayed, rejected or lost, and however many streams and calls there are.
THEOREM HeartbeatsGoOn == Spec => []HeartbeatNeverStops
  <1>1. IInv => HeartbeatNeverStops
    BY DEF IInv, WInv, Beating, SessionsLocked, IsStmt, HeartbeatNeverStops
  <1>2. QED
    BY <1>1, RegistryInvariance, PTL

-----------------------------------------------------------------------------
(* The registries use the lock as StreamLocks lets them: every step is a step *)
(* of StreamLocks with the claims that the registries hold, or none.          *)

\* What is held, one by one.
LEMMA HeldBy ==
  \A w, x : x \in Held(w) <=>
     \/ \E s \in Streams : lockTokens[w][s] # 0 /\ x = [stream |-> s, token |-> lockTokens[w][s]]
     \/ \E c \in Callers : /\ Resumes(w, c) /\ calls[w][c].token # 0
                           /\ x = [stream |-> calls[w][c].stream, token |-> calls[w][c].token]
  BY DEF Held, Resumes

\* While no call resumes, the tokens of the sessions are all that is held.
LEMMA HeldTokens ==
  ASSUME NEW w, \A c \in Callers : ~ Resumes(w, c)
  PROVE  \A x : x \in Held(w) <=>
            \E s \in Streams : lockTokens[w][s] # 0 /\ x = [stream |-> s, token |-> lockTokens[w][s]]
  BY HeldBy

\* The tokens and the calls determine what is held.
LEMMA SameHeld ==
  ASSUME NEW v, lockTokens'[v] = lockTokens[v], calls'[v] = calls[v]
  PROVE  Held(v)' = Held(v)
  BY DEF Held

\* A step of w changes only what w holds.
LEMMA ClaimsChange ==
  ASSUME NEW w \in Workers, \A v \in Workers : v # w => Held(v)' = Held(v)
  PROVE  [v \in Workers |-> Held(v)]' = [[v \in Workers |-> Held(v)] EXCEPT ![w] = Held(w)']
  OBVIOUS

\* A step that leaves the lock's variables and the claims alone is a stutter.
LEMMA Stutters ==
  ASSUME UNCHANGED lockVars, \A v \in Workers : Held(v)' = Held(v)
  PROVE  UNCHANGED Locks!vars
  <1>1. [v \in Workers |-> Held(v)]' = [v \in Workers |-> Held(v)]
    OBVIOUS
  <1>2. QED
    BY <1>1 DEF Locks!vars, lockVars

\* The database's steps are those of StreamLocks.
LEMMA ExecuteRefines ==
  ASSUME NEW w \in Workers, Execute(w)
  PROVE  Locks!Next
  BY DEF Execute, Locks!Next

\* So is the clock.
LEMMA TickRefines ==
  ASSUME Tick
  PROVE  Locks!Next
  <1>1. \A v \in Workers : Held(v)' = Held(v)
    BY SameHeld DEF Tick, registry
  <1>2. [v \in Workers |-> Held(v)]' = [v \in Workers |-> Held(v)]
    BY <1>1
  <1>3. Locks!Tick
    BY <1>2 DEF Tick, Locks!Tick
  <1>4. QED
    BY <1>3 DEF Locks!Next

\* route() claims a stream, or waits for the claim that is on its way.
LEMMA RouteAcquireRefines ==
  ASSUME IInv, NEW w \in Workers, NEW c \in Callers, NEW s \in Streams, RouteAcquire(w, c, s)
  PROVE  Locks!Next \/ UNCHANGED Locks!vars
  <1>1. /\ calls[w][c] = Idle
        /\ calls' = [calls EXCEPT ![w][c] = [pc |-> "waiting", stream |-> s, token |-> 0]]
        /\ UNCHANGED <<now, row, result, lost, granted, lockTokens>>
        /\ \A d \in Callers : ~ Resumes(w, d)
    BY DEF RouteAcquire, Active, Resuming, Resumes
  <1>2. \A d \in Callers : ~ Resumes(w, d)'
    BY <1>1 DEF Resumes, IInv, TypeOK
  <1>3. Held(w)' = Held(w)
    <2>1. \A x : x \in Held(w) <=>
            \E y \in Streams : lockTokens[w][y] # 0 /\ x = [stream |-> y, token |-> lockTokens[w][y]]
      BY <1>1, HeldTokens
    <2>2. \A x : x \in Held(w)' <=>
            \E y \in Streams : lockTokens[w][y] # 0 /\ x = [stream |-> y, token |-> lockTokens[w][y]]
      BY <1>1, <1>2 DEF Held, Resumes
    <2>3. QED
      BY <2>1, <2>2
  <1>4. \A v \in Workers : Held(v)' = Held(v)
    <2> TAKE v \in Workers
    <2>1. CASE v # w
      <3>1. lockTokens'[v] = lockTokens[v] /\ calls'[v] = calls[v]
        BY <1>1, <2>1 DEF IInv, TypeOK
      <3>2. QED
        BY <3>1, SameHeld
    <2>2. QED
      BY <1>3, <2>1
  <1>5. CASE UNCHANGED <<inflight, lastToken, conn, sentAt>>
    BY <1>1, <1>4, <1>5, Stutters DEF lockVars
  <1>6. ASSUME lastToken < MaxTokens, lastToken' = lastToken + 1,
               NEW clock \in Locks!WorkerClock,
               Send(w, <<[op |-> "acquire", stream |-> s, token |-> lastToken + 1,
                          expires |-> clock + TTL]>>)
        PROVE  Locks!Next
    <2> DEFINE q == [op |-> "acquire", stream |-> s, token |-> lastToken + 1,
                     expires |-> clock + TTL]
    <2>1. q \in Locks!Stmts /\ Send(w, <<q>>)
      <3>1. TypeOK
        BY DEF IInv
      <3>2. lastToken + 1 \in Nat
        BY <3>1 DEF TypeOK
      <3>3. q \in Locks!Stmts
        BY <3>1, <3>2, ClockTypes, StatementTypes
      <3>4. QED
        BY <1>6, <3>3
    <2> HIDE DEF q
    <2>2. conn' = [conn EXCEPT ![w] = Append(conn[w], q)] /\ Len(conn[w]) < MaxPending
      BY <1>1, <2>1, SendOne, TypeGivesConn DEF IInv, TypeOK
    <2>3. [v \in Workers |-> Held(v)]' = [v \in Workers |-> Held(v)]
      BY <1>4
    <2>4. Locks!Issue(w, [op |-> "acquire", stream |-> s, token |-> Locks!FreshToken(w, s),
                          expires |-> clock + TTL])
      BY <2>2 DEF Locks!Issue, Locks!FreshToken, q
    <2>5. Locks!CallAcquire(w, s)
      BY <1>1, <1>6, <2>3, <2>4 DEF Locks!CallAcquire
    <2>6. QED
      BY <2>5 DEF Locks!Next
  <1>7. QED
    BY <1>5, <1>6 DEF RouteAcquire

\* An acquire returns the token to the calls that wait for it.
LEMMA AcquireSettlesRefines ==
  ASSUME IInv, NEW w \in Workers, AcquireSettles(w)
  PROVE  Locks!Next
  <1> DEFINE s == First(w).stream
             t == First(w).token
             C == [v \in Workers |-> Held(v)]
  <1>1. /\ conn[w] # <<>> /\ First(w).op = "acquire" /\ result[w] \in {"yes", "no"}
        /\ s \in Streams /\ t # 0
        /\ \A c \in Callers : ~ Resumes(w, c)
        /\ \E c \in Callers : Resumes(w, c)'
        /\ \A c \in Callers : Resumes(w, c)' =>
              calls'[w][c] = [pc |-> "resume", stream |-> s,
                              token |-> IF result[w] = "yes" THEN t ELSE 0]
        /\ \A v \in Workers : v # w => calls'[v] = calls[v]
        /\ conn' = [conn EXCEPT ![w] = Tail(conn[w]) \o <<>>]
        /\ result' = [result EXCEPT ![w] = "none"]
        /\ UNCHANGED <<now, row, lastToken, lost, granted, lockTokens>>
    BY AcquireSettlesKeeps
  <1>2. \A v \in Workers : v # w => Held(v)' = Held(v)
    BY <1>1, SameHeld
  <1>3. C' = [C EXCEPT ![w] = Held(w)']
    BY <1>2, ClaimsChange
  <1>4. \A x : x \in Held(w) <=>
           \E y \in Streams : lockTokens[w][y] # 0 /\ x = [stream |-> y, token |-> lockTokens[w][y]]
    BY <1>1, HeldTokens
  <1>5. \A x : x \in Held(w)' <=>
           \/ \E y \in Streams : lockTokens[w][y] # 0 /\ x = [stream |-> y, token |-> lockTokens[w][y]]
           \/ \E c \in Callers : /\ Resumes(w, c)' /\ calls'[w][c].token # 0
                                 /\ x = [stream |-> calls'[w][c].stream, token |-> calls'[w][c].token]
    BY <1>1 DEF Held, Resumes
  <1>6. Locks!HeadClaim(w) = [stream |-> s, token |-> t] /\ Head(conn[w]).op = "acquire"
    BY <1>1 DEF Locks!HeadClaim, First
  <1>7. C[w] = Held(w)
    OBVIOUS
  <1>8. Locks!Resume(w, <<>>)
    BY <1>1 DEF Locks!Resume
  <1> HIDE DEF s, t, C
  <1>9. CASE result[w] = "yes"
    <2>1. \A c \in Callers : Resumes(w, c)' => /\ calls'[w][c].stream = s
                                               /\ calls'[w][c].token = t
      BY <1>1, <1>9
    <2>2. Held(w)' = Held(w) \cup {[stream |-> s, token |-> t]}
      <3>1. \A x : x \in Held(w)' <=> x \in Held(w) \/ x = [stream |-> s, token |-> t]
        BY <1>1, <1>4, <1>5, <2>1
      <3>2. QED
        BY <3>1
    <2>3. C' = [C EXCEPT ![w] = C[w] \cup {Locks!HeadClaim(w)}]
      BY <1>3, <1>6, <1>7, <2>2
    <2>4. Locks!Answered(w, "acquire", "yes")
      BY <1>1, <1>6, <1>9 DEF Locks!Answered
    <2>5. Locks!AcquireReturns(w)
      BY <1>1, <1>8, <2>3, <2>4 DEF Locks!AcquireReturns, C
    <2>6. QED
      BY <2>5 DEF Locks!Next
  <1>10. CASE result[w] = "no"
    <2>1. \A c \in Callers : Resumes(w, c)' => calls'[w][c].token = 0
      BY <1>1, <1>10
    <2>2. Held(w)' = Held(w)
      <3>1. \A x : x \in Held(w)' <=> x \in Held(w)
        BY <1>4, <1>5, <2>1
      <3>2. QED
        BY <3>1
    <2>3. C' = C
      BY <1>3, <1>7, <2>2 DEF C
    <2>4. Locks!Answered(w, "acquire", "no")
      BY <1>1, <1>6, <1>10 DEF Locks!Answered
    <2>5. Locks!OthersReturn(w)
      BY <1>1, <1>8, <2>3, <2>4 DEF Locks!OthersReturn, C
    <2>6. QED
      BY <2>5 DEF Locks!Next
  <1>11. QED
    BY <1>1, <1>9, <1>10

\* A statement is answered, and the worker holds what it held: Reject covers it.
LEMMA AnswerRefines ==
  ASSUME NEW w \in Workers, conn[w] # <<>>,
         conn' = [conn EXCEPT ![w] = Tail(conn[w]) \o <<>>],
         result' = [result EXCEPT ![w] = "none"],
         UNCHANGED <<now, row, lastToken, lost, granted>>,
         \A v \in Workers : Held(v)' = Held(v)
  PROVE  Locks!Next
  <1>1. [v \in Workers |-> Held(v)]' = [v \in Workers |-> Held(v)]
    OBVIOUS
  <1>2. Locks!Reject(w)
    BY <1>1 DEF Locks!Reject, Locks!Resume
  <1>3. QED
    BY <1>2 DEF Locks!Next

LEMMA AcquireRejectsRefines ==
  ASSUME IInv, NEW w \in Workers, AcquireRejects(w)
  PROVE  Locks!Next
  <1>1. /\ conn[w] # <<>>
        /\ \A c \in Callers : ~ Resumes(w, c) /\ ~ Resumes(w, c)'
        /\ \A v \in Workers : v # w => calls'[v] = calls[v]
        /\ conn' = [conn EXCEPT ![w] = Tail(conn[w]) \o <<>>]
        /\ result' = [result EXCEPT ![w] = "none"]
        /\ UNCHANGED <<now, row, lastToken, lost, granted, lockTokens>>
    BY AcquireRejectsKeeps
  <1>2. Held(w)' = Held(w)
    BY <1>1 DEF Held, Resumes
  <1>3. \A v \in Workers : Held(v)' = Held(v)
    BY <1>1, <1>2, SameHeld
  <1>4. QED
    BY <1>1, <1>3, AnswerRefines

LEMMA SettleRefines ==
  ASSUME NEW w \in Workers, conn[w] # <<>>, Receive(w, <<>>),
         UNCHANGED <<now, row, lastToken, lost, granted, lockTokens, calls>>
  PROVE  Locks!Next
  <1>1. /\ conn' = [conn EXCEPT ![w] = Tail(conn[w]) \o <<>>]
        /\ result' = [result EXCEPT ![w] = "none"]
    BY DEF Receive
  <1>2. \A v \in Workers : Held(v)' = Held(v)
    BY SameHeld
  <1>3. QED
    BY <1>1, <1>2, AnswerRefines

\* A heartbeat renews a claim that the worker holds.
LEMMA HeartbeatFiresRefines ==
  ASSUME IInv, NEW w \in Workers, NEW s \in Streams, HeartbeatFires(w, s)
  PROVE  Locks!Next
  <1> DEFINE c == [stream |-> s, token |-> lockTokens[w][s]]
             C == [v \in Workers |-> Held(v)]
  <1>1. /\ lockTokens[w][s] \in Nat \ {0} /\ Len(conn[w]) < MaxPending
        /\ UNCHANGED <<now, row, lastToken, result, lost, granted, lockTokens, calls>>
    BY HeartbeatFiresKeeps
  <1>2. PICK clock \in Locks!WorkerClock :
           conn' = [conn EXCEPT ![w] = Append(conn[w],
              [op |-> "renew", stream |-> s, token |-> lockTokens[w][s],
               expires |-> clock + TTL])]
    BY HeartbeatFiresKeeps
  <1>3. c \in Held(w)
    BY <1>1, HeldBy
  <1>4. C' = C /\ c \in C[w]
    <2>1. \A v \in Workers : Held(v)' = Held(v)
      BY <1>1, SameHeld
    <2>2. QED
      BY <1>3, <2>1
  <1>5. Locks!Issue(w, [op |-> "renew", stream |-> c.stream, token |-> c.token,
                        expires |-> clock + TTL])
    BY <1>1, <1>2 DEF Locks!Issue
  <1>6. Locks!CallRenew(w, c)
    BY <1>1, <1>4, <1>5 DEF Locks!CallRenew
  <1>7. QED
    BY <1>4, <1>6 DEF Locks!Next

\* A lost claim is dropped and, if a session had it, released.
LEMMA RenewReturnsFalseRefines ==
  ASSUME IInv, NEW w \in Workers, RenewReturnsFalse(w)
  PROVE  Locks!Next
  <1> DEFINE s == First(w).stream
             t == First(w).token
             h == [stream |-> s, token |-> t]
             C == [v \in Workers |-> Held(v)]
  <1>1. /\ conn[w] # <<>> /\ First(w).op = "renew" /\ result[w] = "no"
        /\ s \in Streams
        /\ \A c \in Callers : ~ Resumes(w, c)
        /\ lost' = lost \cup {t}
        /\ UNCHANGED <<now, row, lastToken, granted, calls>>
        /\ result' = [result EXCEPT ![w] = "none"]
        /\ \A v \in Workers : v # w => lockTokens'[v] = lockTokens[v]
        /\ \A x \in Streams : x # s => lockTokens'[w][x] = lockTokens[w][x]
        /\ lockTokens'[w][s] = 0 /\ t # 0
        /\ \/ /\ lockTokens[w][s] = t
              /\ conn' = [conn EXCEPT ![w] = Tail(conn[w]) \o <<ReleaseStmt(s, t)>>]
           \/ /\ lockTokens[w][s] = 0
              /\ conn' = [conn EXCEPT ![w] = Tail(conn[w]) \o <<>>]
    BY RenewReturnsFalseKeeps
  <1>2. Locks!HeadClaim(w) = h /\ Head(conn[w]).op = "renew" /\ h.token = t
        /\ Locks!ReleaseStmt(h) = ReleaseStmt(s, t)
    BY <1>1 DEF Locks!HeadClaim, First, ReleaseStmt
  <1>3. \A v \in Workers : v # w => Held(v)' = Held(v)
    BY <1>1, SameHeld
  <1>4. C' = [C EXCEPT ![w] = Held(w)'] /\ C[w] = Held(w)
    BY <1>3, ClaimsChange
  <1> HIDE DEF s, t, C
  <1>5. \A x : x \in Held(w) <=>
           \E y \in Streams : lockTokens[w][y] # 0 /\ x = [stream |-> y, token |-> lockTokens[w][y]]
    BY <1>1, HeldTokens
  <1>6. \A x : x \in Held(w)' <=>
           \E y \in Streams : lockTokens'[w][y] # 0 /\ x = [stream |-> y, token |-> lockTokens'[w][y]]
    BY <1>1 DEF Held, Resumes
  <1>7. lockTokens[w][s] = t \/ lockTokens[w][s] = 0
    BY <1>1
  <1>8. \A x : x \in Held(w)' <=> x \in Held(w) /\ x # h
    BY <1>1, <1>5, <1>6, <1>7
  <1>9. Held(w)' = Held(w) \ {h}
    BY <1>8
  <1>10. h \in Held(w) <=> lockTokens[w][s] = t
    BY <1>1, <1>5
  <1>11. Locks!Resume(w, IF Locks!HeadClaim(w) \in C[w]
                           THEN <<Locks!ReleaseStmt(Locks!HeadClaim(w))>> ELSE <<>>)
    <2>1. CASE lockTokens[w][s] = t
      <3>1. conn' = [conn EXCEPT ![w] = Tail(conn[w]) \o <<ReleaseStmt(s, t)>>]
        BY <1>1, <2>1
      <3>2. Locks!Resume(w, <<ReleaseStmt(s, t)>>)
        BY <1>1, <3>1 DEF Locks!Resume
      <3>3. QED
        BY <1>2, <1>4, <1>10, <2>1, <3>2
    <2>2. CASE lockTokens[w][s] = 0
      <3>1. conn' = [conn EXCEPT ![w] = Tail(conn[w]) \o <<>>] /\ lockTokens[w][s] # t
        BY <1>1, <2>2
      <3>2. Locks!Resume(w, <<>>)
        BY <1>1, <3>1 DEF Locks!Resume
      <3>3. QED
        BY <1>2, <1>4, <1>10, <3>1, <3>2
    <2>3. QED
      BY <1>7, <2>1, <2>2
  <1>12. C' = [C EXCEPT ![w] = C[w] \ {Locks!HeadClaim(w)}]
    BY <1>2, <1>4, <1>9
  <1>13. Locks!Answered(w, "renew", "no")
    BY <1>1, <1>2 DEF Locks!Answered
  <1>14. lost' = lost \cup {Locks!HeadClaim(w).token}
    BY <1>1, <1>2
  <1>15. Locks!RenewReturnsFalse(w)
    BY <1>1, <1>11, <1>12, <1>13, <1>14 DEF Locks!RenewReturnsFalse, C
  <1>16. QED
    BY <1>15 DEF Locks!Next

\* A session that stops releases the claim it held.
LEMMA StopEndsRefines ==
  ASSUME IInv, NEW w \in Workers, NEW s \in Streams, StopEnds(w, s)
  PROVE  Locks!Next
  <1> DEFINE h == [stream |-> s, token |-> lockTokens[w][s]]
             C == [v \in Workers |-> Held(v)]
  <1>1. /\ lockTokens[w][s] \in Nat \ {0} /\ Len(conn[w]) < MaxPending
        /\ conn' = [conn EXCEPT ![w] = Append(conn[w], ReleaseStmt(s, lockTokens[w][s]))]
        /\ UNCHANGED <<now, row, lastToken, result, lost, granted, calls>>
        /\ \A c \in Callers : ~ Resumes(w, c)
        /\ \A v \in Workers : v # w => lockTokens'[v] = lockTokens[v]
        /\ \A x \in Streams : x # s => lockTokens'[w][x] = lockTokens[w][x]
        /\ lockTokens'[w][s] = 0
    BY StopEndsKeeps
  <1>2. \A v \in Workers : v # w => Held(v)' = Held(v)
    BY <1>1, SameHeld
  <1>3. C' = [C EXCEPT ![w] = Held(w)'] /\ C[w] = Held(w)
    BY <1>2, ClaimsChange
  <1> HIDE DEF C
  <1>4. \A x : x \in Held(w) <=>
           \E y \in Streams : lockTokens[w][y] # 0 /\ x = [stream |-> y, token |-> lockTokens[w][y]]
    BY <1>1, HeldTokens
  <1>5. \A x : x \in Held(w)' <=>
           \E y \in Streams : lockTokens'[w][y] # 0 /\ x = [stream |-> y, token |-> lockTokens'[w][y]]
    BY <1>1 DEF Held, Resumes
  <1>6. (\A x : x \in Held(w)' <=> x \in Held(w) /\ x # h) /\ h \in Held(w)
    BY <1>1, <1>4, <1>5
  <1>7. Held(w)' = Held(w) \ {h}
    BY <1>6
  <1>8. Locks!Issue(w, Locks!ReleaseStmt(h))
    BY <1>1 DEF Locks!Issue, ReleaseStmt
  <1>9. C' = [C EXCEPT ![w] = C[w] \ {h}] /\ h \in C[w]
    BY <1>3, <1>6, <1>7
  <1>10. Locks!CallRelease(w, h)
    BY <1>1, <1>8, <1>9 DEF Locks!CallRelease, C
  <1>11. QED
    BY <1>9, <1>10 DEF Locks!Next, C

\* drainAll() and the later hooks release all when nothing is held any more.
LEMMA ReleaseAllRefines ==
  ASSUME NEW w \in Workers, DrainReleasesAll(w) \/ ReleasesAgain(w), IInv
  PROVE  Locks!Next
  <1> DEFINE C == [v \in Workers |-> Held(v)]
  <1>1. /\ Len(conn[w]) < MaxPending
        /\ conn' = [conn EXCEPT ![w] = Append(conn[w], ReleaseAllStmt)]
        /\ \A i \in 1..Len(conn[w]) : conn[w][i].op # "acquire"
        /\ \A c \in Callers : ~ Resumes(w, c)
        /\ \A s \in Streams : lockTokens[w][s] = 0
        /\ UNCHANGED <<now, row, lastToken, result, lost, granted, lockTokens, calls>>
    BY DrainReleasesAllKeeps, ReleasesAgainKeeps
  <1>2. \A v \in Workers : Held(v)' = Held(v)
    BY <1>1, SameHeld
  <1>3. Held(w) = {}
    BY <1>1, HeldTokens
  <1>4. C' = [C EXCEPT ![w] = {}]
    BY <1>2, <1>3
  <1>5. Locks!Issue(w, [op |-> "releaseAll", stream |-> None, token |-> 0, expires |-> 0])
    BY <1>1 DEF Locks!Issue, ReleaseAllStmt
  <1>6. Locks!CallReleaseAll(w)
    BY <1>1, <1>4, <1>5 DEF Locks!CallReleaseAll
  <1>7. QED
    BY <1>6 DEF Locks!Next

\* A process that is gone has crashed, or had nothing left.
LEMMA GoneRefines ==
  ASSUME IInv, NEW w \in Workers, Gone(w)
  PROVE  Locks!Next \/ UNCHANGED Locks!vars
  <1> DEFINE C == [v \in Workers |-> Held(v)]
  <1>1. /\ conn' = [conn EXCEPT ![w] = <<>>] /\ result' = [result EXCEPT ![w] = "none"]
        /\ UNCHANGED <<now, row, lastToken, lost, granted>>
        /\ \A s \in Streams : lockTokens'[w][s] = 0
        /\ \A c \in Callers : ~ Resumes(w, c)'
        /\ \A v \in Workers : v # w => lockTokens'[v] = lockTokens[v] /\ calls'[v] = calls[v]
    BY GoneKeeps
  <1>2. \A v \in Workers : v # w => Held(v)' = Held(v)
    BY <1>1, SameHeld
  <1>3. Held(w)' = {}
    BY <1>1 DEF Held, Resumes
  <1>4. C' = [C EXCEPT ![w] = {}] /\ C[w] = Held(w)
    BY <1>2, <1>3
  <1>5. CASE conn[w] # <<>> \/ Held(w) # {}
    <2>1. Locks!Crash(w)
      BY <1>1, <1>4, <1>5 DEF Locks!Crash
    <2>2. QED
      BY <2>1 DEF Locks!Next
  <1>6. CASE conn[w] = <<>> /\ Held(w) = {}
    <2>1. result[w] = "none"
      BY <1>6 DEF IInv, WInv, NothingAnswered
    <2>2. conn' = conn /\ result' = result
      BY <1>1, <1>6, <2>1 DEF IInv, TypeOK
    <2>3. \A v \in Workers : Held(v)' = Held(v)
      BY <1>2, <1>3, <1>6
    <2>4. QED
      BY <1>1, <2>2, <2>3, Stutters DEF lockVars
  <1>7. QED
    BY <1>5, <1>6

\* A route() that resumes hands the token on to the session, or has none, or
\* finds it in the session already: the worker holds what it held.
LEMMA ResumeRefines ==
  ASSUME IInv, NEW w \in Workers, NEW c \in Callers,
         RouteLocked(w, c) \/ RouteRaced(w, c) \/ RouteSpawns(w, c)
  PROVE  UNCHANGED Locks!vars
  <1> DEFINE s == calls[w][c].stream
             t == calls[w][c].token
  <1>1. TypeOK /\ WInv(w)
    BY DEF IInv
  <1>2. /\ Resumes(w, c) /\ calls' = [calls EXCEPT ![w][c] = Idle]
        /\ UNCHANGED lockVars
        /\ \/ t = 0 /\ lockTokens' = lockTokens
           \/ t # 0 /\ sessions[w][s] # "none" /\ lockTokens' = lockTokens
           \/ t # 0 /\ sessions[w][s] = "none" /\ lockTokens' = [lockTokens EXCEPT ![w][s] = t]
    <2>1. CASE RouteLocked(w, c)
      <3>1. /\ calls[w][c].pc = "resume" /\ calls[w][c].token = 0
            /\ calls' = [calls EXCEPT ![w][c] = Idle]
            /\ UNCHANGED lockVars /\ UNCHANGED lockTokens
        BY <2>1, SMTT(30) DEF RouteLocked
      <3>2. QED
        BY <3>1 DEF Resumes
    <2>2. CASE RouteRaced(w, c)
      BY <2>2, RouteRacedKeeps DEF RouteRaced, Resumes, lockVars
    <2>3. CASE RouteSpawns(w, c)
      BY <2>3 DEF RouteSpawns, Resumes
    <2>4. QED
      BY <2>1, <2>2, <2>3
  <1>3. s \in Streams /\ t \in Nat
    BY <1>1, <1>2 DEF TypeOK, WInv, CallsKnown, Resumes
  <1>4. sessions[w][s] = "none" <=> lockTokens[w][s] = 0
    BY <1>1, <1>3 DEF WInv, SessionsLocked
  <1>5. t # 0 => lockTokens[w][s] \in {0, t}
    BY <1>1, <1>2 DEF WInv, ResumesAlike
  <1> HIDE DEF s, t
  <1>6. /\ \A v \in Workers : v # w => lockTokens'[v] = lockTokens[v] /\ calls'[v] = calls[v]
        /\ \A x \in Streams : x # s => lockTokens'[w][x] = lockTokens[w][x]
        /\ lockTokens'[w][s] = IF t = 0 THEN lockTokens[w][s] ELSE t
        /\ \A d \in Callers : calls'[w][d] = IF d = c THEN Idle ELSE calls[w][d]
    BY <1>1, <1>2, <1>3, <1>4, <1>5 DEF TypeOK
  <1>7. \A d \in Callers : Resumes(w, d)' <=> d # c /\ Resumes(w, d)
    BY <1>6 DEF Resumes, Idle
  <1>8. \A d \in Callers : Resumes(w, d) =>
           calls[w][d].stream = s /\ calls[w][d].token = t
    BY <1>1, <1>2 DEF WInv, ResumesAlike, s, t
  <1>9. \A x : x \in Held(w) <=>
           \/ \E y \in Streams : lockTokens[w][y] # 0 /\ x = [stream |-> y, token |-> lockTokens[w][y]]
           \/ t # 0 /\ x = [stream |-> s, token |-> t]
    BY <1>2, <1>8, HeldBy
  <1>10. \A x : x \in Held(w)' <=>
           \/ \E y \in Streams : lockTokens'[w][y] # 0 /\ x = [stream |-> y, token |-> lockTokens'[w][y]]
           \/ \E d \in Callers : /\ Resumes(w, d)' /\ calls'[w][d].token # 0
                                 /\ x = [stream |-> calls'[w][d].stream,
                                         token |-> calls'[w][d].token]
    BY DEF Held, Resumes
  <1>11. \A d \in Callers : Resumes(w, d)' =>
            calls'[w][d].stream = s /\ calls'[w][d].token = t
    BY <1>6, <1>7, <1>8
  <1>12. \A x : x \in Held(w)' <=> x \in Held(w)
    <2>1. CASE t = 0
      <3>1. \A y \in Streams : lockTokens'[w][y] = lockTokens[w][y]
        BY <1>6, <2>1
      <3>2. QED
        BY <1>9, <1>10, <1>11, <2>1, <3>1
    <2>2. CASE t # 0
      <3>1. \A x : x \in Held(w)' <=>
               \/ \E y \in Streams : y # s /\ lockTokens[w][y] # 0
                                     /\ x = [stream |-> y, token |-> lockTokens[w][y]]
               \/ x = [stream |-> s, token |-> t]
        BY <1>3, <1>6, <1>10, <1>11, <2>2
      <3>2. \A x : x \in Held(w) <=>
               \/ \E y \in Streams : y # s /\ lockTokens[w][y] # 0
                                     /\ x = [stream |-> y, token |-> lockTokens[w][y]]
               \/ x = [stream |-> s, token |-> t]
        BY <1>3, <1>5, <1>9, <2>2
      <3>3. QED
        BY <3>1, <3>2
    <2>3. QED
      BY <2>1, <2>2
  <1>13. Held(w)' = Held(w)
    BY <1>12
  <1>14. \A v \in Workers : Held(v)' = Held(v)
    BY <1>6, <1>13, SameHeld
  <1>15. QED
    BY <1>2, <1>14, Stutters

LEMMA InitRefines == Init => Locks!Init
  <1> SUFFICES ASSUME Init PROVE Locks!Init
    OBVIOUS
  <1>1. \A w \in Workers : Held(w) = {}
    BY DEF Init, Held, Idle
  <1>2. [w \in Workers |-> Held(w)] = [w \in Workers |-> {}]
    BY <1>1
  <1>3. QED
    BY <1>2 DEF Init, Locks!Init

LEMMA NextRefines == IInv /\ [Next]_vars => [Locks!Next]_(Locks!vars)
  <1> SUFFICES ASSUME IInv, [Next]_vars PROVE Locks!Next \/ UNCHANGED Locks!vars
    OBVIOUS
  <1> DEFINE Goal == Locks!Next \/ UNCHANGED Locks!vars
  <1>1. CASE Tick
    BY <1>1, TickRefines
  <1>2. UNCHANGED <<lockVars, lockTokens, calls>> => Goal
    BY SameHeld, Stutters
  <1>3. ASSUME NEW w \in Workers, Progress(w) PROVE Goal
    <2>1. CASE Execute(w)
      BY <2>1, ExecuteRefines
    <2>2. CASE AcquireSettles(w)
      BY <2>2, AcquireSettlesRefines
    <2>3. ASSUME NEW c \in Callers, RouteLocked(w, c) \/ RouteRaced(w, c) \/ RouteSpawns(w, c)
          PROVE  Goal
      BY <2>3, ResumeRefines
    <2>4. ASSUME NEW s \in Streams, HeartbeatFires(w, s) PROVE Goal
      BY <2>4, HeartbeatFiresRefines
    <2>5. CASE RenewReturnsTrue(w)
      BY <2>5, SettleRefines DEF RenewReturnsTrue, Locks!Answered
    <2>6. CASE RenewReturnsFalse(w)
      BY <2>6, RenewReturnsFalseRefines
    <2>7. CASE ReleaseSettles(w)
      BY <2>7, SettleRefines DEF ReleaseSettles, registry
    <2>8. ASSUME NEW s \in Streams, StopWaits(w, s) \/ StopEnds(w, s) PROVE Goal
      <3>1. CASE StopWaits(w, s)
        BY <1>2, <3>1 DEF StopWaits
      <3>2. QED
        BY <2>8, <3>1, StopEndsRefines
    <2>9. CASE DrainReleasesAll(w) \/ ReleasesAgain(w)
      BY <2>9, ReleaseAllRefines
    <2>10. CASE Exit(w)
      BY <2>10, GoneRefines DEF Exit
    <2> HIDE DEF Goal
    <2>11. QED
      BY <1>3, <2>1, <2>2, <2>3, <2>4, <2>5, <2>6, <2>7, <2>8, <2>9, <2>10 DEF Progress
  <1>4. ASSUME NEW w \in Workers, NEW s \in Streams, RouteExisting(w, s) PROVE Goal
    BY <1>2, <1>4 DEF RouteExisting
  <1>5. ASSUME NEW w \in Workers, NEW c \in Callers, NEW s \in Streams, RouteAcquire(w, c, s)
        PROVE  Goal
    BY <1>5, RouteAcquireRefines
  <1>6. ASSUME NEW w \in Workers, AcquireRejects(w) PROVE Goal
    BY <1>6, AcquireRejectsRefines
  <1>7. ASSUME NEW w \in Workers, RenewRejects(w) PROVE Goal
    BY <1>7, SettleRefines DEF RenewRejects
  <1>8. ASSUME NEW w \in Workers, NEW p \in pumps[w], PumpSettles(w, p) PROVE Goal
    BY <1>2, <1>8 DEF PumpSettles
  <1>9. ASSUME NEW w \in Workers, DrainBegins(w) \/ Restart(w) PROVE Goal
    BY <1>2, <1>9 DEF DrainBegins, Restart
  <1>10. ASSUME NEW w \in Workers, Crash(w) PROVE Goal
    BY <1>10, GoneRefines DEF Crash
  <1>11. CASE UNCHANGED vars
    BY <1>2, <1>11 DEF vars, registry
  <1> HIDE DEF Goal
  <1>12. Goal
    BY <1>1, <1>3, <1>4, <1>5, <1>6, <1>7, <1>8, <1>9, <1>10, <1>11, TickRefines DEF Next, Goal
  <1>13. QED
    BY <1>12 DEF Goal

\* The registries of any fleet, with any delays, losses and crashes, use the
\* lock as StreamLocks lets its callers: they renew and release only what they
\* hold, drop what they are told is lost, and claim with fresh tokens.
THEOREM RegistriesUseTheLock == Spec => LockProtocol
  <1>1. QED
    BY InitRefines, NextRefines, RegistryInvariance, PTL DEF Spec, LockProtocol, Locks!Spec
=============================================================================
