-------------------------- MODULE StreamLocks_proofs --------------------------
(***************************************************************************)
(* Proofs about StreamLocks for any number of workers and streams, any     *)
(* TTL, clock error and bounds.                                            *)
(***************************************************************************)
EXTENDS StreamLocks, SequenceTheorems, TLAPS

-----------------------------------------------------------------------------
(* What happens to a connection *)

\* A statement that is issued goes to the end of its worker's connection.
LEMMA IssueConn ==
  ASSUME TypeOK, NEW w \in Workers, NEW q \in Stmts, Issue(w, q)
  PROVE  /\ conn' \in [Workers -> Seq(Stmts)]
         /\ \A v \in Workers : v # w => conn'[v] = conn[v]
         /\ Len(conn[w]) \in Nat /\ Len(conn'[w]) = Len(conn[w]) + 1
         /\ \A i \in 1..Len(conn[w]) : conn'[w][i] = conn[w][i]
         /\ conn'[w][Len(conn[w]) + 1] = q
         /\ \A v \in Workers : \A i \in 1..Len(conn'[v]) :
               \/ i \in 1..Len(conn[v]) /\ conn'[v][i] = conn[v][i]
               \/ v = w /\ i = Len(conn[w]) + 1 /\ conn'[v][i] = q
  <1>1. conn[w] \in Seq(Stmts)
    BY DEF TypeOK
  <1>2. conn' = [conn EXCEPT ![w] = Append(conn[w], q)]
    BY DEF Issue
  <1>3. Append(conn[w], q) \in Seq(Stmts)
    BY <1>1
  <1>4. conn'[w] = Append(conn[w], q)
    BY <1>2 DEF TypeOK
  <1>5. /\ conn' \in [Workers -> Seq(Stmts)]
        /\ \A v \in Workers : v # w => conn'[v] = conn[v]
    BY <1>2, <1>3 DEF TypeOK
  <1>6. /\ Len(conn'[w]) = Len(conn[w]) + 1
        /\ \A i \in 1..Len(conn[w]) : conn'[w][i] = conn[w][i]
        /\ conn'[w][Len(conn[w]) + 1] = q
    BY <1>1, <1>4, AppendProperties
  <1>7. Len(conn[w]) \in Nat
    BY <1>1
  <1>8. ASSUME NEW v \in Workers, NEW i \in 1..Len(conn'[v])
        PROVE  \/ i \in 1..Len(conn[v]) /\ conn'[v][i] = conn[v][i]
               \/ v = w /\ i = Len(conn[w]) + 1 /\ conn'[v][i] = q
    <2>1. CASE v # w
      BY <1>5, <2>1
    <2>2. CASE v = w
      <3>1. i \in 1..Len(conn[w]) \/ i = Len(conn[w]) + 1
        BY <1>6, <1>7, <2>2
      <3>2. QED
        BY <1>6, <2>2, <3>1
    <2>3. QED
      BY <2>1, <2>2
  <1>9. QED
    BY <1>5, <1>6, <1>7, <1>8, Zenon

\* An answer takes the first statement off the connection; at most one
\* statement is issued in reaction to it.
LEMMA ResumeConn ==
  ASSUME TypeOK, NEW w \in Workers, conn[w] # <<>>,
         NEW qs \in Seq(Stmts), Len(qs) \in {0, 1}, Resume(w, qs)
  PROVE  /\ conn' \in [Workers -> Seq(Stmts)]
         /\ \A v \in Workers : v # w => conn'[v] = conn[v]
         /\ Len(conn[w]) \in Nat \ {0}
         /\ Len(conn'[w]) = Len(conn[w]) - 1 + Len(qs)
         /\ \A i \in 1..(Len(conn[w]) - 1) : conn'[w][i] = conn[w][i + 1]
         /\ Len(qs) = 1 => conn'[w][Len(conn[w])] = qs[1]
         /\ result' = [result EXCEPT ![w] = "none"]
         /\ \A v \in Workers : \A i \in 1..Len(conn'[v]) :
               \/ v # w /\ conn'[v] = conn[v]
               \/ v = w /\ i + 1 \in 1..Len(conn[v]) /\ conn'[v][i] = conn[v][i + 1]
               \/ v = w /\ i = Len(conn[w]) /\ Len(qs) = 1 /\ conn'[v][i] = qs[1]
  <1>1. conn[w] \in Seq(Stmts)
    BY DEF TypeOK
  <1>2. /\ Len(conn[w]) \in Nat \ {0}
        /\ Tail(conn[w]) \in Seq(Stmts)
        /\ Len(Tail(conn[w])) = Len(conn[w]) - 1
        /\ \A i \in 1..(Len(conn[w]) - 1) : Tail(conn[w])[i] = conn[w][i + 1]
    BY <1>1, HeadTailProperties, EmptySeq
  <1>3. /\ Tail(conn[w]) \o qs \in Seq(Stmts)
        /\ Len(Tail(conn[w]) \o qs) = Len(conn[w]) - 1 + Len(qs)
        /\ \A i \in 1..(Len(conn[w]) - 1 + Len(qs)) :
              (Tail(conn[w]) \o qs)[i] =
                 IF i <= Len(conn[w]) - 1 THEN Tail(conn[w])[i]
                                          ELSE qs[i - (Len(conn[w]) - 1)]
    <2> DEFINE t == Tail(conn[w])
    <2>1. t \in Seq(Stmts)
      BY <1>2
    <2>2. /\ t \o qs \in Seq(Stmts)
          /\ Len(t \o qs) = Len(t) + Len(qs)
          /\ \A i \in 1..(Len(t) + Len(qs)) :
                (t \o qs)[i] = IF i <= Len(t) THEN t[i] ELSE qs[i - Len(t)]
      <3> HIDE DEF t
      <3> QED BY <2>1, ConcatProperties, Zenon
    <2>3. QED
      BY <1>2, <2>2
  <1>4. conn' = [conn EXCEPT ![w] = Tail(conn[w]) \o qs]
    BY DEF Resume
  <1>5. conn'[w] = Tail(conn[w]) \o qs
    BY <1>4 DEF TypeOK
  <1>6. /\ conn' \in [Workers -> Seq(Stmts)]
        /\ \A v \in Workers : v # w => conn'[v] = conn[v]
    BY <1>3, <1>4 DEF TypeOK
  <1>7. \A i \in 1..(Len(conn[w]) - 1) : conn'[w][i] = conn[w][i + 1]
    BY <1>2, <1>3, <1>5
  <1>8. Len(qs) = 1 => conn'[w][Len(conn[w])] = qs[1]
    BY <1>2, <1>3, <1>5
  <1>9. Len(conn'[w]) = Len(conn[w]) - 1 + Len(qs)
    BY <1>3, <1>5
  <1>10. ASSUME NEW v \in Workers, NEW i \in 1..Len(conn'[v])
         PROVE  \/ v # w /\ conn'[v] = conn[v]
                \/ v = w /\ i + 1 \in 1..Len(conn[v]) /\ conn'[v][i] = conn[v][i + 1]
                \/ v = w /\ i = Len(conn[w]) /\ Len(qs) = 1 /\ conn'[v][i] = qs[1]
    <2>1. CASE v # w
      BY <1>6, <2>1
    <2>2. CASE v = w /\ i <= Len(conn[w]) - 1
      BY <1>2, <1>7, <2>2
    <2>3. CASE v = w /\ ~ (i <= Len(conn[w]) - 1)
      <3>1. i \in 1..(Len(conn[w]) - 1 + Len(qs))
        BY <1>9, <2>3
      <3>2. Len(qs) = 1 /\ i = Len(conn[w])
        <4> DEFINE n == Len(conn[w])
                   m == Len(qs)
        <4>1. n \in Nat /\ m \in {0, 1} /\ i \in 1..(n - 1 + m) /\ ~ (i <= n - 1)
          BY <1>2, <2>3, <3>1
        <4> HIDE DEF n, m
        <4>2. m = 1 /\ i = n
          BY <4>1
        <4>3. QED
          BY <4>2 DEF n, m
      <3>3. QED
        BY <1>8, <2>3, <3>2
    <2>4. QED
      BY <2>1, <2>2, <2>3
  <1>11. result' = [result EXCEPT ![w] = "none"]
    BY DEF Resume
  <1>12. QED
    BY <1>2, <1>6, <1>7, <1>8, <1>9, <1>10, <1>11, Zenon

\* The first statement of a connection is a statement.
LEMMA HeadStmt ==
  ASSUME TypeOK, NEW w \in Workers, conn[w] # <<>>
  PROVE  /\ Head(conn[w]) \in Stmts
         /\ Head(conn[w]) = conn[w][1]
         /\ Len(conn[w]) \in Nat \ {0}
         /\ \A i \in 1..Len(conn[w]) : conn[w][i] \in Stmts
  <1>1. conn[w] \in Seq(Stmts)
    BY DEF TypeOK
  <1>2. QED
    BY <1>1, HeadTailProperties, EmptySeq, ElementOfSeq

-----------------------------------------------------------------------------
(* The inductive invariant *)

\* Worker w has, or is about to send, something about claim t on stream s.
Mentions(w, s, t) ==
  \/ row[s].owner = w /\ row[s].token = t
  \/ [stream |-> s, token |-> t] \in claims[w]
  \/ \E i \in 1..Len(conn[w]) : /\ conn[w][i].op # "releaseAll"
                                /\ conn[w][i].stream = s
                                /\ conn[w][i].token = t

\* A token belongs to one worker and one stream, and has been drawn.
TokensIdentify ==
  \A w \in Workers, s \in Streams, t \in Nat : Mentions(w, s, t) =>
     /\ t \in 1..lastToken
     /\ \A v \in Workers, r \in Streams : Mentions(v, r, t) => v = w /\ r = s

\* The first statement of w has not been executed, or i is not the first.
Pending(w, i) == i > 1 \/ result[w] = "none"

\* The token of an acquire is new to the table until the acquire is executed.
AcquiresFresh ==
  \A w \in Workers : \A i \in 1..Len(conn[w]) :
     conn[w][i].op = "acquire" /\ Pending(w, i) => conn[w][i].token \notin granted

\* The token of an acquire on its way is in no other acquire and in no release.
AcquiresDistinct ==
  \A w \in Workers : \A i, j \in 1..Len(conn[w]) :
     /\ conn[w][i].op = "acquire"
     /\ conn[w][j].op \in {"acquire", "release"}
     /\ conn[w][i].token = conn[w][j].token
     => i = j

\* Whatever a worker holds or renews has been granted by the table.
ClaimsGranted ==
  /\ \A s \in Streams : row[s].owner # None => row[s].token \in granted
  /\ \A w \in Workers : \A c \in claims[w] : c.token \in granted
  /\ \A w \in Workers : \A i \in 1..Len(conn[w]) :
        \/ conn[w][i].op = "renew"
        \/ i = 1 /\ conn[w][i].op = "acquire" /\ result[w] = "yes"
        => conn[w][i].token \in granted

\* No row holds token t by an unexpired lease.
Dead(t) == \A s \in Streams : row[s].owner # None /\ row[s].token = t => Expired(s)

\* A token reported as lost, or about to be, is dead, and was granted before.
LostDead ==
  /\ \A t \in lost : t \in granted /\ Dead(t)
  /\ \A w \in Workers : Len(conn[w]) > 0 =>
        (conn[w][1].op = "renew" /\ result[w] = "no" => Dead(conn[w][1].token))

\* No statement asks for a longer lease than a worker may grant itself now.
ExpiryBounded ==
  /\ LeaseBounded
  /\ \A w \in Workers : \A i \in 1..Len(conn[w]) :
        conn[w][i].op \in {"acquire", "renew"} =>
           conn[w][i].expires <= now + TTL + MaxSkew

\* A claim that is held has no acquire and no release on its way.
HeldOnly ==
  \A w \in Workers : \A i \in 1..Len(conn[w]) :
     conn[w][i].op \in {"acquire", "release"} =>
        [stream |-> conn[w][i].stream, token |-> conn[w][i].token] \notin claims[w]

\* While a releaseAll is on its way nothing is held, and no acquire precedes it.
AllReleased ==
  \A w \in Workers : \A i \in 1..Len(conn[w]) : conn[w][i].op = "releaseAll" =>
     /\ claims[w] = {}
     /\ \A j \in 1..i : conn[w][j].op # "acquire"

\* Tokens are drawn within the bound, a connection without statements has no
\* outcome, and statements about a claim name its stream.
Shape ==
  /\ lastToken <= MaxTokens
  /\ \A w \in Workers : Len(conn[w]) = 0 => result[w] = "none"
  /\ \A w \in Workers : \A i \in 1..Len(conn[w]) :
        conn[w][i].op # "releaseAll" => conn[w][i].stream \in Streams

\* Only tokens that have been drawn were granted.
GrantedDrawn == granted \subseteq 1..lastToken

IInv ==
  /\ TypeOK
  /\ GrantedDrawn
  /\ Shape
  /\ TokensIdentify
  /\ AcquiresFresh
  /\ AcquiresDistinct
  /\ ClaimsGranted
  /\ LostDead
  /\ ExpiryBounded
  /\ HeldOnly
  /\ AllReleased

-----------------------------------------------------------------------------
(* Every step preserves it *)

\* A step that draws no token and mentions no claim anew keeps tokens apart.
LEMMA NothingNew ==
  ASSUME TokensIdentify, lastToken' = lastToken,
         \A w \in Workers, s \in Streams, t \in Nat :
            Mentions(w, s, t)' => Mentions(w, s, t)
  PROVE  TokensIdentify'
  BY DEF TokensIdentify

\* The empty lock table with idle connections satisfies the invariant.
LEMMA InitIInv == Init => IInv
  <1> SUFFICES ASSUME Init PROVE IInv
    OBVIOUS
  <1> USE NoneAssumption, TimeAssumption, BoundAssumption DEF Init, NoRow
  <1>1. TypeOK
    BY DEF TypeOK, Rows
  <1>2. \A w \in Workers : Len(conn[w]) = 0
    OBVIOUS
  <1>3. \A w \in Workers, s \in Streams, t \in Nat : ~ Mentions(w, s, t)
    BY <1>2 DEF Mentions
  <1>4. TokensIdentify
    BY <1>3 DEF TokensIdentify
  <1>5. /\ Shape /\ GrantedDrawn /\ ClaimsGranted
        /\ AcquiresFresh /\ AcquiresDistinct /\ HeldOnly /\ AllReleased
    BY <1>2 DEF Shape, GrantedDrawn, ClaimsGranted, AcquiresFresh,
               AcquiresDistinct, HeldOnly, AllReleased
  <1>6. LostDead /\ ExpiryBounded
    BY <1>2 DEF LostDead, Dead, Expired, ExpiryBounded, LeaseBounded
  <1>7. QED
    BY <1>1, <1>4, <1>5, <1>6 DEF IInv

\* Types in the form the steps below use them.
Typed ==
  /\ now \in Int /\ lastToken \in Nat
  /\ \A w \in Workers : Len(conn[w]) \in Nat
  /\ \A w \in Workers : \A i \in 1..Len(conn[w]) :
        /\ conn[w][i] \in Stmts
        /\ conn[w][i].op \in Ops
        /\ conn[w][i].token \in Nat
        /\ conn[w][i].expires \in Int
  /\ \A s \in Streams : /\ row[s] \in Rows
                        /\ row[s].expires \in Int
                        /\ row[s].token \in Nat

\* The type invariant in the unfolded form the step lemmas cite.
LEMMA TypeOKTyped == TypeOK => Typed
  <1> SUFFICES ASSUME TypeOK PROVE Typed
    OBVIOUS
  <1>1. \A w \in Workers : /\ Len(conn[w]) \in Nat
                           /\ \A i \in 1..Len(conn[w]) : conn[w][i] \in Stmts
    BY ElementOfSeq, LenProperties DEF TypeOK
  <1>2. QED
    BY <1>1 DEF Typed, TypeOK, Stmts, Rows

\* The passing of time only makes leases expire.
LEMMA TickStep ==
  ASSUME IInv, Tick
  PROVE  IInv'
  <1> USE DEF Tick, IInv
  <1>1. TypeOK'
    BY DEF TypeOK
  <1>2. Typed
    BY TypeOKTyped
  <1>3. now \in Int /\ now' = now + 1 /\ \A s \in Streams : row[s].expires \in Int
    BY <1>2 DEF Typed
  <1>4. TokensIdentify'
    BY NothingNew DEF Mentions
  <1>5. /\ Shape' /\ GrantedDrawn' /\ ClaimsGranted'
        /\ AcquiresFresh' /\ AcquiresDistinct' /\ HeldOnly' /\ AllReleased'
    BY DEF Shape, GrantedDrawn, ClaimsGranted, AcquiresFresh, Pending,
          AcquiresDistinct, HeldOnly, AllReleased
  <1>6. LostDead'
    <2>1. ASSUME NEW t, Dead(t) PROVE Dead(t)'
      BY <1>3, <2>1 DEF Dead, Expired
    <2>2. QED
      BY <2>1 DEF LostDead
  <1>7. ExpiryBounded'
    <2>1. LeaseBounded'
      BY <1>3, TimeAssumption DEF ExpiryBounded, LeaseBounded
    <2>2. QED
      BY <1>2, <1>3, <2>1, TimeAssumption DEF ExpiryBounded, Typed
  <1>8. QED
    BY <1>1, <1>4, <1>5, <1>6, <1>7

\* A claim that is held has no acquire on its way, on its stream or another.
LEMMA HeldNotAcquired ==
  ASSUME IInv, NEW w \in Workers, NEW r \in Streams, NEW t \in Nat,
         [stream |-> r, token |-> t] \in claims[w]
  PROVE  \A k \in 1..Len(conn[w]) : conn[w][k].op = "acquire" => conn[w][k].token # t
  <1> USE DEF IInv
  <1> SUFFICES ASSUME NEW k \in 1..Len(conn[w]), conn[w][k].op = "acquire",
                      conn[w][k].token = t
               PROVE  FALSE
    OBVIOUS
  <1>1. Mentions(w, r, t)
    BY DEF Mentions
  <1>2. Mentions(w, conn[w][k].stream, t) /\ conn[w][k].stream \in Streams
    BY DEF Mentions, Shape
  <1>3. conn[w][k].stream = r
    BY <1>1, <1>2 DEF TokensIdentify
  <1>4. QED
    BY <1>3 DEF HeldOnly

\* Issuing statement q: an acquire with a new token; a renewal or a release of
\* a claim that is held, the release dropping it; or a releaseAll that drops
\* everything when no acquire is on its way.
LEMMA IssueStep ==
  ASSUME IInv, NEW w \in Workers, NEW q \in Stmts, Issue(w, q),
         UNCHANGED <<now, row, result, lost, granted>>,
         claims' \in [Workers -> SUBSET LockTokens],
         \A v \in Workers : claims'[v] \subseteq claims[v],
         q.op # "releaseAll" => q.stream \in Streams,
         q.op \in {"acquire", "renew"} => q.expires <= now + TTL + MaxSkew,
         IF q.op = "acquire"
         THEN q.token = lastToken + 1 /\ lastToken' = lastToken + 1 /\ lastToken < MaxTokens
         ELSE lastToken' = lastToken,
         q.op \in {"renew", "release"} =>
            [stream |-> q.stream, token |-> q.token] \in claims[w],
         q.op = "release" =>
            [stream |-> q.stream, token |-> q.token] \notin claims'[w],
         q.op = "releaseAll" =>
            /\ claims'[w] = {}
            /\ \A i \in 1..Len(conn[w]) : conn[w][i].op # "acquire"
  PROVE  IInv'
  <1> USE DEF IInv
  <1> DEFINE n == Len(conn[w])
  <1>1. /\ conn' \in [Workers -> Seq(Stmts)]
        /\ \A v \in Workers : v # w => conn'[v] = conn[v]
        /\ n \in Nat /\ Len(conn'[w]) = n + 1
        /\ \A i \in 1..n : conn'[w][i] = conn[w][i]
        /\ conn'[w][n + 1] = q
    BY IssueConn
  <1>2. \A v \in Workers : \A i \in 1..Len(conn'[v]) :
               \/ i \in 1..Len(conn[v]) /\ conn'[v][i] = conn[v][i]
               \/ v = w /\ i = n + 1 /\ conn'[v][i] = q
    BY IssueConn
  <1> HIDE DEF n
  <1>3. Typed /\ q.op \in Ops /\ q.token \in Nat /\ lastToken' \in Nat
    BY TypeOKTyped DEF Typed, Stmts
  <1>4. TypeOK'
    BY <1>1, <1>3 DEF TypeOK
  <1>5. Shape'
    <2>1. lastToken' <= MaxTokens
      BY <1>3, BoundAssumption DEF Shape, Typed
    <2>2. ASSUME NEW v \in Workers, Len(conn'[v]) = 0 PROVE result'[v] = "none"
      <3>1. v # w /\ conn'[v] = conn[v]
        BY <1>1, <2>2
      <3>2. QED
        BY <2>2, <3>1 DEF Shape
    <2>3. \A v \in Workers : \A i \in 1..Len(conn'[v]) :
             conn'[v][i].op # "releaseAll" => conn'[v][i].stream \in Streams
      BY <1>2 DEF Shape
    <2>4. QED
      BY <2>1, <2>2, <2>3 DEF Shape
  <1>6. \A v \in Workers, r \in Streams, t \in Nat : Mentions(v, r, t)' =>
           \/ Mentions(v, r, t)
           \/ q.op = "acquire" /\ v = w /\ r = q.stream /\ t = q.token
    BY <1>2, <1>3 DEF Mentions, Ops
  <1>7. TokensIdentify'
    <2>1. \A v \in Workers, r \in Streams, t \in Nat : Mentions(v, r, t) => t \in 1..lastToken
      BY DEF TokensIdentify
    <2>2. CASE q.op = "acquire"
      BY <1>3, <1>6, <2>1, <2>2 DEF TokensIdentify, Typed
    <2>3. CASE q.op # "acquire"
      BY <1>6, <2>3, NothingNew
    <2>4. QED
      BY <2>2, <2>3
  <1>8. q.op = "acquire" =>
           /\ \A i \in 1..n : conn[w][i].op # "releaseAll" => conn[w][i].token # q.token
           /\ [stream |-> q.stream, token |-> q.token] \notin claims[w]
           /\ q.token \notin granted
    <2>1. ASSUME NEW i \in 1..n, conn[w][i].op # "releaseAll"
          PROVE  conn[w][i].token \in 1..lastToken
      <3>1. Mentions(w, conn[w][i].stream, conn[w][i].token)
        BY <2>1 DEF Mentions, n
      <3>2. conn[w][i].stream \in Streams /\ conn[w][i].token \in Nat
        BY <1>3, <2>1 DEF Shape, Typed, n
      <3>3. QED
        BY <3>1, <3>2 DEF TokensIdentify
    <2>2. q.op = "acquire" => ~ Mentions(w, q.stream, q.token)
      BY <1>3 DEF TokensIdentify, Typed
    <2>3. QED
      BY <1>3, <2>1, <2>2 DEF Mentions, GrantedDrawn, Typed
  <1>9. AcquiresFresh'
    BY <1>2, <1>8 DEF AcquiresFresh, Pending
  <1>10. AcquiresDistinct'
    <2> SUFFICES ASSUME NEW v \in Workers,
                        NEW i \in 1..Len(conn'[v]), NEW j \in 1..Len(conn'[v]),
                        conn'[v][i].op = "acquire",
                        conn'[v][j].op \in {"acquire", "release"},
                        conn'[v][i].token = conn'[v][j].token
                 PROVE  i = j
      BY DEF AcquiresDistinct
    <2>1. CASE q.op = "release" /\ i \in 1..n
      <3>1. \A k \in 1..n : conn[w][k].op = "acquire" => conn[w][k].token # q.token
        BY <1>3, <2>1, HeldNotAcquired DEF n
      <3>2. QED
        BY <1>1, <1>2, <2>1, <3>1 DEF AcquiresDistinct, n
    <2>2. CASE q.op = "acquire"
      <3>1. CASE v # w
        BY <1>1, <3>1 DEF AcquiresDistinct
      <3>2. CASE v = w /\ i \in 1..n /\ j \in 1..n
        BY <1>1, <3>2 DEF AcquiresDistinct, n
      <3>3. CASE v = w /\ i \in 1..n /\ j = n + 1
        BY <1>1, <1>8, <2>2, <3>3
      <3>4. CASE v = w /\ i = n + 1 /\ j \in 1..n
        BY <1>1, <1>8, <2>2, <3>4
      <3>5. QED
        BY <1>1, <3>1, <3>2, <3>3, <3>4
    <2>3. CASE q.op # "acquire" /\ ~ (q.op = "release" /\ i \in 1..n)
      BY <1>1, <1>2, <2>3 DEF AcquiresDistinct, n
    <2>4. QED
      BY <2>1, <2>2, <2>3
  <1>11. ClaimsGranted'
    <2>1. \A v \in Workers : \A c \in claims'[v] : c.token \in granted'
      BY DEF ClaimsGranted
    <2>2. q.op = "renew" => q.token \in granted
      BY DEF ClaimsGranted
    <2>3. n = 0 => result[w] = "none"
      BY DEF Shape, n
    <2>4. \A v \in Workers : \A i \in 1..Len(conn'[v]) :
             \/ conn'[v][i].op = "renew"
             \/ i = 1 /\ conn'[v][i].op = "acquire" /\ result'[v] = "yes"
             => conn'[v][i].token \in granted'
      BY <1>1, <1>2, <2>2, <2>3 DEF ClaimsGranted
    <2>5. QED
      BY <2>1, <2>4 DEF ClaimsGranted
  <1>12. LostDead'
    <2>1. \A t : Dead(t)' <=> Dead(t)
      BY DEF Dead, Expired
    <2>2. n = 0 => result[w] = "none"
      BY DEF Shape, n
    <2>3. QED
      BY <1>1, <2>1, <2>2 DEF LostDead, n
  <1>13. ExpiryBounded'
    BY <1>2 DEF ExpiryBounded, LeaseBounded
  <1>14. HeldOnly'
    BY <1>2, <1>8 DEF HeldOnly
  <1>15. AllReleased'
    <2> SUFFICES ASSUME NEW v \in Workers, NEW i \in 1..Len(conn'[v]),
                        conn'[v][i].op = "releaseAll"
                 PROVE  claims'[v] = {} /\ \A j \in 1..i : conn'[v][j].op # "acquire"
      BY DEF AllReleased
    <2>1. CASE i \in 1..Len(conn[v]) /\ conn'[v][i] = conn[v][i]
      <3>1. conn[v][i].op = "releaseAll"
        BY <2>1
      <3>2. claims[v] = {} /\ \A j \in 1..i : conn[v][j].op # "acquire"
        BY <2>1, <3>1 DEF AllReleased
      <3>3. \A j \in 1..i : conn'[v][j] = conn[v][j]
        <4> SUFFICES ASSUME NEW j \in 1..i PROVE conn'[v][j] = conn[v][j]
          OBVIOUS
        <4>1. j \in 1..Len(conn[v])
          <5>1. Len(conn[v]) \in Nat
            BY <1>3 DEF Typed
          <5>2. QED
            BY <2>1, <5>1
        <4>2. QED
          BY <1>1, <4>1 DEF n
      <3>4. QED
        BY <3>2, <3>3
    <2>2. CASE v = w /\ i = n + 1 /\ conn'[v][i] = q
      BY <1>1, <2>2 DEF n
    <2>3. QED
      BY <1>2, <2>1, <2>2
  <1>16. GrantedDrawn'
    BY <1>3 DEF GrantedDrawn, Typed
  <1>17. QED
    BY <1>4, <1>5, <1>7, <1>9, <1>10, <1>11, <1>12, <1>13, <1>14, <1>15, <1>16

\* acquire() issues its INSERT under a token nobody has used.
LEMMA CallAcquireStep ==
  ASSUME IInv, NEW w \in Workers, NEW s \in Streams, CallAcquire(w, s)
  PROVE  IInv'
  <1>1. PICK clock \in WorkerClock :
          Issue(w, [op |-> "acquire", stream |-> s, token |-> lastToken + 1,
                    expires |-> clock + TTL])
    BY DEF CallAcquire, FreshToken
  <1> DEFINE q == [op |-> "acquire", stream |-> s, token |-> lastToken + 1,
                   expires |-> clock + TTL]
  <1>2. /\ UNCHANGED <<now, row, result, lost, granted>>
        /\ claims' = claims /\ claims \in [Workers -> SUBSET LockTokens]
        /\ lastToken' = lastToken + 1 /\ lastToken < MaxTokens
    BY DEF CallAcquire, IInv, TypeOK
  <1>3. /\ q \in Stmts /\ q.op = "acquire" /\ q.stream = s
        /\ q.token = lastToken + 1 /\ q.expires <= now + TTL + MaxSkew
    BY TimeAssumption DEF WorkerClock, IInv, TypeOK, Stmts, Ops
  <1>4. Issue(w, q)
    BY <1>1
  <1> HIDE DEF q
  <1>5. QED
    BY <1>2, <1>3, <1>4, IssueStep

\* renew() issues an UPDATE for a claim the worker still holds.
LEMMA CallRenewStep ==
  ASSUME IInv, NEW w \in Workers, NEW c \in claims[w], CallRenew(w, c)
  PROVE  IInv'
  <1>1. PICK clock \in WorkerClock :
          Issue(w, [op |-> "renew", stream |-> c.stream, token |-> c.token,
                    expires |-> clock + TTL])
    BY DEF CallRenew
  <1> DEFINE q == [op |-> "renew", stream |-> c.stream, token |-> c.token,
                   expires |-> clock + TTL]
  <1>2. /\ UNCHANGED <<now, row, result, lost, granted>>
        /\ claims' = claims /\ claims \in [Workers -> SUBSET LockTokens]
        /\ lastToken' = lastToken
    BY DEF CallRenew, IInv, TypeOK
  <1>3. c \in LockTokens /\ c = [stream |-> c.stream, token |-> c.token]
    BY <1>2 DEF LockTokens
  <1>4. /\ q \in Stmts /\ q.op = "renew" /\ q.stream = c.stream /\ q.token = c.token
        /\ q.stream \in Streams /\ q.expires <= now + TTL + MaxSkew
    BY <1>3, TimeAssumption DEF WorkerClock, IInv, TypeOK, Stmts, Ops, LockTokens
  <1>5. Issue(w, q)
    BY <1>1
  <1> HIDE DEF q
  <1>6. QED
    BY <1>2, <1>3, <1>4, <1>5, IssueStep

\* release() drops the claim and issues its DELETE.
LEMMA CallReleaseStep ==
  ASSUME IInv, NEW w \in Workers, NEW c \in claims[w], CallRelease(w, c)
  PROVE  IInv'
  <1> DEFINE q == ReleaseStmt(c)
  <1>1. /\ UNCHANGED <<now, row, result, lost, granted>>
        /\ claims' = [claims EXCEPT ![w] = @ \ {c}]
        /\ claims \in [Workers -> SUBSET LockTokens]
        /\ lastToken' = lastToken
        /\ Issue(w, q)
    BY DEF CallRelease, IInv, TypeOK
  <1>2. c \in LockTokens /\ c = [stream |-> c.stream, token |-> c.token]
    BY <1>1 DEF LockTokens
  <1>3. /\ q \in Stmts /\ q.op = "release" /\ q.stream = c.stream /\ q.token = c.token
        /\ q.stream \in Streams
    BY <1>2 DEF ReleaseStmt, Stmts, Ops, LockTokens
  <1>4. /\ claims' \in [Workers -> SUBSET LockTokens]
        /\ \A v \in Workers : claims'[v] \subseteq claims[v]
        /\ c \notin claims'[w]
    BY <1>1
  <1> HIDE DEF q
  <1>5. QED
    BY <1>1, <1>2, <1>3, <1>4, IssueStep

\* releaseAll() drops every claim and deletes by owner.
LEMMA CallReleaseAllStep ==
  ASSUME IInv, NEW w \in Workers, CallReleaseAll(w)
  PROVE  IInv'
  <1> DEFINE q == [op |-> "releaseAll", stream |-> None, token |-> 0, expires |-> 0]
  <1>1. /\ UNCHANGED <<now, row, result, lost, granted>>
        /\ claims' = [claims EXCEPT ![w] = {}]
        /\ claims \in [Workers -> SUBSET LockTokens]
        /\ lastToken' = lastToken
        /\ Issue(w, q)
        /\ \A i \in 1..Len(conn[w]) : conn[w][i].op # "acquire"
    BY DEF CallReleaseAll, IInv, TypeOK
  <1>2. q \in Stmts /\ q.op = "releaseAll"
    BY DEF Stmts, Ops
  <1>3. /\ claims' \in [Workers -> SUBSET LockTokens]
        /\ \A v \in Workers : claims'[v] \subseteq claims[v]
        /\ claims'[w] = {}
    BY <1>1
  <1> HIDE DEF q
  <1>4. QED
    BY <1>1, <1>2, <1>3, IssueStep

\* A worker resumes: its first statement leaves the connection.  A claim may be
\* added by a granted acquire, a token may be lost by a refused renewal, and a
\* claim that is dropped may be released.
LEMMA ResumeStep ==
  ASSUME IInv, NEW w \in Workers, conn[w] # <<>>,
         NEW qs \in Seq(Stmts), Len(qs) \in {0, 1}, Resume(w, qs),
         UNCHANGED <<now, row, lastToken, granted>>,
         claims' \in [Workers -> SUBSET LockTokens],
         \A v \in Workers : v # w => claims'[v] = claims[v],
         \A c \in claims'[w] :
            \/ c \in claims[w]
            \/ conn[w][1].op = "acquire" /\ result[w] = "yes" /\ c = HeadClaim(w),
         lost' \in SUBSET Nat,
         \A t \in lost' :
            \/ t \in lost
            \/ conn[w][1].op = "renew" /\ result[w] = "no" /\ t = conn[w][1].token,
         Len(qs) = 1 =>
            /\ qs[1].op = "release" /\ qs[1].stream \in Streams
            /\ [stream |-> qs[1].stream, token |-> qs[1].token] \in claims[w]
            /\ [stream |-> qs[1].stream, token |-> qs[1].token] \notin claims'[w]
  PROVE  IInv'
  <1> USE DEF IInv
  <1> DEFINE n == Len(conn[w])
             q == qs[1]
  <1>1. /\ conn' \in [Workers -> Seq(Stmts)]
        /\ \A v \in Workers : v # w => conn'[v] = conn[v]
        /\ n \in Nat \ {0}
        /\ Len(conn'[w]) = n - 1 + Len(qs)
        /\ result' = [result EXCEPT ![w] = "none"]
    BY ResumeConn
  <1>2. \A v \in Workers : \A i \in 1..Len(conn'[v]) :
           \/ v # w /\ conn'[v] = conn[v]
           \/ v = w /\ i + 1 \in 1..Len(conn[v]) /\ conn'[v][i] = conn[v][i + 1]
           \/ v = w /\ i = n /\ Len(qs) = 1 /\ conn'[v][i] = q
    BY ResumeConn
  <1>3. Typed /\ result \in [Workers -> {"none", "yes", "no"}]
    BY TypeOKTyped DEF TypeOK
  <1>4. /\ HeadClaim(w) = [stream |-> conn[w][1].stream, token |-> conn[w][1].token]
        /\ 1 \in 1..n
    BY <1>1, HeadStmt DEF HeadClaim
  <1>5. Len(qs) = 1 => q.token \in Nat
    <2>1. Len(qs) = 1 => qs[1] \in Stmts
      BY ElementOfSeq
    <2>2. QED
      BY <2>1 DEF Stmts
  <1> HIDE DEF n, q
  <1>6. result'[w] = "none" /\ \A v \in Workers : v # w => result'[v] = result[v]
    BY <1>1, <1>3
  <1>7. TypeOK'
    BY <1>1, <1>3 DEF TypeOK
  <1>8. Shape'
    <2>1. ASSUME NEW v \in Workers, Len(conn'[v]) = 0 PROVE result'[v] = "none"
      <3>1. CASE v = w
        BY <1>6, <3>1
      <3>2. CASE v # w
        BY <1>1, <1>6, <2>1, <3>2 DEF Shape
      <3>3. QED
        BY <3>1, <3>2
    <2>2. ASSUME NEW v \in Workers, NEW i \in 1..Len(conn'[v]),
                 conn'[v][i].op # "releaseAll"
          PROVE  conn'[v][i].stream \in Streams
      <3>1. CASE v # w
        BY <1>1, <2>2, <3>1 DEF Shape
      <3>2. CASE i + 1 \in 1..Len(conn[v]) /\ conn'[v][i] = conn[v][i + 1]
        BY <2>2, <3>2 DEF Shape
      <3>3. CASE Len(qs) = 1 /\ conn'[v][i] = q
        BY <3>3 DEF q
      <3>4. QED
        BY <1>2, <3>1, <3>2, <3>3
    <2>3. QED
      BY <2>1, <2>2 DEF Shape
  <1>9. TokensIdentify'
    <2> SUFFICES ASSUME NEW v \in Workers, NEW r \in Streams, NEW t \in Nat,
                        Mentions(v, r, t)'
                 PROVE  Mentions(v, r, t)
      BY NothingNew
    <2>1. CASE v # w
      BY <1>1, <2>1 DEF Mentions
    <2>2. CASE v = w /\ [stream |-> r, token |-> t] \in claims'[w]
      BY <1>4, <2>2 DEF Mentions, n
    <2>3. CASE v = w /\ [stream |-> r, token |-> t] \notin claims'[w]
      BY <1>2, <2>3 DEF Mentions, q
    <2>4. QED
      BY <2>1, <2>2, <2>3
  <1>10. AcquiresFresh'
    <2> SUFFICES ASSUME NEW v \in Workers, NEW i \in 1..Len(conn'[v]),
                        conn'[v][i].op = "acquire", Pending(v, i)'
                 PROVE  conn'[v][i].token \notin granted
      BY DEF AcquiresFresh
    <2>1. CASE v # w
      BY <1>1, <1>6, <2>1 DEF AcquiresFresh, Pending
    <2>2. CASE v = w
      <3>1. i + 1 \in 1..Len(conn[w]) /\ conn'[w][i] = conn[w][i + 1]
        BY <1>2, <2>2 DEF q
      <3>2. Pending(w, i + 1)
        BY <3>1 DEF Pending
      <3>3. QED
        BY <2>2, <3>1, <3>2 DEF AcquiresFresh
    <2>3. QED
      BY <2>1, <2>2
  <1>11. AcquiresDistinct'
    <2> SUFFICES ASSUME NEW v \in Workers,
                        NEW i \in 1..Len(conn'[v]), NEW j \in 1..Len(conn'[v]),
                        conn'[v][i].op = "acquire",
                        conn'[v][j].op \in {"acquire", "release"},
                        conn'[v][i].token = conn'[v][j].token
                 PROVE  i = j
      BY DEF AcquiresDistinct
    <2>1. CASE v # w
      <3>1. conn'[v] = conn[v]
        BY <1>1, <2>1
      <3>2. QED
        BY Zenon, <3>1 DEF AcquiresDistinct
    <2>2. CASE v = w
      <3>1. i + 1 \in 1..Len(conn[w]) /\ conn'[w][i] = conn[w][i + 1]
        BY <1>2, <2>2 DEF q
      <3>2. CASE j + 1 \in 1..Len(conn[w]) /\ conn'[w][j] = conn[w][j + 1]
        <4>1. i + 1 = j + 1
          BY <2>2, <3>1, <3>2 DEF AcquiresDistinct
        <4>2. QED
          BY <4>1
      <3>3. CASE Len(qs) = 1 /\ conn'[w][j] = q
        <4>1. conn[w][i + 1].token # q.token
          BY <1>5, <2>2, <3>1, <3>3, HeldNotAcquired DEF q
        <4>2. QED
          BY <2>2, <3>1, <3>3, <4>1
      <3>4. QED
        BY <1>2, <2>2, <3>2, <3>3
    <2>3. QED
      BY <2>1, <2>2
  <1>12. ClaimsGranted'
    <2>1. \A v \in Workers : \A c \in claims'[v] : c.token \in granted'
      BY <1>4 DEF ClaimsGranted, n
    <2>2. ASSUME NEW v \in Workers, NEW i \in 1..Len(conn'[v]),
                 \/ conn'[v][i].op = "renew"
                 \/ i = 1 /\ conn'[v][i].op = "acquire" /\ result'[v] = "yes"
          PROVE  conn'[v][i].token \in granted'
      <3>1. CASE v # w
        BY <1>1, <1>6, <2>2, <3>1 DEF ClaimsGranted
      <3>2. CASE v = w
        <4>1. conn'[w][i].op = "renew"
          BY <1>6, <2>2, <3>2
        <4>2. i + 1 \in 1..Len(conn[w]) /\ conn'[w][i] = conn[w][i + 1]
          BY <1>2, <3>2, <4>1 DEF q
        <4>3. QED
          BY <3>2, <4>1, <4>2 DEF ClaimsGranted
      <3>3. QED
        BY <3>1, <3>2
    <2>3. QED
      BY <2>1, <2>2 DEF ClaimsGranted
  <1>13. LostDead'
    <2>1. \A t : Dead(t)' <=> Dead(t)
      BY DEF Dead, Expired
    <2>2. ASSUME NEW t \in lost' PROVE t \in granted /\ Dead(t)
      BY <1>1, <1>4 DEF LostDead, ClaimsGranted, n
    <2>3. QED
      BY <1>1, <1>6, <2>1, <2>2 DEF LostDead
  <1>14. ExpiryBounded'
    <2>1. LeaseBounded'
      BY DEF ExpiryBounded, LeaseBounded
    <2>2. QED
      BY <1>2, <2>1 DEF ExpiryBounded, q
  <1>15. HeldOnly'
    <2> SUFFICES ASSUME NEW v \in Workers, NEW i \in 1..Len(conn'[v]),
                        conn'[v][i].op \in {"acquire", "release"},
                        [stream |-> conn'[v][i].stream, token |-> conn'[v][i].token]
                           \in claims'[v]
                 PROVE  FALSE
      BY DEF HeldOnly
    <2>1. CASE v # w
      BY <1>1, <2>1 DEF HeldOnly
    <2>2. CASE v = w
      <3>1. i + 1 \in 1..Len(conn[w]) /\ conn'[w][i] = conn[w][i + 1]
        BY <1>2, <2>2 DEF q
      <3>2. [stream |-> conn[w][i + 1].stream, token |-> conn[w][i + 1].token] \notin claims[w]
        BY <2>2, <3>1 DEF HeldOnly
      <3>3. /\ conn[w][1].op = "acquire"
            /\ conn[w][i + 1].token = conn[w][1].token
        BY <1>4, <2>2, <3>1, <3>2
      <3>4. i + 1 = 1
        BY <1>4, <2>2, <3>1, <3>3 DEF AcquiresDistinct, n
      <3>5. QED
        BY <3>4
    <2>3. QED
      BY <2>1, <2>2
  <1>16. AllReleased'
    <2> SUFFICES ASSUME NEW v \in Workers, NEW i \in 1..Len(conn'[v]),
                        conn'[v][i].op = "releaseAll"
                 PROVE  claims'[v] = {} /\ \A j \in 1..i : conn'[v][j].op # "acquire"
      BY DEF AllReleased
    <2>1. CASE v # w
      <3>1. conn'[v] = conn[v] /\ claims'[v] \subseteq claims[v]
        BY <1>1, <2>1
      <3>2. claims[v] = {} /\ \A j \in 1..i : conn[v][j].op # "acquire"
        BY <3>1 DEF AllReleased
      <3>3. QED
        BY <3>1, <3>2
    <2>2. CASE v = w
      <3>1. i + 1 \in 1..Len(conn[w]) /\ conn'[w][i] = conn[w][i + 1]
        BY <1>2, <2>2 DEF q
      <3>2. claims[w] = {} /\ \A j \in 1..(i + 1) : conn[w][j].op # "acquire"
        BY <2>2, <3>1 DEF AllReleased
      <3>3. claims'[w] = {}
        BY <3>2
      <3>4. ASSUME NEW j \in 1..i PROVE conn'[w][j].op # "acquire"
        <4>1. j \in 1..Len(conn'[w])
          BY <1>1, <2>2
        <4>2. \/ conn'[w][j] = conn[w][j + 1]
              \/ Len(qs) = 1 /\ conn'[w][j] = q
          BY <1>2, <4>1
        <4>3. QED
          BY <3>2, <4>2 DEF q
      <3>5. QED
        BY <2>2, <3>3, <3>4
    <2>3. QED
      BY <2>1, <2>2
  <1>17. GrantedDrawn'
    BY DEF GrantedDrawn
  <1>18. QED
    BY <1>7, <1>8, <1>9, <1>10, <1>11, <1>12, <1>13, <1>14, <1>15, <1>16, <1>17

\* The database executes the first statement h of w with outcome r: rows are
\* deleted, claimed by a new token, or renewed while they are live.
LEMMA ExecStep ==
  ASSUME IInv, NEW w \in Workers, conn[w] # <<>>, result[w] = "none",
         NEW r \in {"yes", "no"}, Answer(w, r),
         NEW h, h = conn[w][1],
         UNCHANGED <<now, lastToken, conn, claims, lost>>,
         row' \in [Streams -> Rows],
         \A s \in Streams :
            \/ row'[s] = row[s]
            \/ row'[s].owner = None
            \/ /\ h.op = "acquire" /\ r = "yes" /\ s = h.stream
               /\ row'[s] = [owner |-> w, token |-> h.token, expires |-> h.expires]
            \/ /\ h.op = "renew" /\ s = h.stream /\ Current(w, h) /\ ~ Expired(s)
               /\ row'[s] = [owner |-> w, token |-> h.token, expires |-> h.expires],
         granted' = IF h.op = "acquire" /\ r = "yes" THEN granted \cup {h.token} ELSE granted,
         h.op = "renew" /\ r = "no" => row' = row /\ ~ Renewable(w, h)
  PROVE  IInv'
  <1> USE DEF IInv
  <1>1. Typed /\ result \in [Workers -> {"none", "yes", "no"}]
    BY TypeOKTyped DEF TypeOK
  <1>2. h \in Stmts /\ Len(conn[w]) \in Nat \ {0} /\ 1 \in 1..Len(conn[w])
    BY HeadStmt
  <1>3. /\ h.token \in Nat /\ h.expires \in Int /\ h.op \in Ops
        /\ h.op # "releaseAll" => h.stream \in Streams
    BY <1>1, <1>2 DEF Typed, Shape
  <1>4. result'[w] = r /\ \A v \in Workers : v # w => result'[v] = result[v]
    BY <1>1 DEF Answer
  <1>5. TypeOK'
    BY <1>1, <1>3 DEF TypeOK, Answer
  <1>6. Shape'
    BY <1>2, <1>4 DEF Shape
  <1>7. h.op # "releaseAll" => Mentions(w, h.stream, h.token)
    BY <1>2 DEF Mentions
  <1>8. TokensIdentify'
    <2> SUFFICES ASSUME NEW v \in Workers, NEW s \in Streams, NEW t \in Nat,
                        Mentions(v, s, t)'
                 PROVE  Mentions(v, s, t)
      BY NothingNew
    <2>1. CASE row'[s].owner = v /\ row'[s].token = t
      BY <1>7, <2>1, NoneAssumption DEF Mentions
    <2>2. CASE ~ (row'[s].owner = v /\ row'[s].token = t)
      BY <2>2 DEF Mentions
    <2>3. QED
      BY <2>1, <2>2
  <1>9. h.op = "acquire" => h.token \notin granted
    BY <1>2 DEF AcquiresFresh, Pending
  <1>10. AcquiresFresh'
    <2> SUFFICES ASSUME NEW v \in Workers, NEW i \in 1..Len(conn[v]),
                        conn[v][i].op = "acquire", Pending(v, i)'
                 PROVE  conn[v][i].token \notin granted'
      BY DEF AcquiresFresh
    <2>1. conn[v][i].token \notin granted
      BY <1>4 DEF AcquiresFresh, Pending
    <2>2. h.op = "acquire" => conn[v][i].token # h.token
      <3>1. CASE v = w
        BY <1>2, <1>4, <3>1 DEF AcquiresDistinct, Pending
      <3>2. CASE v # w
        <4>1. Mentions(v, conn[v][i].stream, conn[v][i].token)
          BY DEF Mentions
        <4>2. conn[v][i].stream \in Streams
          BY DEF Shape
        <4>3. QED
          BY <1>3, <1>7, <3>2, <4>1, <4>2 DEF TokensIdentify
      <3>3. QED
        BY <3>1, <3>2
    <2>3. QED
      BY <2>1, <2>2
  <1>11. ClaimsGranted'
    <2>1. h.op = "renew" => h.token \in granted
      BY <1>2 DEF ClaimsGranted
    <2>2. \A s \in Streams : row'[s].owner # None => row'[s].token \in granted'
      BY <2>1 DEF ClaimsGranted
    <2>3. \A v \in Workers : \A i \in 1..Len(conn[v]) :
             \/ conn[v][i].op = "renew"
             \/ i = 1 /\ conn[v][i].op = "acquire" /\ result'[v] = "yes"
             => conn[v][i].token \in granted'
      BY <1>4 DEF ClaimsGranted
    <2>4. QED
      BY <2>2, <2>3 DEF ClaimsGranted
  <1>12. LostDead'
    <2>1. \A t \in granted : Dead(t) => Dead(t)'
      BY <1>3, <1>9, NoneAssumption DEF Dead, Expired, Current
    <2>2. h.op = "renew" /\ r = "no" => Dead(h.token)
      <3> SUFFICES ASSUME h.op = "renew", r = "no", NEW s \in Streams,
                          row[s].owner # None, row[s].token = h.token
                   PROVE  Expired(s)
        BY DEF Dead
      <3>1. row[s].owner \in Workers
        BY <1>1 DEF Typed, Rows
      <3>2. Mentions(row[s].owner, s, h.token)
        BY <3>1 DEF Mentions
      <3>3. row[s].owner = w /\ s = h.stream
        BY <1>3, <1>7, <3>1, <3>2 DEF TokensIdentify
      <3>4. QED
        BY <3>3 DEF Renewable, Current
    <2>3. \A t \in lost' : t \in granted' /\ Dead(t)'
      BY <2>1 DEF LostDead
    <2>4. ASSUME NEW v \in Workers, Len(conn[v]) > 0,
                 conn[v][1].op = "renew", result'[v] = "no"
          PROVE  Dead(conn[v][1].token)'
      <3>1. 1 \in 1..Len(conn[v])
        BY <1>1, <2>4 DEF Typed
      <3>2. conn[v][1].token \in granted
        BY <2>4, <3>1 DEF ClaimsGranted
      <3>3. Dead(conn[v][1].token)
        BY <1>4, <2>2, <2>4 DEF LostDead
      <3>4. QED
        BY <2>1, <3>2, <3>3
    <2>5. QED
      BY <2>3, <2>4 DEF LostDead
  <1>13. ExpiryBounded'
    <2>1. h.op \in {"acquire", "renew"} => h.expires <= now + TTL + MaxSkew
      BY <1>2 DEF ExpiryBounded
    <2>2. LeaseBounded'
      BY <2>1 DEF ExpiryBounded, LeaseBounded
    <2>3. QED
      BY <2>2 DEF ExpiryBounded
  <1>14. AcquiresDistinct' /\ HeldOnly' /\ AllReleased'
    BY DEF AcquiresDistinct, HeldOnly, AllReleased
  <1>15. GrantedDrawn'
    BY <1>3, <1>7 DEF GrantedDrawn, TokensIdentify
  <1>16. QED
    BY <1>5, <1>6, <1>8, <1>10, <1>11, <1>12, <1>13, <1>14, <1>15

\* The upsert takes a row that is absent, expired or its own worker's.
LEMMA ExecAcquireStep ==
  ASSUME IInv, NEW w \in Workers, ExecAcquire(w)
  PROVE  IInv'
  <1> DEFINE h == conn[w][1]
  <1>1. /\ conn[w] # <<>> /\ result[w] = "none" /\ h = Head(conn[w]) /\ h.op = "acquire"
        /\ h \in Stmts /\ h.stream \in Streams /\ row \in [Streams -> Rows]
        /\ UNCHANGED <<now, lastToken, conn, claims, lost>>
    <2>1. /\ conn[w] # <<>> /\ result[w] = "none" /\ Head(conn[w]).op = "acquire"
          /\ UNCHANGED <<now, lastToken, conn, claims, lost>>
      BY DEF ExecAcquire, Executing
    <2>2. h = Head(conn[w]) /\ h \in Stmts /\ 1 \in 1..Len(conn[w])
      BY <2>1, HeadStmt DEF IInv
    <2>3. h.stream \in Streams
      <3>1. Shape /\ h.op # "releaseAll"
        BY <2>1, <2>2 DEF IInv
      <3>2. QED
        BY <2>2, <3>1 DEF Shape
    <2>4. row \in [Streams -> Rows]
      BY DEF IInv, TypeOK
    <2>5. QED
      BY <2>1, <2>2, <2>3, <2>4
  <1>2. CASE Claimable(w, h.stream)
    <2>1. /\ row' = [row EXCEPT ![h.stream] =
                       [owner |-> w, token |-> h.token, expires |-> h.expires]]
          /\ granted' = granted \cup {h.token} /\ Answer(w, "yes")
      BY <1>1, <1>2 DEF ExecAcquire
    <2>2. [owner |-> w, token |-> h.token, expires |-> h.expires] \in Rows
      BY <1>1 DEF Rows, Stmts
    <2>3. /\ row' \in [Streams -> Rows]
          /\ \A s \in Streams : row'[s] =
                IF s = h.stream THEN [owner |-> w, token |-> h.token, expires |-> h.expires]
                                ELSE row[s]
      BY <1>1, <2>1, <2>2
    <2> HIDE DEF h
    <2>4. QED
      BY <1>1, <2>1, <2>3, ExecStep DEF h
  <1>3. CASE ~ Claimable(w, h.stream)
    <2>1. row' = row /\ granted' = granted /\ Answer(w, "no")
      BY <1>1, <1>3 DEF ExecAcquire
    <2>2. QED
      BY <1>1, <2>1, ExecStep
  <1>4. QED
    BY <1>2, <1>3

\* The UPDATE extends only a live row that has the token.
LEMMA ExecRenewStep ==
  ASSUME IInv, NEW w \in Workers, ExecRenew(w)
  PROVE  IInv'
  <1> DEFINE h == conn[w][1]
  <1>1. /\ conn[w] # <<>> /\ result[w] = "none" /\ h = Head(conn[w]) /\ h.op = "renew"
        /\ h \in Stmts /\ h.stream \in Streams /\ row \in [Streams -> Rows]
        /\ UNCHANGED <<now, lastToken, conn, claims, lost, granted>>
    <2>1. /\ conn[w] # <<>> /\ result[w] = "none" /\ Head(conn[w]).op = "renew"
          /\ UNCHANGED <<now, lastToken, conn, claims, lost, granted>>
      BY DEF ExecRenew, Executing
    <2>2. h = Head(conn[w]) /\ h \in Stmts /\ 1 \in 1..Len(conn[w])
      BY <2>1, HeadStmt DEF IInv
    <2>3. h.stream \in Streams
      <3>1. \A i \in 1..Len(conn[w]) :
               conn[w][i].op # "releaseAll" => conn[w][i].stream \in Streams
        BY DEF IInv, Shape
      <3>2. conn[w][1].op = "renew"
        BY Zenon, <2>1, <2>2
      <3>3. 1 \in 1..Len(conn[w])
        BY Zenon, <2>2
      <3>4. QED
        BY Zenon, <3>1, <3>2, <3>3
    <2>4. row \in [Streams -> Rows]
      BY DEF IInv, TypeOK
    <2>5. QED
      BY <2>1, <2>2, <2>3, <2>4
  <1>2. CASE Renewable(w, h)
    <2>1. /\ row' = [row EXCEPT ![h.stream].expires = h.expires]
          /\ Answer(w, "yes")
      BY <1>1, <1>2 DEF ExecRenew, Renewed
    <2>2. /\ [owner |-> w, token |-> h.token, expires |-> h.expires] \in Rows
          /\ Current(w, h) /\ ~ Expired(h.stream)
      BY <1>1, <1>2 DEF Rows, Stmts, Renewable
    <2>3. [row[h.stream] EXCEPT !.expires = h.expires] =
             [owner |-> w, token |-> h.token, expires |-> h.expires]
      BY <1>1, <2>2 DEF Current, Rows
    <2>4. /\ row' \in [Streams -> Rows]
          /\ \A s \in Streams : row'[s] =
                IF s = h.stream THEN [owner |-> w, token |-> h.token, expires |-> h.expires]
                                ELSE row[s]
      BY <1>1, <2>1, <2>2, <2>3
    <2> HIDE DEF h
    <2>5. \A s \in Streams :
             \/ row'[s] = row[s]
             \/ row'[s].owner = None
             \/ /\ h.op = "acquire" /\ "yes" = "yes" /\ s = h.stream
                /\ row'[s] = [owner |-> w, token |-> h.token, expires |-> h.expires]
             \/ /\ h.op = "renew" /\ s = h.stream /\ Current(w, h) /\ ~ Expired(s)
                /\ row'[s] = [owner |-> w, token |-> h.token, expires |-> h.expires]
      BY <1>1, <2>2, <2>4
    <2>6. /\ granted' = IF h.op = "acquire" /\ "yes" = "yes" THEN granted \cup {h.token}
                                                         ELSE granted
          /\ h.op = "renew" /\ "yes" = "no" => row' = row /\ ~ Renewable(w, h)
      BY <1>1
    <2>7. conn[w] # <<>> /\ result[w] = "none" /\ h = conn[w][1] /\ "yes" \in {"yes", "no"}
      BY <1>1 DEF h
    <2>8. Answer(w, "yes") /\ UNCHANGED <<now, lastToken, conn, claims, lost>>
      BY <1>1, <2>1
    <2>9. row' \in [Streams -> Rows]
      BY <2>4
    <2>10. QED
      BY SMTT(30), <2>5, <2>6, <2>7, <2>8, <2>9, ExecStep
  <1>3. CASE ~ Renewable(w, h)
    <2>1. row' = row /\ Answer(w, "no")
      BY <1>1, <1>3 DEF ExecRenew
    <2>2. QED
      BY <1>1, <1>3, <2>1, ExecStep
  <1>4. QED
    BY <1>2, <1>3

\* The DELETEs remove the token's row, or every row of the worker.
LEMMA ExecReleaseStep ==
  ASSUME IInv, NEW w \in Workers, ExecRelease(w) \/ ExecReleaseAll(w)
  PROVE  IInv'
  <1> DEFINE h == conn[w][1]
  <1>1. /\ conn[w] # <<>> /\ result[w] = "none" /\ h = Head(conn[w])
        /\ h.op \in {"release", "releaseAll"}
        /\ h \in Stmts /\ row \in [Streams -> Rows]
        /\ UNCHANGED <<now, lastToken, conn, claims, lost, granted>>
    BY HeadStmt DEF ExecRelease, ExecReleaseAll, Executing, IInv, TypeOK
  <1>2. NoRow \in Rows /\ NoRow.owner = None
    BY DEF NoRow, Rows
  <1>3. /\ row' \in [Streams -> Rows]
        /\ \A s \in Streams : row'[s] = row[s] \/ row'[s].owner = None
    BY <1>1, <1>2 DEF ExecRelease, ExecReleaseAll
  <1>4. PICK r \in {"yes", "no"} : Answer(w, r)
    BY DEF ExecRelease, ExecReleaseAll
  <1>5. QED
    BY <1>1, <1>3, <1>4, ExecStep

\* acquire() resolves to a token, or to null when the row was taken.
LEMMA AcquireReturnsStep ==
  ASSUME IInv, NEW w \in Workers, AcquireReturns(w)
  PROVE  IInv'
  <1>1. /\ conn[w] # <<>> /\ Resume(w, <<>>)
        /\ conn[w][1].op = "acquire" /\ result[w] = "yes"
        /\ UNCHANGED <<now, row, lastToken, lost, granted>>
        /\ lost' \in SUBSET Nat
    BY HeadStmt DEF AcquireReturns, Answered, IInv, TypeOK
  <1>2. HeadClaim(w) \in LockTokens
    BY <1>1, HeadStmt DEF HeadClaim, LockTokens, IInv, Shape, Stmts
  <1>3. claims' = [claims EXCEPT ![w] = @ \cup {HeadClaim(w)}]
    BY DEF AcquireReturns
  <1>4. /\ claims' \in [Workers -> SUBSET LockTokens]
        /\ \A v \in Workers : v # w => claims'[v] = claims[v]
        /\ \A c \in claims'[w] : c \in claims[w] \/ c = HeadClaim(w)
    BY <1>2, <1>3 DEF IInv, TypeOK
  <1> DEFINE qs == <<>>
  <1>5. qs \in Seq(Stmts) /\ Len(qs) \in {0, 1} /\ Len(qs) # 1 /\ Resume(w, qs)
    BY <1>1
  <1> HIDE DEF qs
  <1>6. QED
    BY <1>1, <1>4, <1>5, ResumeStep

\* renew() resolves to false: no live row has the token any more.
LEMMA RenewReturnsFalseStep ==
  ASSUME IInv, NEW w \in Workers, RenewReturnsFalse(w)
  PROVE  IInv'
  <1> DEFINE c == HeadClaim(w)
             qs == IF c \in claims[w] THEN <<ReleaseStmt(c)>> ELSE <<>>
  <1>1. /\ conn[w] # <<>> /\ Resume(w, qs)
        /\ conn[w][1].op = "renew" /\ result[w] = "no"
        /\ c = [stream |-> conn[w][1].stream, token |-> conn[w][1].token]
        /\ UNCHANGED <<now, row, lastToken, granted>>
        /\ lost' = lost \cup {c.token}
        /\ lost \in SUBSET Nat
    BY HeadStmt DEF RenewReturnsFalse, Answered, HeadClaim, IInv, TypeOK
  <1>2. c \in LockTokens /\ c.token \in Nat /\ c.stream \in Streams
    BY <1>1, HeadStmt DEF LockTokens, IInv, Shape, Stmts
  <1>3. claims' = [claims EXCEPT ![w] = @ \ {c}]
    BY DEF RenewReturnsFalse
  <1>4. /\ claims' \in [Workers -> SUBSET LockTokens]
        /\ \A v \in Workers : v # w => claims'[v] = claims[v]
        /\ \A d \in claims'[w] : d \in claims[w]
        /\ c \notin claims'[w]
    BY <1>3 DEF IInv, TypeOK
  <1>5. /\ ReleaseStmt(c) \in Stmts /\ ReleaseStmt(c).op = "release"
        /\ ReleaseStmt(c).stream = c.stream /\ ReleaseStmt(c).token = c.token
    BY <1>2 DEF ReleaseStmt, Stmts, Ops
  <1>6. /\ qs \in Seq(Stmts) /\ Len(qs) \in {0, 1}
        /\ Len(qs) = 1 => c \in claims[w] /\ qs[1] = ReleaseStmt(c)
    BY <1>5
  <1>7. [stream |-> c.stream, token |-> c.token] = c
    BY <1>1
  <1> HIDE DEF qs, c
  <1>8. c.token = conn[w][1].token
    BY <1>1
  <1>9. QED
    BY <1>1, <1>2, <1>4, <1>5, <1>6, <1>7, <1>8, ResumeStep

\* Answers that settle without a change of the worker's claims.
LEMMA OthersReturnStep ==
  ASSUME IInv, NEW w \in Workers, OthersReturn(w) \/ Reject(w)
  PROVE  IInv'
  <1>1. /\ conn[w] # <<>> /\ Resume(w, <<>>)
        /\ UNCHANGED <<now, row, lastToken, claims, lost, granted>>
        /\ lost' \in SUBSET Nat /\ claims' \in [Workers -> SUBSET LockTokens]
    BY DEF OthersReturn, Reject, Answered, IInv, TypeOK
  <1> DEFINE qs == <<>>
  <1>2. qs \in Seq(Stmts) /\ Len(qs) \in {0, 1} /\ Len(qs) # 1 /\ Resume(w, qs)
    BY <1>1
  <1> HIDE DEF qs
  <1>3. QED
    BY <1>1, <1>2, ResumeStep

\* A crash forgets the worker's claims; the rows stay in the table.
LEMMA CrashStep ==
  ASSUME IInv, NEW w \in Workers, Crash(w)
  PROVE  IInv'
  <1> USE DEF IInv
  <1>1. TypeOK' /\ UNCHANGED <<now, row, lastToken, lost, granted>>
    BY DEF Crash, TypeOK
  <1>2. /\ conn'[w] = <<>> /\ result'[w] = "none" /\ claims'[w] = {}
        /\ \A v \in Workers : v # w =>
              conn'[v] = conn[v] /\ result'[v] = result[v] /\ claims'[v] = claims[v]
    BY DEF Crash, TypeOK
  <1>3. Len(conn'[w]) = 0 /\ \A i \in 1..Len(conn'[w]) : FALSE
    BY <1>2
  <1>4. TokensIdentify'
    BY <1>1, <1>2, <1>3, NothingNew DEF Mentions
  <1>5. Shape' /\ GrantedDrawn' /\ AcquiresFresh' /\ AcquiresDistinct'
    <2>1. Shape' /\ GrantedDrawn'
      BY <1>1, <1>2, <1>3 DEF Shape, GrantedDrawn
    <2>2. AcquiresFresh'
      BY <1>1, <1>2, <1>3 DEF AcquiresFresh, Pending
    <2>3. AcquiresDistinct'
      BY <1>2, <1>3 DEF AcquiresDistinct
    <2>4. QED
      BY <2>1, <2>2, <2>3
  <1>6. ClaimsGranted'
    <2>1. \A s \in Streams : row'[s].owner # None => row'[s].token \in granted'
      BY <1>1 DEF ClaimsGranted
    <2>2. \A v \in Workers : \A c \in claims'[v] : c.token \in granted'
      BY <1>1, <1>2 DEF ClaimsGranted
    <2>3. ASSUME NEW v \in Workers, NEW i \in 1..Len(conn'[v]),
                 \/ conn'[v][i].op = "renew"
                 \/ i = 1 /\ conn'[v][i].op = "acquire" /\ result'[v] = "yes"
          PROVE  conn'[v][i].token \in granted'
      <3>1. v # w /\ conn'[v] = conn[v] /\ result'[v] = result[v] /\ granted' = granted
        BY <1>1, <1>2, <1>3
      <3>2. QED
        BY <2>3, <3>1 DEF ClaimsGranted
    <2>4. QED
      BY <2>1, <2>2, <2>3 DEF ClaimsGranted
  <1>7. HeldOnly' /\ AllReleased'
    BY <1>2, <1>3 DEF HeldOnly, AllReleased
  <1>8. LostDead'
    <2>1. \A t : Dead(t)' <=> Dead(t)
      BY <1>1 DEF Dead, Expired
    <2>2. QED
      BY <1>1, <1>2, <1>3, <2>1 DEF LostDead
  <1>9. ExpiryBounded'
    BY <1>1, <1>2, <1>3 DEF ExpiryBounded, LeaseBounded
  <1>10. QED
    BY <1>1, <1>4, <1>5, <1>6, <1>7, <1>8, <1>9

\* A step that changes no variable keeps the invariant.
LEMMA StutterStep ==
  ASSUME IInv, UNCHANGED vars
  PROVE  IInv'
  <1> USE DEF vars, IInv
  <1>1. TypeOK' /\ Shape' /\ GrantedDrawn' /\ AcquiresFresh' /\ AcquiresDistinct'
    BY DEF TypeOK, Shape, GrantedDrawn, AcquiresFresh, Pending, AcquiresDistinct
  <1>2. TokensIdentify' /\ ClaimsGranted' /\ HeldOnly' /\ AllReleased'
    BY DEF TokensIdentify, Mentions, ClaimsGranted, HeldOnly, AllReleased
  <1>3. LostDead' /\ ExpiryBounded'
    BY DEF LostDead, Dead, Expired, ExpiryBounded, LeaseBounded
  <1>4. QED
    BY <1>1, <1>2, <1>3

\* Every step keeps the invariant: one case for each action.
LEMMA NextIInv == IInv /\ [Next]_vars => IInv'
  <1> SUFFICES ASSUME IInv, [Next]_vars PROVE IInv'
    OBVIOUS
  <1>1. CASE Tick
    BY <1>1, TickStep
  <1>2. ASSUME NEW w \in Workers, NEW s \in Streams, CallAcquire(w, s) PROVE IInv'
    BY <1>2, CallAcquireStep
  <1>3. ASSUME NEW w \in Workers, NEW c \in claims[w], CallRenew(w, c) PROVE IInv'
    BY <1>3, CallRenewStep
  <1>4. ASSUME NEW w \in Workers, NEW c \in claims[w], CallRelease(w, c) PROVE IInv'
    BY <1>4, CallReleaseStep
  <1>5. ASSUME NEW w \in Workers, CallReleaseAll(w) PROVE IInv'
    BY <1>5, CallReleaseAllStep
  <1>6. ASSUME NEW w \in Workers, ExecAcquire(w) PROVE IInv'
    BY <1>6, ExecAcquireStep
  <1>7. ASSUME NEW w \in Workers, ExecRenew(w) PROVE IInv'
    BY <1>7, ExecRenewStep
  <1>8. ASSUME NEW w \in Workers, ExecRelease(w) \/ ExecReleaseAll(w) PROVE IInv'
    BY <1>8, ExecReleaseStep
  <1>9. ASSUME NEW w \in Workers, AcquireReturns(w) PROVE IInv'
    BY <1>9, AcquireReturnsStep
  <1>10. ASSUME NEW w \in Workers, RenewReturnsFalse(w) PROVE IInv'
    BY <1>10, RenewReturnsFalseStep
  <1>11. ASSUME NEW w \in Workers, OthersReturn(w) \/ Reject(w) PROVE IInv'
    BY <1>11, OthersReturnStep
  <1>12. ASSUME NEW w \in Workers, Crash(w) PROVE IInv'
    BY <1>12, CrashStep
  <1>13. CASE UNCHANGED vars
    BY <1>13, StutterStep
  <1>14. QED
    BY <1>1, <1>2, <1>3, <1>4, <1>5, <1>6, <1>7, <1>8, <1>9, <1>10, <1>11, <1>12, <1>13
       DEF Next

\* The strengthened invariant holds in every reachable state.
THEOREM Invariance == Spec => []IInv
  BY InitIInv, NextIInv, PTL DEF Spec

-----------------------------------------------------------------------------
(* The properties of StreamLocks *)

\* Every variable keeps its type, whatever is delayed, rejected or crashes.
THEOREM TypeCorrect == Spec => []TypeOK
  <1>1. IInv => TypeOK
    BY DEF IInv
  <1>2. QED
    BY <1>1, Invariance, PTL

\* The lease of a row ends at most one TTL and one clock error from now, for
\* every interleaving of acquire and renew with their delayed executions.
THEOREM LeasesAreBounded == Spec => []LeaseBounded
  <1>1. IInv => LeaseBounded
    BY DEF IInv, ExpiryBounded
  <1>2. QED
    BY <1>1, Invariance, PTL

\* A token that renew() has reported as lost never holds a live row again.
THEOREM LossIsFinal == Spec => []LostStaysLost
  <1>1. IInv => LostStaysLost
    BY DEF IInv, LostDead, Dead, LostStaysLost
  <1>2. QED
    BY <1>1, Invariance, PTL

\* A step leaves a live row with its owner while the owner holds the claim.
LEMMA LiveClaimStep ==
  ASSUME IInv, Next, NEW w \in Workers, NEW c \in claims[w] \cap claims'[w],
         Current(w, c), ~ Expired(c.stream)
  PROVE  row'[c.stream].owner = w
  <1> USE DEF IInv
  <1>1. /\ c \in LockTokens /\ c = [stream |-> c.stream, token |-> c.token]
        /\ c.stream \in Streams /\ row \in [Streams -> Rows]
        /\ row[c.stream].owner = w /\ row[c.stream].token = c.token
    BY DEF TypeOK, LockTokens, Current
  <1>2. CASE row' = row
    BY <1>1, <1>2
  <1>3. ASSUME NEW v \in Workers, ExecAcquire(v)
        PROVE  row'[c.stream].owner = w
    <2>1. conn[v] # <<>> /\ UNCHANGED claims
      BY <1>3 DEF ExecAcquire, Executing
    <2>2. CASE ~ (Head(conn[v]).stream = c.stream)
      BY <1>1, <1>3, <2>2 DEF ExecAcquire
    <2>3. CASE Head(conn[v]).stream = c.stream
      BY <1>1, <1>3, <2>3, NoneAssumption DEF ExecAcquire, Claimable
    <2>4. QED
      BY <2>2, <2>3
  <1>4. ASSUME NEW v \in Workers, ExecRenew(v)
        PROVE  row'[c.stream].owner = w
    BY <1>1, <1>4 DEF ExecRenew, Rows
  <1>5. ASSUME NEW v \in Workers, ExecRelease(v)
        PROVE  row'[c.stream].owner = w
    <2> DEFINE h == Head(conn[v])
    <2>1. conn[v] # <<>> /\ h.op = "release"
      BY <1>5 DEF ExecRelease, Executing
    <2>2. h = conn[v][1] /\ 1 \in 1..Len(conn[v])
      BY <2>1, HeadStmt
    <2>3. [stream |-> h.stream, token |-> h.token] \notin claims[v]
      BY <2>1, <2>2 DEF HeldOnly
    <2>4. ~ (h.stream = c.stream /\ Releasable(v, h))
      BY <1>1, <2>3 DEF Releasable, Current
    <2>5. QED
      BY <1>1, <1>5, <2>4 DEF ExecRelease
  <1>6. ASSUME NEW v \in Workers, ExecReleaseAll(v)
        PROVE  row'[c.stream].owner = w
    <2>1. conn[v] # <<>> /\ Head(conn[v]).op = "releaseAll"
      BY <1>6 DEF ExecReleaseAll, Executing
    <2>2. Head(conn[v]) = conn[v][1] /\ 1 \in 1..Len(conn[v])
      BY <2>1, HeadStmt
    <2>3. claims[v] = {}
      BY <2>1, <2>2 DEF AllReleased
    <2>4. v # w
      BY <2>3
    <2>5. QED
      BY <1>1, <1>6, <2>4 DEF ExecReleaseAll
  <1>7. QED
    BY <1>2, <1>3, <1>4, <1>5, <1>6
       DEF Next, Tick, CallAcquire, CallRenew, CallRelease, CallReleaseAll,
           AcquireReturns, RenewReturnsFalse, OthersReturn, Reject, Crash

\* No step of anyone takes a live row away from a worker that holds its claim:
\* neither another worker's acquire nor a late release or releaseAll.
THEOREM LiveClaimsAreKept == Spec => LiveClaimKept
  <1> DEFINE Kept == \A w \in Workers : \A c \in claims[w] \cap claims'[w] :
                       (Current(w, c) /\ ~ Expired(c.stream)) => row'[c.stream].owner = w
  <1>1. IInv /\ [Next]_vars => [Kept]_vars
    <2> SUFFICES ASSUME IInv, Next PROVE Kept
      BY DEF vars
    <2>1. QED
      BY LiveClaimStep
  <1>2. QED
    BY <1>1, Invariance, PTL DEF Spec, LiveClaimKept

-----------------------------------------------------------------------------
(* StreamLocks implements StreamOwnership *)

\* A step that changes neither the database's clock, the table nor the granted
\* tokens is invisible.
LEMMA Invisible ==
  ASSUME UNCHANGED <<now, row, granted>>
  PROVE  UNCHANGED Own!vars
  BY DEF Own!vars, Holder, Expired

\* A step after which every stream has its holder or none ends claims.
LEMMA ClaimsEnd ==
  ASSUME UNCHANGED granted,
         \A s \in Streams : Holder(s)' = Holder(s) \/ Holder(s)' = <<None, 0>>
  PROVE  Own!Next
  <1> DEFINE S == {s \in Streams : Holder(s)' # Holder(s)}
  <1>1. \A s \in Streams : Holder(s)' = IF s \in S THEN <<None, 0>> ELSE Holder(s)
    OBVIOUS
  <1>2. Own!End(S)
    BY <1>1 DEF Own!End, Own!Nobody
  <1>3. S \in SUBSET Streams
    OBVIOUS
  <1>4. QED
    BY <1>2, <1>3 DEF Own!Next

\* Granting an acquire is a Claim, or a ClaimLate when the lease is over.
LEMMA GrantClaims ==
  ASSUME IInv, NEW w \in Workers, ExecAcquire(w)
  PROVE  Own!Next \/ UNCHANGED Own!vars
  <1> USE DEF IInv
  <1> DEFINE h == Head(conn[w])
  <1>1. /\ conn[w] # <<>> /\ result[w] = "none" /\ h.op = "acquire"
        /\ h = conn[w][1] /\ 1 \in 1..Len(conn[w])
    BY HeadStmt DEF ExecAcquire, Executing
  <1>2. Typed /\ h.stream \in Streams /\ h.token \in Nat /\ row \in [Streams -> Rows]
    BY <1>1, TypeOKTyped DEF Typed, Shape, TypeOK
  <1>3. h.token \notin granted
    BY <1>1 DEF AcquiresFresh, Pending
  <1>4. h.token \in 1..MaxTokens
    <2>1. Mentions(w, h.stream, h.token)
      BY <1>1 DEF Mentions
    <2>2. h.token \in 1..lastToken
      BY <1>2, <2>1 DEF TokensIdentify
    <2>3. QED
      BY <1>2, <2>2, BoundAssumption DEF Shape, Typed
  <1>5. CASE ~ Claimable(w, h.stream)
    <2>1. UNCHANGED <<now, row, granted>>
      BY <1>5 DEF ExecAcquire
    <2>2. QED
      BY <2>1, Invisible
  <1>6. CASE Claimable(w, h.stream)
    <2>1. PICK r \in Streams, t \in 1..MaxTokens : r = h.stream /\ t = h.token
      BY <1>2, <1>4
    <2>2. /\ row' = [row EXCEPT ![r] = [owner |-> w, token |-> t, expires |-> h.expires]]
          /\ granted' = granted \cup {t} /\ now' = now
      BY <1>6, <2>1 DEF ExecAcquire
    <2>3. Holder(r)[1] \in {None, w}
      BY <1>6, <2>1 DEF Holder, Claimable, Expired
    <2>4. \A s \in Streams : s # r => Holder(s)' = Holder(s)
      BY <1>2, <2>2 DEF Holder, Expired
    <2>5. Holder(r)' = <<w, t>> \/ Holder(r)' = <<None, 0>>
      BY <1>2, <2>2 DEF Holder, Expired
    <2> DEFINE holder == [s \in Streams |-> Holder(s)]
    <2>6. \/ holder' = [holder EXCEPT ![r] = <<w, t>>]
          \/ holder' = [holder EXCEPT ![r] = <<None, 0>>]
      BY <2>4, <2>5
    <2>7. holder[r][1] \in {None, w}
      BY <2>3
    <2>8. Own!Claim(w, r, t) \/ Own!ClaimLate(w, r, t)
      BY <1>3, <2>1, <2>2, <2>6, <2>7 DEF Own!Claim, Own!ClaimLate, Own!Nobody
    <2>9. QED
      BY <2>8 DEF Own!Next
  <1>7. QED
    BY <1>5, <1>6

\* Every step of the lock table is a step of the abstract ownership, or none.
LEMMA OwnershipStep ==
  ASSUME IInv, [Next]_vars
  PROVE  [Own!Next]_Own!vars
  <1> USE DEF IInv
  <1>1. Typed /\ row \in [Streams -> Rows]
    BY TypeOKTyped DEF TypeOK
  <1>2. CASE UNCHANGED <<now, row, granted>>
    BY <1>2, Invisible
  <1>3. CASE Tick
    BY <1>1, <1>3, ClaimsEnd DEF Tick, Holder, Expired, Typed
  <1>4. ASSUME NEW w \in Workers, ExecAcquire(w) PROVE [Own!Next]_Own!vars
    BY <1>4, GrantClaims
  <1>5. ASSUME NEW w \in Workers, ExecRenew(w) PROVE [Own!Next]_Own!vars
    <2>1. now' = now /\ granted' = granted
      BY <1>5 DEF ExecRenew
    <2>2. \A s \in Streams : /\ row'[s].owner = row[s].owner
                             /\ row'[s].token = row[s].token
                             /\ row'[s] = row[s] \/ ~ Expired(s)
      BY <1>1, <1>5 DEF ExecRenew, Renewable, Rows
    <2>3. \A s \in Streams : Holder(s)' = Holder(s) \/ Holder(s)' = <<None, 0>>
      BY <2>1, <2>2 DEF Holder, Expired
    <2>4. QED
      BY <2>1, <2>3, ClaimsEnd
  <1>6. ASSUME NEW w \in Workers, ExecRelease(w) \/ ExecReleaseAll(w)
        PROVE  [Own!Next]_Own!vars
    <2>1. now' = now /\ granted' = granted
      BY <1>6 DEF ExecRelease, ExecReleaseAll
    <2>2. \A s \in Streams : row'[s] = row[s] \/ row'[s] = NoRow
      BY <1>1, <1>6 DEF ExecRelease, ExecReleaseAll
    <2>3. \A s \in Streams : Holder(s)' = Holder(s) \/ Holder(s)' = <<None, 0>>
      BY <2>1, <2>2 DEF Holder, Expired, NoRow
    <2>4. QED
      BY <2>1, <2>3, ClaimsEnd
  <1>7. QED
    BY <1>2, <1>3, <1>4, <1>5, <1>6
       DEF Next, vars, CallAcquire, CallRenew, CallRelease, CallReleaseAll,
           AcquireReturns, RenewReturnsFalse, OthersReturn, Reject, Crash

\* Implementation: seen through Holder, the lock table behaves as the abstract
\* ownership of streams: one holder at a time, new claims only, and no claim
\* that has ended ever holds a stream again.
THEOREM ImplementsOwnership == Spec => Ownership
  <1>1. Init => Own!Init
    BY DEF Init, Own!Init, Own!Nobody, Holder, NoRow
  <1>2. IInv /\ [Next]_vars => [Own!Next]_Own!vars
    BY OwnershipStep
  <1>3. QED
    BY <1>1, <1>2, Invariance, PTL DEF Spec, Ownership, Own!Spec
=============================================================================
