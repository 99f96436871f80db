------------------------- MODULE SessionTiming_proofs -------------------------
(***************************************************************************)
(* Proofs about what SessionRegistry and StreamLocks achieve together, for *)
(* any number of workers, streams and concurrent route() calls: the fleet  *)
(* keeps the promises of the lock, and when the TTL suffices for the       *)
(* delays, whoever has a session of a stream holds the stream's row, so no *)
(* stream has a session in two workers.                                    *)
(***************************************************************************)
EXTENDS SessionRegistry_proofs

\* The lock below the registries, with what is proved about it.
LP == INSTANCE StreamLocks_proofs WITH claims <- [w \in Workers |-> Held(w)]

-----------------------------------------------------------------------------
(* The timed invariant *)

\* No statement is older than the longest lag.
SentLately(w) ==
  \A i \in 1..Len(conn[w]) : sentAt[w][i] <= now /\ now <= sentAt[w][i] + MaxLag

\* The lease asked for starts when the statement was issued, on a clock that
\* is slow by MaxSkew at most.
LeasesStamped(w) ==
  \A i \in 1..Len(conn[w]) : conn[w][i].op \in {"acquire", "renew"} =>
     sentAt[w][i] + TTL <= conn[w][i].expires + MaxSkew

\* Timers fire in time, and no more renewals are missed than may be.
TimersAhead(w) ==
  \A s \in Streams : heartbeats[w][s] # NoTimer => now <= heartbeats[w][s].due

MissedBounded(w) == \A s \in Streams : missed[w][s] <= MaxMissed

\* A session has a timer or a renewal on its way, not both, and not two.
OneBeat(w) ==
  \A s \in Streams, i \in 1..Len(conn[w]) :
     IsStmt(w, i, "renew", s) /\ sessions[w][s] # "none" =>
        /\ heartbeats[w][s] = NoTimer
        /\ \A j \in 1..Len(conn[w]) : IsStmt(w, j, "renew", s) => j = i

\* The row of s is w's, by the claim t.
RowOf(w, s, t) == row[s].owner = w /\ row[s].token = t

\* The lease of s was asked for at this time, or earlier.
LeaseStart(s) == row[s].expires + MaxSkew - TTL

\* How far apart a lease and the next renewal may be after k missed ones.
Reach(k) == (k + 1) * (HeartbeatMs + MaxLag)

\* A session has the row of its claim, and its next renewal comes in time.
SessionOwns(w, s) ==
  sessions[w][s] # "none" =>
     /\ RowOf(w, s, lockTokens[w][s])
     /\ heartbeats[w][s] # NoTimer =>
           heartbeats[w][s].due <= LeaseStart(s) + Reach(missed[w][s])
     /\ \A i \in 1..Len(conn[w]) : IsStmt(w, i, "renew", s) =>
           sentAt[w][i] <= LeaseStart(s) + Reach(missed[w][s])

\* A call that resumes with a token has the row, by a recent lease.
ResumeOwns(w, c) ==
  Resumes(w, c) /\ calls[w][c].token # 0 =>
     /\ RowOf(w, calls[w][c].stream, calls[w][c].token)
     /\ now <= LeaseStart(calls[w][c].stream) + MaxLag

\* What the database has granted and the worker has not heard is in the row.
GrantedInRow(w) ==
  conn[w] # <<>> /\ result[w] = "yes" /\ First(w).op \in {"acquire", "renew"} =>
     /\ RowOf(w, First(w).stream, First(w).token)
     /\ row[First(w).stream].expires = First(w).expires

\* A renewal is refused only if its session has gone.
RefusedIsGone(w) ==
  conn[w] # <<>> /\ result[w] = "no" /\ First(w).op = "renew" =>
     sessions[w][First(w).stream] = "none"

\* A pump publishes for a session that is there: none ever fails.
PumpsServe(w) ==
  \A p \in pumps[w] : sessions[w][p[1]] # "none" /\ p[2] = lockTokens[w][p[1]]

TInv(w) ==
  /\ SentLately(w) /\ LeasesStamped(w) /\ TimersAhead(w) /\ MissedBounded(w) /\ OneBeat(w)
  /\ \A s \in Streams : SessionOwns(w, s)
  /\ \A c \in Callers : ResumeOwns(w, c)
  /\ GrantedInRow(w) /\ RefusedIsGone(w) /\ PumpsServe(w)

Timed == TTLSuffices /\ IInv /\ LP!IInv /\ \A w \in Workers : TInv(w)
-----------------------------------------------------------------------------
(* The registries keep what StreamLocks promises *)

\* The lock is the same one in both readings.
LEMMA SameLock ==
  /\ Locks!Init => LP!Init
  /\ Locks!Next => LP!Next
  /\ LP!vars = Locks!vars
  <1>1. Locks!Init => LP!Init
    BY Zenon DEF Locks!Init, LP!Init, Locks!NoRow, LP!NoRow
  <1>2. Locks!Next => LP!Next
    BY Zenon
       DEF Locks!Next, LP!Next, Locks!Tick, LP!Tick,
           Locks!CallAcquire, LP!CallAcquire, Locks!CallRenew, LP!CallRenew,
           Locks!CallRelease, LP!CallRelease, Locks!CallReleaseAll, LP!CallReleaseAll,
           Locks!ExecAcquire, LP!ExecAcquire, Locks!ExecRenew, LP!ExecRenew,
           Locks!ExecRelease, LP!ExecRelease, Locks!ExecReleaseAll, LP!ExecReleaseAll,
           Locks!AcquireReturns, LP!AcquireReturns,
           Locks!RenewReturnsFalse, LP!RenewReturnsFalse,
           Locks!OthersReturn, LP!OthersReturn, Locks!Reject, LP!Reject,
           Locks!Crash, LP!Crash, Locks!Issue, LP!Issue, Locks!Resume, LP!Resume,
           Locks!Executing, LP!Executing, Locks!Answer, LP!Answer,
           Locks!Answered, LP!Answered, Locks!HeadClaim, LP!HeadClaim,
           Locks!ReleaseStmt, LP!ReleaseStmt, Locks!FreshToken, LP!FreshToken,
           Locks!WorkerClock, LP!WorkerClock, Locks!Claimable, LP!Claimable,
           Locks!Expired, LP!Expired, Locks!Current, LP!Current,
           Locks!Renewable, LP!Renewable, Locks!Renewed, LP!Renewed,
           Locks!Releasable, LP!Releasable, Locks!NoRow, LP!NoRow
  <1>3. LP!vars = Locks!vars
    BY DEF Locks!vars, LP!vars
  <1>4. QED
    BY <1>1, <1>2, <1>3

\* The behaviour of the fleet is one of the lock.
LEMMA FleetUsesLock == Spec => LP!Spec
  <1>1. Init => LP!Init
    BY SameLock, InitRefines
  <1>2. IInv /\ [Next]_vars => [LP!Next]_(LP!vars)
    <2>1. SUFFICES ASSUME IInv, [Next]_vars PROVE LP!Next \/ UNCHANGED LP!vars
      OBVIOUS
    <2>2. Locks!Next \/ UNCHANGED Locks!vars
      BY <2>1, NextRefines
    <2>3. UNCHANGED Locks!vars => UNCHANGED LP!vars
      BY DEF Locks!vars, LP!vars
    <2>4. QED
      BY <2>2, <2>3, SameLock
  <1>3. QED
    BY <1>1, <1>2, RegistryInvariance, PTL DEF Spec, LP!Spec

\* The invariant of the lock holds below the registries.
LEMMA FleetLocksInvariance == Spec => []LP!IInv
  BY FleetUsesLock, LP!Invariance, NoneAssumption, TimeAssumption, BoundAssumption, PTL

\* Whatever route(), the heartbeats, the drain and crashes do, the streams of a
\* fleet are owned as StreamOwnership says: one holder at a time, each claim
\* new, none revived.
THEOREM FleetOwnsStreams == Spec => LP!Ownership
  BY FleetUsesLock, LP!ImplementsOwnership, NoneAssumption, TimeAssumption,
     BoundAssumption, PTL

\* So what StreamLocks promises its callers it promises the fleet: the lease of a
\* crashed worker ends within one TTL and one clock error, a token that renew()
\* has reported as lost never holds a live row again, and a live claim that is
\* held is neither taken over nor deleted by a delayed statement.
THEOREM FleetLeases ==
  Spec => []LP!LeaseBounded /\ []LP!LostStaysLost /\ LP!LiveClaimKept
  BY FleetUsesLock, LP!LeasesAreBounded, LP!LossIsFinal, LP!LiveClaimsAreKept,
     NoneAssumption, TimeAssumption, BoundAssumption, PTL

-----------------------------------------------------------------------------
(* Arithmetic of the leases *)

\* What is added to now, and compared with it, are numbers.
LEMMA Numbers ==
  ASSUME TypeOK
  PROVE  /\ now \in Nat
         /\ \A s \in Streams : row[s].expires \in Int /\ LeaseStart(s) \in Int
         /\ \A w \in Workers : \A i \in 1..Len(conn[w]) :
               /\ conn[w][i] \in Locks!Stmts
               /\ conn[w][i].expires \in Int /\ conn[w][i].token \in Nat
               /\ sentAt[w][i] \in Nat
         /\ \A w \in Workers, s \in Streams :
               /\ heartbeats[w][s].due \in Nat /\ heartbeats[w][s].token \in Nat
               /\ missed[w][s] \in Nat /\ lockTokens[w][s] \in Nat
  <1>1. \A s \in Streams : row[s].expires \in Int
    BY DEF TypeOK, Locks!Rows
  <1>2. \A s \in Streams : LeaseStart(s) \in Int
    BY <1>1, TimeAssumption DEF LeaseStart
  <1>3. ASSUME NEW w \in Workers, NEW i \in 1..Len(conn[w])
        PROVE  /\ conn[w][i] \in Locks!Stmts
               /\ conn[w][i].expires \in Int /\ conn[w][i].token \in Nat
               /\ sentAt[w][i] \in Nat
    <2>1. conn[w] \in Seq(Locks!Stmts) /\ sentAt[w] \in Seq(Nat) /\ Len(sentAt[w]) = Len(conn[w])
      BY DEF TypeOK
    <2>2. conn[w][i] \in Locks!Stmts /\ sentAt[w][i] \in Nat
      BY <2>1, ElementOfSeq
    <2>3. QED
      BY <2>2 DEF Locks!Stmts
  <1>4. \A w \in Workers, s \in Streams :
               /\ heartbeats[w][s].due \in Nat /\ heartbeats[w][s].token \in Nat
               /\ missed[w][s] \in Nat /\ lockTokens[w][s] \in Nat
    BY DEF TypeOK
  <1>5. QED
    BY <1>1, <1>2, <1>3, <1>4 DEF TypeOK

\* The interval and the answer that a missed renewal costs.
Beat == HeartbeatMs + MaxLag

LEMMA BeatType == Beat \in Nat /\ MaxMissed \in Nat /\ MaxLag \in Nat
                    /\ HeartbeatMs \in Nat /\ TTL \in Nat /\ MaxSkew \in Nat
  BY HeartbeatAssumption, LagAssumption, TimeAssumption DEF Beat

LEMMA ReachIs == \A k : Reach(k) = (k + 1) * Beat
  BY DEF Reach, Beat

LEMMA ReachType == \A k \in Nat : Reach(k) \in Nat
  <1> TAKE k \in Nat
  <1>1. (k + 1) * Beat \in Nat
    BY BeatType
  <1>2. QED
    BY <1>1, ReachIs, Zenon

LEMMA ReachCoversBeat == \A k \in Nat : Beat <= Reach(k)
  <1> TAKE k \in Nat
  <1>1. k * Beat \in Nat /\ (k + 1) * Beat = k * Beat + Beat
    BY BeatType
  <1>2. Beat <= (k + 1) * Beat
    BY <1>1, BeatType
  <1>3. QED
    BY <1>2, ReachIs, Zenon

\* Each missed renewal costs one more interval and one more answer.
LEMMA ReachGrows == \A k \in Nat : Reach(k + 1) = Reach(k) + Beat
  <1> TAKE k \in Nat
  <1>1. ((k + 1) + 1) * Beat = (k + 1) * Beat + Beat
    BY BeatType
  <1>2. QED
    BY <1>1, ReachIs, Zenon

LEMMA ReachBounded == \A k \in Nat : k <= MaxMissed => Reach(k) <= Reach(MaxMissed)
  <1> SUFFICES ASSUME NEW k \in Nat, k <= MaxMissed
               PROVE  Reach(k) <= Reach(MaxMissed)
    OBVIOUS
  <1> DEFINE d == MaxMissed - k
  <1>1. d \in Nat /\ MaxMissed + 1 = (k + 1) + d
    BY BeatType
  <1> HIDE DEF d
  <1>2. d * Beat \in Nat /\ (k + 1) * Beat \in Nat
    BY <1>1, BeatType
  <1>3. ((k + 1) + d) * Beat = (k + 1) * Beat + d * Beat
    BY <1>1, BeatType
  <1>4. (k + 1) * Beat <= (MaxMissed + 1) * Beat
    BY <1>1, <1>2, <1>3
  <1>5. QED
    BY <1>4, ReachIs, Zenon

LEMMA ReachInTTL == TTLSuffices => Reach(MaxMissed) + MaxLag + MaxSkew < TTL
  BY Zenon DEF TTLSuffices, Reach

\* The row of a session, of a call that resumes with a token and of a grant
\* that is not yet known to the worker is unexpired.
LEMMA LeasesLast ==
  ASSUME Timed, NEW w \in Workers
  PROVE  /\ \A s \in Streams : sessions[w][s] # "none" => row[s].expires > now
         /\ \A c \in Callers : Resumes(w, c) /\ calls[w][c].token # 0 =>
               row[calls[w][c].stream].expires > now
         /\ conn[w] # <<>> /\ result[w] = "yes" /\ First(w).op \in {"acquire", "renew"} =>
               row[First(w).stream].expires > now
  <1> TypeOK /\ WInv(w) /\ TInv(w) /\ TTLSuffices
    BY DEF Timed, IInv
  <1>1. /\ TTL \in Nat /\ MaxSkew \in Nat /\ MaxLag \in Nat /\ now \in Nat
        /\ Reach(MaxMissed) \in Nat /\ Reach(MaxMissed) + MaxLag + MaxSkew < TTL
    <2>1. now \in Nat
      BY DEF TypeOK
    <2>2. Reach(MaxMissed) \in Nat
      BY BeatType, ReachType, Zenon
    <2>3. QED
      BY <2>1, <2>2, BeatType, ReachInTTL, Zenon
  <1>2. ASSUME NEW s \in Streams, sessions[w][s] # "none"
        PROVE  row[s].expires > now
    <2>1. /\ missed[w][s] \in Nat /\ missed[w][s] <= MaxMissed
          /\ row[s].expires \in Int /\ LeaseStart(s) \in Int
          /\ LeaseStart(s) = row[s].expires + MaxSkew - TTL
          /\ heartbeats[w][s].due \in Nat
      BY Numbers DEF TInv, MissedBounded, LeaseStart
    <2> DEFINE k == missed[w][s]
    <2>2. Reach(k) \in Nat /\ Reach(k) <= Reach(MaxMissed)
      <3>1. k \in Nat /\ k <= MaxMissed
        BY <2>1
      <3> HIDE DEF k
      <3>2. QED
        BY <3>1, ReachType, ReachBounded, Zenon
    <2>3. now <= LeaseStart(s) + Reach(missed[w][s]) + MaxLag
      <3>1. CASE heartbeats[w][s] # NoTimer
        <4>1. now <= heartbeats[w][s].due
              /\ heartbeats[w][s].due <= LeaseStart(s) + Reach(missed[w][s])
          BY <1>2, <3>1 DEF TInv, TimersAhead, SessionOwns
        <4>2. QED
          BY <1>1, <2>1, <2>2, <4>1
      <3>2. CASE heartbeats[w][s] = NoTimer
        <4>1. lockTokens[w][s] # 0
          BY <1>2 DEF WInv, SessionsLocked
        <4>2. PICK i \in 1..Len(conn[w]) : IsStmt(w, i, "renew", s)
          BY <1>2, <3>2, <4>1 DEF WInv, Beating, NoTimer
        <4>3. /\ now <= sentAt[w][i] + MaxLag /\ sentAt[w][i] \in Nat
              /\ sentAt[w][i] <= LeaseStart(s) + Reach(missed[w][s])
          BY <1>2, <4>2, Numbers DEF TInv, SentLately, SessionOwns
        <4>4. QED
          BY <1>1, <2>1, <2>2, <4>3
      <3>3. QED
        BY <3>1, <3>2
    <2>4. QED
      BY <1>1, <2>1, <2>2, <2>3
  <1>3. ASSUME NEW c \in Callers, Resumes(w, c), calls[w][c].token # 0
        PROVE  row[calls[w][c].stream].expires > now
    <2> DEFINE s == calls[w][c].stream
    <2>1. s \in Streams
      BY <1>3 DEF WInv, CallsKnown, Resumes
    <2>2. row[s].expires \in Int /\ now <= row[s].expires + MaxSkew - TTL + MaxLag
      BY <1>3, <2>1, Numbers DEF TInv, ResumeOwns, LeaseStart
    <2>3. QED
      BY <1>1, <2>2
  <1>4. ASSUME conn[w] # <<>>, result[w] = "yes", First(w).op \in {"acquire", "renew"}
        PROVE  row[First(w).stream].expires > now
    <2> DEFINE s == First(w).stream
    <2>1. First(w) = conn[w][1] /\ 1 \in 1..Len(conn[w]) /\ s \in Streams
      BY <1>4, FirstType DEF WInv
    <2>2. row[s].expires = conn[w][1].expires /\ conn[w][1].expires \in Int
      BY <1>4, <2>1, Numbers DEF TInv, GrantedInRow
    <2>3. /\ sentAt[w][1] \in Nat /\ now <= sentAt[w][1] + MaxLag
          /\ sentAt[w][1] + TTL <= conn[w][1].expires + MaxSkew
      BY <1>4, <2>1, Numbers DEF TInv, SentLately, LeasesStamped
    <2>4. QED
      BY <1>1, <2>2, <2>3
  <1>5. QED
    BY <1>2, <1>3, <1>4

-----------------------------------------------------------------------------
(* What happens to the statements and their times *)

\* Every statement was d places further down the connection, or is issued now,
\* and is no renewal.
Carried(w, d) ==
  \A i \in 1..Len(conn'[w]) :
     \/ /\ i + d \in 1..Len(conn[w])
        /\ conn'[w][i] = conn[w][i + d] /\ sentAt'[w][i] = sentAt[w][i + d]
     \/ /\ conn'[w][i].op # "renew" /\ sentAt'[w][i] = now
        /\ conn'[w][i].op = "acquire" => now + TTL <= conn'[w][i].expires + MaxSkew

\* Send() of one statement appends it, and the time.
LEMMA TimedSend ==
  ASSUME ConnType, NEW w \in Workers, NEW q \in Locks!Stmts, Send(w, <<q>>), now' \in Nat
  PROVE  /\ \A v \in Workers : v # w => conn'[v] = conn[v] /\ sentAt'[v] = sentAt[v]
         /\ \A i \in 1..Len(conn'[w]) :
               \/ /\ i \in 1..Len(conn[w])
                  /\ conn'[w][i] = conn[w][i] /\ sentAt'[w][i] = sentAt[w][i]
               \/ /\ i = Len(conn[w]) + 1 /\ conn'[w][i] = q /\ sentAt'[w][i] = now
         /\ conn[w] # <<>> => First(w)' = First(w)
  <1>1. conn[w] \in Seq(Locks!Stmts) /\ sentAt[w] \in Seq(Nat) /\ now \in Nat
        /\ Len(sentAt[w]) = Len(conn[w])
    BY DEF ConnType
  <1>2. /\ \A v \in Workers : v # w => conn'[v] = conn[v]
        /\ Len(conn[w]) \in Nat
        /\ Len(conn'[w]) = Len(conn[w]) + 1
        /\ \A i \in 1..Len(conn[w]) : i \in 1..Len(conn'[w]) /\ conn'[w][i] = conn[w][i]
        /\ conn'[w][Len(conn[w]) + 1] = q
        /\ conn'[w] # <<>> /\ ConnType'
    BY SendOne
  <1>3. [i \in 1..Len(<<q>>) |-> now] = <<now>>
    OBVIOUS
  <1>4. sentAt' = [sentAt EXCEPT ![w] = sentAt[w] \o <<now>>]
    BY <1>3 DEF Send
  <1> DEFINE a == sentAt[w] \o <<now>>
  <1>5. /\ \A i \in 1..Len(sentAt[w]) : a[i] = sentAt[w][i]
        /\ a[Len(sentAt[w]) + 1] = now
    <2>1. ASSUME NEW z \in Seq(Nat)
          PROVE  /\ \A i \in 1..Len(z) : i \in 1..Len(z \o <<now>>) /\ (z \o <<now>>)[i] = z[i]
                 /\ (z \o <<now>>)[Len(z) + 1] = now
      BY <1>1, OneMore
    <2>2. QED
      BY <1>1, <2>1
  <1>6. sentAt' = [sentAt EXCEPT ![w] = a]
    BY <1>4
  <1> HIDE DEF a
  <1>7. sentAt'[w] = a /\ \A v \in Workers : v # w => sentAt'[v] = sentAt[v]
    BY <1>6 DEF ConnType
  <1>8. ASSUME NEW i \in 1..Len(conn'[w])
        PROVE  i \in 1..Len(conn[w]) \/ i = Len(conn[w]) + 1
    BY <1>2
  <1>9. conn[w] # <<>> => First(w)' = First(w)
    <2>1. SUFFICES ASSUME conn[w] # <<>> PROVE First(w)' = First(w)
      OBVIOUS
    <2>2. Head(conn[w]) = conn[w][1] /\ 1 \in 1..Len(conn[w])
      BY <1>1, <2>1, OneLess
    <2>3. conn'[w] \in Seq(Locks!Stmts)
      BY <1>2 DEF ConnType
    <2>4. Head(conn'[w]) = conn'[w][1]
      BY <1>2, <2>3, OneLess
    <2>5. QED
      BY <1>2, <2>2, <2>4 DEF First
  <1>10. QED
    BY <1>1, <1>2, <1>5, <1>7, <1>8, <1>9

\* Receive() takes the first statement off, and its time.
LEMMA TimedReceive ==
  ASSUME ConnType, NEW w \in Workers, conn[w] # <<>>, Receive(w, <<>>), now' \in Nat
  PROVE  /\ \A v \in Workers : v # w =>
               conn'[v] = conn[v] /\ sentAt'[v] = sentAt[v] /\ result'[v] = result[v]
         /\ \A i \in 1..Len(conn'[w]) :
               /\ i + 1 \in 1..Len(conn[w])
               /\ conn'[w][i] = conn[w][i + 1] /\ sentAt'[w][i] = sentAt[w][i + 1]
         /\ Carried(w, 1)
  <1>1. conn[w] \in Seq(Locks!Stmts) /\ sentAt[w] \in Seq(Nat) /\ now \in Nat
        /\ Len(sentAt[w]) = Len(conn[w])
    BY DEF ConnType
  <1>2. /\ \A v \in Workers : v # w => conn'[v] = conn[v]
        /\ Len(conn[w]) \in Nat \ {0}
        /\ Len(conn'[w]) = Len(conn[w]) - 1
        /\ \A i \in 1..Len(conn'[w]) :
              i + 1 \in 1..Len(conn[w]) /\ conn'[w][i] = conn[w][i + 1]
    BY ReceiveNothing
  <1>3. sentAt[w] # <<>>
    BY <1>1, <1>2
  <1>4. /\ sentAt' = [sentAt EXCEPT ![w] = Tail(sentAt[w]) \o [i \in 1..Len(<<>>) |-> now]]
        /\ \A v \in Workers : v # w => result'[v] = result[v]
    BY DEF Receive
  <1>5. [i \in 1..Len(<<>>) |-> now] = <<>>
    OBVIOUS
  <1> DEFINE a == Tail(sentAt[w])
  <1>6. /\ a \in Seq(Nat) /\ Len(a) = Len(sentAt[w]) - 1
        /\ \A i \in 1..Len(a) : a[i] = sentAt[w][i + 1]
    BY <1>1, <1>3, OneLess
  <1>7. sentAt' = [sentAt EXCEPT ![w] = a \o <<>>]
    BY <1>4, <1>5
  <1> HIDE DEF a
  <1>8. sentAt'[w] = a /\ \A v \in Workers : v # w => sentAt'[v] = sentAt[v]
    BY <1>6, <1>7, ConcatEmptySeq DEF ConnType
  <1>9. \A i \in 1..Len(conn'[w]) :
               /\ i + 1 \in 1..Len(conn[w])
               /\ conn'[w][i] = conn[w][i + 1] /\ sentAt'[w][i] = sentAt[w][i + 1]
    BY <1>1, <1>2, <1>6, <1>8
  <1>10. QED
    BY <1>2, <1>4, <1>8, <1>9 DEF Carried

\* Statements that move up, and new ones that are stamped, stay in time; and
\* no renewal is new.
LEMMA CarriedInTime ==
  ASSUME TypeOK, NEW w \in Workers, SentLately(w), LeasesStamped(w), now' = now,
         NEW d \in {0, 1}, Carried(w, d)
  PROVE  /\ SentLately(w)' /\ LeasesStamped(w)'
         /\ \A i \in 1..Len(conn'[w]), s \in Streams : IsStmt(w, i, "renew", s)' =>
               /\ i + d \in 1..Len(conn[w]) /\ IsStmt(w, i + d, "renew", s)
               /\ sentAt'[w][i] = sentAt[w][i + d] /\ conn'[w][i] = conn[w][i + d]
  <1>1. now \in Nat /\ MaxLag \in Nat
    BY BeatType DEF TypeOK
  <1>2. SentLately(w)'
    <2> SUFFICES ASSUME NEW i \in 1..Len(conn'[w])
                 PROVE  sentAt'[w][i] <= now /\ now <= sentAt'[w][i] + MaxLag
      BY DEF SentLately
    <2>1. CASE /\ i + d \in 1..Len(conn[w]) /\ sentAt'[w][i] = sentAt[w][i + d]
      BY <2>1 DEF SentLately
    <2>2. CASE sentAt'[w][i] = now
      BY <1>1, <2>2
    <2>3. QED
      BY <2>1, <2>2 DEF Carried
  <1>3. LeasesStamped(w)'
    <2> SUFFICES ASSUME NEW i \in 1..Len(conn'[w]), conn'[w][i].op \in {"acquire", "renew"}
                 PROVE  sentAt'[w][i] + TTL <= conn'[w][i].expires + MaxSkew
      BY DEF LeasesStamped
    <2>1. CASE /\ i + d \in 1..Len(conn[w])
               /\ conn'[w][i] = conn[w][i + d] /\ sentAt'[w][i] = sentAt[w][i + d]
      BY <2>1 DEF LeasesStamped
    <2>2. CASE /\ conn'[w][i].op # "renew" /\ sentAt'[w][i] = now
               /\ conn'[w][i].op = "acquire" => now + TTL <= conn'[w][i].expires + MaxSkew
      BY <2>2
    <2>3. QED
      BY <2>1, <2>2 DEF Carried
  <1>4. ASSUME NEW i \in 1..Len(conn'[w]), NEW s \in Streams, IsStmt(w, i, "renew", s)'
        PROVE  /\ i + d \in 1..Len(conn[w]) /\ IsStmt(w, i + d, "renew", s)
               /\ sentAt'[w][i] = sentAt[w][i + d] /\ conn'[w][i] = conn[w][i + d]
    <2>1. conn'[w][i].op = "renew" /\ conn'[w][i].stream = s
      BY <1>4 DEF IsStmt
    <2>2. QED
      BY <2>1 DEF Carried, IsStmt
  <1>5. QED
    BY <1>2, <1>3, <1>4

\* A step that issues no renewal, starts no session and executes nothing keeps
\* the worker in time, if its calls and pumps still have what they rely on.
LEMMA MildKeeps ==
  ASSUME Timed, NEW w \in Workers, UNCHANGED <<now, row>>,
         NEW d \in {0, 1}, Carried(w, d),
         \/ result'[w] = "none"
         \/ /\ result'[w] = result[w]
            /\ conn'[w] # <<>> => conn[w] # <<>> /\ First(w)' = First(w),
         \A s \in Streams :
            /\ sessions'[w][s] # "none" =>
                  /\ sessions[w][s] # "none" /\ lockTokens'[w][s] = lockTokens[w][s]
                  /\ heartbeats'[w][s] = heartbeats[w][s] /\ missed'[w][s] = missed[w][s]
            /\ heartbeats'[w][s] \in {heartbeats[w][s], NoTimer}
            /\ missed'[w][s] \in {missed[w][s], 0},
         \A c \in Callers : ResumeOwns(w, c)',
         PumpsServe(w)'
  PROVE  TInv(w)'
  <1> TypeOK /\ WInv(w) /\ TInv(w)
    BY DEF Timed, IInv
  <1>1. /\ SentLately(w)' /\ LeasesStamped(w)'
        /\ \A i \in 1..Len(conn'[w]), s \in Streams : IsStmt(w, i, "renew", s)' =>
              /\ i + d \in 1..Len(conn[w]) /\ IsStmt(w, i + d, "renew", s)
              /\ sentAt'[w][i] = sentAt[w][i + d] /\ conn'[w][i] = conn[w][i + d]
    BY CarriedInTime DEF TInv
  <1>2. TimersAhead(w)'
    BY DEF TInv, TimersAhead
  <1>3. MissedBounded(w)'
    <2>1. 0 <= MaxMissed
      BY BeatType
    <2>2. QED
      BY <2>1 DEF TInv, MissedBounded
  <1>4. OneBeat(w)'
    <2> SUFFICES ASSUME NEW s \in Streams, NEW i \in 1..Len(conn'[w]),
                        IsStmt(w, i, "renew", s)', sessions'[w][s] # "none"
                 PROVE  /\ heartbeats'[w][s] = NoTimer
                        /\ \A j \in 1..Len(conn'[w]) : IsStmt(w, j, "renew", s)' => j = i
      BY DEF OneBeat
    <2>1. i + d \in 1..Len(conn[w]) /\ IsStmt(w, i + d, "renew", s) /\ sessions[w][s] # "none"
      BY <1>1
    <2>2. heartbeats[w][s] = NoTimer
          /\ \A j \in 1..Len(conn[w]) : IsStmt(w, j, "renew", s) => j = i + d
      BY <2>1 DEF TInv, OneBeat
    <2>3. ASSUME NEW j \in 1..Len(conn'[w]), IsStmt(w, j, "renew", s)'
          PROVE  j = i
      <3>1. j + d \in 1..Len(conn[w]) /\ IsStmt(w, j + d, "renew", s)
        BY <1>1, <2>3
      <3>2. j + d = i + d
        BY <2>2, <3>1
      <3>3. QED
        BY <3>2
    <2>4. QED
      BY <2>2, <2>3
  <1>5. \A s \in Streams : SessionOwns(w, s)'
    <2> SUFFICES ASSUME NEW s \in Streams, sessions'[w][s] # "none"
                 PROVE  SessionOwns(w, s)'
      BY DEF SessionOwns
    <2>1. /\ sessions[w][s] # "none" /\ lockTokens'[w][s] = lockTokens[w][s]
          /\ heartbeats'[w][s] = heartbeats[w][s] /\ missed'[w][s] = missed[w][s]
          /\ LeaseStart(s)' = LeaseStart(s) /\ Reach(missed[w][s])' = Reach(missed'[w][s])
      BY DEF LeaseStart, Reach
    <2>2. RowOf(w, s, lockTokens[w][s])'
      BY <2>1 DEF TInv, SessionOwns, RowOf
    <2>3. \A i \in 1..Len(conn'[w]) : IsStmt(w, i, "renew", s)' =>
             sentAt'[w][i] <= LeaseStart(s) + Reach(missed[w][s])
      BY <1>1, <2>1 DEF TInv, SessionOwns
    <2>4. QED
      BY <2>1, <2>2, <2>3 DEF TInv, SessionOwns, LeaseStart, Reach
  <1>6. GrantedInRow(w)'
    BY DEF TInv, GrantedInRow, RowOf
  <1>7. RefusedIsGone(w)'
    <2> SUFFICES ASSUME conn'[w] # <<>>, result'[w] = "no", First(w)'.op = "renew"
                 PROVE  sessions'[w][First(w)'.stream] = "none"
      BY DEF RefusedIsGone
    <2>1. conn[w] # <<>> /\ result[w] = "no" /\ First(w)' = First(w)
      OBVIOUS
    <2>2. First(w).stream \in Streams /\ sessions[w][First(w).stream] = "none"
      BY <2>1, FirstType DEF TInv, RefusedIsGone, WInv
    <2>3. QED
      BY <2>1, <2>2
  <1>8. QED
    BY <1>1, <1>2, <1>3, <1>4, <1>5, <1>6, <1>7 DEF TInv

\* Nothing happens to the statements, or to the sessions, of v.
StillConn(v) == conn'[v] = conn[v] /\ sentAt'[v] = sentAt[v] /\ result'[v] = result[v]

StillBeats(v) ==
  /\ lockTokens'[v] = lockTokens[v] /\ heartbeats'[v] = heartbeats[v]
  /\ missed'[v] = missed[v]
  /\ \A s \in Streams : sessions'[v][s] = "none" <=> sessions[v][s] = "none"

StillTimed(v) ==
  StillConn(v) /\ StillBeats(v) /\ calls'[v] = calls[v] /\ pumps'[v] = pumps[v]

\* A step of w that leaves the clock and the rows to the others.
OwnStep(w) == UNCHANGED <<now, row>> /\ \A v \in Workers : v # w => StillTimed(v)

\* Statements, sessions and timers that stay keep the worker in time, if its
\* calls and pumps still have what they rely on.
LEMMA StillKeeps ==
  ASSUME Timed, NEW v \in Workers, UNCHANGED <<now, row>>, StillConn(v), StillBeats(v),
         \A c \in Callers : ResumeOwns(v, c)', PumpsServe(v)'
  PROVE  TInv(v)'
  <1>1. Carried(v, 0)
    <2>1. \A i \in 1..Len(conn[v]) : i + 0 = i
      OBVIOUS
    <2>2. QED
      BY <2>1 DEF Carried, StillConn
  <1>2. First(v)' = First(v)
    BY DEF First, StillConn
  <1>3. QED
    BY <1>1, <1>2, MildKeeps DEF StillConn, StillBeats

\* A worker that nothing happens to stays in time.
LEMMA FrozenKeeps ==
  ASSUME Timed, NEW v \in Workers, UNCHANGED <<now, row>>, StillTimed(v)
  PROVE  TInv(v)'
  <1> TInv(v)
    BY DEF Timed
  <1>1. \A c \in Callers : ResumeOwns(v, c)'
    BY DEF TInv, ResumeOwns, Resumes, RowOf, LeaseStart, StillTimed
  <1>2. PumpsServe(v)'
    <2> SUFFICES ASSUME NEW p \in pumps'[v]
                 PROVE  sessions'[v][p[1]] # "none" /\ p[2] = lockTokens'[v][p[1]]
      BY DEF PumpsServe
    <2>1. p \in pumps[v] /\ p[1] \in Streams
      BY DEF Timed, IInv, TypeOK, StillTimed
    <2>2. QED
      BY <2>1 DEF TInv, PumpsServe, StillTimed, StillBeats
  <1>3. QED
    BY <1>1, <1>2, StillKeeps DEF StillTimed

-----------------------------------------------------------------------------
(* Time and the database *)

\* Time does not pass an answer, a timer or a call that resumes.
LEMMA TickInTime ==
  ASSUME Timed, Tick, NEW w \in Workers
  PROVE  TInv(w)'
  <1> TypeOK /\ WInv(w) /\ TInv(w)
    BY DEF Timed, IInv
  <1>1. /\ now \in Nat /\ now' = now + 1 /\ MaxLag \in Nat
        /\ UNCHANGED <<row, lastToken, conn, result, lost, granted, sentAt, mode, sessions,
                       lockTokens, heartbeats, inflight, calls, pumps, stopping, missed>>
        /\ Timely(w)
    BY BeatType DEF Tick, TypeOK, registry
  <1>2. SentLately(w)'
    <2>1. Len(sentAt[w]) = Len(conn[w])
      BY DEF TypeOK
    <2>2. \A i \in 1..Len(conn[w]) : sentAt[w][i] \in Nat /\ sentAt[w][i] <= now
                                     /\ now < sentAt[w][i] + MaxLag
      BY <1>1, <2>1, Numbers DEF TInv, SentLately, Timely
    <2>3. QED
      BY <1>1, <2>2 DEF SentLately
  <1>3. TimersAhead(w)'
    <2>1. \A s \in Streams : heartbeats[w][s] # NoTimer =>
             heartbeats[w][s].due \in Nat /\ ~ (heartbeats[w][s].due <= now)
      BY <1>1, Numbers DEF Timely, Due
    <2>2. QED
      BY <1>1, <2>1 DEF TimersAhead
  <1>4. \A c \in Callers : ~ Resumes(w, c)'
    BY <1>1 DEF Timely, Resuming, Resumes
  <1>5. /\ LeasesStamped(w)' /\ MissedBounded(w)' /\ OneBeat(w)'
        /\ GrantedInRow(w)' /\ RefusedIsGone(w)' /\ PumpsServe(w)'
    BY <1>1 DEF TInv, LeasesStamped, MissedBounded, OneBeat, IsStmt, GrantedInRow, RowOf,
                First, RefusedIsGone, PumpsServe
  <1>6. \A s \in Streams : SessionOwns(w, s)'
    BY <1>1 DEF TInv, SessionOwns, RowOf, LeaseStart, Reach, IsStmt
  <1>7. QED
    BY <1>2, <1>3, <1>4, <1>5, <1>6 DEF TInv, ResumeOwns

\* What the database may do to the rows, and what it answers.
Grants(w) ==
  /\ First(w).op = "acquire" /\ First(w).stream \in Streams /\ result'[w] = "yes"
  /\ Locks!Claimable(w, First(w).stream)
  /\ \A s \in Streams : row'[s] =
        IF s = First(w).stream
        THEN [owner |-> w, token |-> First(w).token, expires |-> First(w).expires]
        ELSE row[s]

Renews(w) ==
  /\ First(w).op = "renew" /\ First(w).stream \in Streams /\ result'[w] = "yes"
  /\ RowOf(w, First(w).stream, First(w).token)
  /\ \A s \in Streams : row'[s] =
        IF s = First(w).stream THEN [row[s] EXCEPT !.expires = First(w).expires] ELSE row[s]

Releases(w) ==
  /\ First(w).op = "release" /\ First(w).stream \in Streams /\ result'[w] = "yes"
  /\ RowOf(w, First(w).stream, First(w).token)
  /\ \A s \in Streams : row'[s] = IF s = First(w).stream THEN Locks!NoRow ELSE row[s]

ClearsRows(w) ==
  /\ First(w).op = "releaseAll" /\ result'[w] = "yes"
  /\ \A s \in Streams : row'[s] = IF row[s].owner = w THEN Locks!NoRow ELSE row[s]

Refuses(w) ==
  /\ row' = row /\ result'[w] = "no"
  /\ First(w).op = "renew" =>
        ~ (RowOf(w, First(w).stream, First(w).token) /\ ~ Locks!Expired(First(w).stream))

LEMMA ExecRows ==
  ASSUME TypeOK, NEW w \in Workers, WInv(w), Execute(w)
  PROVE  /\ conn[w] # <<>> /\ First(w) = conn[w][1] /\ 1 \in 1..Len(conn[w])
         /\ Grants(w) \/ Renews(w) \/ Releases(w) \/ ClearsRows(w) \/ Refuses(w)
  <1>1. conn[w] # <<>>
    BY DEF Execute, Locks!ExecAcquire, Locks!ExecRenew, Locks!ExecRelease,
           Locks!ExecReleaseAll, Locks!Executing
  <1>2. /\ First(w) = conn[w][1] /\ 1 \in 1..Len(conn[w])
        /\ First(w).op # "releaseAll" => First(w).stream \in Streams
    BY <1>1, FirstType DEF WInv
  <1>3. \A s \in Streams : row[s] \in Locks!Rows
    BY DEF TypeOK
  <1>4. \A r : (result' = [result EXCEPT ![w] = r]) => result'[w] = r
    BY DEF TypeOK
  <1>5. CASE Locks!ExecAcquire(w)
    <2>1. First(w).op = "acquire" /\ First(w).stream \in Streams
      BY <1>2, <1>5 DEF Locks!ExecAcquire, Locks!Executing, First
    <2>2. CASE /\ Locks!Claimable(w, First(w).stream)
               /\ row' = [row EXCEPT ![First(w).stream] =
                     [owner |-> w, token |-> First(w).token, expires |-> First(w).expires]]
               /\ result'[w] = "yes"
      <3> DEFINE x == First(w).stream
                 e == [owner |-> w, token |-> First(w).token, expires |-> First(w).expires]
      <3>1. row' = [row EXCEPT ![x] = e]
        BY <2>2
      <3> HIDE DEF x, e
      <3>2. \A s \in Streams : row'[s] = IF s = x THEN e ELSE row[s]
        BY <3>1 DEF TypeOK
      <3>3. QED
        BY <1>1, <1>2, <2>1, <2>2, <3>2 DEF Grants, x, e
    <2>3. CASE row' = row /\ result'[w] = "no"
      BY <1>1, <1>2, <2>1, <2>3 DEF Refuses
    <2>4. QED
      BY <1>4, <1>5, <2>2, <2>3 DEF Locks!ExecAcquire, Locks!Answer, First
  <1>6. CASE Locks!ExecRenew(w)
    <2>1. First(w).op = "renew" /\ First(w).stream \in Streams
      BY <1>2, <1>6 DEF Locks!ExecRenew, Locks!Executing, First
    <2>2. CASE /\ Locks!Renewable(w, First(w))
               /\ row' = [row EXCEPT ![First(w).stream].expires = First(w).expires]
               /\ result'[w] = "yes"
      <3> DEFINE x == First(w).stream
                 e == First(w).expires
      <3>1. row' = [row EXCEPT ![x].expires = e]
        BY <2>2
      <3>2. RowOf(w, x, First(w).token)
        BY <2>2 DEF Locks!Renewable, Locks!Current, RowOf
      <3> HIDE DEF x, e
      <3>3. \A s \in Streams : row'[s] = IF s = x THEN [row[s] EXCEPT !.expires = e] ELSE row[s]
        BY <3>1 DEF TypeOK
      <3>4. QED
        BY <1>1, <1>2, <2>1, <2>2, <3>2, <3>3 DEF Renews, x, e
    <2>3. CASE ~ Locks!Renewable(w, First(w)) /\ row' = row /\ result'[w] = "no"
      BY <1>1, <1>2, <2>1, <2>3 DEF Locks!Renewable, Locks!Current, RowOf, Refuses
    <2>4. QED
      BY <1>4, <1>6, <2>2, <2>3 DEF Locks!ExecRenew, Locks!Renewed, Locks!Answer, First
  <1>7. CASE Locks!ExecRelease(w)
    <2>1. First(w).op = "release" /\ First(w).stream \in Streams
      BY <1>2, <1>7 DEF Locks!ExecRelease, Locks!Executing, First
    <2>2. CASE /\ Locks!Releasable(w, First(w))
               /\ row' = [row EXCEPT ![First(w).stream] = Locks!NoRow]
               /\ result'[w] = "yes"
      <3> DEFINE x == First(w).stream
                 e == Locks!NoRow
      <3>1. row' = [row EXCEPT ![x] = e]
        BY <2>2
      <3>2. RowOf(w, x, First(w).token)
        BY <2>2 DEF Locks!Releasable, Locks!Current, RowOf
      <3> HIDE DEF x, e
      <3>3. \A s \in Streams : row'[s] = IF s = x THEN e ELSE row[s]
        BY <3>1 DEF TypeOK
      <3>4. QED
        BY <1>1, <1>2, <2>1, <2>2, <3>2, <3>3 DEF Releases, x, e
    <2>3. CASE row' = row /\ result'[w] = "no"
      BY <1>1, <1>2, <2>1, <2>3 DEF Refuses
    <2>4. QED
      BY <1>4, <1>7, <2>2, <2>3 DEF Locks!ExecRelease, Locks!Answer, First
  <1>8. CASE Locks!ExecReleaseAll(w)
    <2>1. First(w).op = "releaseAll" /\ result'[w] = "yes"
      BY <1>4, <1>8 DEF Locks!ExecReleaseAll, Locks!Executing, Locks!Answer, First
    <2>2. \A s \in Streams : row'[s] = IF row[s].owner = w THEN Locks!NoRow ELSE row[s]
      BY <1>8 DEF Locks!ExecReleaseAll
    <2>3. QED
      BY <1>1, <1>2, <2>1, <2>2 DEF ClearsRows
  <1>9. QED
    BY <1>1, <1>2, <1>5, <1>6, <1>7, <1>8 DEF Execute

\* No worker takes an unexpired row from another.
LEMMA RowStays ==
  ASSUME Timed, NEW w \in Workers, Execute(w), NEW v \in Workers, v # w,
         NEW s \in Streams, row[s].owner = v, row[s].expires > now
  PROVE  row'[s] = row[s]
  <1> TypeOK /\ WInv(w)
    BY DEF Timed, IInv
  <1>1. ~ Locks!Claimable(w, s)
    <2>1. now \in Int /\ row[s].expires \in Int
      BY DEF TypeOK, Locks!Rows
    <2>2. QED
      BY <2>1, NoneAssumption DEF Locks!Claimable, Locks!Expired
  <1>2. row[s].owner # w
    OBVIOUS
  <1>3. Grants(w) \/ Renews(w) \/ Releases(w) \/ ClearsRows(w) \/ Refuses(w)
    BY ExecRows
  <1>4. CASE Grants(w)
    BY <1>1, <1>4 DEF Grants
  <1>5. CASE Renews(w)
    BY <1>2, <1>5 DEF Renews, RowOf
  <1>6. CASE Releases(w)
    BY <1>2, <1>6 DEF Releases, RowOf
  <1>7. CASE ClearsRows(w)
    BY <1>2, <1>7 DEF ClearsRows
  <1>8. QED
    BY <1>3, <1>4, <1>5, <1>6, <1>7 DEF Refuses

\* What another worker has executed disturbs nobody.
LEMMA OthersExecute ==
  ASSUME Timed, NEW w \in Workers, Execute(w), NEW v \in Workers, v # w
  PROVE  TInv(v)'
  <1> TypeOK /\ WInv(v) /\ TInv(v)
    BY DEF Timed, IInv
  <1>1. /\ UNCHANGED <<now, lastToken, conn, lost, sentAt, mode, sessions, lockTokens,
                       heartbeats, inflight, calls, pumps, stopping, missed>>
        /\ result'[v] = result[v]
    BY ExecTypes DEF registry
  <1>2. ASSUME NEW s \in Streams, NEW t, RowOf(v, s, t), row[s].expires > now
        PROVE  row'[s] = row[s]
    BY <1>2, RowStays DEF RowOf
  <1>3. /\ SentLately(v)' /\ LeasesStamped(v)' /\ TimersAhead(v)' /\ MissedBounded(v)'
        /\ OneBeat(v)' /\ RefusedIsGone(v)' /\ PumpsServe(v)'
    BY <1>1 DEF TInv, SentLately, LeasesStamped, TimersAhead, MissedBounded, OneBeat, IsStmt,
                RefusedIsGone, First, PumpsServe
  <1>4. ASSUME NEW s \in Streams PROVE SessionOwns(v, s)'
    <2>1. SUFFICES ASSUME sessions[v][s] # "none" PROVE SessionOwns(v, s)'
      BY <1>1 DEF SessionOwns
    <2>2. row'[s] = row[s]
      BY <1>2, <2>1, LeasesLast DEF TInv, SessionOwns
    <2>3. QED
      BY <1>1, <2>2 DEF TInv, SessionOwns, RowOf, LeaseStart, Reach, IsStmt
  <1>5. ASSUME NEW c \in Callers PROVE ResumeOwns(v, c)'
    <2>1. SUFFICES ASSUME Resumes(v, c), calls[v][c].token # 0 PROVE ResumeOwns(v, c)'
      BY <1>1 DEF ResumeOwns, Resumes
    <2>2. calls[v][c].stream \in Streams
      BY <2>1 DEF WInv, CallsKnown, Resumes
    <2>3. RowOf(v, calls[v][c].stream, calls[v][c].token)
      BY <2>1 DEF TInv, ResumeOwns
    <2>4. row'[calls[v][c].stream] = row[calls[v][c].stream]
      BY <1>2, <2>1, <2>2, <2>3, LeasesLast
    <2>5. QED
      BY <1>1, <2>4 DEF TInv, ResumeOwns, Resumes, RowOf, LeaseStart
  <1>6. GrantedInRow(v)'
    <2>1. SUFFICES ASSUME conn[v] # <<>>, result[v] = "yes", First(v).op \in {"acquire", "renew"}
                   PROVE  GrantedInRow(v)'
      BY <1>1 DEF GrantedInRow, First
    <2>2. First(v).stream \in Streams
      BY <2>1, FirstType DEF WInv
    <2>3. RowOf(v, First(v).stream, First(v).token)
      BY <2>1 DEF TInv, GrantedInRow
    <2>4. row'[First(v).stream] = row[First(v).stream]
      BY <1>2, <2>1, <2>2, <2>3, LeasesLast
    <2>5. First(v)' = First(v)
      BY <1>1 DEF First
    <2>6. QED
      BY <1>1, <2>4, <2>5 DEF TInv, GrantedInRow, RowOf
  <1>7. QED
    BY <1>3, <1>4, <1>5, <1>6 DEF TInv

\* What is held is in the claims that StreamLocks is told of, so it is not in
\* the way of the worker's own statements.
LEMMA HeldSafe ==
  ASSUME Timed, NEW w \in Workers, conn[w] # <<>>, First(w) = conn[w][1], 1 \in 1..Len(conn[w])
  PROVE  /\ First(w).op = "release" =>
               [stream |-> First(w).stream, token |-> First(w).token] \notin Held(w)
         /\ First(w).op = "releaseAll" => Held(w) = {}
  BY DEF Timed, LP!IInv, LP!HeldOnly, LP!AllReleased

\* What the worker itself has executed grants what it asked for, renews the row
\* of a session, or is about a stream that it does not hold.
LEMMA OwnExecute ==
  ASSUME Timed, NEW w \in Workers, Execute(w)
  PROVE  TInv(w)'
  <1> TypeOK /\ WInv(w) /\ TInv(w)
    BY DEF Timed, IInv
  <1>1. UNCHANGED <<now, lastToken, conn, lost, sentAt, mode, sessions, lockTokens,
                    heartbeats, inflight, calls, pumps, stopping, missed>>
    BY ExecTypes DEF registry
  <1>2. /\ conn[w] # <<>> /\ First(w) = conn[w][1] /\ 1 \in 1..Len(conn[w])
        /\ First(w)' = First(w)
    BY <1>1, ExecRows DEF First
  <1>3. Grants(w) \/ Renews(w) \/ Releases(w) \/ ClearsRows(w) \/ Refuses(w)
    BY ExecRows
  <1>4. /\ SentLately(w)' /\ LeasesStamped(w)' /\ TimersAhead(w)' /\ MissedBounded(w)'
        /\ OneBeat(w)' /\ PumpsServe(w)'
    BY <1>1 DEF TInv, SentLately, LeasesStamped, TimersAhead, MissedBounded, OneBeat, IsStmt,
                PumpsServe
  <1>5. ASSUME Renews(w)
        PROVE  /\ row'[First(w).stream].expires = First(w).expires
               /\ row'[First(w).stream].owner = row[First(w).stream].owner
               /\ row'[First(w).stream].token = row[First(w).stream].token
               /\ sentAt[w][1] <= LeaseStart(First(w).stream)'
               /\ sentAt[w][1] \in Nat /\ LeaseStart(First(w).stream)' \in Int
    <2> DEFINE x == First(w).stream
    <2>1. x \in Streams /\ row'[x] = [row[x] EXCEPT !.expires = First(w).expires]
      BY <1>5 DEF Renews
    <2>2. row[x] \in [owner : Workers \cup {None}, token : Nat, expires : Int]
      BY <2>1 DEF TypeOK, Locks!Rows
    <2>3. /\ row'[x].expires = First(w).expires
          /\ row'[x].owner = row[x].owner /\ row'[x].token = row[x].token
      BY <2>1, <2>2
    <2>4. /\ First(w).expires \in Int /\ sentAt[w][1] \in Nat
          /\ sentAt[w][1] + TTL <= First(w).expires + MaxSkew
      BY <1>2, <1>5, Numbers DEF Renews, TInv, LeasesStamped
    <2>5. LeaseStart(x)' = First(w).expires + MaxSkew - TTL
      BY <1>2, <2>3 DEF LeaseStart
    <2>6. QED
      BY <2>3, <2>4, <2>5, BeatType
  <1>6. GrantedInRow(w)'
    <2>1. CASE Grants(w)
      BY <1>2, <2>1 DEF Grants, GrantedInRow, RowOf
    <2>2. CASE Renews(w)
      BY <1>2, <1>5, <2>2 DEF Renews, GrantedInRow, RowOf
    <2>3. CASE Releases(w) \/ ClearsRows(w) \/ Refuses(w)
      BY <1>2, <2>3 DEF Releases, ClearsRows, Refuses, GrantedInRow
    <2>4. QED
      BY <1>3, <2>1, <2>2, <2>3
  <1>7. RefusedIsGone(w)'
    <2>1. SUFFICES ASSUME Refuses(w), First(w).op = "renew", sessions[w][First(w).stream] # "none"
                   PROVE  FALSE
      BY <1>1, <1>2, <1>3 DEF Grants, Renews, Releases, ClearsRows, RefusedIsGone
    <2> DEFINE s == First(w).stream
    <2>2. s \in Streams
      BY <1>2, <2>1, FirstType DEF WInv
    <2>3. First(w).token = lockTokens[w][s]
      BY <1>2, <2>1, <2>2 DEF WInv, RenewsCurrent, SessionsLocked, IsStmt
    <2>4. RowOf(w, s, lockTokens[w][s]) /\ row[s].expires > now
      BY <2>1, <2>2, LeasesLast DEF TInv, SessionOwns
    <2>5. ~ Locks!Expired(s)
      <3>1. now \in Int /\ row[s].expires \in Int
        BY <2>2, Numbers
      <3>2. QED
        BY <2>4, <3>1 DEF Locks!Expired
    <2>6. QED
      BY <2>1, <2>3, <2>4, <2>5 DEF Refuses
  <1>8. ASSUME NEW s \in Streams, sessions[w][s] # "none" PROVE SessionOwns(w, s)'
    <2>1. lockTokens[w][s] # 0 /\ RowOf(w, s, lockTokens[w][s])
          /\ [stream |-> s, token |-> lockTokens[w][s]] \in Held(w)
      BY <1>8, HeldBy DEF WInv, SessionsLocked, TInv, SessionOwns
    <2>2. row'[s] = row[s] => SessionOwns(w, s)'
      BY <1>1 DEF TInv, SessionOwns, RowOf, LeaseStart, Reach, IsStmt
    <2>3. CASE Grants(w)
      <3>1. s # First(w).stream
        BY <1>2, <1>8, <2>3 DEF Grants, WInv, AcquiresAwaited, IsStmt
      <3>2. QED
        BY <2>2, <2>3, <3>1 DEF Grants
    <2>4. CASE Renews(w) /\ s = First(w).stream
      <3>1. RowOf(w, s, lockTokens[w][s])'
        BY <1>1, <1>5, <2>1, <2>4 DEF RowOf
      <3>2. /\ heartbeats[w][s] = NoTimer
            /\ \A j \in 1..Len(conn[w]) : IsStmt(w, j, "renew", s) => j = 1
        BY <1>2, <1>8, <2>4 DEF Renews, TInv, OneBeat, IsStmt
      <3>3. sentAt[w][1] <= LeaseStart(s)' + Reach(missed[w][s])
        <4>1. missed[w][s] \in Nat
          BY Numbers
        <4>2. Reach(missed[w][s]) \in Nat
          BY <4>1, ReachType, Zenon
        <4>3. sentAt[w][1] <= LeaseStart(s)' /\ sentAt[w][1] \in Nat /\ LeaseStart(s)' \in Int
          BY <1>2, <1>5, <2>4 DEF LeaseStart
        <4> DEFINE l == LeaseStart(s)'
                   k == Reach(missed[w][s])
        <4> HIDE DEF l, k
        <4>4. sentAt[w][1] <= l + k
          BY <4>2, <4>3 DEF l, k
        <4>5. QED
          BY <4>4 DEF l, k
      <3>4. QED
        BY <1>1, <3>1, <3>2, <3>3 DEF SessionOwns, IsStmt, Reach
    <2>5. CASE Renews(w) /\ s # First(w).stream
      BY <2>2, <2>5 DEF Renews
    <2>6. CASE Releases(w)
      <3>1. s # First(w).stream
        BY <1>2, <2>1, <2>6, HeldSafe DEF Releases, RowOf
      <3>2. QED
        BY <2>2, <2>6, <3>1 DEF Releases
    <2>7. CASE ClearsRows(w)
      BY <1>2, <2>1, <2>7, HeldSafe DEF ClearsRows
    <2>8. CASE Refuses(w)
      BY <2>2, <2>8 DEF Refuses
    <2>9. QED
      BY <1>3, <2>3, <2>4, <2>5, <2>6, <2>7, <2>8
  <1>9. ASSUME NEW c \in Callers, Resumes(w, c), calls[w][c].token # 0
        PROVE  ResumeOwns(w, c)'
    <2> DEFINE s == calls[w][c].stream
    <2>1. /\ s \in Streams /\ RowOf(w, s, calls[w][c].token)
          /\ [stream |-> s, token |-> calls[w][c].token] \in Held(w)
      BY <1>9, HeldBy DEF WInv, CallsKnown, Resumes, TInv, ResumeOwns
    <2>2. row'[s] = row[s] => ResumeOwns(w, c)'
      BY <1>1 DEF TInv, ResumeOwns, Resumes, RowOf, LeaseStart
    <2>3. CASE Grants(w)
      <3>1. s # First(w).stream
        BY <1>2, <1>9, <2>3 DEF Grants, WInv, AcquiresAwaited, IsStmt
      <3>2. QED
        BY <2>1, <2>2, <2>3, <3>1 DEF Grants
    <2>4. CASE Renews(w) /\ s = First(w).stream
      <3>1. RowOf(w, s, calls[w][c].token)'
        BY <1>1, <1>5, <2>1, <2>4 DEF RowOf
      <3>2. now <= LeaseStart(s)' + MaxLag
        <4>1. now \in Nat /\ now <= sentAt[w][1] + MaxLag
          BY <1>2, Numbers DEF TInv, SentLately
        <4>2. sentAt[w][1] <= LeaseStart(s)' /\ sentAt[w][1] \in Nat /\ LeaseStart(s)' \in Int
          BY <1>1, <1>2, <1>5, <2>4 DEF LeaseStart
        <4>3. QED
          BY <4>1, <4>2, BeatType
      <3>3. QED
        BY <1>1, <3>1, <3>2 DEF ResumeOwns
    <2>5. CASE Renews(w) /\ s # First(w).stream
      BY <2>1, <2>2, <2>5 DEF Renews
    <2>6. CASE Releases(w)
      <3>1. s # First(w).stream
        BY <1>2, <2>1, <2>6, HeldSafe DEF Releases, RowOf
      <3>2. QED
        BY <2>1, <2>2, <2>6, <3>1 DEF Releases
    <2>7. CASE ClearsRows(w)
      BY <1>2, <2>1, <2>7, HeldSafe DEF ClearsRows
    <2>8. CASE Refuses(w)
      BY <2>2, <2>8 DEF Refuses
    <2>9. QED
      BY <1>3, <2>3, <2>4, <2>5, <2>6, <2>7, <2>8
  <1>10. /\ \A s \in Streams : SessionOwns(w, s)'
         /\ \A c \in Callers : ResumeOwns(w, c)'
    BY <1>1, <1>8, <1>9 DEF SessionOwns, ResumeOwns, Resumes
  <1>11. QED
    BY <1>4, <1>6, <1>7, <1>10 DEF TInv

-----------------------------------------------------------------------------
(* The steps of a worker *)

\* A pump that is added is that of a session.
LEMMA PublishServes ==
  ASSUME TypeOK, NEW w \in Workers, NEW s \in Streams, PumpsServe(w), StillBeats(w),
         UNCHANGED sessions, Publish(w, s, lockTokens[w][s])
  PROVE  PumpsServe(w)' /\ \A v \in Workers : v # w => pumps'[v] = pumps[v]
  <1> DEFINE e == <<s, lockTokens[w][s]>>
  <1>1. /\ e[1] = s /\ e[2] = lockTokens[w][s]
        /\ \/ pumps' = [pumps EXCEPT ![w] = pumps[w] \cup {e}] /\ sessions[w][s] = "running"
           \/ pumps' = pumps
    BY DEF Publish
  <1> HIDE DEF e
  <1>2. \A v \in Workers : v # w => pumps'[v] = pumps[v]
    BY <1>1 DEF TypeOK
  <1>3. \A p \in pumps'[w] : p \in pumps[w] \/ (p = e /\ sessions[w][s] = "running")
    BY <1>1 DEF TypeOK
  <1>4. PumpsServe(w)'
    BY <1>1, <1>3 DEF PumpsServe, StillBeats
  <1>5. QED
    BY <1>2, <1>4

\* Calls that resume as before rely on the same rows.
LEMMA SameResumes ==
  ASSUME NEW w \in Workers, TInv(w), UNCHANGED <<now, row>>,
         \A c \in Callers : calls'[w][c] = calls[w][c] \/ calls'[w][c].pc # "resume"
                               \/ calls'[w][c].token = 0
  PROVE  \A c \in Callers : ResumeOwns(w, c)'
  BY DEF TInv, ResumeOwns, Resumes, RowOf, LeaseStart

\* route() to a session that is there.
LEMMA RouteExistingInTime ==
  ASSUME Timed, NEW w \in Workers, NEW s \in Streams, RouteExisting(w, s)
  PROVE  TInv(w)' /\ OwnStep(w)
  <1> TypeOK /\ TInv(w)
    BY DEF Timed, IInv
  <1>1. /\ UNCHANGED <<now, row, conn, result, sentAt, sessions, lockTokens, heartbeats, calls,
                       missed>>
        /\ Publish(w, s, lockTokens[w][s])
    BY DEF RouteExisting, lockVars
  <1>2. \A v \in Workers : StillConn(v) /\ StillBeats(v)
    BY <1>1 DEF StillConn, StillBeats
  <1>3. PumpsServe(w)' /\ \A v \in Workers : v # w => pumps'[v] = pumps[v]
    BY <1>1, <1>2, PublishServes DEF TInv
  <1>4. \A c \in Callers : ResumeOwns(w, c)'
    BY <1>1, SameResumes
  <1>5. QED
    BY <1>1, <1>2, <1>3, <1>4, StillKeeps DEF OwnStep, StillTimed

\* Steps that are about the phase of the worker, its stops and its pumps only.
LEMMA PhasesInTime ==
  ASSUME Timed, NEW w \in Workers,
         \/ DrainBegins(w) \/ Restart(w)
         \/ \E p \in pumps[w] : PumpSettles(w, p)
         \/ \E s \in Streams : StopWaits(w, s)
  PROVE  TInv(w)' /\ OwnStep(w)
  <1> TypeOK /\ TInv(w)
    BY DEF Timed, IInv
  <1>1. UNCHANGED <<now, row, conn, result, sentAt, lockTokens, heartbeats, calls, missed>>
    BY DEF DrainBegins, Restart, PumpSettles, StopWaits, lockVars
  <1>2. /\ \A v \in Workers, s \in Streams : sessions'[v][s] = "none" <=> sessions[v][s] = "none"
        /\ pumps'[w] \subseteq pumps[w]
        /\ \A v \in Workers : v # w => pumps'[v] = pumps[v]
    <2>1. CASE DrainBegins(w) \/ Restart(w)
      BY <2>1 DEF DrainBegins, Restart
    <2>2. CASE \E p \in pumps[w] : PumpSettles(w, p)
      <3> PICK p \in pumps[w] : PumpSettles(w, p)
        BY <2>2
      <3>1. sessions' = sessions /\ pumps' = [pumps EXCEPT ![w] = pumps[w] \ {p}]
        BY DEF PumpSettles
      <3>2. QED
        BY <3>1 DEF TypeOK
    <2>3. CASE \E s \in Streams : StopWaits(w, s)
      <3> PICK s \in Streams : StopWaits(w, s)
        BY <2>3
      <3>1. /\ pumps' = pumps /\ sessions[w][s] = "running"
            /\ sessions' = [sessions EXCEPT ![w][s] = "draining"]
        BY DEF StopWaits
      <3>2. QED
        BY <3>1 DEF TypeOK
    <2>4. QED
      BY <2>1, <2>2, <2>3
  <1>3. \A v \in Workers : StillConn(v) /\ StillBeats(v)
    BY <1>1, <1>2 DEF StillConn, StillBeats
  <1>4. PumpsServe(w)'
    <2> SUFFICES ASSUME NEW p \in pumps'[w]
                 PROVE  sessions'[w][p[1]] # "none" /\ p[2] = lockTokens'[w][p[1]]
      BY DEF PumpsServe
    <2>1. p \in pumps[w] /\ p[1] \in Streams
      BY <1>2 DEF TypeOK
    <2>2. QED
      BY <1>1, <1>2, <2>1 DEF TInv, PumpsServe
  <1>5. \A c \in Callers : ResumeOwns(w, c)'
    BY <1>1, SameResumes
  <1>6. QED
    BY <1>1, <1>2, <1>3, <1>4, <1>5, StillKeeps DEF OwnStep, StillTimed

\* route() resumes with null.
LEMMA RouteLockedInTime ==
  ASSUME Timed, NEW w \in Workers, NEW c \in Callers, RouteLocked(w, c)
  PROVE  TInv(w)' /\ OwnStep(w)
  <1> TypeOK /\ TInv(w)
    BY DEF Timed, IInv
  <1>1. /\ UNCHANGED <<now, row, conn, result, sentAt, sessions, lockTokens, heartbeats, pumps,
                       missed>>
        /\ calls' = [calls EXCEPT ![w][c] = Idle]
    BY DEF RouteLocked, lockVars
  <1>2. \A v \in Workers : StillConn(v) /\ StillBeats(v)
    BY <1>1 DEF StillConn, StillBeats
  <1>3. \A d \in Callers : calls'[w][d] = calls[w][d] \/ calls'[w][d].pc # "resume"
    BY <1>1 DEF TypeOK, Idle
  <1>4. \A v \in Workers : v # w => calls'[v] = calls[v]
    BY <1>1 DEF TypeOK
  <1>5. PumpsServe(w)'
    BY <1>1 DEF TInv, PumpsServe
  <1>6. \A d \in Callers : ResumeOwns(w, d)'
    BY <1>1, <1>3, SameResumes
  <1>7. QED
    BY <1>1, <1>2, <1>4, <1>5, <1>6, StillKeeps DEF OwnStep, StillTimed

\* route() resumes and finds the session that another call of the same acquire
\* has spawned.
LEMMA RouteRacedInTime ==
  ASSUME Timed, NEW w \in Workers, NEW c \in Callers, RouteRaced(w, c)
  PROVE  TInv(w)' /\ OwnStep(w)
  <1> TypeOK /\ TInv(w) /\ WInv(w) /\ ConnType
    BY TypeGivesConn DEF Timed, IInv
  <1> DEFINE s == calls[w][c].stream
             t == calls[w][c].token
  <1>1. s \in Streams /\ Resumes(w, c) /\ t # 0
    BY DEF WInv, CallsKnown, Resumes, RouteRaced
  <1>2. lockTokens[w][s] = t
    BY <1>1 DEF WInv, ResumesAlike, SessionsLocked, RouteRaced
  <1>3. /\ Send(w, <<>>) /\ Publish(w, s, lockTokens[w][s])
        /\ UNCHANGED <<now, row, result, sessions, lockTokens, heartbeats, missed>>
        /\ calls' = [calls EXCEPT ![w][c] = Idle]
    BY <1>2 DEF RouteRaced
  <1> HIDE DEF s, t
  <1>4. UNCHANGED <<conn, sentAt>>
    BY <1>3, SendNothing
  <1>5. \A v \in Workers : StillConn(v) /\ StillBeats(v)
    BY <1>3, <1>4 DEF StillConn, StillBeats
  <1>6. PumpsServe(w)' /\ \A v \in Workers : v # w => pumps'[v] = pumps[v]
    BY <1>1, <1>3, <1>5, PublishServes DEF TInv
  <1>7. \A d \in Callers : calls'[w][d] = calls[w][d] \/ calls'[w][d].pc # "resume"
    BY <1>3 DEF TypeOK, Idle
  <1>8. \A v \in Workers : v # w => calls'[v] = calls[v]
    BY <1>3 DEF TypeOK
  <1>9. \A d \in Callers : ResumeOwns(w, d)'
    BY <1>3, <1>7, SameResumes
  <1>10. QED
    BY <1>3, <1>5, <1>6, <1>8, <1>9, StillKeeps DEF OwnStep, StillTimed

\* A statement that is sent, and is no renewal, comes in time.
LEMMA SendInTime ==
  ASSUME Timed, NEW w \in Workers, NEW q \in Locks!Stmts, Send(w, <<q>>),
         UNCHANGED <<now, row, result>>, q.op # "renew",
         q.op = "acquire" => now + TTL <= q.expires + MaxSkew
  PROVE  /\ Carried(w, 0)
         /\ \/ result'[w] = "none"
            \/ /\ result'[w] = result[w]
               /\ conn'[w] # <<>> => conn[w] # <<>> /\ First(w)' = First(w)
         /\ \A v \in Workers : v # w => StillConn(v)
  <1> TypeOK /\ WInv(w) /\ ConnType /\ now' \in Nat
    BY TypeGivesConn DEF Timed, IInv, TypeOK
  <1>1. /\ \A v \in Workers : v # w => conn'[v] = conn[v] /\ sentAt'[v] = sentAt[v]
        /\ \A i \in 1..Len(conn'[w]) :
              \/ /\ i \in 1..Len(conn[w])
                 /\ conn'[w][i] = conn[w][i] /\ sentAt'[w][i] = sentAt[w][i]
              \/ /\ i = Len(conn[w]) + 1 /\ conn'[w][i] = q /\ sentAt'[w][i] = now
        /\ conn[w] # <<>> => First(w)' = First(w)
    BY TimedSend
  <1>2. \A i \in 1..Len(conn[w]) : i + 0 = i
    OBVIOUS
  <1>3. Carried(w, 0)
    BY <1>1, <1>2 DEF Carried
  <1>4. conn[w] = <<>> => result'[w] = "none"
    BY DEF WInv, NothingAnswered
  <1>5. QED
    BY <1>1, <1>3, <1>4 DEF StillConn

\* An acquire or a renewal is stamped with a clock that is not too slow.
LEMMA ClockStamps ==
  ASSUME TypeOK, NEW clock \in Locks!WorkerClock
  PROVE  clock + TTL \in Int /\ now + TTL <= clock + TTL + MaxSkew
  <1>1. clock \in (now - MaxSkew) .. (now + MaxSkew) /\ now \in Nat
    BY DEF Locks!WorkerClock, TypeOK
  <1>2. QED
    BY <1>1, BeatType

\* route() asks for the lock.
LEMMA RouteAcquireInTime ==
  ASSUME Timed, NEW w \in Workers, NEW c \in Callers, NEW s \in Streams, RouteAcquire(w, c, s)
  PROVE  TInv(w)' /\ OwnStep(w)
  <1> TypeOK /\ TInv(w)
    BY DEF Timed, IInv
  <1>1. /\ UNCHANGED <<now, row, result, sessions, lockTokens, heartbeats, pumps, missed>>
        /\ calls' = [calls EXCEPT ![w][c] = [pc |-> "waiting", stream |-> s, token |-> 0]]
    BY DEF RouteAcquire
  <1>2. /\ \A v \in Workers : v # w => calls'[v] = calls[v]
        /\ \A d \in Callers : calls'[w][d] = calls[w][d] \/ calls'[w][d].pc # "resume"
    BY <1>1 DEF TypeOK
  <1>3. \A d \in Callers : ResumeOwns(w, d)'
    BY <1>1, <1>2, SameResumes
  <1>4. PumpsServe(w)'
    BY <1>1 DEF TInv, PumpsServe
  <1>5. \A v \in Workers : StillBeats(v)
    BY <1>1 DEF StillBeats
  <1>6. CASE UNCHANGED <<conn, sentAt>>
    <2>1. \A v \in Workers : StillConn(v)
      BY <1>1, <1>6 DEF StillConn
    <2>2. QED
      BY <1>1, <1>2, <1>3, <1>4, <1>5, <2>1, StillKeeps DEF OwnStep, StillTimed
  <1>7. CASE \E clock \in Locks!WorkerClock :
               Send(w, <<[op |-> "acquire", stream |-> s, token |-> lastToken + 1,
                          expires |-> clock + TTL]>>)
    <2> PICK clock \in Locks!WorkerClock :
               Send(w, <<[op |-> "acquire", stream |-> s, token |-> lastToken + 1,
                          expires |-> clock + TTL]>>)
      BY <1>7
    <2> DEFINE q == [op |-> "acquire", stream |-> s, token |-> lastToken + 1,
                     expires |-> clock + TTL]
    <2>1. clock + TTL \in Int /\ now + TTL <= clock + TTL + MaxSkew
      BY ClockStamps
    <2>2. q \in Locks!Stmts
      <3>1. lastToken + 1 \in Nat
        BY DEF TypeOK
      <3>2. QED
        BY <2>1, <3>1, StatementTypes
    <2>3. q.op = "acquire" /\ q.expires = clock + TTL /\ Send(w, <<q>>)
      OBVIOUS
    <2> HIDE DEF q
    <2>4. /\ Carried(w, 0)
          /\ \/ result'[w] = "none"
             \/ /\ result'[w] = result[w]
                /\ conn'[w] # <<>> => conn[w] # <<>> /\ First(w)' = First(w)
          /\ \A v \in Workers : v # w => StillConn(v)
      BY <1>1, <2>1, <2>2, <2>3, SendInTime
    <2>5. TInv(w)'
      BY <1>1, <1>3, <1>4, <2>4, MildKeeps
    <2>6. QED
      BY <1>1, <1>2, <1>5, <2>4, <2>5 DEF OwnStep, StillTimed
  <1>8. QED
    BY <1>6, <1>7 DEF RouteAcquire

\* The session that has been stopped, and whose pump is idle, leaves the maps.
LEMMA StopEndsInTime ==
  ASSUME Timed, NEW w \in Workers, NEW s \in Streams, StopEnds(w, s)
  PROVE  TInv(w)' /\ OwnStep(w)
  <1> TypeOK /\ TInv(w)
    BY DEF Timed, IInv
  <1> DEFINE q == ReleaseStmt(s, lockTokens[w][s])
  <1>1. /\ UNCHANGED <<now, row, result, calls, pumps>>
        /\ sessions' = [sessions EXCEPT ![w][s] = "none"]
        /\ lockTokens' = [lockTokens EXCEPT ![w][s] = 0]
        /\ heartbeats' = [heartbeats EXCEPT ![w][s] = NoTimer]
        /\ missed' = [missed EXCEPT ![w][s] = 0]
        /\ ~ Busy(w, s) /\ Send(w, <<q>>)
    BY DEF StopEnds, Evict
  <1>2. q \in Locks!Stmts /\ q.op = "release"
    BY StatementTypes DEF TypeOK, ReleaseStmt, Locks!ReleaseStmt
  <1> HIDE DEF q
  <1>3. /\ \A v \in Workers : v # w => StillBeats(v)
        /\ \A x \in Streams :
              /\ sessions'[w][x] # "none" =>
                    /\ x # s /\ sessions[w][x] # "none"
                    /\ lockTokens'[w][x] = lockTokens[w][x]
                    /\ heartbeats'[w][x] = heartbeats[w][x] /\ missed'[w][x] = missed[w][x]
              /\ heartbeats'[w][x] \in {heartbeats[w][x], NoTimer}
              /\ missed'[w][x] \in {missed[w][x], 0}
              /\ x # s => sessions'[w][x] = sessions[w][x]
                          /\ lockTokens'[w][x] = lockTokens[w][x]
    BY <1>1 DEF TypeOK, StillBeats
  <1>4. PumpsServe(w)'
    <2> SUFFICES ASSUME NEW p \in pumps[w]
                 PROVE  sessions'[w][p[1]] # "none" /\ p[2] = lockTokens'[w][p[1]]
      BY <1>1 DEF PumpsServe
    <2>1. p[1] \in Streams /\ p = <<p[1], p[2]>>
      BY DEF TypeOK
    <2>2. sessions[w][p[1]] # "none" /\ p[2] = lockTokens[w][p[1]]
      BY DEF TInv, PumpsServe
    <2>3. p[1] # s
      BY <1>1, <2>1, <2>2 DEF Busy
    <2>4. QED
      BY <1>3, <2>1, <2>2, <2>3
  <1>5. \A c \in Callers : ResumeOwns(w, c)'
    BY <1>1, SameResumes
  <1>6. /\ Carried(w, 0)
        /\ \/ result'[w] = "none"
           \/ /\ result'[w] = result[w]
              /\ conn'[w] # <<>> => conn[w] # <<>> /\ First(w)' = First(w)
        /\ \A v \in Workers : v # w => StillConn(v)
    BY <1>1, <1>2, SendInTime
  <1>7. TInv(w)'
    BY <1>1, <1>3, <1>4, <1>5, <1>6, MildKeeps
  <1>8. QED
    BY <1>1, <1>3, <1>6, <1>7 DEF OwnStep, StillTimed

\* drainAll() and the hooks after it give everything back.
LEMMA ReleaseAllInTime ==
  ASSUME Timed, NEW w \in Workers, DrainReleasesAll(w) \/ ReleasesAgain(w)
  PROVE  TInv(w)' /\ OwnStep(w)
  <1> TypeOK /\ TInv(w)
    BY DEF Timed, IInv
  <1>1. /\ UNCHANGED <<now, row, result, sessions, lockTokens, heartbeats, calls, pumps, missed>>
        /\ Send(w, <<ReleaseAllStmt>>)
    BY DEF DrainReleasesAll, ReleasesAgain
  <1>2. ReleaseAllStmt \in Locks!Stmts /\ ReleaseAllStmt.op = "releaseAll"
    BY StatementTypes DEF ReleaseAllStmt
  <1>3. /\ Carried(w, 0)
        /\ \/ result'[w] = "none"
           \/ /\ result'[w] = result[w]
              /\ conn'[w] # <<>> => conn[w] # <<>> /\ First(w)' = First(w)
        /\ \A v \in Workers : v # w => StillConn(v)
    BY <1>1, <1>2, SendInTime
  <1>4. PumpsServe(w)'
    BY <1>1 DEF TInv, PumpsServe
  <1>5. \A c \in Callers : ResumeOwns(w, c)'
    BY <1>1, SameResumes
  <1>6. TInv(w)'
    BY <1>1, <1>3, <1>4, <1>5, MildKeeps
  <1>7. QED
    BY <1>1, <1>3, <1>6 DEF OwnStep, StillTimed, StillBeats

\* An answer that is received leaves the rest of the connection in time.
LEMMA ReceiveInTime ==
  ASSUME Timed, NEW w \in Workers, conn[w] # <<>>, Receive(w, <<>>), now' = now
  PROVE  /\ Carried(w, 1) /\ result'[w] = "none"
         /\ First(w) = conn[w][1] /\ 1 \in 1..Len(conn[w])
         /\ \A i \in 1..Len(conn'[w]) :
               /\ i + 1 \in 1..Len(conn[w])
               /\ conn'[w][i] = conn[w][i + 1] /\ sentAt'[w][i] = sentAt[w][i + 1]
         /\ \A v \in Workers : v # w => StillConn(v)
  <1> TypeOK /\ ConnType /\ WInv(w) /\ now' \in Nat
    BY TypeGivesConn DEF Timed, IInv, TypeOK
  <1>1. /\ \A v \in Workers : v # w =>
              conn'[v] = conn[v] /\ sentAt'[v] = sentAt[v] /\ result'[v] = result[v]
        /\ \A i \in 1..Len(conn'[w]) :
              /\ i + 1 \in 1..Len(conn[w])
              /\ conn'[w][i] = conn[w][i + 1] /\ sentAt'[w][i] = sentAt[w][i + 1]
        /\ Carried(w, 1)
    BY TimedReceive
  <1>2. First(w) = conn[w][1] /\ 1 \in 1..Len(conn[w])
    BY FirstType DEF WInv
  <1>3. result'[w] = "none"
    BY DEF Receive, TypeOK
  <1>4. QED
    BY <1>1, <1>2, <1>3 DEF StillConn

\* The acquire settles: who resumes with its token has the row, by a lease
\* that was asked for a lag ago at most.
LEMMA AcquireEndsInTime ==
  ASSUME Timed, NEW w \in Workers, AcquireSettles(w) \/ AcquireRejects(w)
  PROVE  TInv(w)' /\ OwnStep(w)
  <1> TypeOK /\ TInv(w) /\ WInv(w)
    BY DEF Timed, IInv
  <1>1. /\ UNCHANGED <<now, row, sessions, lockTokens, heartbeats, pumps, missed>>
        /\ conn[w] # <<>> /\ Receive(w, <<>>) /\ First(w).op = "acquire"
        /\ \A v \in Workers : v # w => calls'[v] = calls[v]
    BY DEF AcquireSettles, AcquireRejects, Locks!Answered, First, TypeOK
  <1>2. /\ Carried(w, 1) /\ result'[w] = "none"
        /\ First(w) = conn[w][1] /\ 1 \in 1..Len(conn[w])
        /\ \A v \in Workers : v # w => StillConn(v)
    BY <1>1, ReceiveInTime
  <1>3. ASSUME NEW c \in Callers PROVE ResumeOwns(w, c)'
    <2>1. CASE calls'[w][c] = calls[w][c] \/ calls'[w][c] = Idle
      BY <1>1, <2>1 DEF TInv, ResumeOwns, Resumes, RowOf, LeaseStart, Idle
    <2>2. CASE /\ calls'[w][c] = [pc |-> "resume", stream |-> First(w).stream,
                     token |-> IF result[w] = "yes" THEN First(w).token ELSE 0]
               /\ result[w] = "yes"
      <3> DEFINE s == First(w).stream
      <3>1. calls'[w][c].stream = s /\ calls'[w][c].token = First(w).token
        BY <2>2
      <3>2. s \in Streams
        BY <1>1, FirstType DEF WInv
      <3>3. RowOf(w, s, First(w).token) /\ row[s].expires = First(w).expires
        BY <1>1, <2>2 DEF TInv, GrantedInRow
      <3>4. /\ sentAt[w][1] \in Nat /\ First(w).expires \in Int /\ now \in Nat
            /\ now <= sentAt[w][1] + MaxLag
            /\ sentAt[w][1] + TTL <= First(w).expires + MaxSkew
        BY <1>1, <1>2, Numbers DEF TInv, SentLately, LeasesStamped
      <3>5. now <= (First(w).expires + MaxSkew - TTL) + MaxLag
        BY <3>4, BeatType
      <3>6. now <= LeaseStart(s) + MaxLag
        BY <3>3, <3>5 DEF LeaseStart
      <3>7. QED
        BY <1>1, <3>1, <3>3, <3>6 DEF ResumeOwns, RowOf, LeaseStart
    <2>3. CASE /\ calls'[w][c] = [pc |-> "resume", stream |-> First(w).stream,
                     token |-> IF result[w] = "yes" THEN First(w).token ELSE 0]
               /\ result[w] # "yes"
      BY <2>3 DEF ResumeOwns
    <2>4. \/ calls'[w][c] = calls[w][c] \/ calls'[w][c] = Idle
          \/ calls'[w][c] = [pc |-> "resume", stream |-> First(w).stream,
                     token |-> IF result[w] = "yes" THEN First(w).token ELSE 0]
      BY DEF AcquireSettles, AcquireRejects, TypeOK
    <2>5. QED
      BY <2>1, <2>2, <2>3, <2>4
  <1>4. PumpsServe(w)'
    BY <1>1 DEF TInv, PumpsServe
  <1>5. TInv(w)'
    BY <1>1, <1>2, <1>3, <1>4, MildKeeps
  <1>6. QED
    BY <1>1, <1>2, <1>5 DEF OwnStep, StillTimed, StillBeats

\* A release settles; or a renewal returns false, which it does only when there
\* is no session to fail.
LEMMA SettlesInTime ==
  ASSUME Timed, NEW w \in Workers, ReleaseSettles(w) \/ RenewReturnsFalse(w)
  PROVE  TInv(w)' /\ OwnStep(w)
  <1> TypeOK /\ TInv(w) /\ WInv(w)
    BY DEF Timed, IInv
  <1>1. /\ UNCHANGED <<now, row, sessions, lockTokens, heartbeats, calls, pumps, missed>>
        /\ conn[w] # <<>> /\ Receive(w, <<>>)
    <2>1. CASE ReleaseSettles(w)
      BY <2>1 DEF ReleaseSettles, registry
    <2>2. CASE RenewReturnsFalse(w)
      <3>1. conn[w] # <<>> /\ result[w] = "no" /\ First(w).op = "renew"
        BY <2>2 DEF RenewReturnsFalse, Locks!Answered, First
      <3>2. ~ FailsSession(w, First(w).stream)
        BY <3>1 DEF TInv, RefusedIsGone, FailsSession
      <3>3. QED
        BY <2>2, <3>1, <3>2 DEF RenewReturnsFalse
    <2>3. QED
      BY <2>1, <2>2
  <1>2. /\ Carried(w, 1) /\ result'[w] = "none"
        /\ \A v \in Workers : v # w => StillConn(v)
    BY <1>1, ReceiveInTime
  <1>3. PumpsServe(w)'
    BY <1>1 DEF TInv, PumpsServe
  <1>4. \A c \in Callers : ResumeOwns(w, c)'
    BY <1>1, SameResumes
  <1>5. TInv(w)'
    BY <1>1, <1>2, <1>3, <1>4, MildKeeps
  <1>6. QED
    BY <1>1, <1>2, <1>5 DEF OwnStep, StillTimed, StillBeats

\* A process that is gone has nothing left that could be late.
LEMMA GoneInTime ==
  ASSUME Timed, NEW w \in Workers, Gone(w)
  PROVE  TInv(w)' /\ OwnStep(w)
  <1> TypeOK /\ TInv(w)
    BY DEF Timed, IInv
  <1>1. /\ UNCHANGED <<now, row>>
        /\ conn'[w] = <<>> /\ result'[w] = "none" /\ pumps'[w] = {}
        /\ \A s \in Streams : /\ sessions'[w][s] = "none" /\ heartbeats'[w][s] = NoTimer
                              /\ missed'[w][s] = 0
        /\ \A c \in Callers : calls'[w][c] = Idle
    BY DEF Gone, TypeOK
  <1>2. \A v \in Workers : v # w => StillTimed(v)
    BY DEF Gone, TypeOK, StillTimed, StillBeats, StillConn
  <1>3. Carried(w, 0)
    <2>1. Len(conn'[w]) = 0
      BY <1>1
    <2>2. QED
      BY <2>1 DEF Carried
  <1>4. PumpsServe(w)'
    BY <1>1 DEF PumpsServe
  <1>5. \A c \in Callers : ResumeOwns(w, c)'
    BY <1>1 DEF ResumeOwns, Resumes, Idle
  <1>6. TInv(w)'
    BY <1>1, <1>3, <1>4, <1>5, MildKeeps
  <1>7. QED
    BY <1>1, <1>2, <1>6 DEF OwnStep

-----------------------------------------------------------------------------
(* Sessions and their heartbeat *)

\* The next beat is a beat away, which the lease that has just begun outlasts.
LEMMA NextBeatInReach ==
  ASSUME TypeOK, NEW s \in Streams, NEW k \in Nat, NEW a \in Int,
         now <= a + MaxLag, a + Beat <= LeaseStart(s) + Reach(k)
  PROVE  NextBeat \in Nat /\ now <= NextBeat /\ NextBeat <= LeaseStart(s) + Reach(k)
  <1>1. LeaseStart(s) \in Int /\ now \in Nat
    BY Numbers
  <1>2. Reach(k) \in Nat
    BY ReachType
  <1>3. NextBeat \in Nat /\ now <= NextBeat
    BY <1>1, BeatType DEF NextBeat
  <1>4. now + HeartbeatMs <= a + Beat
    BY <1>1, BeatType DEF Beat
  <1> DEFINE e == LeaseStart(s)
             r == Reach(k)
  <1>5. e \in Int /\ r \in Nat /\ a + Beat <= e + r
    BY <1>1, <1>2
  <1> HIDE DEF e, r
  <1>6. now + HeartbeatMs <= e + r
    BY <1>1, <1>4, <1>5, BeatType
  <1>7. NextBeat <= e + r
    BY <1>6 DEF NextBeat
  <1>8. QED
    BY <1>3, <1>7 DEF e, r

\* route() resumes as the owner: the lease is still long enough for a beat.
LEMMA RouteSpawnsInTime ==
  ASSUME Timed, NEW w \in Workers, NEW c \in Callers, RouteSpawns(w, c)
  PROVE  TInv(w)' /\ OwnStep(w)
  <1> TypeOK /\ TInv(w) /\ WInv(w)
    BY DEF Timed, IInv
  <1> DEFINE s == calls[w][c].stream
             t == calls[w][c].token
  <1>1. /\ s \in Streams /\ t \in Nat /\ Resumes(w, c) /\ t # 0
        /\ sessions[w][s] = "none" /\ lockTokens[w][s] = 0
    BY DEF TypeOK, WInv, CallsKnown, SessionsLocked, Resumes, RouteSpawns
  <1>2. /\ lockTokens' = [lockTokens EXCEPT ![w][s] = t]
        /\ heartbeats' = [heartbeats EXCEPT ![w][s] = [token |-> t, due |-> NextBeat]]
        /\ sessions' = [sessions EXCEPT ![w][s] = "running"]
        /\ missed' = [missed EXCEPT ![w][s] = 0]
        /\ pumps' = [pumps EXCEPT ![w] = pumps[w] \cup {<<s, t>>}]
        /\ calls' = [calls EXCEPT ![w][c] = Idle]
        /\ UNCHANGED <<now, row, lastToken, conn, result, lost, granted, sentAt, mode,
                       inflight, stopping>>
    BY DEF RouteSpawns, Spawned, lockVars
  <1>3. RowOf(w, s, t) /\ now <= LeaseStart(s) + MaxLag
    BY <1>1 DEF TInv, ResumeOwns
  <1>4. \A i \in 1..Len(conn[w]) : ~ IsStmt(w, i, "renew", s)
    BY <1>1 DEF WInv, RenewsCurrent, StatementsKnown, IsStmt
  <1> HIDE DEF s, t
  <1>5. /\ \A x \in Streams : sessions'[w][x] = IF x = s THEN "running" ELSE sessions[w][x]
        /\ \A x \in Streams : lockTokens'[w][x] = IF x = s THEN t ELSE lockTokens[w][x]
        /\ \A x \in Streams : heartbeats'[w][x] =
              IF x = s THEN [token |-> t, due |-> NextBeat] ELSE heartbeats[w][x]
        /\ \A x \in Streams : missed'[w][x] = IF x = s THEN 0 ELSE missed[w][x]
        /\ \A d \in Callers : calls'[w][d] = calls[w][d] \/ calls'[w][d] = Idle
    BY <1>1, <1>2 DEF TypeOK
  <1>6. \A v \in Workers : v # w => StillTimed(v)
    BY <1>1, <1>2 DEF TypeOK, StillTimed, StillBeats, StillConn
  <1>7. now <= NextBeat /\ NextBeat <= LeaseStart(s) + Reach(0)
    <2>1. LeaseStart(s) \in Int
      BY <1>1, Numbers
    <2>2. Beat <= Reach(0) /\ Reach(0) \in Nat
      BY ReachCoversBeat, ReachType
    <2> DEFINE e == LeaseStart(s)
               r == Reach(0)
    <2>3. e \in Int /\ r \in Nat /\ Beat <= r /\ now <= e + MaxLag
      BY <1>3, <2>1, <2>2
    <2> HIDE DEF e, r
    <2>4. e + Beat <= e + r
      BY <2>3, BeatType
    <2>5. QED
      BY <1>1, <2>3, <2>4, NextBeatInReach DEF e, r
  <1>8. SentLately(w)' /\ LeasesStamped(w)' /\ GrantedInRow(w)'
    BY <1>2 DEF TInv, SentLately, LeasesStamped, GrantedInRow, RowOf, First
  <1>9. TimersAhead(w)' /\ MissedBounded(w)'
    <2>1. 0 <= MaxMissed
      BY BeatType
    <2>2. QED
      BY <1>2, <1>5, <1>7, <2>1 DEF TInv, TimersAhead, MissedBounded
  <1>10. OneBeat(w)'
    BY <1>2, <1>4, <1>5 DEF TInv, OneBeat, IsStmt
  <1>11. ASSUME NEW x \in Streams PROVE SessionOwns(w, x)'
    <2>1. CASE x = s
      <3>1. /\ lockTokens'[w][x] = t /\ missed'[w][x] = 0
            /\ heartbeats'[w][x].due = NextBeat
        BY <1>5, <2>1
      <3>2. RowOf(w, x, lockTokens[w][x])'
        BY <1>2, <1>3, <2>1, <3>1 DEF RowOf
      <3>3. heartbeats'[w][x].due <= LeaseStart(x)' + Reach(missed'[w][x])
        BY <1>2, <1>7, <2>1, <3>1 DEF LeaseStart
      <3>4. \A i \in 1..Len(conn'[w]) : ~ IsStmt(w, i, "renew", x)'
        BY <1>2, <1>4, <2>1 DEF IsStmt
      <3>5. Reach(missed[w][x])' = Reach(missed'[w][x])
        BY DEF Reach
      <3>6. QED
        BY <3>2, <3>3, <3>4, <3>5 DEF SessionOwns
    <2>2. CASE x # s
      BY <1>2, <1>5, <2>2 DEF TInv, SessionOwns, RowOf, LeaseStart, Reach, IsStmt
    <2>3. QED
      BY <2>1, <2>2
  <1>12. \A d \in Callers : ResumeOwns(w, d)'
    BY <1>2, <1>5, SameResumes DEF Idle
  <1>13. RefusedIsGone(w)'
    <2>1. SUFFICES ASSUME conn[w] # <<>>, result[w] = "no", First(w).op = "renew"
                   PROVE  sessions'[w][First(w).stream] = "none"
      BY <1>2 DEF RefusedIsGone, First
    <2>2. First(w) = conn[w][1] /\ 1 \in 1..Len(conn[w]) /\ First(w).stream \in Streams
      BY <2>1, FirstType DEF WInv
    <2>3. First(w).stream # s
      BY <1>4, <2>1, <2>2 DEF IsStmt
    <2>4. QED
      BY <1>5, <2>1, <2>2, <2>3 DEF TInv, RefusedIsGone
  <1>14. PumpsServe(w)'
    <2> DEFINE e == <<s, t>>
    <2>1. e[1] = s /\ e[2] = t /\ pumps' = [pumps EXCEPT ![w] = pumps[w] \cup {e}]
      BY <1>2
    <2> HIDE DEF e
    <2>2. \A p \in pumps'[w] : p = e \/ p \in pumps[w]
      BY <2>1 DEF TypeOK
    <2> SUFFICES ASSUME NEW p \in pumps'[w]
                 PROVE  sessions'[w][p[1]] # "none" /\ p[2] = lockTokens'[w][p[1]]
      BY DEF PumpsServe
    <2>3. CASE p = e
      BY <1>1, <1>5, <2>1, <2>3
    <2>4. CASE p \in pumps[w]
      <3>1. /\ p[1] \in Streams /\ sessions[w][p[1]] # "none"
            /\ p[2] = lockTokens[w][p[1]]
        BY <2>4 DEF TypeOK, TInv, PumpsServe
      <3>2. p[1] # s
        BY <1>1, <3>1
      <3>3. QED
        BY <1>5, <3>1, <3>2
    <2>5. QED
      BY <2>2, <2>3, <2>4
  <1>15. QED
    BY <1>2, <1>6, <1>8, <1>9, <1>10, <1>11, <1>12, <1>13, <1>14 DEF TInv, OwnStep

\* The timer fires in time, and issues the only renewal of its stream.
LEMMA HeartbeatFiresInTime ==
  ASSUME Timed, NEW w \in Workers, NEW s \in Streams, HeartbeatFires(w, s)
  PROVE  TInv(w)' /\ OwnStep(w)
  <1> TypeOK /\ TInv(w) /\ WInv(w) /\ ConnType /\ now' \in Nat
    BY TypeGivesConn DEF Timed, IInv, TypeOK, HeartbeatFires
  <1>1. /\ heartbeats[w][s] # NoTimer
        /\ lockTokens[w][s] = heartbeats[w][s].token /\ lockTokens[w][s] # 0
        /\ sessions[w][s] # "none"
    BY DEF HeartbeatFires, Due, WInv, TimersCurrent, SessionsLocked
  <1>2. PICK clock \in Locks!WorkerClock :
          Send(w, <<[op |-> "renew", stream |-> s, token |-> lockTokens[w][s],
                     expires |-> clock + TTL]>>)
    BY <1>1 DEF HeartbeatFires
  <1> DEFINE q == [op |-> "renew", stream |-> s, token |-> lockTokens[w][s],
                   expires |-> clock + TTL]
  <1>3. clock + TTL \in Int /\ now + TTL <= clock + TTL + MaxSkew
    BY ClockStamps
  <1>4. /\ q \in Locks!Stmts /\ q.op = "renew" /\ q.stream = s /\ q.expires = clock + TTL
        /\ Send(w, <<q>>)
    <2>1. lockTokens[w][s] \in Nat
      BY DEF TypeOK
    <2>2. q \in Locks!Stmts
      BY <1>3, <2>1, StatementTypes
    <2>3. QED
      BY <1>2, <2>2
  <1>5. /\ UNCHANGED <<now, row, result, sessions, lockTokens, calls, pumps, missed>>
        /\ heartbeats' = [heartbeats EXCEPT ![w][s] = NoTimer]
    BY DEF HeartbeatFires
  <1> HIDE DEF q
  <1>6. /\ \A v \in Workers : v # w => conn'[v] = conn[v] /\ sentAt'[v] = sentAt[v]
        /\ \A i \in 1..Len(conn'[w]) :
              \/ /\ i \in 1..Len(conn[w])
                 /\ conn'[w][i] = conn[w][i] /\ sentAt'[w][i] = sentAt[w][i]
              \/ /\ i = Len(conn[w]) + 1 /\ conn'[w][i] = q /\ sentAt'[w][i] = now
        /\ conn[w] # <<>> => First(w)' = First(w)
    BY <1>4, TimedSend
  <1>7. /\ \A x \in Streams : heartbeats'[w][x] = IF x = s THEN NoTimer ELSE heartbeats[w][x]
        /\ \A v \in Workers : v # w => heartbeats'[v] = heartbeats[v]
    BY <1>5 DEF TypeOK
  <1>8. now \in Nat
    BY DEF TypeOK
  <1>9. SentLately(w)' /\ LeasesStamped(w)'
    <2>1. SentLately(w)'
      <3> SUFFICES ASSUME NEW i \in 1..Len(conn'[w])
                   PROVE  sentAt'[w][i] <= now /\ now <= sentAt'[w][i] + MaxLag
        BY <1>5 DEF SentLately
      <3>1. now <= now /\ now <= now + MaxLag
        BY <1>8, BeatType
      <3>2. QED
        BY <1>6, <3>1 DEF TInv, SentLately
    <2>2. LeasesStamped(w)'
      <3> SUFFICES ASSUME NEW i \in 1..Len(conn'[w]), conn'[w][i].op \in {"acquire", "renew"}
                   PROVE  sentAt'[w][i] + TTL <= conn'[w][i].expires + MaxSkew
        BY DEF LeasesStamped
      <3>1. CASE /\ i \in 1..Len(conn[w])
                 /\ conn'[w][i] = conn[w][i] /\ sentAt'[w][i] = sentAt[w][i]
        BY <3>1 DEF TInv, LeasesStamped
      <3>2. CASE conn'[w][i] = q /\ sentAt'[w][i] = now
        BY <1>3, <1>4, <3>2
      <3>3. QED
        BY <1>6, <3>1, <3>2
    <2>3. QED
      BY <2>1, <2>2
  <1>10. TimersAhead(w)' /\ MissedBounded(w)'
    BY <1>5, <1>7 DEF TInv, TimersAhead, MissedBounded
  <1>11. \A i \in 1..Len(conn[w]) : ~ IsStmt(w, i, "renew", s)
    BY <1>1 DEF TInv, OneBeat
  <1>12. \A i \in 1..Len(conn'[w]), x \in Streams : IsStmt(w, i, "renew", x)' =>
            \/ /\ x # s /\ i \in 1..Len(conn[w]) /\ IsStmt(w, i, "renew", x)
               /\ sentAt'[w][i] = sentAt[w][i]
            \/ x = s /\ i = Len(conn[w]) + 1 /\ sentAt'[w][i] = now
    <2> SUFFICES ASSUME NEW i \in 1..Len(conn'[w]), NEW x \in Streams, IsStmt(w, i, "renew", x)'
                 PROVE  \/ /\ x # s /\ i \in 1..Len(conn[w]) /\ IsStmt(w, i, "renew", x)
                           /\ sentAt'[w][i] = sentAt[w][i]
                        \/ x = s /\ i = Len(conn[w]) + 1 /\ sentAt'[w][i] = now
      OBVIOUS
    <2>1. conn'[w][i].op = "renew" /\ conn'[w][i].stream = x
      BY DEF IsStmt
    <2>2. QED
      BY <1>4, <1>6, <1>11, <2>1 DEF IsStmt
  <1>13. OneBeat(w)'
    <2> SUFFICES ASSUME NEW x \in Streams, NEW i \in 1..Len(conn'[w]),
                        IsStmt(w, i, "renew", x)', sessions[w][x] # "none"
                 PROVE  /\ heartbeats'[w][x] = NoTimer
                        /\ \A j \in 1..Len(conn'[w]) : IsStmt(w, j, "renew", x)' => j = i
      BY <1>5 DEF OneBeat
    <2>1. CASE x = s
      BY <1>7, <1>12, <2>1
    <2>2. CASE x # s
      BY <1>7, <1>12, <2>2 DEF TInv, OneBeat
    <2>3. QED
      BY <2>1, <2>2
  <1>14. ASSUME NEW x \in Streams, sessions[w][x] # "none" PROVE SessionOwns(w, x)'
    <2>1. /\ RowOf(w, x, lockTokens[w][x])' /\ LeaseStart(x)' = LeaseStart(x)
          /\ Reach(missed[w][x])' = Reach(missed[w][x])
      BY <1>5, <1>14 DEF TInv, SessionOwns, RowOf, LeaseStart, Reach
    <2>2. CASE x = s
      <3>1. /\ now <= heartbeats[w][s].due
            /\ heartbeats[w][s].due <= LeaseStart(s) + Reach(missed[w][s])
        BY <1>1 DEF TInv, TimersAhead, SessionOwns
      <3>2. now <= LeaseStart(s) + Reach(missed[w][s])
        <4>1. heartbeats[w][s].due \in Nat /\ LeaseStart(s) \in Int /\ missed[w][s] \in Nat
          BY Numbers
        <4> DEFINE e == LeaseStart(s) + Reach(missed[w][s])
        <4>2. e \in Int
          BY <4>1, ReachType
        <4> HIDE DEF e
        <4>3. now <= e
          BY <1>8, <3>1, <4>1, <4>2 DEF e
        <4>4. QED
          BY <4>3 DEF e
      <3>3. heartbeats'[w][s] = NoTimer
        BY <1>7
      <3>4. QED
        BY <1>12, <2>1, <2>2, <3>2, <3>3 DEF SessionOwns
    <2>3. CASE x # s
      BY <1>7, <1>12, <1>14, <2>1, <2>3 DEF TInv, SessionOwns
    <2>4. QED
      BY <2>2, <2>3
  <1>15. \A x \in Streams : SessionOwns(w, x)'
    BY <1>5, <1>14 DEF SessionOwns
  <1>16. GrantedInRow(w)' /\ RefusedIsGone(w)'
    <2>1. CASE conn[w] = <<>>
      BY <1>5, <2>1 DEF WInv, NothingAnswered, GrantedInRow, RefusedIsGone
    <2>2. CASE conn[w] # <<>>
      BY <1>5, <1>6, <2>2 DEF TInv, GrantedInRow, RefusedIsGone, RowOf
    <2>3. QED
      BY <2>1, <2>2
  <1>17. \A c \in Callers : ResumeOwns(w, c)'
    BY <1>5, SameResumes
  <1>18. PumpsServe(w)'
    BY <1>5 DEF TInv, PumpsServe
  <1>19. \A v \in Workers : v # w => StillTimed(v)
    BY <1>5, <1>6, <1>7 DEF StillTimed, StillBeats, StillConn
  <1>20. QED
    BY <1>5, <1>9, <1>10, <1>13, <1>15, <1>16, <1>17, <1>18, <1>19 DEF TInv, OwnStep

\* A renewal settles, done or missed: the session's next beat is in reach.
LEMMA RearmInTime ==
  ASSUME Timed, NEW w \in Workers, RenewReturnsTrue(w) \/ RenewRejects(w)
  PROVE  TInv(w)' /\ OwnStep(w)
  <1> TypeOK /\ TInv(w) /\ WInv(w)
    BY DEF Timed, IInv
  <1> DEFINE s == First(w).stream
             t == First(w).token
             m == missed'[w][s]
  <1>1. /\ UNCHANGED <<now, row, sessions, lockTokens, calls, pumps>>
        /\ conn[w] # <<>> /\ First(w).op = "renew" /\ Receive(w, <<>>)
        /\ ScheduleNext(w, s, t)
    BY DEF RenewReturnsTrue, RenewRejects, RetryLater, Locks!Answered, First
  <1>2. /\ Carried(w, 1) /\ result'[w] = "none"
        /\ First(w) = conn[w][1] /\ 1 \in 1..Len(conn[w])
        /\ \A i \in 1..Len(conn'[w]) :
              /\ i + 1 \in 1..Len(conn[w])
              /\ conn'[w][i] = conn[w][i + 1] /\ sentAt'[w][i] = sentAt[w][i + 1]
        /\ \A v \in Workers : v # w => StillConn(v)
    BY <1>1, ReceiveInTime
  <1>3. s \in Streams /\ IsStmt(w, 1, "renew", s) /\ t \in Nat
    BY <1>1, <1>2, FirstType DEF WInv, IsStmt
  <1>4. /\ now \in Nat /\ sentAt[w][1] \in Nat /\ now <= sentAt[w][1] + MaxLag
        /\ LeaseStart(s) \in Int /\ missed[w][s] \in Nat
    BY <1>2, <1>3, Numbers DEF TInv, SentLately
  <1>5. /\ m \in Nat /\ m <= MaxMissed
        /\ sessions[w][s] # "none" => sentAt[w][1] + Beat <= LeaseStart(s) + Reach(m)
        /\ \A x \in Streams : x # s => missed'[w][x] = missed[w][x]
        /\ \A v \in Workers : v # w => missed'[v] = missed[v]
    <2>1. CASE RenewReturnsTrue(w)
      <3>1. missed' = [missed EXCEPT ![w][s] = 0] /\ result[w] = "yes"
        BY <2>1 DEF RenewReturnsTrue, Locks!Answered
      <3>2. m = 0 /\ (\A x \in Streams : x # s => missed'[w][x] = missed[w][x])
            /\ (\A v \in Workers : v # w => missed'[v] = missed[v])
        BY <1>3, <3>1 DEF TypeOK
      <3>3. row[s].expires = First(w).expires
        BY <1>1, <3>1 DEF TInv, GrantedInRow
      <3>4. /\ sentAt[w][1] + TTL <= First(w).expires + MaxSkew /\ First(w).expires \in Int
        BY <1>1, <1>2, Numbers DEF TInv, LeasesStamped
      <3>5. sentAt[w][1] <= First(w).expires + MaxSkew - TTL
        BY <1>4, <3>4, BeatType
      <3>6. sentAt[w][1] <= LeaseStart(s)
        BY <3>3, <3>5 DEF LeaseStart
      <3>7. sentAt[w][1] + Beat <= LeaseStart(s) + Reach(0)
        <4>1. Beat <= Reach(0) /\ Reach(0) \in Nat
          BY ReachCoversBeat, ReachType
        <4> DEFINE e == LeaseStart(s)
                   r == Reach(0)
        <4>2. e \in Int /\ r \in Nat /\ Beat <= r /\ sentAt[w][1] <= e
          BY <1>4, <3>6, <4>1
        <4> HIDE DEF e, r, s
        <4>3. sentAt[w][1] + Beat <= e + r
          BY <1>4, <4>2, BeatType
        <4>4. QED
          BY <4>3 DEF e, r
      <3>8. 0 <= MaxMissed
        BY BeatType
      <3>9. QED
        BY <3>2, <3>7, <3>8
    <2>2. CASE RenewRejects(w)
      <3>1. missed' = [missed EXCEPT ![w][s] = @ + 1] /\ missed[w][s] < MaxMissed
        BY <2>2 DEF RenewRejects
      <3>2. m = missed[w][s] + 1 /\ (\A x \in Streams : x # s => missed'[w][x] = missed[w][x])
            /\ (\A v \in Workers : v # w => missed'[v] = missed[v])
        BY <1>3, <3>1 DEF TypeOK
      <3>3. m \in Nat /\ m <= MaxMissed
        BY <1>4, <3>1, <3>2, BeatType
      <3>4. ASSUME sessions[w][s] # "none"
            PROVE  sentAt[w][1] + Beat <= LeaseStart(s) + Reach(m)
        <4>1. sentAt[w][1] <= LeaseStart(s) + Reach(missed[w][s])
          BY <1>2, <1>3, <3>4 DEF TInv, SessionOwns
        <4>2. Reach(m) = Reach(missed[w][s]) + Beat /\ Reach(missed[w][s]) \in Nat
          BY <1>4, <3>2, ReachGrows, ReachType, Zenon
        <4> DEFINE e == LeaseStart(s)
                   r == Reach(missed[w][s])
                   k == Reach(m)
        <4>3. e \in Int /\ r \in Nat /\ k = r + Beat /\ sentAt[w][1] <= e + r
          BY <1>4, <4>1, <4>2
        <4> HIDE DEF e, r, k, s
        <4>4. sentAt[w][1] + Beat <= e + k
          BY <1>4, <4>3, BeatType
        <4>5. QED
          BY <4>4 DEF e, k
      <3>5. QED
        BY <3>2, <3>3, <3>4
    <2>3. QED
      BY <2>1, <2>2
  <1>6. sessions[w][s] # "none" <=> lockTokens[w][s] = t
    <2>1. t # 0
      BY <1>1, FirstType DEF WInv
    <2>2. lockTokens[w][s] = t \/ lockTokens[w][s] = 0
      BY <1>2, <1>3 DEF WInv, RenewsCurrent
    <2>3. QED
      BY <1>3, <2>1, <2>2 DEF WInv, SessionsLocked
  <1>7. ASSUME sessions[w][s] # "none"
        PROVE  /\ now <= NextBeat /\ NextBeat <= LeaseStart(s) + Reach(m)
               /\ heartbeats'[w][s].due = NextBeat
               /\ \A i \in 1..Len(conn'[w]) :
                     ~ (conn'[w][i].op = "renew" /\ conn'[w][i].stream = s)
    <2>1. now <= NextBeat /\ NextBeat <= LeaseStart(s) + Reach(m)
      <3>1. sentAt[w][1] \in Int
        BY <1>4
      <3> HIDE DEF s, m
      <3>2. QED
        BY <1>3, <1>4, <1>5, <1>7, <3>1, NextBeatInReach
    <2>2. heartbeats'[w][s].due = NextBeat
      <3>1. heartbeats' = [heartbeats EXCEPT ![w][s] = [token |-> t, due |-> NextBeat]]
        BY <1>1, <1>6, <1>7 DEF ScheduleNext
      <3> HIDE DEF s, t
      <3>2. heartbeats'[w][s] = [token |-> t, due |-> NextBeat]
        BY <1>3, <3>1 DEF TypeOK
      <3>3. QED
        BY <3>2
    <2>3. ASSUME NEW i \in 1..Len(conn'[w]) PROVE ~ (conn'[w][i].op = "renew" /\ conn'[w][i].stream = s)
      <3>1. i + 1 \in 1..Len(conn[w]) /\ conn'[w][i] = conn[w][i + 1]
        BY <1>2
      <3>2. IsStmt(w, i + 1, "renew", s) => i + 1 = 1
        BY <1>2, <1>3, <1>7, <3>1 DEF TInv, OneBeat
      <3>3. i + 1 # 1
        OBVIOUS
      <3>4. QED
        BY <3>1, <3>2, <3>3 DEF IsStmt
    <2>4. QED
      BY <2>1, <2>2, <2>3
  <1>8. /\ \A v \in Workers : v # w => heartbeats'[v] = heartbeats[v]
        /\ \A x \in Streams : x # s => heartbeats'[w][x] = heartbeats[w][x]
        /\ sessions[w][s] = "none" => heartbeats' = heartbeats
    <2>1. \/ lockTokens[w][s] = t
             /\ heartbeats' = [heartbeats EXCEPT ![w][s] = [token |-> t, due |-> NextBeat]]
          \/ lockTokens[w][s] # t /\ heartbeats' = heartbeats
      BY <1>1 DEF ScheduleNext
    <2> HIDE DEF s, t
    <2>2. QED
      BY <1>3, <1>6, <2>1 DEF TypeOK
  <1> HIDE DEF s, t, m
  <1>9. /\ SentLately(w)' /\ LeasesStamped(w)'
        /\ \A i \in 1..Len(conn'[w]), x \in Streams : IsStmt(w, i, "renew", x)' =>
              /\ i + 1 \in 1..Len(conn[w]) /\ IsStmt(w, i + 1, "renew", x)
              /\ sentAt'[w][i] = sentAt[w][i + 1]
    BY <1>1, <1>2, CarriedInTime DEF TInv
  <1>10. TimersAhead(w)'
    <2> SUFFICES ASSUME NEW x \in Streams, heartbeats'[w][x] # NoTimer
                 PROVE  now <= heartbeats'[w][x].due
      BY <1>1 DEF TimersAhead
    <2>1. CASE x = s /\ sessions[w][s] # "none"
      BY <1>7, <2>1
    <2>2. CASE x # s \/ sessions[w][s] = "none"
      BY <1>8, <2>2 DEF TInv, TimersAhead
    <2>3. QED
      BY <2>1, <2>2
  <1>11. MissedBounded(w)'
    <2> SUFFICES ASSUME NEW x \in Streams PROVE missed'[w][x] <= MaxMissed
      BY DEF MissedBounded
    <2>1. CASE x = s
      BY <1>5, <2>1 DEF m
    <2>2. CASE x # s
      BY <1>5, <2>2 DEF TInv, MissedBounded
    <2>3. QED
      BY <2>1, <2>2
  <1>12. ASSUME NEW x \in Streams, sessions[w][x] # "none", NEW i \in 1..Len(conn'[w]),
                IsStmt(w, i, "renew", x)'
         PROVE  x # s
    BY <1>7, <1>12 DEF IsStmt
  <1>13. OneBeat(w)'
    <2> SUFFICES ASSUME NEW x \in Streams, NEW i \in 1..Len(conn'[w]),
                        IsStmt(w, i, "renew", x)', sessions[w][x] # "none"
                 PROVE  /\ heartbeats'[w][x] = NoTimer
                        /\ \A j \in 1..Len(conn'[w]) : IsStmt(w, j, "renew", x)' => j = i
      BY <1>1 DEF OneBeat
    <2>1. /\ i + 1 \in 1..Len(conn[w]) /\ IsStmt(w, i + 1, "renew", x) /\ x # s
      BY <1>9, <1>12
    <2>2. /\ heartbeats[w][x] = NoTimer
          /\ \A j \in 1..Len(conn[w]) : IsStmt(w, j, "renew", x) => j = i + 1
      BY <2>1 DEF TInv, OneBeat
    <2>3. ASSUME NEW j \in 1..Len(conn'[w]), IsStmt(w, j, "renew", x)' PROVE j = i
      <3>1. j + 1 \in 1..Len(conn[w]) /\ IsStmt(w, j + 1, "renew", x)
        BY <1>9, <2>3
      <3>2. j + 1 = i + 1
        BY <2>2, <3>1
      <3>3. QED
        BY <3>2
    <2>4. QED
      BY <1>8, <2>1, <2>2, <2>3
  <1>14. ASSUME NEW x \in Streams, sessions[w][x] # "none" PROVE SessionOwns(w, x)'
    <2>1. /\ RowOf(w, x, lockTokens[w][x])' /\ LeaseStart(x)' = LeaseStart(x)
          /\ Reach(missed[w][x])' = Reach(missed'[w][x])
      BY <1>1, <1>14 DEF TInv, SessionOwns, RowOf, LeaseStart, Reach
    <2>2. CASE x = s
      <3>1. heartbeats'[w][x].due <= LeaseStart(x) + Reach(missed'[w][x])
        BY <1>7, <1>14, <2>2 DEF m
      <3>2. \A i \in 1..Len(conn'[w]) : ~ IsStmt(w, i, "renew", x)'
        BY <1>12, <1>14, <2>2
      <3>3. QED
        BY <2>1, <3>1, <3>2 DEF SessionOwns
    <2>3. CASE x # s
      <3>1. missed'[w][x] = missed[w][x] /\ heartbeats'[w][x] = heartbeats[w][x]
        BY <1>5, <1>8, <2>3
      <3>2. \A i \in 1..Len(conn'[w]) : IsStmt(w, i, "renew", x)' =>
               sentAt'[w][i] <= LeaseStart(x) + Reach(missed[w][x])
        BY <1>9, <1>14 DEF TInv, SessionOwns
      <3>3. QED
        BY <1>14, <2>1, <3>1, <3>2 DEF TInv, SessionOwns
    <2>4. QED
      BY <2>2, <2>3
  <1>15. \A x \in Streams : SessionOwns(w, x)'
    BY <1>1, <1>14 DEF SessionOwns
  <1>16. GrantedInRow(w)' /\ RefusedIsGone(w)'
    BY <1>2 DEF GrantedInRow, RefusedIsGone
  <1>17. \A c \in Callers : ResumeOwns(w, c)'
    BY <1>1, SameResumes
  <1>18. PumpsServe(w)'
    BY <1>1 DEF TInv, PumpsServe
  <1>19. \A v \in Workers : v # w => StillTimed(v)
    BY <1>1, <1>2, <1>5, <1>8 DEF StillTimed, StillBeats
  <1>20. QED
    BY <1>1, <1>9, <1>10, <1>11, <1>13, <1>15, <1>16, <1>17, <1>18, <1>19 DEF TInv, OwnStep

-----------------------------------------------------------------------------
(* The timed invariant of the fleet *)

\* In the beginning nothing can be late.
LEMMA InitTimed == TTLSuffices /\ Init => Timed
  <1> SUFFICES ASSUME TTLSuffices, Init PROVE Timed
    OBVIOUS
  <1>1. IInv
    BY InitInv
  <1>2. LP!IInv
    BY InitRefines, SameLock, LP!InitIInv, NoneAssumption, TimeAssumption, BoundAssumption
  <1>3. ASSUME NEW w \in Workers PROVE TInv(w)
    <2>1. /\ conn[w] = <<>> /\ Len(conn[w]) = 0 /\ pumps[w] = {} /\ 0 <= MaxMissed
          /\ \A s \in Streams : /\ sessions[w][s] = "none" /\ heartbeats[w][s] = NoTimer
                                /\ missed[w][s] = 0
          /\ \A c \in Callers : ~ Resumes(w, c)
      BY BeatType DEF Init, Resumes, Idle
    <2>2. \A i : i \notin 1..Len(conn[w])
      BY <2>1
    <2>3. QED
      BY <2>1, <2>2 DEF TInv, SentLately, LeasesStamped, TimersAhead, MissedBounded, OneBeat,
                        SessionOwns, ResumeOwns, GrantedInRow, RefusedIsGone, PumpsServe
  <1>4. QED
    BY <1>1, <1>2, <1>3 DEF Timed

\* Every step of the fleet keeps it.
LEMMA NextTimed == Timed /\ [Next]_vars => Timed'
  <1> SUFFICES ASSUME Timed, [Next]_vars PROVE Timed'
    OBVIOUS
  <1>1. IInv'
    BY NextInv DEF Timed
  <1>2. LP!IInv'
    <2>1. Locks!Next \/ UNCHANGED Locks!vars
      BY NextRefines DEF Timed
    <2>2. UNCHANGED Locks!vars => UNCHANGED LP!vars
      BY DEF Locks!vars, LP!vars
    <2>3. [LP!Next]_(LP!vars)
      BY <2>1, <2>2, SameLock
    <2>4. QED
      BY <2>3, LP!NextIInv, NoneAssumption, TimeAssumption, BoundAssumption DEF Timed
  <1>3. TTLSuffices'
    BY DEF Timed, TTLSuffices
  <1> DEFINE Goal == \A v \in Workers : TInv(v)'
  <1>4. ASSUME NEW w \in Workers, TInv(w)' /\ OwnStep(w) PROVE Goal
    <2>1. \A v \in Workers : v # w => TInv(v)'
      BY <1>4, FrozenKeeps DEF OwnStep
    <2>2. QED
      BY <1>4, <2>1
  <1>5. ASSUME NEW w \in Workers, Execute(w) PROVE Goal
    <2>1. ASSUME NEW v \in Workers PROVE TInv(v)'
      BY <1>5, OwnExecute, OthersExecute
    <2>2. QED
      BY <2>1
  <1>6. ASSUME Tick PROVE Goal
    BY <1>6, TickInTime
  <1>7. ASSUME UNCHANGED vars PROVE Goal
    <2>1. ASSUME NEW v \in Workers PROVE TInv(v)'
      BY <1>7, FrozenKeeps DEF vars, lockVars, registry, StillTimed, StillConn, StillBeats
    <2>2. QED
      BY <2>1
  <1> HIDE DEF Goal
  <1>8. ASSUME NEW w \in Workers, Progress(w) PROVE Goal
    <2>1. ASSUME NEW c \in Callers, RouteLocked(w, c) \/ RouteRaced(w, c) \/ RouteSpawns(w, c)
          PROVE  Goal
      BY <1>4, <2>1, RouteLockedInTime, RouteRacedInTime, RouteSpawnsInTime
    <2>2. CASE AcquireSettles(w)
      BY <1>4, <2>2, AcquireEndsInTime
    <2>3. ASSUME NEW s \in Streams, HeartbeatFires(w, s) PROVE Goal
      BY <1>4, <2>3, HeartbeatFiresInTime
    <2>4. CASE RenewReturnsTrue(w)
      BY <1>4, <2>4, RearmInTime
    <2>5. CASE RenewReturnsFalse(w) \/ ReleaseSettles(w)
      BY <1>4, <2>5, SettlesInTime
    <2>6. ASSUME NEW s \in Streams, StopWaits(w, s) PROVE Goal
      BY <1>4, <2>6, PhasesInTime
    <2>7. ASSUME NEW s \in Streams, StopEnds(w, s) PROVE Goal
      BY <1>4, <2>7, StopEndsInTime
    <2>8. CASE DrainReleasesAll(w) \/ ReleasesAgain(w)
      BY <1>4, <2>8, ReleaseAllInTime
    <2>9. CASE Exit(w)
      BY <1>4, <2>9, GoneInTime DEF Exit
    <2>10. QED
      BY <1>5, <1>8, <2>1, <2>2, <2>3, <2>4, <2>5, <2>6, <2>7, <2>8, <2>9 DEF Progress
  <1>9. ASSUME NEW w \in Workers, NEW s \in Streams, RouteExisting(w, s) PROVE Goal
    BY <1>4, <1>9, RouteExistingInTime
  <1>10. ASSUME NEW w \in Workers, NEW c \in Callers, NEW s \in Streams, RouteAcquire(w, c, s)
         PROVE  Goal
    BY <1>4, <1>10, RouteAcquireInTime
  <1>11. ASSUME NEW w \in Workers, AcquireRejects(w) PROVE Goal
    BY <1>4, <1>11, AcquireEndsInTime
  <1>12. ASSUME NEW w \in Workers, RenewRejects(w) PROVE Goal
    BY <1>4, <1>12, RearmInTime
  <1>13. ASSUME NEW w \in Workers, NEW p \in pumps[w], PumpSettles(w, p) PROVE Goal
    BY <1>4, <1>13, PhasesInTime
  <1>14. ASSUME NEW w \in Workers, DrainBegins(w) \/ Restart(w) PROVE Goal
    BY <1>4, <1>14, PhasesInTime
  <1>15. ASSUME NEW w \in Workers, Crash(w) PROVE Goal
    BY <1>4, <1>15, GoneInTime DEF Crash
  <1>16. Goal
    BY <1>6, <1>7, <1>8, <1>9, <1>10, <1>11, <1>12, <1>13, <1>14, <1>15 DEF Next
  <1>17. QED
    BY <1>1, <1>2, <1>3, <1>16 DEF Timed, Goal

\* When the TTL suffices, the fleet is in time for ever: timers, answers, leases
\* and rows stay within what one another allows.
THEOREM TimedInvariance == TTLSuffices /\ Spec => []Timed
  <1>1. QED
    BY InitTimed, NextTimed, PTL DEF Spec

\* When the TTL outlasts the heartbeats that may be missed, the heartbeat
\* (tick(), scheduleNext()) keeps the lock of every session alive, whatever the
\* other workers claim, and no renewal that comes back finds the lock lost.
THEOREM SessionsKeepTheirLock == TTLSuffices /\ Spec => []SessionKeepsLock
  <1>1. Timed => SessionKeepsLock
    BY LeasesLast DEF Timed, TInv, SessionOwns, RowOf, SessionKeepsLock, Owns
  <1>2. QED
    BY <1>1, TimedInvariance, PTL

\* "An unowned session can never process events": then whatever a pump publishes
\* is published by the worker that holds the stream's unexpired row.
THEOREM OnlyOwnersPublish == TTLSuffices /\ Spec => []OnlyOwnerPublishes
  <1>1. Timed => OnlyOwnerPublishes
    <2> SUFFICES ASSUME Timed, NEW w \in Workers, NEW p \in pumps[w]
                 PROVE  Owns(w, p[1], p[2])
      BY DEF OnlyOwnerPublishes
    <2>1. p[1] \in Streams
      BY DEF Timed, IInv, TypeOK
    <2>2. sessions[w][p[1]] # "none" /\ p[2] = lockTokens[w][p[1]]
      BY DEF Timed, TInv, PumpsServe
    <2>3. QED
      BY <2>1, <2>2, LeasesLast DEF Timed, TInv, SessionOwns, RowOf, Owns
  <1>2. QED
    BY <1>1, TimedInvariance, PTL

\* No stream has sessions in two workers.
OneWorkerPerStream ==
  \A v, w \in Workers, s \in Streams :
     sessions[v][s] # "none" /\ sessions[w][s] # "none" => v = w

\* What the locks are for ("Each stream is owned by at most one worker at a time",
\* docs/adr/0008-horizontal-worker-scaling.md): two workers never have a session
\* of the same stream.
THEOREM OneSessionPerStream == TTLSuffices /\ Spec => []OneWorkerPerStream
  <1>1. Timed => OneWorkerPerStream
    BY DEF Timed, TInv, SessionOwns, RowOf, OneWorkerPerStream
  <1>2. QED
    BY <1>1, TimedInvariance, PTL

=============================================================================
