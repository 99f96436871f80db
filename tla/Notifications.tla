---------------------------- MODULE Notifications ----------------------------
(***************************************************************************)
(* The notifications of a user: they are created, read and deleted by      *)
(* requests, and swept once they have expired.  Every API process sweeps   *)
(* by itself; the DELETE of a batch chooses its rows and then removes      *)
(* those that are still there, so a sweep may count fewer rows than its    *)
(* batch and stop although more have expired.  Lists change nothing and    *)
(* are left out; so is the push to the sockets, which a crash may lose.    *)
(***************************************************************************)
EXTENDS Integers, FiniteSets

CONSTANTS
  Notices,          \* notifications
  Sweepers,         \* API processes
  SweepBatch,       \* EXPIRY_SWEEP_BATCH_SIZE
  MaxSweepFailures  \* bound: DELETEs that fail

ASSUME SweepAssumption == SweepBatch \in Nat \ {0} /\ MaxSweepFailures \in Nat

VARIABLES
  notices,       \* notices[n]: "none", "unread", "read" or "gone"
  expired,       \* the rows past expires_at
  sweep,         \* sweep[w]: the rows chosen by the DELETE being executed
  sweepFailures

noticeVars == <<notices, expired, sweep, sweepFailures>>

NoSweep == [on |-> FALSE, rows |-> {}]
Chosen(B) == [on |-> TRUE, rows |-> B]
Present(n) == notices[n] \in {"unread", "read"}

NoticesTypeOK ==
  /\ notices \in [Notices -> {"none", "unread", "read", "gone"}]
  /\ expired \subseteq Notices
  /\ sweep \in [Sweepers -> [on : BOOLEAN, rows : SUBSET Notices]]
  /\ sweepFailures \in 0..MaxSweepFailures

NoticesInit ==
  /\ notices = [n \in Notices |-> "none"]
  /\ expired = {}
  /\ sweep = [w \in Sweepers |-> NoSweep]
  /\ sweepFailures = 0

-----------------------------------------------------------------------------

CreateNotice(n) ==
  /\ notices[n] = "none"
  /\ notices' = [notices EXCEPT ![n] = "unread"]
  /\ UNCHANGED <<expired, sweep, sweepFailures>>

MarkRead(n) ==
  /\ notices[n] = "unread"
  /\ notices' = [notices EXCEPT ![n] = "read"]
  /\ UNCHANGED <<expired, sweep, sweepFailures>>

MarkAllRead ==
  /\ notices' = [n \in Notices |-> IF notices[n] = "unread" THEN "read" ELSE notices[n]]
  /\ UNCHANGED <<expired, sweep, sweepFailures>>

DeleteNotice(n) ==
  /\ Present(n)
  /\ notices' = [notices EXCEPT ![n] = "gone"]
  /\ UNCHANGED <<expired, sweep, sweepFailures>>

Expire(n) ==
  /\ Present(n) /\ n \notin expired
  /\ expired' = expired \cup {n}
  /\ UNCHANGED <<notices, sweep, sweepFailures>>

Due == {n \in expired : Present(n)}

\* Mutant: only what has been read is swept.
DueIfRead == {n \in expired : notices[n] = "read"}

\* WHERE expires_at < NOW()
Sweepable == Due

\* LIMIT without an order: any rows, as many as there are up to the batch.
IsBatch(B) ==
  /\ B \subseteq Sweepable
  /\ Cardinality(B) = SweepBatch \/ (Cardinality(B) < SweepBatch /\ B = Sweepable)

\* sweepExpired, hourly in every process.  A sweep with nothing due changes nothing.
SweepBegins(w) ==
  /\ ~sweep[w].on /\ Due # {}
  /\ \E B \in SUBSET Notices : IsBatch(B) /\ sweep' = [sweep EXCEPT ![w] = Chosen(B)]
  /\ UNCHANGED <<notices, expired, sweepFailures>>

\* The chosen rows that are still there are removed; a full batch is followed by
\* another.
SweepDeletes(w) ==
  /\ sweep[w].on
  /\ UNCHANGED <<expired, sweepFailures>>
  /\ LET removed == {n \in sweep[w].rows : Present(n)}
     IN /\ notices' = [n \in Notices |-> IF n \in removed THEN "gone" ELSE notices[n]]
        /\ IF Cardinality(removed) = SweepBatch
           THEN \E B \in SUBSET Notices :
                  IsBatch(B)' /\ sweep' = [sweep EXCEPT ![w] = Chosen(B)]
           ELSE sweep' = [sweep EXCEPT ![w] = NoSweep]

\* The DELETE fails, and the sweep with it.
SweepFails(w) ==
  /\ sweep[w].on
  /\ sweepFailures < MaxSweepFailures /\ sweepFailures' = sweepFailures + 1
  /\ sweep' = [sweep EXCEPT ![w] = NoSweep]
  /\ UNCHANGED <<notices, expired>>

NoticesNext ==
  \/ MarkAllRead
  \/ \E n \in Notices : CreateNotice(n) \/ MarkRead(n) \/ DeleteNotice(n) \/ Expire(n)
  \/ \E w \in Sweepers : SweepBegins(w) \/ SweepDeletes(w) \/ SweepFails(w)

\* The interval fires and the database answers.
NoticesFairness ==
  \A w \in Sweepers :
    WF_noticeVars(SweepBegins(w)) /\ WF_noticeVars(SweepDeletes(w))

NoticesSpec == NoticesInit /\ [][NoticesNext]_noticeVars /\ NoticesFairness

-----------------------------------------------------------------------------
(* Properties *)

\* A notification that has expired is removed at last, whatever batches the processes
\* choose, whichever of them count too few rows and stop, and although DELETEs fail.
ExpiredGoes == \A n \in Notices : n \in expired ~> notices[n] = "gone"
=============================================================================
