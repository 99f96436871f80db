--------------------------- MODULE StreamOwnership ---------------------------
(***************************************************************************)
(* What the distributed lock promises the workers, without tables, clocks  *)
(* or connections.  A stream has at most one holder, a worker together     *)
(* with the claim it holds the stream by.  A stream is claimed only while  *)
(* nobody else holds it, every claim is new, and a claim that has ended    *)
(* (given up, lapsed, replaced) never holds a stream again: a worker that  *)
(* was told its claim is lost can rely on it.                              *)
(*                                                                         *)
(* StreamLocks implements this specification: StreamLocks!Ownership.       *)
(***************************************************************************)
CONSTANTS
  Workers,   \* ids of the processing workers (WORKER_ID / POD_NAME)
  Streams,   \* ids of the streams
  Claims,    \* ids of the claims (LockToken.token)
  None       \* "no worker"

VARIABLES
  holder,    \* holder[s]: <<worker, claim>> holding stream s, or Nobody
  used       \* the claims granted so far

vars == <<holder, used>>

Nobody == <<None, 0>>

Init ==
  /\ holder = [s \in Streams |-> Nobody]
  /\ used = {}

\* Worker w is granted stream s by the new claim c: nobody held s, or w did.
Claim(w, s, c) ==
  /\ holder[s][1] \in {None, w}
  /\ c \notin used
  /\ holder' = [holder EXCEPT ![s] = <<w, c>>]
  /\ used' = used \cup {c}

\* The grant of claim c arrives when its lease is already over: w's earlier
\* claim is gone, the new one never holds the stream.
ClaimLate(w, s, c) ==
  /\ holder[s][1] \in {None, w}
  /\ c \notin used
  /\ holder' = [holder EXCEPT ![s] = Nobody]
  /\ used' = used \cup {c}

\* The claims on a set of streams end: given up or lapsed.
End(S) ==
  /\ holder' = [s \in Streams |-> IF s \in S THEN Nobody ELSE holder[s]]
  /\ UNCHANGED used

Next ==
  \/ \E w \in Workers, s \in Streams, c \in Claims :
        Claim(w, s, c) \/ ClaimLate(w, s, c)
  \/ \E S \in SUBSET Streams : End(S)

Spec == Init /\ [][Next]_vars
=============================================================================
