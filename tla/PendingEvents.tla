---------------------------- MODULE PendingEvents ----------------------------
(***************************************************************************)
(* The events the workers poll for: the API's ingest endpoint, the table   *)
(* stream_data and its keyset paging.  The API stamps an event when it     *)
(* arrives and inserts it later, so rows may become visible out of the     *)
(* order of their timestamps, and several may carry the same timestamp.    *)
(* Rows are never deleted nor marked: every poll starts from the oldest.   *)
(***************************************************************************)
EXTENDS Integers, FiniteSets

CONSTANTS
  Ingests,      \* requests to POST /streams/events
  MaxStamp,     \* bound: milliseconds of the API's clock
  MaxPending    \* bound: ids of stream_data

ASSUME StampAssumption   == MaxStamp \in Nat
ASSUME PendingAssumption == MaxPending \in Nat

VARIABLES
  clock,      \* the API's clock
  lastId,     \* the last value of the sequence behind stream_data.id
  ingest,     \* ingest[i]: how far request i is, with its timestamp and id
  stream_data \* the visible rows: keys <<timestamp, id>>

pendingVars == <<clock, lastId, ingest, stream_data>>

Keys == (0..MaxStamp) \X (1..MaxPending)

NotIngesting == [step |-> "none"]

\* "stamped": the timestamp is taken; "inserting": the INSERT has its id and is not
\* committed.
IngestSteps == [step : {"stamped"}, stamp : 0..MaxStamp]
                 \cup [step : {"inserting"}, key : Keys] \cup {NotIngesting}

PendingTypeOK ==
  /\ clock \in 0..MaxStamp
  /\ lastId \in 0..MaxPending
  /\ ingest \in [Ingests -> IngestSteps]
  /\ stream_data \in SUBSET Keys

PendingInit ==
  /\ clock = 0 /\ lastId = 0
  /\ ingest = [i \in Ingests |-> NotIngesting]
  /\ stream_data = {}

Ticks ==
  /\ clock < MaxStamp
  /\ clock' = clock + 1
  /\ UNCHANGED <<lastId, ingest, stream_data>>

\* ingestEvent accepts the payload and takes the time of arrival.
IngestEvent(i) ==
  /\ ingest[i] = NotIngesting
  /\ lastId < MaxPending
  /\ ingest' = [ingest EXCEPT ![i] = [step |-> "stamped", stamp |-> clock]]
  /\ UNCHANGED <<clock, lastId, stream_data>>

\* The INSERT begins: the sequence gives out the next id.
InsertBegins(i) ==
  /\ ingest[i].step = "stamped"
  /\ lastId < MaxPending
  /\ lastId' = lastId + 1
  /\ ingest' = [ingest EXCEPT ![i] = [step |-> "inserting",
                                      key |-> <<ingest[i].stamp, lastId'>>]]
  /\ UNCHANGED <<clock, stream_data>>

\* The INSERT is committed, or refused: an unknown stream, a failing database.
InsertEnds(i, committed) ==
  /\ ingest[i].step = "inserting"
  /\ stream_data' = IF committed THEN stream_data \cup {ingest[i].key} ELSE stream_data
  /\ ingest' = [ingest EXCEPT ![i] = NotIngesting]
  /\ UNCHANGED <<clock, lastId>>

PendingNext ==
  \/ Ticks
  \/ \E i \in Ingests : \/ IngestEvent(i) \/ InsertBegins(i)
                        \/ \E committed \in BOOLEAN : InsertEnds(i, committed)

-----------------------------------------------------------------------------
(* Reading: getPendingEvents *)

Before(k, l) == k[1] < l[1] \/ (k[1] = l[1] /\ k[2] < l[2])

\* The start of a poll: before every key.
NoCursor == <<0, 0>>

\* Mutant: the cursor compares timestamps only.
AfterStampOnly(cursor) == {k \in stream_data : cursor = NoCursor \/ k[1] > cursor[1]}

\* Mutant: the row the cursor was made from is included.
AfterOrAt(cursor) == {k \in stream_data : ~ Before(k, cursor)}

\* WHERE (timestamp, id) > cursor
After(cursor) == {k \in stream_data : Before(cursor, k)}

\* ORDER BY timestamp, id LIMIT limit: p is the first of the rows after the cursor.
IsPage(p, limit, cursor) ==
  /\ \A k \in p, l \in After(cursor) \ p : Before(k, l)
  /\ Cardinality(p) <= limit
  /\ p = After(cursor) \/ Cardinality(p) = limit

\* Row k comes last in page p: nextCursor is made from it.
IsLast(k, p) == \A l \in p : l = k \/ Before(l, k)
=============================================================================
