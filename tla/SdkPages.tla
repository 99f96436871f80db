------------------------------- MODULE SdkPages -------------------------------
(***************************************************************************)
(* PaginatedIterator of the SDK over a list that the API serves page by    *)
(* page.  The list is that of the items 1, 2, ... in the order of the      *)
(* endpoint; it may grow at its front or lose an item between two pages,   *)
(* and a page may fail to load.  next() stands still while it waits for a  *)
(* page, and the consumer may abort at any time.                           *)
(***************************************************************************)
EXTENDS Integers, FiniteSets, Sequences, SequencesExt

CONSTANTS
  PageItems,    \* the items there may be
  PageLimit,    \* limit
  MaxPages,     \* maxPages
  MaxFailures   \* bound: pages that fail to load

ASSUME PagesAssumption ==
  /\ PageItems \subseteq Nat /\ IsFiniteSet(PageItems)
  /\ {PageLimit, MaxPages} \subseteq Nat \ {0} /\ MaxFailures \in Nat

VARIABLES
  list,       \* what the endpoint lists
  page,       \* page, the next to be requested
  current,    \* currentPage
  offset,     \* offset
  total,      \* total, or Unknown
  iterator,   \* "idle", "fetching" or "exhausted"
  aborted,    \* signal.aborted
  yielded,    \* the items yielded, in order (history)
  changed,    \* history: the list changed after the first page
  failures

pageVars == <<list, page, current, offset, total, iterator, aborted, yielded, changed,
              failures>>

Unknown == -1

PagesTypeOK ==
  /\ list \in Seq(PageItems) /\ yielded \in Seq(PageItems) /\ current \in Seq(PageItems)
  /\ Len(current) <= PageLimit
  /\ page \in 1..(MaxPages + 1)
  /\ offset \in 0..Len(current)
  /\ total \in {Unknown} \cup 0..Cardinality(PageItems)
  /\ iterator \in {"idle", "fetching", "exhausted"}
  /\ {aborted, changed} \subseteq BOOLEAN
  /\ failures \in 0..MaxFailures

\* Any of the items, in the order of the endpoint.
Listings ==
  {items \in UNION {[1..n -> PageItems] : n \in 0..Cardinality(PageItems)} :
     \A i, j \in DOMAIN items : i < j => items[i] < items[j]}

PagesInit ==
  /\ list \in Listings
  /\ page = 1 /\ current = <<>> /\ offset = 0 /\ total = Unknown
  /\ iterator = "idle" /\ aborted = FALSE
  /\ yielded = <<>> /\ changed = FALSE /\ failures = 0

-----------------------------------------------------------------------------

\* Mutant: total is compared with the page to come.
LastPageEarly == total # Unknown /\ page * PageLimit >= total

\* The pages requested so far cover the total.
LastPage == total # Unknown /\ (page - 1) * PageLimit >= total

\* next() on a page that is not read to its end.
Yield ==
  /\ iterator = "idle" /\ ~aborted /\ offset < Len(current)
  /\ offset' = offset + 1
  /\ yielded' = Append(yielded, current[offset + 1])
  /\ UNCHANGED <<list, page, current, total, iterator, aborted, changed, failures>>

\* next() at the end of a page: there is no other, or it is requested.
NextPage ==
  /\ iterator = "idle" /\ ~aborted /\ offset >= Len(current)
  /\ iterator' = IF LastPage \/ page > MaxPages THEN "exhausted" ELSE "fetching"
  /\ UNCHANGED <<list, page, current, offset, total, aborted, yielded, changed, failures>>

Served == SubSeq(list, (page - 1) * PageLimit + 1,
                 IF page * PageLimit < Len(list) THEN page * PageLimit ELSE Len(list))

\* The page arrives; an empty one is the end, the others are read from their start.
PageLoads ==
  /\ iterator = "fetching"
  /\ current' = Served
  /\ total' = Len(list)
  /\ page' = page + 1
  /\ iterator' = IF Served = <<>> THEN "exhausted" ELSE "idle"
  /\ IF Served = <<>>
     THEN offset' = 0 /\ UNCHANGED yielded
     ELSE offset' = 1 /\ yielded' = Append(yielded, Served[1])
  /\ UNCHANGED <<list, aborted, changed, failures>>

\* The fetcher rejects and so does next(); the next call requests the same page.
PageFails ==
  /\ iterator = "fetching"
  /\ failures < MaxFailures /\ failures' = failures + 1
  /\ iterator' = "idle"
  /\ UNCHANGED <<list, page, current, offset, total, aborted, yielded, changed>>

\* The signal; the request under way is left to fail, and next() ends.
Abort ==
  /\ iterator # "exhausted" /\ ~aborted
  /\ aborted' = TRUE
  /\ iterator' = "exhausted"
  /\ UNCHANGED <<list, page, current, offset, total, yielded, changed, failures>>

\* An item appears at the front of the list, or one of it is deleted.
ListChanges ==
  /\ page > 1 /\ ~changed /\ changed' = TRUE
  /\ \/ \E i \in PageItems :
          (\A k \in DOMAIN list : list[k] # i) /\ list' = <<i>> \o list
     \/ \E k \in DOMAIN list : list' = RemoveAt(list, k)
  /\ UNCHANGED <<page, current, offset, total, iterator, aborted, yielded, failures>>

PagesNext ==
  Yield \/ NextPage \/ PageLoads \/ PageFails \/ Abort \/ ListChanges

PagesSpec == PagesInit /\ [][PagesNext]_pageVars

-----------------------------------------------------------------------------
(* Properties *)

\* Each item exactly once: while the list stands still, what has been yielded is a
\* prefix of it whatever pages failed on the way, and when the iteration ends by itself
\* it is the whole list, or as much of it as maxPages pages hold.
EachItemOnce ==
  ~changed =>
    /\ IsPrefix(yielded, list)
    /\ iterator = "exhausted" /\ ~aborted =>
         \/ yielded = list
         \/ Len(yielded) = MaxPages * PageLimit
=============================================================================
