------------------------------ MODULE MCWorker ------------------------------
(***************************************************************************)
(* One run for the parts of a worker that do not share state: a behaviour  *)
(* is one of the filters of a fleet, of a worker process, of its dead      *)
(* letter store or of its in-process locks.  No fair action of a part is   *)
(* enabled in its initial state, so the parts that stand still do not      *)
(* restrict the others.                                                    *)
(***************************************************************************)
EXTENDS EventFilters, WorkerProcess, DeadLetters, MemoryLocks

VARIABLE part

Init ==
  /\ part \in {"filters", "process", "letters", "locks"}
  /\ FilterInit /\ ProcessInit /\ LettersInit /\ LocalInit

Next ==
  \/ /\ part = "filters" /\ FilterNext
     /\ UNCHANGED <<part, workerVars, letterVars, localVars>>
  \/ /\ part = "process" /\ ProcessNext
     /\ UNCHANGED <<part, filterVars, letterVars, localVars>>
  \/ /\ part = "letters" /\ LettersNext
     /\ UNCHANGED <<part, filterVars, workerVars, localVars>>
  \/ /\ part = "locks" /\ LocalNext
     /\ UNCHANGED <<part, filterVars, workerVars, letterVars>>

Spec ==
  /\ Init
  /\ [][Next]_<<part, filterVars, workerVars, letterVars, localVars>>
  /\ FilterFairness
  /\ ProcessFairness

\* The types of all parts.
WorkerTypeOK == FilterTypeOK /\ ProcessTypeOK /\ LettersTypeOK /\ LocalTypeOK
=============================================================================
