-------------------------- MODULE MCSessionRegistry --------------------------
(* SessionRegistry on small fleets.                                          *)
EXTENDS SessionRegistry, TLC

\* The workers are interchangeable, and so are the calls of a worker.
Symmetry == Permutations(Workers) \cup Permutations(Callers)
=============================================================================
