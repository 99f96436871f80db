---------------------------- MODULE MCStreamLocks ----------------------------
(* StreamLocks on a small instance: two workers racing for one stream.       *)
EXTENDS StreamLocks, TLC

\* The workers are interchangeable; all checked properties are safety.
Symmetry == Permutations(Workers)
=============================================================================
