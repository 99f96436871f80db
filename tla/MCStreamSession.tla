--------------------------- MODULE MCStreamSession ---------------------------
(* StreamSession on a small instance: a queue that fills up, one retry.      *)
EXTENDS StreamSession
=============================================================================
