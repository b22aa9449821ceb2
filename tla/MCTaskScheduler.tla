--------------------------- MODULE MCTaskScheduler ---------------------------
(* TaskScheduler on a small instance.                                      *)
EXTENDS TaskScheduler
=============================================================================
