--------------------------- MODULE MCSessionTurns ---------------------------
(* Instances of SessionTurns for model checking: a message or a task, then *)
(* anything but a plain message.                                           *)
EXTENDS SessionTurns

MCArrivals == <<{"message", "task"}, {"context", "command", "task"}>>
=============================================================================
