--------------------------- MODULE MCIpcRequests ---------------------------
(* Two folders, the second one the default agent's.                         *)
EXTENDS IpcRequests
=============================================================================
