---------------------------- MODULE MCGroupQueue ----------------------------
(* Instances of GroupQueue for TLC.                                        *)
EXTENDS GroupQueue, TLC
CONSTANTS c1, t1, t2, l1, l2

MCChatOf == [t \in Tasks |-> c1]
MCTasksAlike == Permutations(Tasks)
=============================================================================
