---------------------------- MODULE MCDeviceCalls ----------------------------
(* Three ids and three tasks: two actions of this connection at the limit and *)
(* one of the last, still being cancelled; two answers remembered, so that    *)
(* the third forgets the oldest.                                              *)
EXTENDS DeviceCalls, TLC

CONSTANTS i1, i2, i3, light, lock, t1, t2, t3

MCId == {i1, i2, i3}
MCEntity == {light, lock}
MCTaskRef == {t1, t2, t3}
Symmetric == Permutations(MCId) \cup Permutations(MCTaskRef) \cup Permutations(MCEntity)
==============================================================================
