------------------------------ MODULE MCChime ------------------------------
(* Three requests: one at work, one waiting, one that comes back.            *)
EXTENDS Chime

CONSTANTS r1, r2, r3

MCRequest == {r1, r2}
MCRequest3 == {r1, r2, r3}
=============================================================================
