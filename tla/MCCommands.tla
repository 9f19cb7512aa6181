------------------------------ MODULE MCCommands ------------------------------
(* Three commands: one answered, one given up, one told by the session's end. *)
EXTENDS Commands, TLC

CONSTANTS r1, r2, r3

MCRequest == {r1, r2, r3}
Symmetric == Permutations(MCRequest)
==============================================================================
