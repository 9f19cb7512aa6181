----------------------------- MODULE MCEntities -----------------------------
(* Two zones with two names each, one partition, one dimmer.  The levels are *)
(* off, one that rounds exactly (30 * 255 / 100 = 76.5), and full.           *)
EXTENDS Entities

CONSTANTS z1, z2, door, blank, p1, k1

MCZone == {z1, z2}
MCName == {door, blank}
MCLevel == {0, 30, 100}
MCBrightness == {1, 77, 254}
=============================================================================
