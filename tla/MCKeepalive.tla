---------------------------- MODULE MCKeepalive ----------------------------
(* Units of 5 s.  A handler may be held for two rounds, or (in the Held      *)
(* configuration) for three.                                                  *)
EXTENDS Keepalive
=============================================================================
