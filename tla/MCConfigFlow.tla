----------------------------- MODULE MCConfigFlow -----------------------------
(* A config flow, two panels that may answer, two connections: one that is   *)
(* still closing, or left behind by a cancelled step, and the next.          *)
EXTENDS ConfigFlow

==============================================================================
