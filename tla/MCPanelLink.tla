----------------------------- MODULE MCPanelLink -----------------------------
(* Two sockets: one still closing while the next is open.  Two zones, so that *)
(* a delta carries one and not the other, or one zone where that is enough.   *)
EXTENDS PanelLink

CONSTANTS c1, c2, z1, z2, on, off

MCConn == {c1, c2}
MCZone == {z1, z2}
MCOneZone == {z1}
MCValue == {on, off}
==============================================================================
