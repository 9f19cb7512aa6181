------------------------------- MODULE Mirror -------------------------------
(***************************************************************************)
(* What the link promises the entities: a mirror of the panel that is      *)
(* either maintained or says that it is not.  While it shows, what it shows *)
(* changes within one generation (one connection's snapshot and what       *)
(* followed it); once it is hidden, what it showed is frozen, and only     *)
(* another generation brings it back.                                      *)
(***************************************************************************)
VARIABLES
    here,    \* the entry is loaded: there are entities to look
    avail,   \* they are shown as available
    gen,     \* the connection whose snapshot they show
    shown    \* what they show

vars == <<here, avail, gen, shown>>

Init == ~here /\ ~avail

\* Entities appear with something to show.
Arrive == ~here /\ here' /\ avail'

\* They go, or there are none: what is held for them does not matter.
Away == ~here' /\ ~avail'

Hide == avail /\ here' /\ ~avail' /\ UNCHANGED <<gen, shown>>

Update == avail /\ here' /\ avail' /\ gen' = gen

\* (HA12) Nothing is shown again but a new connection's own snapshot.
Resume == here /\ ~avail /\ here' /\ avail' /\ gen' # gen

Next == Arrive \/ Away \/ Hide \/ Update \/ Resume

Spec == Init /\ [][Next]_vars
=============================================================================
