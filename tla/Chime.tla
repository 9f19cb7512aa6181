------------------------------- MODULE Chime -------------------------------
(***************************************************************************)
(* The chime switch of one partition (RoboAlarmsChime): the panel only     *)
(* knows a toggle, so requests are served one at a time, and each waits    *)
(* for the update that shows its effect before the next reads is_on.       *)
(* Commands are sent and answered as in module Commands; here each has the *)
(* place of its request.                                                   *)
(***************************************************************************)
EXTENDS Naturals, Sequences

CONSTANTS
    Request,    \* turn_on and turn_off calls
    Gone,       \* the chime of a partition that is not there; the code's None
    DeltasMax   \* bound: updates not yet read

ASSUME ChimeAssumption == Gone \notin BOOLEAN /\ DeltasMax \in Nat

VARIABLES
    panel,    \* the chime as it is at the panel
    told,     \* what the panel last said of it
    deltas,   \* updates on their way, oldest first
    toggles,  \* requests whose toggle is on its way to the panel
    result,   \* the panel's answer to a request, on its way
    up,       \* connected, the entity available but for its partition
    shown,    \* is_on
    queue,    \* the lock: who holds it, then who waits for it
    req,      \* where each request is
    want,     \* what it asks for
    loose     \* (ghost) something no request waits for may still move the
              \* chime, or has moved it unseen

chimeVars == <<panel, told, deltas, toggles, result, up, shown, queue, req, want, loose>>
panelVars == <<panel, told>>
wireVars == <<deltas, toggles, result>>

Chimes == BOOLEAN \cup {Gone}
Active == {"asking", "answered", "error", "confirming", "confirmed"}
Ended == {"idle", "done", "unsure", "failed"}

ChimeTypeOK ==
    /\ panel \in Chimes /\ told \in Chimes /\ shown \in Chimes
    /\ deltas \in Seq(Chimes) /\ toggles \in Seq(Request)
    /\ result \in [Request -> {"none", "ok", "refused"}]
    /\ up \in BOOLEAN /\ loose \in BOOLEAN
    /\ queue \in Seq(Request)
    /\ req \in [Request -> Active \cup Ended \cup {"queued", "cancelled"}]
    /\ want \in [Request -> BOOLEAN]

ChimeInit ==
    /\ panel \in BOOLEAN /\ told = panel /\ shown = panel
    /\ deltas = <<>> /\ toggles = <<>> /\ result = [r \in Request |-> "none"]
    /\ up = TRUE /\ loose = FALSE
    /\ queue = <<>> /\ req = [r \in Request |-> "idle"]
    /\ want \in [Request -> BOOLEAN]

\* Nothing is under way, and what is shown is what is.
Settled ==
    /\ toggles = <<>> /\ deltas = <<>> /\ panel \in BOOLEAN /\ told = panel /\ shown = panel
    /\ \A r \in Request : req[r] \notin Active

\* What the step does to the order of things: it may upset it, and where
\* everything has settled it is restored.
Upset(e) == loose' = ((loose \/ e) /\ ~Settled')

Holds(r) == queue # <<>> /\ Head(queue) = r

\* The request's coroutine returns, releasing the lock.
Ends(r, how) ==
    /\ req' = [req EXCEPT ![r] = how]
    /\ queue' = Tail(queue)

------------------------------------------------------------------------------
(* _set                                                                    *)

Recycled(r) == req[r] \in Ended /\ result[r] = "none" /\ \A i \in DOMAIN toggles : toggles[i] # r

\* (slip) is_on is read before the lock is taken.
RequestedChecked(r, on) ==
    /\ Recycled(r) /\ up /\ shown # Gone
    /\ want' = [want EXCEPT ![r] = on]
    /\ IF shown = on
       THEN req' = [req EXCEPT ![r] = "done"] /\ UNCHANGED queue
       ELSE req' = [req EXCEPT ![r] = "queued"] /\ queue' = Append(queue, r)
    /\ UNCHANGED <<panelVars, wireVars, up, shown>> /\ Upset(FALSE)

\* A service call; Home Assistant drops it while the entity is unavailable.
Requested(r, on) ==
    /\ Recycled(r) /\ up /\ shown # Gone
    /\ want' = [want EXCEPT ![r] = on]
    /\ req' = [req EXCEPT ![r] = "queued"]
    /\ queue' = Append(queue, r)
    /\ UNCHANGED <<panelVars, wireVars, up, shown>> /\ Upset(FALSE)

Served(r) == Holds(r) /\ req[r] = "queued"

\* "don't flip it the wrong way"
NothingToDo(r) ==
    /\ Served(r) /\ shown = want[r]
    /\ Ends(r, "done")
    /\ UNCHANGED <<panelVars, wireVars, up, shown, want>> /\ Upset(FALSE)

NotConnected(r) ==
    /\ Served(r) /\ shown # want[r] /\ ~up
    /\ Ends(r, "failed")
    /\ UNCHANGED <<panelVars, wireVars, up, shown, want>> /\ Upset(FALSE)

Asks(r) ==
    /\ Served(r) /\ shown # want[r] /\ up
    /\ req' = [req EXCEPT ![r] = "asking"]
    /\ toggles' = Append(toggles, r)
    /\ UNCHANGED <<panelVars, deltas, result, up, shown, queue, want>> /\ Upset(FALSE)

\* (slip) The panel's "ok" is taken for the new value.
ContinuesAtOnce(r) ==
    /\ req[r] = "answered" /\ Holds(r)
    /\ Ends(r, "done")
    /\ UNCHANGED <<panelVars, wireVars, up, shown, want>> /\ Upset(FALSE)

\* The command was accepted: done if is_on agrees, else _await_confirmed waits.
Continues(r) ==
    /\ req[r] = "answered" /\ Holds(r)
    /\ IF shown = want[r] THEN Ends(r, "done")
       ELSE req' = [req EXCEPT ![r] = "confirming"] /\ UNCHANGED queue
    /\ UNCHANGED <<panelVars, wireVars, up, shown, want>> /\ Upset(FALSE)

\* The wait was woken, or the command raised.
Returns(r) ==
    /\ Holds(r)
    /\ \/ req[r] = "confirmed" /\ Ends(r, "done")
       \/ req[r] = "error" /\ Ends(r, "failed")
    /\ UNCHANGED <<panelVars, wireVars, up, shown, want>> /\ Upset(FALSE)

\* _COMMAND_TIMEOUT_S: sent or not, executed or not, nobody knows.
CommandTimesOut(r) ==
    /\ req[r] = "asking" /\ Holds(r)
    /\ Ends(r, "failed")
    /\ UNCHANGED <<panelVars, wireVars, up, shown, want>> /\ Upset(TRUE)

\* (slip) The confirmation is waited for without a deadline.
ConfirmTimesOutDown(r) ==
    /\ req[r] = "confirming" /\ ~up /\ Holds(r)
    /\ Ends(r, "unsure")
    /\ UNCHANGED <<panelVars, wireVars, up, shown, want>> /\ Upset(TRUE)

\* _CONFIRM_TIMEOUT_S: the request returns, and the next is let through.
ConfirmTimesOut(r) ==
    /\ req[r] = "confirming" /\ Holds(r)
    /\ Ends(r, "unsure")
    /\ UNCHANGED <<panelVars, wireVars, up, shown, want>> /\ Upset(TRUE)

\* The script or automation that asked is stopped.  In the lock's queue it
\* is passed over when its turn comes.
Cancelled(r) ==
    /\ \/ req[r] = "queued" /\ req' = [req EXCEPT ![r] = "cancelled"] /\ UNCHANGED queue
       \/ req[r] \in Active /\ Holds(r) /\ Ends(r, "failed")
    /\ UNCHANGED <<panelVars, wireVars, up, shown, want>> /\ Upset(req[r] \in Active)

PassedOver(r) ==
    /\ Holds(r) /\ req[r] = "cancelled"
    /\ Ends(r, "failed")
    /\ UNCHANGED <<panelVars, wireVars, up, shown, want>> /\ Upset(FALSE)

------------------------------------------------------------------------------
(* What the link brings                                                    *)

ResultRead(r) ==
    /\ up /\ result[r] # "none"
    /\ result' = [result EXCEPT ![r] = "none"]
    /\ req' = IF req[r] # "asking" THEN req
              ELSE [req EXCEPT ![r] = IF result[r] = "ok" THEN "answered" ELSE "error"]
    /\ UNCHANGED <<panelVars, deltas, toggles, up, shown, queue, want>> /\ Upset(FALSE)

\* An update is folded into coordinator.data and the listeners run: _check
\* wakes the one that waits for this value.
DeltaRead ==
    /\ up /\ deltas # <<>>
    /\ shown' = Head(deltas) /\ deltas' = Tail(deltas)
    /\ req' = [r \in Request |->
                 IF req[r] = "confirming" /\ want[r] = Head(deltas) THEN "confirmed"
                                                                    ELSE req[r]]
    /\ UNCHANGED <<panelVars, toggles, result, up, queue, want>> /\ Upset(FALSE)

\* The session ends: commands are told, coordinator.data stays as it is.
LinkDrops ==
    /\ up /\ up' = FALSE
    /\ deltas' = <<>> /\ result' = [r \in Request |-> "none"]
    /\ req' = [r \in Request |-> IF req[r] = "asking" THEN "error" ELSE req[r]]
    /\ UNCHANGED <<panelVars, toggles, shown, queue, want>> /\ Upset(TRUE)

\* A new connection's snapshot.  The backoff (5 s) and the panel's one slot
\* are longer than what is left of a request: a confirmation's 2 s.
Reconnects ==
    /\ ~up /\ up' = TRUE /\ toggles = <<>>
    /\ \A r \in Request : req[r] \in Ended
    /\ told' = panel /\ shown' = panel
    /\ UNCHANGED <<panel, wireVars, queue, req, want>> /\ Upset(FALSE)

------------------------------------------------------------------------------
(* The panel (external)                                                    *)

Answers(r, v) == result' = IF up THEN [result EXCEPT ![r] = v] ELSE result

Executes ==
    /\ toggles # <<>> /\ toggles' = Tail(toggles)
    /\ panel \in BOOLEAN /\ panel' = ~panel /\ Answers(Head(toggles), "ok")
    /\ UNCHANGED <<told, deltas, up, shown, queue, req, want>> /\ Upset(FALSE)

\* Armed, a code needed, no such partition.
Refuses ==
    /\ toggles # <<>> /\ toggles' = Tail(toggles)
    /\ Answers(Head(toggles), "refused")
    /\ UNCHANGED <<panelVars, deltas, up, shown, queue, req, want>> /\ Upset(FALSE)

\* What was on its way is lost with the connection.
Lost ==
    /\ ~up /\ toggles # <<>> /\ toggles' = Tail(toggles)
    /\ UNCHANGED <<panelVars, deltas, result, up, shown, queue, req, want>> /\ Upset(FALSE)

\* An update goes out, before or after the answer to the toggle that caused it.
Reports ==
    /\ up /\ told # panel /\ Len(deltas) < DeltasMax
    /\ told' = panel /\ deltas' = Append(deltas, panel)
    /\ UNCHANGED <<panel, toggles, result, up, shown, queue, req, want>> /\ Upset(FALSE)

\* Somebody at the keypad; the partition removed or added.
Changes ==
    /\ panel' \in Chimes \ {panel}
    /\ UNCHANGED <<told, wireVars, up, shown, queue, req, want>> /\ Upset(TRUE)

------------------------------------------------------------------------------
Step(r) ==
    \/ NothingToDo(r) \/ NotConnected(r) \/ Asks(r) \/ Continues(r) \/ Returns(r)
    \/ CommandTimesOut(r) \/ ConfirmTimesOut(r) \/ PassedOver(r)

ChimeNext ==
    \/ \E r \in Request :
         Step(r) \/ Cancelled(r) \/ ResultRead(r) \/ \E on \in BOOLEAN : Requested(r, on)
    \/ DeltaRead \/ LinkDrops \/ Reconnects
    \/ Executes \/ Refuses \/ Lost \/ Reports \/ Changes

ChimeSpec == ChimeInit /\ [][ChimeNext]_chimeVars

\* A request's own steps are taken, its deadlines among them; nothing is
\* assumed of the panel or the network.
FairChimeSpec == ChimeSpec /\ \A r \in Request : WF_chimeVars(Step(r))

------------------------------------------------------------------------------
(* Properties                                                              *)

\* A toggle on its way to the panel will set what its request asked for, and
\* is the only one, however requests pile up (HA13): unless somebody else
\* moved the chime, or a request stopped waiting before its effect showed.
FlipsAsAsked ==
    ~loose => /\ Len(toggles) <= 1
              /\ \A i \in DOMAIN toggles : panel = ~want[toggles[i]]

\* With the same exceptions, a request that is over because is_on agrees
\* leaves the panel itself as asked, not only what is shown of it.
DoneIsAsked ==
    [][\A r \in Request : req[r] # "done" /\ req'[r] = "done" /\ ~loose => panel = want[r]]_chimeVars

\* No request waits for ever, behind others or on a panel that does not
\* confirm: "the switch can never hang forever on a missed delta".
RequestsEnd == \A r \in Request : req[r] = "queued" ~> req[r] \in Ended
=============================================================================
