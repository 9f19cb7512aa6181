------------------------------- MODULE Commands -------------------------------
(***************************************************************************)
(* Commands from Home Assistant to the panel (arm, bypass, chime, a Z-Wave *)
(* level...): each is sent with a fresh id and waits, within one deadline, *)
(* for the panel's answer to that id.  Three tasks meet in _pending: the   *)
(* request itself, the link task that reads the answers, and the end of    *)
(* the session, which tells everyone who still waits.                      *)
(***************************************************************************)
EXTENDS Naturals, Sequences

CONSTANTS
    Request,   \* requests, each made once: its id is fresh
    None

Verdict == {"ok", "code", "refused"}

ASSUME CommandsAssumption ==
    None \notin Verdict \cup Request \cup {"pending", "cancelled", "dropped", "error"}

VARIABLES
    client,    \* "up"; "failed" (closed, not let go of yet); "none"
    phase,     \* each request: new, sending, waiting, expired, done
    future,    \* its future: None, pending, cancelled, dropped, or the verdict
    pending,   \* _pending
    outcome,   \* what the caller was told
    written,   \* requests the panel has on this connection
    said,      \* ghost: what the panel answered to each
    answers    \* requests answered, the answers not read yet

vars == <<client, phase, future, pending, outcome, written, said, answers>>
panelVars == <<written, said, answers>>

Flying == {r \in Request : phase[r] \in {"sending", "waiting", "expired"}}

TypeOK ==
    /\ client \in {"up", "failed", "none"}
    /\ phase \in [Request -> {"new", "sending", "waiting", "expired", "done"}]
    /\ future \in [Request -> {None, "pending", "cancelled", "dropped"} \cup Verdict]
    /\ pending \subseteq Request
    /\ outcome \in [Request -> {None, "error"} \cup Verdict]
    /\ written \subseteq Request /\ said \in [Request -> {None} \cup Verdict]
    /\ answers \in Seq(Request)

Init ==
    /\ client = "up" /\ phase = [r \in Request |-> "new"]
    /\ future = [r \in Request |-> None] /\ pending = {}
    /\ outcome = [r \in Request |-> None]
    /\ written = {} /\ said = [r \in Request |-> None] /\ answers = <<>>

------------------------------------------------------------------------------
(* _async_request                                                          *)

\* However it ends, its id is forgotten.
Tells(r, o) ==
    /\ phase' = [phase EXCEPT ![r] = "done"]
    /\ outcome' = [outcome EXCEPT ![r] = o]
    /\ pending' = pending \ {r}

NotConnected(r) ==
    /\ phase[r] = "new" /\ client = "none"
    /\ Tells(r, "error")
    /\ UNCHANGED <<client, future, panelVars>>

Requests(r) ==
    /\ phase[r] = "new" /\ client # "none"
    /\ phase' = [phase EXCEPT ![r] = "sending"]
    /\ future' = [future EXCEPT ![r] = "pending"]
    /\ pending' = pending \cup {r}
    /\ UNCHANGED <<client, outcome, panelVars>>

\* Its frame is handed to the transport; drain() may go on for a while.
Writes(r) ==
    /\ phase[r] = "sending" /\ client = "up"
    /\ written' = written \cup {r}
    /\ UNCHANGED <<client, phase, future, pending, outcome, said, answers>>

Sent(r) ==
    /\ phase[r] = "sending" /\ r \in written
    /\ phase' = [phase EXCEPT ![r] = "waiting"]
    /\ UNCHANGED <<client, future, pending, outcome, panelVars>>

\* CannotConnect: the connection is closed (_async_link_failed).
LinkGone == client' = (IF client = "up" THEN "failed" ELSE client) /\ written' = {} /\ answers' = <<>>

SendFails(r) ==
    /\ phase[r] = "sending"
    /\ Tells(r, "error") /\ LinkGone
    /\ UNCHANGED <<future, said>>

\* async_command, async_zwave_set: what the caller makes of the answer.
Answered(r) ==
    /\ phase[r] = "waiting" /\ future[r] \in Verdict
    /\ Tells(r, future[r])
    /\ UNCHANGED <<client, future, panelVars>>

\* The session has ended meanwhile: CannotConnect out of the future.
Dropped(r) ==
    /\ phase[r] = "waiting" /\ future[r] = "dropped"
    /\ Tells(r, "error") /\ LinkGone
    /\ UNCHANGED <<future, said>>

\* _COMMAND_TIMEOUT_S: what it awaits is cancelled, the future with it ...
Expires(r) ==
    /\ phase[r] \in {"sending", "waiting"}
    /\ phase' = [phase EXCEPT ![r] = "expired"]
    /\ future' = [future EXCEPT ![r] =
                    IF phase[r] = "waiting" /\ @ = "pending" THEN "cancelled" ELSE @]
    /\ UNCHANGED <<client, pending, outcome, panelVars>>

\* ... and it runs again a turn of the loop later.
GivesUp(r) ==
    /\ phase[r] = "expired"
    /\ Tells(r, "error")
    /\ UNCHANGED <<client, future, panelVars>>

------------------------------------------------------------------------------
(* The link task                                                           *)

\* A future is set once.
Set(r, v) == future' = [future EXCEPT ![r] = IF @ = "pending" THEN v ELSE @]

\* (slip) The answer goes to whoever is waiting.
ResultToAny(r) ==
    /\ client = "up" /\ answers # <<>> /\ r = Head(answers)
    /\ answers' = Tail(answers)
    /\ IF pending = {} THEN UNCHANGED <<future, pending>>
       ELSE \E q \in pending : Set(q, said[r]) /\ pending' = pending \ {q}
    /\ UNCHANGED <<client, phase, outcome, written, said>>

\* A `result' is read: it is for the request of its id, if that still waits.
Result(r) ==
    /\ client = "up" /\ answers # <<>> /\ r = Head(answers)
    /\ answers' = Tail(answers)
    /\ pending' = pending \ {r}
    /\ IF r \in pending THEN Set(r, said[r]) ELSE UNCHANGED future
    /\ UNCHANGED <<client, phase, outcome, written, said>>

LinkFails ==
    /\ client = "up" /\ LinkGone
    /\ UNCHANGED <<phase, future, pending, outcome, said>>

\* (slip) The commands are forgotten, not told.
PendingForgotten == pending' = {} /\ UNCHANGED <<future>>

PendingTold ==
    /\ future' = [r \in Request |->
                    IF r \in pending /\ future[r] = "pending" THEN "dropped" ELSE future[r]]
    /\ pending' = {}

\* _async_end_session
SessionEnds ==
    /\ client # "none" /\ client' = "none"
    /\ PendingTold
    /\ written' = {} /\ answers' = <<>>
    /\ UNCHANGED <<phase, outcome, said>>

\* The backoff outlasts a send that still drains on the old connection, and
\* everyone told of its end has run.
Reconnects ==
    /\ client = "none"
    /\ ~\E r \in Flying : phase[r] = "sending" \/ future[r] = "dropped"
    /\ client' = "up"
    /\ UNCHANGED <<phase, future, pending, outcome, panelVars>>

\* The panel (external) answers what it has, in its own time and order.
PanelAnswers(r, v) ==
    /\ client = "up" /\ r \in written /\ said[r] = None
    /\ said' = [said EXCEPT ![r] = v]
    /\ answers' = Append(answers, r)
    /\ UNCHANGED <<client, phase, future, pending, outcome, written>>

Next ==
    \/ \E r \in Request :
         \/ NotConnected(r) \/ Requests(r) \/ Writes(r) \/ Sent(r) \/ SendFails(r)
         \/ Answered(r) \/ Dropped(r) \/ Expires(r) \/ GivesUp(r) \/ Result(r)
    \/ LinkFails \/ SessionEnds \/ Reconnects
    \/ \E r \in Request, v \in Verdict : PanelAnswers(r, v)

Spec == Init /\ [][Next]_vars

------------------------------------------------------------------------------
(* Properties                                                              *)

\* What a caller is told of its command is what the panel said to that very
\* command: answers that come late, out of order or for a command given up
\* reach nobody else.
OwnAnswer == \A r \in Request : outcome[r] \in Verdict => outcome[r] = said[r]

\* Who waits can be woken: while its future is pending its id is known to the
\* reader and to the end of the session, which has not come.
CanBeWoken ==
    \A r \in Request : phase[r] = "waiting" /\ future[r] = "pending" =>
        r \in pending /\ client # "none"

\* An id is known for as long as its request is under way, and no longer.
NothingLeftPending == pending \subseteq Flying

\* A request that expires, an answer and the end of the session may meet in
\* one turn of the loop, the id still pending: a future that is done is left
\* alone (setting it again would raise in the link task and stop it for good).
FutureIsFinal ==
    [][\A r \in Request : future[r] \notin {None, "pending"} => future'[r] = future[r]]_vars

==============================================================================
