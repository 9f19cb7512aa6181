------------------------------ MODULE ConfigFlow ------------------------------
(***************************************************************************)
(* The config flow of a panel's entry (config_flow.py): checking an        *)
(* address, pairing, pairing again (reauth) and moving the entry to        *)
(* another address (reconfigure).  A step is a coroutine that owns a       *)
(* connection across its awaits.  The person may close the dialog at any   *)
(* of them, which removes the flow but not the step under way; a request   *)
(* that goes away cancels its step but not the flow.                       *)
(***************************************************************************)
EXTENDS Naturals

CONSTANTS Conn, Panel, None

ASSUME FlowAssumption == None \notin Conn \cup Panel

VARIABLES
    here,     \* the flow is in progress for Home Assistant
    kind,     \* user (or discovered), reauth, reconfigure
    pc,       \* form, unload, connect, begin, progress, close, over
    goal,     \* what the connection being opened is for
    then,     \* what follows the close that is awaited
    page,     \* the form shown last: address or pair
    uid,      \* the flow's unique id
    local,    \* the client being closed by the step
    held,     \* self._client
    task,     \* self._pair_task: none, running, paired, failed
    sock,     \* each connection: free, open, closing
    peer,     \* the panel it reached
    at,       \* the panel that answers at the address
    entry,    \* the entry: none, off, setup (by the flow), loaded, unloading,
              \* half (its unload failed or was cut short), released
    owner,    \* its unique id
    pin       \* the panel whose certificate it has pinned

vars == <<here, kind, pc, goal, then, page, uid, local, held, task, sock, peer,
          at, entry, owner, pin>>
flowVars == <<here, kind, page, uid>>
entryVars == <<entry, owner, pin>>

Kinds == {"user", "reauth", "reconfigure"}

Init ==
    /\ here = FALSE /\ kind = "user" /\ pc = "over" /\ goal = "validate"
    /\ then = "abort" /\ page = "address" /\ uid = None
    /\ local = None /\ held = None /\ task = "none"
    /\ sock = [c \in Conn |-> "free"] /\ peer \in [Conn -> Panel] /\ at \in Panel
    /\ \/ entry = "none" /\ owner = None /\ pin = None
       \/ entry \in {"off", "loaded"} /\ owner \in Panel /\ pin = owner

------------------------------------------------------------------------------
(* Moves of a step                                                         *)

\* A form, if there is still a flow to show it.
Shows(p) == page' = p /\ pc' = IF here THEN "form" ELSE "over"

Leaves == here' = FALSE /\ pc' = "over"

ClosedSock(c) == IF c # None /\ sock[c] = "open"
                 THEN [sock EXCEPT ![c] = "closing"] ELSE sock

\* _async_close_client: closed, waited for, then forgotten.
ClosesHeld(t) ==
    /\ pc' = "close" /\ then' = t /\ local' = held
    /\ sock' = ClosedSock(held)

\* (slip) A probed entry is loaded again only when the address is good.
ReleasedStays == UNCHANGED entry

\* The finally of async_step_reconfigure.
Restored == entry' = IF entry = "released" THEN "setup" ELSE entry

------------------------------------------------------------------------------
(* The person                                                              *)

Starts(k) ==
    /\ ~here /\ pc = "over"
    /\ here' = TRUE /\ kind' = k /\ pc' = "form" /\ page' = "address"
    /\ IF k = "user" THEN uid' \in (Panel \cup {None}) \ ({owner} \ {None})
       ELSE entry \in {"off", "loaded"} /\ uid' = owner
    /\ held' = None /\ local' = None /\ task' = "none"
    /\ UNCHANGED <<goal, then, sock, peer, at, entryVars>>

\* The address form.  Reconfiguring has a running entry unloaded first, which
\* releases the panel's one connection slot.
SubmitAddress ==
    /\ here /\ pc = "form" /\ page = "address"
    /\ goal' = CASE kind = "user" -> "validate" [] kind = "reauth" -> "recheck" [] OTHER -> "probe"
    /\ IF kind = "reconfigure" /\ entry = "loaded"
       THEN pc' = "unload" /\ entry' = "unloading"
       ELSE pc' = "connect" /\ UNCHANGED entry
    /\ UNCHANGED <<flowVars, then, local, held, task, sock, peer, at, owner, pin>>

UnloadDone ==
    /\ pc = "unload"
    /\ pc' = "connect" /\ entry' = "released"
    /\ UNCHANGED <<flowVars, goal, then, local, held, task, sock, peer, at, owner, pin>>

\* A platform would not go: the flow gives up, the entry stays as it got.
UnloadRefused ==
    /\ pc = "unload"
    /\ Leaves /\ entry' = "half"
    /\ UNCHANGED <<kind, page, uid, goal, then, local, held, task, sock, peer, at, owner, pin>>

SubmitPair ==
    /\ here /\ pc = "form" /\ page = "pair"
    /\ pc' = "connect" /\ goal' = "pair"
    /\ UNCHANGED <<flowVars, then, local, held, task, sock, peer, at, entryVars>>

\* (slip) The client a step holds is left to the step.
RemovesNothing == UNCHANGED <<sock, held>>

\* async_remove: the client the flow holds is closed in a task of its own.
RemovesClient == held' = None /\ sock' = ClosedSock(held)

\* The dialog is closed.  The pairing being waited for is cancelled; a step
\* under way is not.
Removed ==
    /\ here /\ here' = FALSE
    /\ pc' = IF pc \in {"form", "progress"} THEN "over" ELSE pc
    /\ task' = IF pc = "progress" THEN "none" ELSE task
    /\ RemovesClient
    /\ UNCHANGED <<kind, page, uid, goal, then, local, peer, at, entryVars>>

\* The request that submitted a form goes away and its step is cancelled at an
\* await, or raises what it does not catch: the flow keeps its form.  The unload
\* is before the try whose finally restores the entry: cancelled, it has not
\* begun or stops halfway.
StepCancelled ==
    /\ \/ pc \in {"unload", "connect", "begin"}
       \/ pc = "close" /\ then \notin {"done", "failed"}
    /\ Shows(page)
    /\ IF pc = "unload" THEN entry' \in {"loaded", "half"}
       ELSE IF goal = "probe" THEN Restored ELSE UNCHANGED entry
    /\ local' = None
    /\ UNCHANGED <<here, kind, uid, goal, then, held, task, sock, peer, at, owner, pin>>

------------------------------------------------------------------------------
(* The steps                                                               *)

\* _async_connect raised, its own socket closed.
ConnectFails ==
    /\ pc = "connect"
    /\ IF goal = "pair"
       THEN ClosesHeld("pair") /\ UNCHANGED <<page, entry>>
       ELSE /\ Shows("address") /\ UNCHANGED <<then, local, sock>>
            /\ IF goal = "probe" THEN Restored ELSE UNCHANGED entry
    /\ UNCHANGED <<here, kind, uid, goal, held, task, peer, at, owner, pin>>

\* (slip) Who answers now is not compared with who was checked.
ProvesAnyone(p) == uid # None

\* async_step_pair's check (HA14).
Proves(p) == p = uid

\* Pairing keeps its connection.
ConnectedToPair(c) ==
    /\ pc = "connect" /\ goal = "pair" /\ sock[c] = "free"
    /\ peer' = [peer EXCEPT ![c] = at]
    /\ held' = c
    /\ IF Proves(at)
       THEN /\ sock' = [sock EXCEPT ![c] = "open"]
            /\ pc' = "begin" /\ UNCHANGED <<then, local>>
       ELSE /\ sock' = [sock EXCEPT ![c] = "closing"]
            /\ pc' = "close" /\ then' = "abort" /\ local' = c
    /\ UNCHANGED <<flowVars, goal, task, at, entryVars>>

\* The checks close theirs and judge after.  The panel may have a certificate
\* other than the one pinned.
ConnectedToCheck(c, newCert) ==
    /\ pc = "connect" /\ goal # "pair" /\ sock[c] = "free"
    /\ peer' = [peer EXCEPT ![c] = at]
    /\ sock' = [sock EXCEPT ![c] = "closing"]
    /\ pc' = "close" /\ local' = c
    /\ then' = CASE goal = "validate" -> "validated"
                 [] goal = "recheck"  -> "recheck"
                 [] OTHER -> IF at = owner /\ ~newCert THEN "moved" ELSE "restore"
    /\ UNCHANGED <<flowVars, goal, held, task, at, entryVars>>

\* pair_begin: the code is shown while the person at the panel decides; a flow
\* that is gone shows nothing.
PairBegins ==
    /\ pc = "begin" /\ held # None /\ sock[held] = "open"
    /\ task' = "running"
    /\ pc' = IF here THEN "progress" ELSE "over"
    /\ UNCHANGED <<flowVars, goal, then, local, held, sock, peer, at, entryVars>>

PairBeginFails ==
    /\ pc = "begin"
    /\ ClosesHeld("pair")
    /\ UNCHANGED <<flowVars, goal, held, task, peer, at, entryVars>>

\* pair_wait: allowed, or refused, out of time, or its connection ended.
PairEnds(r) ==
    /\ task = "running"
    /\ r = "paired" => held # None /\ sock[held] = "open"
    /\ task' = r
    /\ UNCHANGED <<flowVars, pc, goal, then, local, held, sock, peer, at, entryVars>>

AfterPairing == IF task = "paired" THEN "done" ELSE "failed"

\* (slip) The entry is made before the pairing connection is closed.
ProgressDoneEarly ==
    /\ pc = "progress" /\ task \in {"paired", "failed"}
    /\ pc' = "close" /\ then' = AfterPairing /\ local' = held /\ sock' = sock
    /\ task' = "none"
    /\ UNCHANGED <<flowVars, goal, held, peer, at, entryVars>>

\* Home Assistant moves on to pair_done or pair_failed, which close first.
ProgressDone ==
    /\ pc = "progress" /\ task \in {"paired", "failed"}
    /\ ClosesHeld(AfterPairing)
    /\ task' = "none"
    /\ UNCHANGED <<flowVars, goal, held, peer, at, entryVars>>

------------------------------------------------------------------------------
(* The close has returned                                                  *)

\* (slip) The flow goes on to pair without the id it has just checked.
ValidatedUnnamed ==
    /\ UNCHANGED uid
    /\ IF owner = peer[local]
       THEN Leaves /\ entry' \in {entry, "setup"} /\ UNCHANGED page
       ELSE Shows("pair") /\ UNCHANGED <<here, entry>>
    /\ UNCHANGED <<owner, pin>>

\* A panel that already has an entry only moves it (the entry may be loaded
\* again); any other goes on to pair.
Validated ==
    /\ uid' = peer[local]
    /\ IF owner = peer[local]
       THEN Leaves /\ entry' \in {entry, "setup"} /\ UNCHANGED page
       ELSE Shows("pair") /\ UNCHANGED <<here, entry>>
    /\ UNCHANGED <<owner, pin>>

Rechecked ==
    /\ IF peer[local] # owner
       THEN Leaves /\ UNCHANGED page
       ELSE Shows("pair") /\ UNCHANGED here
    /\ UNCHANGED <<uid, entryVars>>

\* The address is kept, or not and the entry is as it was.  Home Assistant may
\* not load an entry again that is half unloaded.
Moved ==
    /\ Leaves
    /\ entry' = "setup" \/ (entry = "half" /\ UNCHANGED entry)
    /\ UNCHANGED <<page, uid, owner, pin>>

NotMoved ==
    /\ Restored
    /\ IF peer[local] # owner
       THEN Leaves /\ UNCHANGED page
       ELSE Shows("address") /\ UNCHANGED here
    /\ UNCHANGED <<uid, owner, pin>>

\* The new pin goes with the entry paired again, or with a new one, if the
\* flow is still there to create it.
Paired ==
    /\ Leaves /\ UNCHANGED <<page, uid>>
    /\ IF kind = "reauth" \/ here
       THEN /\ entry' = "setup" /\ pin' = peer[local]
            /\ owner' = IF kind = "reauth" THEN owner ELSE uid
       ELSE UNCHANGED entryVars

Closed ==
    /\ pc = "close"
    /\ local # None => sock[local] # "closing"
    /\ local' = None /\ held' = IF held = local THEN None ELSE held
    /\ CASE then = "validated" -> Validated
         [] then = "recheck"   -> Rechecked
         [] then = "moved"     -> Moved
         [] then = "restore"   -> NotMoved
         [] then = "pair"      -> Shows("pair") /\ UNCHANGED <<here, uid, entryVars>>
         [] then = "done"      -> Paired
         [] OTHER              -> Leaves /\ UNCHANGED <<page, uid, entryVars>>
    /\ UNCHANGED <<kind, goal, then, task, sock, peer, at>>

------------------------------------------------------------------------------
(* The rest (external)                                                     *)

\* Flushed, or aborted after _CLOSE_TIMEOUT; or the panel ended it.
SocketGone(c) ==
    /\ sock[c] # "free"
    /\ sock' = [sock EXCEPT ![c] = "free"]
    /\ UNCHANGED <<flowVars, pc, goal, then, local, held, task, peer, at, entryVars>>

\* Home Assistant sets the entry up, at once or on its retry timer.
EntryLoads ==
    /\ entry \in {"setup", "off"} /\ entry' \in {"loaded", "off"} \ {entry}
    /\ UNCHANGED <<flowVars, pc, goal, then, local, held, task, sock, peer, at, owner, pin>>

\* Another panel answers at the address.
AddressMoves ==
    /\ at' \in Panel \ {at}
    /\ UNCHANGED <<flowVars, pc, goal, then, local, held, task, sock, peer, entryVars>>

Next ==
    \/ \E k \in Kinds : Starts(k)
    \/ SubmitAddress \/ UnloadDone \/ UnloadRefused \/ SubmitPair \/ Removed \/ StepCancelled
    \/ \E c \in Conn : ConnectedToPair(c) \/ SocketGone(c)
    \/ \E c \in Conn, n \in BOOLEAN : ConnectedToCheck(c, n)
    \/ ConnectFails \/ PairBegins \/ PairBeginFails \/ ProgressDone \/ Closed
    \/ \E r \in {"paired", "failed"} : PairEnds(r)
    \/ EntryLoads \/ AddressMoves

Spec == Init /\ [][Next]_vars

\* connect(), pair_begin() and close() have deadlines, so their steps go on.
Fairness ==
    /\ WF_vars(ConnectFails) /\ WF_vars(PairBeginFails) /\ WF_vars(Closed)
    /\ \A c \in Conn : WF_vars(sock[c] = "closing" /\ SocketGone(c))

FairSpec == Spec /\ Fairness

------------------------------------------------------------------------------
(* Properties                                                              *)

\* Types; and the pair form is only reached with an id to pair with (what
\* async_step_pair compares the panel against).
TypeOK ==
    /\ here \in BOOLEAN /\ kind \in Kinds
    /\ pc \in {"form", "unload", "connect", "begin", "progress", "close", "over"}
    /\ goal \in {"validate", "recheck", "probe", "pair"}
    /\ then \in {"validated", "recheck", "abort", "restore", "moved", "pair", "done", "failed"}
    /\ page \in {"address", "pair"} /\ uid \in Panel \cup {None}
    /\ local \in Conn \cup {None} /\ held \in Conn \cup {None}
    /\ task \in {"none", "running", "paired", "failed"}
    /\ sock \in [Conn -> {"free", "open", "closing"}] /\ peer \in [Conn -> Panel]
    /\ at \in Panel
    /\ entry \in {"none", "off", "setup", "loaded", "unloading", "half", "released"}
    /\ owner \in Panel \cup {None} /\ pin \in Panel \cup {None}
    /\ page = "pair" => uid # None

\* An entry pins the certificate of the panel it is named after, whatever
\* answers at the address between the check and the pairing (HA14,
\* async_step_pair and async_step_pair_done).
PinsTheOneChecked == pin = owner

\* A flow that ends - by a step or by the person - leaves no connection of its
\* own open (async_remove, _async_close_client: the panel has one slot, HA07).
FlowLetsGo == [][here /\ ~here' => \A c \in {held, held'} \ {None} : sock'[c] # "open"]_vars

\* When the flow sets the entry up, whose coordinator connects at once, the
\* flow's own connection is no longer on the panel's one slot
\* (async_step_pair_done, async_step_reconfigure).
SetsUpAlone ==
    [][entry # "setup" /\ entry' = "setup" =>
         \A c \in {local, held} \ {None} : sock'[c] # "open"]_vars

\* A reconfigure whose unload is over never leaves the entry unloaded: the
\* address is bad, the panel wrong, the step cancelled at its connect or its
\* close, or the dialog closed, the entry is set up again (the try of
\* async_step_reconfigure).
EntryComesBack == entry = "released" ~> entry \in {"setup", "loaded", "off"}

\* "Restore the original entry if validation fails or is cancelled": a
\* reconfigure that shows its form again has its entry running, being set up,
\* or as Home Assistant had it.
CancelledRestores ==
    here /\ kind = "reconfigure" /\ pc = "form" => entry \notin {"released", "half"}

\* What async_remove is for (config_flow.py:127-137): a flow that is gone does
\* not go on waiting for the panel on a connection of its own.
AbandonedFlowLetsGo ==
    ~here /\ pc = "over" /\ task = "running" => \A c \in {held} \ {None} : sock[c] # "open"

==============================================================================
