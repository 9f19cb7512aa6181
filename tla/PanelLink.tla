------------------------------ MODULE PanelLink ------------------------------
(***************************************************************************)
(* The life of one config entry's link to its panel: the first connection  *)
(* made by setup (async_start), the listening task that follows the panel  *)
(* and reconnects (_async_run, _async_link), the resynchronisation with a  *)
(* snapshot of the connection's own (_async_resync), every way a           *)
(* connection is let go of (_async_end_session, _async_link_failed,        *)
(* PanelClient.close) and unloading (async_shutdown).                      *)
(*                                                                         *)
(* The coroutine that owns the connection - setup's own while the entry is *)
(* set up, the background task afterwards - is one process with a program  *)
(* counter `pc'; a step runs from one await to the next.  Other tasks      *)
(* (state-change jobs, device actions, commands) appear where they touch   *)
(* the connection: a send of theirs that gives up closes it.               *)
(***************************************************************************)
EXTENDS Naturals, Sequences

CONSTANTS
    Conn,      \* sockets; an identity is used again once its socket is gone
    NoConn,    \* "no client", the code's None
    Zone,      \* the panel's zones
    Value,     \* what a zone can report
    Absent,    \* a zone the panel does not have, or a delta does not carry
    WireMax    \* bound: messages from the panel not yet read

ASSUME LinkAssumption ==
    /\ NoConn \notin Conn
    /\ Absent \notin Value
    /\ WireMax \in Nat

VARIABLES
    entry,     \* Home Assistant's state of the config entry
    pc,        \* where the coroutine that owns the connection is
    goal,      \* what follows the close it is waiting for
    conn,      \* the PanelClient that coroutine holds in a local variable
    client,    \* coordinator._client
    sock,      \* each socket: free, open, or closing (still unflushed)
    closer,    \* who awaits PanelClient.close on a closing socket
    state,     \* the PanelState being filled from this connection
    data,      \* coordinator.data: the PanelState last published
    ok,        \* coordinator.last_update_success
    panel,     \* the panel's zones as they are
    synced,    \* the panel has sent its snapshot on this connection
    wire       \* messages sent by the panel, not yet read

vars == <<entry, pc, goal, conn, client, sock, closer, state, data, ok,
          panel, synced, wire>>
panelVars == <<panel, synced, wire>>

Zones == [Zone -> Value \cup {Absent}]
NoZones == [z \in Zone |-> Absent]
Kind == {"snapshot", "delta", "other", "invalid", "oserror"}
Message == [t : Kind, zones : Zones]
Plain(t) == [t |-> t, zones |-> NoZones]

\* A PanelState: its zones, and (ghost) the connection whose snapshot it
\* holds.  NoConn is the code's partitions = None: not ready.
PanelStates == [from : Conn \cup {NoConn}, zones : Zones]
FreshState == [from |-> NoConn, zones |-> NoZones]
Ready(s) == s.from # NoConn

Entry == {"not_loaded", "setup", "loaded", "retry", "error", "unloading"}
Pc == {"off", "connect", "resync", "push", "listen", "close", "backoff",
       "stopped"}
Goal == {"none", "backoff", "reauth", "dead", "cancelled"}
Closer == {"none", "link", "side", "call"}

TypeOK ==
    /\ entry \in Entry /\ pc \in Pc /\ goal \in Goal
    /\ conn \in Conn \cup {NoConn} /\ client \in Conn \cup {NoConn}
    /\ sock \in [Conn -> {"free", "open", "closing"}]
    /\ closer \in [Conn -> Closer]
    /\ state \in PanelStates /\ data \in PanelStates
    /\ ok \in BOOLEAN
    /\ panel \in Zones /\ synced \in BOOLEAN
    /\ wire \in Seq(Message)

Init ==
    /\ entry = "not_loaded" /\ pc = "off" /\ goal = "none"
    /\ conn = NoConn /\ client = NoConn
    /\ sock = [c \in Conn |-> "free"] /\ closer = [c \in Conn |-> "none"]
    /\ state = FreshState /\ data = FreshState /\ ok = TRUE
    /\ panel \in [Zone -> Value] /\ synced = FALSE /\ wire = <<>>

------------------------------------------------------------------------------
(* Letting go of a connection                                              *)

Open(c) == c # NoConn /\ sock[c] = "open"

\* The owner is not inside an inline _async_link_failed (a send of its own
\* gave up and it waits for the close).
Runs == conn # NoConn => closer[conn] # "link"

\* Device actions are cancelled with the session, one that is closing the
\* connection in the middle of that close.
CallsCancelled(f) == [c \in Conn |-> IF f[c] = "call" THEN "none" ELSE f[c]]

\* (slip) Only the connection the coordinator took over is closed.
SockAfterCloseOwn(c) ==
    IF Open(c) /\ client = c THEN [sock EXCEPT ![c] = "closing"] ELSE sock

\* PanelClient.close on c, awaited by the owner: it takes the writer, so a
\* connection someone is already closing is left to them, and an owner that
\* was interrupted in its own close does not resume it.
SockAfterClose(c) == IF Open(c) THEN [sock EXCEPT ![c] = "closing"] ELSE sock
CloserAfterClose(c) ==
    IF c = NoConn THEN closer
    ELSE [closer EXCEPT ![c] = CASE sock[c] = "open" -> "link"
                                 [] @ = "link"       -> "none"
                                 [] OTHER            -> @]

\* (slip) The entities are not told.
EntitiesUntold == ok' = ok

\* The connection ends with `g' to follow: the entities are told first, then
\* the session is let go of, its socket last.
EntitiesTold == ok' = (ok /\ entry # "loaded")
EndSession(g) ==
    /\ pc' = "close" /\ goal' = g
    /\ client' = NoConn
    /\ sock' = SockAfterClose(conn)
    /\ closer' = CallsCancelled(CloserAfterClose(conn))
    /\ wire' = <<>>
    /\ UNCHANGED <<conn, state, data, panel, synced>>

\* The closing transport flushed, or the peer reset it (asyncio, the network).
Flushed(c) ==
    /\ sock[c] = "closing"
    /\ sock' = [sock EXCEPT ![c] = "free"]
    /\ closer' = [closer EXCEPT ![c] = "none"]
    /\ UNCHANGED <<entry, pc, goal, conn, client, state, data, ok, panelVars>>

\* (slip) A coroutine's own close waits without a deadline.
AbortOthers(c) == closer[c] \in {"side", "call"} /\ Flushed(c)

\* Nobody flushed it within _CLOSE_TIMEOUT: whoever awaits the close aborts.
Abort(c) == closer[c] # "none" /\ Flushed(c)

\* (slip) The task swallows its cancellation and goes on to the backoff.
AfterCloseRetries ==
    /\ pc = "close" /\ Runs
    /\ conn' = NoConn
    /\ IF entry = "setup"
       THEN entry' = "retry" /\ pc' = "off" /\ goal' = "none"
       ELSE pc' = "backoff" /\ UNCHANGED <<entry, goal>>
    /\ UNCHANGED <<client, sock, closer, state, data, ok, panelVars>>

\* Where the owner goes once its close has returned.  For a setup that is
\* how the entry ends: retried (ConfigEntryNotReady), or in error, be it for
\* a new pairing (ConfigEntryAuthFailed), a bug or a cancellation.
AfterClose ==
    /\ pc = "close" /\ Runs
    /\ conn' = NoConn
    /\ IF entry = "setup"
       THEN /\ entry' = IF goal = "backoff" THEN "retry" ELSE "error"
            /\ pc' = "off" /\ goal' = "none"
       ELSE /\ pc' = IF goal = "backoff" THEN "backoff" ELSE "stopped"
            /\ UNCHANGED <<entry, goal>>
    /\ UNCHANGED <<client, sock, closer, state, data, ok, panelVars>>

------------------------------------------------------------------------------
(* Connecting                                                              *)

\* async_setup_entry: a first setup, a reload, or Home Assistant's retry.
SetUp ==
    /\ entry \in {"not_loaded", "retry", "error"}
    /\ entry' = "setup" /\ pc' = "connect" /\ goal' = "none"
    /\ state' = FreshState /\ data' = FreshState /\ ok' = TRUE
    /\ UNCHANGED <<conn, client, sock, closer, panelVars>>

\* open_connection succeeded and the hello is out.
SocketOpens(c) ==
    /\ pc = "connect" /\ conn = NoConn
    /\ sock[c] = "free" /\ c # data.from
    /\ conn' = c
    /\ sock' = [sock EXCEPT ![c] = "open"]
    /\ synced' = FALSE /\ wire' = <<>>
    /\ UNCHANGED <<entry, pc, goal, client, closer, state, data, ok, panel>>

\* (slip) The entities are shown as available once the panel answers.
HelloAcceptedShows ==
    /\ pc = "connect" /\ conn # NoConn
    /\ client' = conn
    /\ state' = FreshState
    /\ pc' = "resync" /\ ok' = TRUE
    /\ UNCHANGED <<entry, goal, conn, sock, closer, data, panelVars>>

\* The panel's hello is accepted: this connection is the coordinator's.
HelloAccepted ==
    /\ pc = "connect" /\ conn # NoConn
    /\ client' = conn
    /\ state' = FreshState
    /\ pc' = "resync"
    /\ UNCHANGED <<entry, goal, conn, sock, closer, data, ok, panelVars>>

\* No connection, no hello, an unusable or unsupported one; or the panel is
\* not the one this entry paired with.  Its socket, if any, is closed first.
ConnectFails(g) ==
    /\ pc = "connect" /\ g \in {"backoff", "reauth"}
    /\ g = "reauth" => conn # NoConn
    /\ EntitiesTold /\ EndSession(g) /\ UNCHANGED entry

------------------------------------------------------------------------------
(* Resynchronising, publishing, listening                                  *)

Merge(old, new) == [z \in Zone |-> IF new[z] = Absent THEN old[z] ELSE new[z]]

\* (slip) A snapshot updates the zones, so that a removed one stays.
AppliedOver(s, m) ==
    CASE m.t = "snapshot" -> [from |-> conn, zones |-> Merge(s.zones, m.zones)]
      [] m.t = "delta"    -> [s EXCEPT !.zones = Merge(s.zones, m.zones)]
      [] OTHER            -> s

\* PanelState.apply: what a message makes of a state.
Applied(s, m) ==
    CASE m.t = "snapshot" -> [from |-> conn, zones |-> m.zones]
      [] m.t = "delta"    -> [s EXCEPT !.zones = Merge(s.zones, m.zones)]
      [] OTHER            -> s

\* PanelState.apply raises, or the frame itself was no message.
Refused(s, m) == m.t = "invalid" \/ (m.t = "delta" /\ ~Ready(s))

Reads == pc \in {"resync", "listen"} /\ Runs /\ wire # <<>>

\* One message read and handled.  The first snapshot ends _async_resync; it
\* and every later change are published (async_set_updated_data).
Receive ==
    LET m == Head(wire) IN
    /\ Reads /\ m.t # "oserror" /\ ~Refused(state, m)
    /\ state' = Applied(state, m)
    /\ wire' = Tail(wire)
    /\ IF Ready(state')
       THEN /\ data' = state' /\ ok' = TRUE
            /\ pc' = IF pc = "resync" THEN "push" ELSE pc
       ELSE UNCHANGED <<data, ok, pc>>
    /\ UNCHANGED <<entry, goal, conn, client, sock, closer, panel, synced>>

\* InvalidMessage: this connection is finished, the next one starts over.
ReceiveRefused ==
    /\ Reads /\ Refused(state, Head(wire))
    /\ EntitiesTold /\ EndSession("backoff") /\ UNCHANGED entry

\* The transport failed with an OSError that is no ConnectionError (an
\* unreachable host, a broken TLS record): FrameReader._exactly lets it pass,
\* so it is none of the errors _async_link reconnects after.
ReceiveOsError ==
    /\ Reads /\ Head(wire).t = "oserror"
    /\ EntitiesTold /\ EndSession("dead") /\ UNCHANGED entry

\* The connection ended, a frame stalled, the panel went quiet, a ping could
\* not be sent: CannotConnect out of recv or send.
LinkDrops ==
    /\ pc \in {"resync", "listen"} /\ Runs
    /\ EntitiesTold /\ EndSession("backoff") /\ UNCHANGED entry

\* The same, once someone has closed the connection.
NoticesClosed == ~Open(conn) /\ LinkDrops

\* (slips) Every message starts the deadline anew; only the background task
\* has one.
ResyncTimesOutQuiet ==
    /\ pc = "resync" /\ wire = <<>>
    /\ EntitiesTold /\ EndSession("backoff") /\ UNCHANGED entry
\* _FIRST_SNAPSHOT_S is over.  The deadline interrupts whatever the owner
\* awaits, an inline close included.
ResyncTimesOut ==
    /\ pc = "resync"
    /\ EntitiesTold /\ EndSession("backoff") /\ UNCHANGED entry

\* _async_after_connect is through: setup has an entry to show and starts the
\* listening task; the task just listens.
PushDone ==
    /\ pc = "push" /\ Runs
    /\ pc' = "listen" /\ entry' = "loaded"
    /\ UNCHANGED <<goal, conn, client, sock, closer, state, data, ok, panelVars>>

\* A send of the owner's own gave up (a pong, a state of the watch list, the
\* catalog): _async_link_failed closes the connection and the owner carries on.
OwnSendFails ==
    /\ pc \in {"resync", "push", "listen"} /\ Runs /\ Open(client)
    /\ sock' = SockAfterClose(client)
    /\ closer' = CloserAfterClose(client)
    /\ wire' = <<>>
    /\ UNCHANGED <<entry, pc, goal, conn, client, state, data, ok, panel, synced>>

\* A send of another task gave up: a state-change job or a command ("side"),
\* a device action ("call").  A message the owner's recv was already being
\* woken for may still be read.
OtherSendFails(who) ==
    /\ who \in {"side", "call"} /\ Open(client)
    /\ sock' = SockAfterClose(client)
    /\ closer' = [closer EXCEPT ![client] = who]
    /\ \E n \in {k \in 0..1 : k <= Len(wire)} : wire' = SubSeq(wire, 1, n)
    /\ UNCHANGED <<entry, pc, goal, conn, client, state, data, ok, panel, synced>>

BackoffOver ==
    /\ pc = "backoff"
    /\ pc' = "connect"
    /\ UNCHANGED <<entry, goal, conn, client, sock, closer, state, data, ok, panelVars>>

------------------------------------------------------------------------------
(* Unloading and cancellation                                              *)

\* The owner is cancelled wherever it is: it closes what it holds, or, if it
\* was inside that close, leaves it.
Cancelled == ok' = ok /\ EndSession("cancelled")

Unload ==
    /\ entry = "loaded"
    /\ entry' = "unloading"
    /\ IF pc = "stopped"
       THEN UNCHANGED <<pc, goal, conn, client, sock, closer, state, data, ok, panelVars>>
       ELSE Cancelled

Unloaded ==
    /\ entry = "unloading" /\ pc = "stopped"
    /\ entry' = "not_loaded" /\ pc' = "off" /\ goal' = "none"
    /\ UNCHANGED <<conn, client, sock, closer, state, data, ok, panelVars>>

\* Home Assistant cancels a setup under way (it is shutting down).
SetupCancelled == entry = "setup" /\ goal # "cancelled" /\ Cancelled /\ UNCHANGED entry

------------------------------------------------------------------------------
(* The panel (external)                                                    *)

PanelSends(m) ==
    /\ client # NoConn /\ Open(client) /\ Len(wire) < WireMax
    /\ wire' = Append(wire, m)

codeVars == <<entry, pc, goal, conn, client, sock, closer, state, data, ok>>

PanelSnapshot ==
    /\ PanelSends([t |-> "snapshot", zones |-> panel])
    /\ synced' = TRUE
    /\ UNCHANGED <<codeVars, panel>>

\* A zone reports: a delta of it alone, to a client that has the snapshot.
PanelReports(z, v) ==
    /\ panel[z] \notin {v, Absent} /\ panel' = [panel EXCEPT ![z] = v]
    /\ IF client # NoConn /\ Open(client) /\ synced
       THEN PanelSends([t |-> "delta", zones |-> [NoZones EXCEPT ![z] = v]])
       ELSE UNCHANGED wire
    /\ UNCHANGED <<codeVars, synced>>

\* A zone is removed, or added again: a whole snapshot says so.
PanelReconfigured(z) ==
    /\ \E v \in Value \cup {Absent} :
         /\ (v = Absent) # (panel[z] = Absent)
         /\ panel' = [panel EXCEPT ![z] = v]
    /\ IF client # NoConn /\ Open(client) /\ synced
       THEN PanelSends([t |-> "snapshot", zones |-> panel'])
       ELSE UNCHANGED wire
    /\ UNCHANGED <<codeVars, synced>>

\* Watch lists, pings, events, results, status; frames that are none; the
\* transport's own errors; a delta ahead of the snapshot.
PanelChatters(t) ==
    /\ t \in {"other", "invalid", "oserror"} \/ (t = "delta" /\ ~synced)
    /\ PanelSends([t |-> t, zones |-> IF t = "delta" THEN panel ELSE NoZones])
    /\ UNCHANGED <<codeVars, panel, synced>>

------------------------------------------------------------------------------
Owner ==
    \/ HelloAccepted \/ Receive \/ ReceiveRefused \/ ReceiveOsError
    \/ LinkDrops \/ NoticesClosed \/ ResyncTimesOut \/ PushDone \/ OwnSendFails
    \/ BackoffOver \/ AfterClose
    \/ \E c \in Conn : SocketOpens(c)
    \/ \E g \in Goal : ConnectFails(g)

HomeAssistant == SetUp \/ Unload \/ Unloaded \/ SetupCancelled

Transport == \E c \in Conn : Flushed(c) \/ Abort(c)

Others == \E who \in {"side", "call"} : OtherSendFails(who)

Panel ==
    \/ PanelSnapshot
    \/ \E z \in Zone : PanelReconfigured(z) \/ \E v \in Value : PanelReports(z, v)
    \/ \E t \in Kind : PanelChatters(t)

Next == Owner \/ HomeAssistant \/ Transport \/ Others \/ Panel

Spec == Init /\ [][Next]_vars

\* The event loop runs what is due: connect, resync and close have deadlines
\* (_CONNECT_TIMEOUT, _FIRST_SNAPSHOT_S, _CLOSE_TIMEOUT), the backoff a timer,
\* every send of _async_after_connect a deadline too.  Nothing is assumed of
\* the panel, of the network or of the person.
Fairness ==
    /\ WF_vars(HelloAccepted \/ ConnectFails("backoff"))
    /\ WF_vars(ResyncTimesOut)
    /\ WF_vars(PushDone)
    /\ WF_vars(NoticesClosed)
    /\ WF_vars(AfterClose)
    /\ WF_vars(BackoffOver)
    /\ WF_vars(Unloaded)
    /\ \A c \in Conn : WF_vars(Abort(c))

FairSpec == Spec /\ Fairness

------------------------------------------------------------------------------
(* Properties                                                              *)

\* An entity that shows as available is maintained: the task is listening
\* (or about to), on a connection of its own, and what is published is the
\* fold of that connection's own snapshot (HA05, HA12: a dead receiver must
\* never look healthy).
AvailableIsMaintained ==
    entry = "loaded" /\ ok =>
        /\ pc \in {"push", "listen"}
        /\ client # NoConn /\ client = conn
        /\ data.from = client /\ data = state

\* The panel has one connection slot (HA07): a socket this entry has open is
\* the one its coroutine holds while it runs, so none stays open behind a
\* failed or cancelled setup, a reconnect or an unload.
SocketsOwned ==
    \A c \in Conn : sock[c] = "open" =>
        c = conn /\ pc \in {"connect", "resync", "push", "listen"}

\* What the entities show is the panel as it is, whenever the connection is
\* up and nothing is on its way.
ShownIsCurrent ==
    entry = "loaded" /\ ok /\ wire = <<>> /\ Open(client) => data.zones = panel

\* The link implements Mirror: what is shown moves only while it is maintained
\* and within one connection's generation; unavailable entities keep what they
\* had until a new connection's own snapshot replaces it (HA12).
Entities == INSTANCE Mirror WITH
    here  <- entry = "loaded",
    avail <- entry = "loaded" /\ ok,
    gen   <- data.from,
    shown <- data.zones

ImplementsMirror == Entities!Spec

\* Going from one connection's state to another's passes through unavailable:
\* no entity slides from an old generation into a new one (HA12).
GenerationsSeparated ==
    [][data'.from # data.from /\ entry = "loaded" => ~ok]_vars

\* A peer that answers pings for ever but never resynchronises is a failed
\* connection: _async_resync always ends.
ResyncEnds == pc = "resync" ~> pc # "resync"

\* While the entry is loaded and unavailable, another attempt always comes,
\* or the task has stopped.
Retries == entry = "loaded" /\ ~ok ~>
              pc \in {"connect", "stopped"} \/ ok \/ entry # "loaded"

\* Unload ends, whatever the panel does or leaves undone and whoever is still
\* closing the connection.
UnloadEnds == entry = "unloading" ~> entry # "unloading"

\* A closing transport has someone who aborts it if it does not flush.
ClosingIsAttended == \A c \in Conn : sock[c] = "closing" => closer[c] # "none"

\* The task follows the panel for as long as the entry is loaded, up to the
\* one end that has a recovery: a new pairing.
StopsOnlyForReauth == entry = "loaded" /\ pc = "stopped" => goal = "reauth"
==============================================================================
