--------------------------- MODULE PanelLinkProofs ---------------------------
(***************************************************************************)
(* What holds of PanelLink for every set of sockets, zones and values: the *)
(* type invariant, that an available entity is maintained, that every open *)
(* socket is the coroutine's own, and that generations are separated by    *)
(* unavailability, from one inductive invariant, IInv; and, with a second  *)
(* one about the messages on their way, that what is shown is the panel.   *)
(***************************************************************************)
EXTENDS PanelLink, TLAPS

\* Where the coroutine is fixes which connection it and the coordinator hold.
Held ==
    /\ pc \in {"off", "backoff", "stopped"} => conn = NoConn
    /\ pc \in {"off", "connect", "close", "backoff", "stopped"} => client = NoConn
    /\ pc \in {"resync", "push", "listen"} => client = conn /\ conn # NoConn

\* ... and what has been published from it.
Published ==
    /\ pc = "resync" => ~Ready(state)
    /\ pc \in {"push", "listen"} => state.from = conn /\ data = state /\ ok
    /\ pc \in {"connect", "resync"} /\ conn # NoConn => conn # data.from

\* An entry that is not set up has no coroutine; one that is loaded without a
\* listening coroutine is unavailable.
EntryFollows ==
    /\ entry \in {"not_loaded", "retry", "error"} => pc = "off"
    /\ entry = "loaded" /\ pc \notin {"push", "listen"} => ~ok

IInv == TypeOK /\ Held /\ Published /\ EntryFollows /\ SocketsOwned

------------------------------------------------------------------------------

\* Closing changes only the socket that is closed, and leaves it not open.
LEMMA CloseLemma ==
    ASSUME LinkAssumption, TypeOK, NEW c \in Conn \cup {NoConn}
    PROVE  /\ SockAfterClose(c) \in [Conn -> {"free", "open", "closing"}]
           /\ CloserAfterClose(c) \in [Conn -> Closer]
           /\ CallsCancelled(CloserAfterClose(c)) \in [Conn -> Closer]
           /\ \A d \in Conn : SockAfterClose(c)[d] = "open" => sock[d] = "open" /\ d # c
<1>1. CASE c = NoConn
  BY <1>1 DEF LinkAssumption, TypeOK, SockAfterClose, CloserAfterClose, CallsCancelled,
              Open, Closer
<1>2. CASE c # NoConn
  <2>1. c \in Conn
    BY <1>2
  <2>2. /\ SockAfterClose(c) \in [Conn -> {"free", "open", "closing"}]
        /\ \A d \in Conn : SockAfterClose(c)[d] = "open" => sock[d] = "open" /\ d # c
    BY <1>2, <2>1 DEF TypeOK, SockAfterClose, Open
  <2>3. CloserAfterClose(c) \in [Conn -> Closer]
    BY <1>2, <2>1 DEF TypeOK, CloserAfterClose, Closer
  <2>4. CallsCancelled(CloserAfterClose(c)) \in [Conn -> Closer]
    BY <2>3 DEF CallsCancelled, Closer
  <2> QED
    BY <2>2, <2>3, <2>4
<1> QED
  BY <1>1, <1>2

\* The end of a session preserves the invariant, whatever ends it, when a
\* loaded entry has been told.
LEMMA EndSessionLemma ==
    ASSUME LinkAssumption, IInv, NEW g \in Goal, EndSession(g),
           entry' \in {"setup", "loaded", "unloading"}, ok' \in BOOLEAN,
           entry' = "loaded" => ~ok'
    PROVE  IInv'
<1>1. conn \in Conn \cup {NoConn}
  BY DEF IInv, TypeOK
<1>2. TypeOK'
  <2>1. sock' \in [Conn -> {"free", "open", "closing"}] /\ closer' \in [Conn -> Closer]
    BY <1>1, CloseLemma DEF IInv, EndSession
  <2>2. wire' \in Seq(Message)
    BY DEF EndSession
  <2> QED
    BY <2>1, <2>2 DEF IInv, TypeOK, EndSession, Entry, Pc
<1>3. Held' /\ Published' /\ EntryFollows'
  BY DEF IInv, Held, Published, EntryFollows, EndSession
<1>4. SocketsOwned'
  BY <1>1, CloseLemma DEF IInv, SocketsOwned, EndSession
<1> QED
  BY <1>2, <1>3, <1>4 DEF IInv

\* What a message makes of a state is a state, and of the generation it says.
LEMMA AppliedLemma ==
    ASSUME LinkAssumption, NEW s \in PanelStates, NEW m \in Message,
           conn \in Conn \cup {NoConn}
    PROVE  /\ Applied(s, m) \in PanelStates
           /\ Applied(s, m).from = IF m.t = "snapshot" THEN conn ELSE s.from
<1>1. Merge(s.zones, m.zones) \in Zones
  BY DEF Merge, Zones, PanelStates, Message
<1> QED
  BY <1>1 DEF Applied, PanelStates, Message

LEMMA InitLemma == LinkAssumption /\ Init => IInv
<1> SUFFICES ASSUME LinkAssumption, Init PROVE IInv
  OBVIOUS
<1>1. FreshState \in PanelStates
  BY DEF FreshState, NoZones, PanelStates, Zones
<1>2. panel \in Zones /\ wire \in Seq(Message)
  BY DEF Init, Zones
<1>3. /\ sock \in [Conn -> {"free", "open", "closing"}] /\ closer \in [Conn -> Closer]
      /\ \A c \in Conn : sock[c] # "open"
  BY DEF Init, Closer
<1>4. TypeOK
  BY <1>1, <1>2, <1>3 DEF Init, TypeOK, Entry, Pc, Goal
<1>5. Held /\ Published /\ EntryFollows /\ SocketsOwned
  BY <1>3 DEF Init, Held, Published, EntryFollows, SocketsOwned
<1> QED
  BY <1>4, <1>5 DEF IInv

------------------------------------------------------------------------------
(* The invariant is preserved by the owner's steps                         *)

LEMMA ReceiveLemma ==
    ASSUME LinkAssumption, IInv, Receive
    PROVE  IInv'
<1> DEFINE m == Head(wire)
<1>1. m \in Message /\ Tail(wire) \in Seq(Message)
  BY DEF IInv, TypeOK, Receive, Reads
<1>2. /\ state' = Applied(state, m) /\ state' \in PanelStates
      /\ state'.from = IF m.t = "snapshot" THEN conn ELSE state.from
  BY <1>1, AppliedLemma DEF IInv, TypeOK, Receive
<1>3. CASE Ready(state')
  <2>1. conn # NoConn /\ client = conn /\ pc \in {"resync", "listen"}
    BY DEF IInv, Held, Receive, Reads
  <2>2. state'.from = conn
    BY <1>2, <1>3, <2>1 DEF IInv, Published, Ready
  <2>3. /\ data' = state' /\ ok' = TRUE /\ pc' \in {"push", "listen"}
        /\ wire' = Tail(wire)
        /\ UNCHANGED <<entry, goal, conn, client, sock, closer, panel, synced>>
    BY <1>3, <2>1 DEF Receive
  <2> QED
    BY <1>1, <1>2, <2>1, <2>2, <2>3
    DEF IInv, TypeOK, Held, Published, EntryFollows, SocketsOwned, Pc
<1>4. CASE ~Ready(state')
  <2>1. /\ wire' = Tail(wire)
        /\ UNCHANGED <<data, ok, pc, entry, goal, conn, client, sock, closer, panel, synced>>
    BY <1>4 DEF Receive
  <2>2. pc = "resync"
    <3>1. SUFFICES ASSUME pc = "listen" PROVE FALSE
      BY DEF Receive, Reads
    <3>2. state.from = conn /\ conn # NoConn
      BY <3>1 DEF IInv, Held, Published
    <3> QED
      BY <1>2, <1>4, <3>2 DEF Ready
  <2> QED
    BY <1>1, <1>2, <1>4, <2>1, <2>2
    DEF IInv, TypeOK, Held, Published, EntryFollows, SocketsOwned
<1> QED
  BY <1>3, <1>4

LEMMA OwnerLemma ==
    ASSUME LinkAssumption, IInv, Owner
    PROVE  IInv'
<1> USE DEF IInv
<1>1. CASE HelloAccepted
  BY <1>1 DEF HelloAccepted, TypeOK, Held, Published, EntryFollows, SocketsOwned,
              FreshState, NoZones, PanelStates, Zones, Ready, Pc, panelVars
<1>2. CASE Receive
  BY <1>2, ReceiveLemma
<1>3. ASSUME NEW g \in Goal, EntitiesTold, EndSession(g), UNCHANGED entry, pc # "off"
      PROVE  IInv'
  <2>1. entry' \in {"setup", "loaded", "unloading"}
    BY <1>3 DEF EntryFollows, TypeOK, Entry
  <2>2. ok' \in BOOLEAN /\ (entry' = "loaded" => ~ok')
    BY <1>3 DEF EntitiesTold, TypeOK
  <2> QED
    BY <1>3, <2>1, <2>2, EndSessionLemma
<1>4. CASE ReceiveRefused \/ ReceiveOsError \/ LinkDrops \/ NoticesClosed \/ ResyncTimesOut
  <2>1. PICK g \in Goal : EntitiesTold /\ EndSession(g) /\ UNCHANGED entry /\ pc # "off"
    BY <1>4 DEF ReceiveRefused, ReceiveOsError, LinkDrops, NoticesClosed, ResyncTimesOut,
                Reads, Goal
  <2> QED
    BY <1>3, <2>1
<1>5. CASE \E g \in Goal : ConnectFails(g)
  BY <1>3, <1>5 DEF ConnectFails
<1>6. CASE PushDone
  BY <1>6 DEF PushDone, TypeOK, Held, Published, EntryFollows, SocketsOwned, Ready, Pc,
              Entry, panelVars
<1>7. CASE OwnSendFails
  <2>1. client \in Conn /\ client = conn /\ pc \in {"resync", "push", "listen"}
    BY <1>7 DEF OwnSendFails, Held, TypeOK
  <2>2. /\ sock' \in [Conn -> {"free", "open", "closing"}] /\ closer' \in [Conn -> Closer]
        /\ \A d \in Conn : sock'[d] = "open" => sock[d] = "open" /\ d # client
    BY <1>7, <2>1, CloseLemma DEF OwnSendFails
  <2>3. wire' \in Seq(Message)
    BY <1>7 DEF OwnSendFails
  <2> QED
    BY <1>7, <2>1, <2>2, <2>3
    DEF OwnSendFails, TypeOK, Held, Published, EntryFollows, SocketsOwned, Ready
<1>8. CASE BackoffOver
  BY <1>8 DEF BackoffOver, TypeOK, Held, Published, EntryFollows, SocketsOwned, Ready, Pc,
              panelVars
<1>9. CASE AfterClose
  <2>1. \A c \in Conn : sock[c] # "open"
    BY <1>9 DEF AfterClose, SocketsOwned
  <2> QED
    BY <1>9, <2>1 DEF AfterClose, TypeOK, Held, Published, EntryFollows, SocketsOwned, Ready,
                      Pc, Entry, Goal, panelVars
<1>10. CASE \E c \in Conn : SocketOpens(c)
  <2>1. PICK c \in Conn : SocketOpens(c)
    BY <1>10
  <2>2. \A d \in Conn : sock[d] # "open"
    BY <2>1 DEF SocketOpens, SocketsOwned, LinkAssumption
  <2>3. TypeOK'
    <3>1. sock' \in [Conn -> {"free", "open", "closing"}] /\ wire' \in Seq(Message)
      BY <2>1 DEF SocketOpens, TypeOK
    <3> QED
      BY <2>1, <3>1 DEF SocketOpens, TypeOK
  <2>4. SocketsOwned'
    BY <2>1, <2>2 DEF SocketOpens, SocketsOwned, TypeOK
  <2> QED
    BY <2>1, <2>3, <2>4 DEF SocketOpens, Held, Published, EntryFollows, Ready
<1> QED
  BY <1>1, <1>2, <1>4, <1>5, <1>6, <1>7, <1>8, <1>9, <1>10 DEF Owner

------------------------------------------------------------------------------
(* ... and by everyone else's                                              *)

LEMMA HomeAssistantLemma ==
    ASSUME LinkAssumption, IInv, HomeAssistant
    PROVE  IInv'
<1> USE DEF IInv
<1>1. CASE SetUp
  <2>1. pc = "off" /\ \A c \in Conn : sock[c] # "open"
    BY <1>1 DEF SetUp, EntryFollows, SocketsOwned
  <2> QED
    BY <1>1, <2>1 DEF SetUp, TypeOK, Held, Published, EntryFollows, SocketsOwned, Ready,
         FreshState, NoZones, PanelStates, Zones, Entry, Pc, Goal, panelVars
<1>2. CASE Unload
  <2>1. CASE pc = "stopped"
    BY <1>2, <2>1 DEF Unload, TypeOK, Held, Published, EntryFollows, SocketsOwned, Ready,
                      Entry, panelVars
  <2>2. CASE pc # "stopped"
    BY <1>2, <2>2, EndSessionLemma DEF Unload, Cancelled, TypeOK, Goal
  <2> QED
    BY <2>1, <2>2
<1>3. CASE Unloaded
  BY <1>3 DEF Unloaded, TypeOK, Held, Published, EntryFollows, SocketsOwned, Ready, Entry,
              Pc, Goal, panelVars
<1>4. CASE SetupCancelled
  BY <1>4, EndSessionLemma DEF SetupCancelled, Cancelled, TypeOK, Goal
<1> QED
  BY <1>1, <1>2, <1>3, <1>4 DEF HomeAssistant

LEMMA EnvironmentLemma ==
    ASSUME LinkAssumption, IInv, Transport \/ Others \/ Panel
    PROVE  IInv'
<1> USE DEF IInv
<1>1. CASE Transport
  <2>1. PICK c \in Conn : Flushed(c)
    BY <1>1 DEF Transport, Abort
  <2> QED
    BY <2>1 DEF Flushed, TypeOK, Held, Published, EntryFollows, SocketsOwned, Ready, Closer,
                panelVars
<1>2. CASE Others
  <2>1. PICK who \in {"side", "call"} : OtherSendFails(who)
    BY <1>2 DEF Others
  <2>2. client \in Conn /\ client = conn
    BY <2>1 DEF OtherSendFails, Open, Held, TypeOK, Pc
  <2>3. /\ sock' \in [Conn -> {"free", "open", "closing"}]
        /\ \A d \in Conn : sock'[d] = "open" => sock[d] = "open" /\ d # client
    BY <2>1, <2>2, CloseLemma DEF OtherSendFails
  <2>4. wire' \in Seq(Message)
    BY <2>1 DEF OtherSendFails, TypeOK
  <2> QED
    BY <2>1, <2>2, <2>3, <2>4
    DEF OtherSendFails, TypeOK, Held, Published, EntryFollows, SocketsOwned, Ready, Closer
<1>3. CASE Panel
  <2>1. panel' \in Zones /\ synced' \in BOOLEAN
    BY <1>3, ZenonT(60)
    DEF Panel, PanelSnapshot, PanelReports, PanelReconfigured, PanelChatters, TypeOK,
                Zones
  <2>2. wire' \in Seq(Message)
    <3>1. \/ UNCHANGED wire
          \/ \E m \in Message : wire' = Append(wire, m)
      BY <1>3, <2>1 DEF Panel, PanelSnapshot, PanelReports, PanelReconfigured, PanelChatters,
                  PanelSends, TypeOK, Zones, NoZones, Message, Kind
    <3> QED
      BY <3>1 DEF TypeOK
  <2>3. UNCHANGED codeVars
    BY <1>3 DEF Panel, PanelSnapshot, PanelReports, PanelReconfigured, PanelChatters
  <2> QED
    BY <2>1, <2>2, <2>3
    DEF codeVars, TypeOK, Held, Published, EntryFollows, SocketsOwned, Ready
<1> QED
  BY <1>1, <1>2, <1>3

LEMMA StutterLemma ==
    ASSUME IInv, UNCHANGED vars
    PROVE  IInv'
  BY DEF IInv, vars, TypeOK, Held, Published, EntryFollows, SocketsOwned, Ready

\* The inductive invariant holds in every reachable state.
THEOREM Invariance == Spec => []IInv
<1>1. LinkAssumption
  BY LinkAssumption
<1>2. Init => IInv
  BY <1>1, InitLemma
<1>3. IInv /\ [Next]_vars => IInv'
  BY <1>1, OwnerLemma, HomeAssistantLemma, EnvironmentLemma, StutterLemma DEF Next
<1> QED
  BY <1>2, <1>3, PTL DEF Spec

\* Every variable keeps its type.
THEOREM TypeCorrect == Spec => []TypeOK
  BY Invariance, PTL DEF IInv

\* Whatever the panel, the network, the person and the other tasks do, an
\* entity shown as available is backed by a listening coroutine and by the
\* snapshot of the very connection it listens on (HA05, HA12).
THEOREM AvailableMaintained == Spec => []AvailableIsMaintained
<1>1. IInv => AvailableIsMaintained
  BY DEF IInv, Held, Published, EntryFollows, AvailableIsMaintained
<1> QED
  BY <1>1, Invariance, PTL

\* No connection of this entry is open but the one its coroutine holds while
\* it runs: none outlives a failed setup, a reconnect or an unload (HA07).
THEOREM SocketsAreOwned == Spec => []SocketsOwned
  BY Invariance, PTL DEF IInv

\* Entities never go from one connection's state to another's while they show
\* as available (HA12).
THEOREM GenerationsAreSeparated == Spec => GenerationsSeparated
<1>1. IInv /\ [Next]_vars => (data'.from # data.from /\ entry = "loaded" => ~ok)
  <2> SUFFICES ASSUME IInv, [Next]_vars, data'.from # data.from, entry = "loaded"
               PROVE  ~ok
    OBVIOUS
  <2>1. CASE Receive
    <3>1. pc \in {"resync", "listen"} /\ data' = state'
      BY <2>1 DEF Receive, Reads
    <3>2. CASE pc = "resync"
      BY <3>2 DEF IInv, EntryFollows
    <3>3. CASE pc = "listen"
      <4>1. state.from = conn /\ data = state
        BY <3>3 DEF IInv, Published
      <4>2. Head(wire) \in Message /\ state \in PanelStates /\ conn \in Conn \cup {NoConn}
        BY <2>1 DEF IInv, TypeOK, Receive, Reads
      <4>3. state'.from = conn
        BY <2>1, <4>1, <4>2, AppliedLemma, LinkAssumption DEF Receive
      <4> QED
        BY <3>1, <4>1, <4>3
    <3> QED
      BY <3>1, <3>2, <3>3
  <2>2. CASE ~Receive
    <3>1. ~SetUp
      BY DEF SetUp
    <3> QED
      BY <2>2, <3>1
      DEF Next, Owner, HomeAssistant, Transport, Others, Panel, vars, HelloAccepted,
          ReceiveRefused, ReceiveOsError, LinkDrops, NoticesClosed, ResyncTimesOut, PushDone,
          OwnSendFails, BackoffOver, AfterClose, SocketOpens, ConnectFails, Unload, Unloaded,
          SetupCancelled, Cancelled, EndSession, Flushed, Abort, OtherSendFails,
          PanelSnapshot, PanelReports, PanelReconfigured, PanelChatters, codeVars
  <2> QED
    BY <2>1, <2>2
<1> QED
  BY <1>1, Invariance, PTL DEF Spec, GenerationsSeparated

------------------------------------------------------------------------------
(* What is shown is the panel                                              *)

\* A message that says what a zone is; the last one on the wire that does.
Says(m, z) == m.t = "snapshot" \/ (m.t = "delta" /\ m.zones[z] # Absent)
Silent(z) == \A i \in 1..Len(wire) : ~Says(wire[i], z)
LastSays(i, z) ==
    Says(wire[i], z) /\ \A j \in 1..Len(wire) : j > i => ~Says(wire[j], z)

\* The last word about a zone, on the wire or in the state, is the truth.
Followed(z) ==
    /\ \A i \in 1..Len(wire) : LastSays(i, z) => wire[i].zones[z] = panel[z]
    /\ Silent(z) => Ready(state) /\ state.zones[z] = panel[z]

\* On an open connection of the coordinator's every zone is followed from the
\* panel's snapshot on; before it there is neither a snapshot on the wire nor
\* a state that a delta could be applied to.
WireFollows ==
    /\ pc = "connect" /\ conn # NoConn => ~synced /\ wire = <<>>
    /\ Open(client) /\ synced => \A z \in Zone : Followed(z)
    /\ Open(client) /\ ~synced =>
         ~Ready(state) /\ \A i \in 1..Len(wire) : wire[i].t # "snapshot"

\* A message added to the wire keeps a zone followed if it says the truth
\* about that zone, or says nothing and the zone has not moved.
LEMMA AppendFollowed ==
    ASSUME TypeOK, NEW z \in Zone, NEW m \in Message,
           wire' = Append(wire, m), state' = state,
           Says(m, z) => m.zones[z] = panel'[z],
           ~Says(m, z) => Followed(z) /\ panel'[z] = panel[z]
    PROVE  Followed(z)'
<1>1. /\ Len(wire') = Len(wire) + 1 /\ Len(wire) \in Nat
      /\ wire'[Len(wire) + 1] = m
      /\ \A i \in 1..Len(wire) : wire'[i] = wire[i]
  BY DEF TypeOK
<1>2. CASE Says(m, z)
  <2>1. ~Silent(z)'
    BY <1>1, <1>2 DEF Silent, Says
  <2>2. ASSUME NEW i \in 1..Len(wire'), LastSays(i, z)' PROVE wire'[i].zones[z] = panel'[z]
    <3>1. i = Len(wire) + 1
      BY <1>1, <1>2, <2>2 DEF LastSays, Says
    <3> QED
      BY <1>1, <1>2, <3>1
  <2> QED
    BY <2>1, <2>2 DEF Followed
<1>3. CASE ~Says(m, z)
  <2>1. Silent(z)' => Silent(z)
    BY <1>1 DEF Silent, Says
  <2>2. ASSUME NEW i \in 1..Len(wire'), LastSays(i, z)' PROVE wire'[i].zones[z] = panel'[z]
    <3>1. i \in 1..Len(wire) /\ LastSays(i, z)
      BY <1>1, <1>3, <2>2 DEF LastSays, Says
    <3> QED
      BY <1>1, <1>3, <3>1 DEF Followed
  <2> QED
    BY <1>3, <2>1, <2>2 DEF Followed, Ready
<1> QED
  BY <1>2, <1>3

\* A step that leaves the connection, the wire, the state and the panel alone.
LEMMA SameFollowed ==
    ASSUME UNCHANGED <<wire, state, panel>>, NEW z
    PROVE  Followed(z) => Followed(z)'
  BY DEF Followed, Silent, LastSays, Says, Ready

\* A message read keeps every zone followed: it was applied.
LEMMA ReceiveFollows ==
    ASSUME IInv, WireFollows, Receive
    PROVE  WireFollows'
<1> DEFINE m == Head(wire)
<1>1. /\ pc \in {"resync", "listen"} /\ pc' # "connect" /\ conn = client /\ conn # NoConn
      /\ client' = client /\ sock' = sock /\ synced' = synced /\ panel' = panel
      /\ state' = Applied(state, m) /\ ~Refused(state, m)
  BY DEF IInv, Held, Receive, Reads
<1>2. /\ wire # <<>> /\ wire \in Seq(Message) /\ wire' = Tail(wire)
  BY DEF IInv, TypeOK, Receive, Reads
<1>3. /\ Len(wire) \in Nat \ {0} /\ Len(wire') = Len(wire) - 1
      /\ \A i \in 1..Len(wire') : wire'[i] = wire[i + 1]
      /\ m = wire[1] /\ m \in Message
  BY <1>2
<1>4. state \in PanelStates
  BY DEF IInv, TypeOK
<1>5. ASSUME Open(client), ~synced
      PROVE  ~Ready(state') /\ \A i \in 1..Len(wire') : wire'[i].t # "snapshot"
  <2>1. ~Ready(state) /\ \A i \in 1..Len(wire) : wire[i].t # "snapshot"
    BY <1>5 DEF WireFollows
  <2>2. m.t # "snapshot" /\ m.t # "delta"
    BY <1>1, <1>3, <2>1 DEF Refused
  <2>3. state' = state
    BY <1>1, <2>2 DEF Applied
  <2> QED
    BY <1>3, <2>1, <2>3
<1>6. ASSUME Open(client), synced, NEW z \in Zone
      PROVE  Followed(z)'
  <2>1. Followed(z)
    BY <1>6 DEF WireFollows
  <2>2. ASSUME NEW i \in 1..Len(wire'), LastSays(i, z)' PROVE wire'[i].zones[z] = panel'[z]
    <3>1. i + 1 \in 1..Len(wire) /\ wire'[i] = wire[i + 1]
      BY <1>3
    <3>2. ASSUME NEW j \in 1..Len(wire), j > i + 1 PROVE ~Says(wire[j], z)
      <4>1. j - 1 \in 1..Len(wire') /\ j - 1 > i /\ wire'[j - 1] = wire[j]
        BY <1>3, <3>2
      <4> QED
        BY <2>2, <4>1 DEF LastSays, Says
    <3>3. LastSays(i + 1, z)
      BY <2>2, <3>1, <3>2 DEF LastSays, Says
    <3> QED
      BY <1>1, <2>1, <3>1, <3>3 DEF Followed
  <2>3. ASSUME Silent(z)' PROVE Ready(state') /\ state'.zones[z] = panel[z]
    <3>1. \A j \in 1..Len(wire) : j > 1 => ~Says(wire[j], z)
      <4> SUFFICES ASSUME NEW j \in 1..Len(wire), j > 1 PROVE ~Says(wire[j], z)
        OBVIOUS
      <4>1. j - 1 \in 1..Len(wire') /\ wire'[j - 1] = wire[j]
        BY <1>3
      <4> QED
        BY <2>3, <4>1 DEF Silent, Says
    <3>2. CASE Says(m, z)
      <4>1. m.zones[z] = panel[z]
        BY <1>3, <2>1, <3>1, <3>2 DEF Followed, LastSays
      <4>2. CASE m.t = "snapshot"
        BY <1>1, <4>1, <4>2 DEF Applied, Ready
      <4>3. CASE m.t = "delta"
        BY <1>1, <1>4, <3>2, <4>1, <4>3 DEF Applied, Ready, Refused, Merge, Says, PanelStates
      <4> QED
        BY <3>2, <4>2, <4>3 DEF Says
    <3>3. CASE ~Says(m, z)
      <4>1. Silent(z)
        BY <1>3, <3>1, <3>3 DEF Silent
      <4>2. Ready(state) /\ state.zones[z] = panel[z]
        BY <2>1, <4>1 DEF Followed
      <4> QED
        BY <1>1, <1>4, <3>3, <4>2 DEF Applied, Ready, Merge, Says, PanelStates
    <3> QED
      BY <3>2, <3>3
  <2> QED
    BY <1>1, <2>2, <2>3 DEF Followed
<1> QED
  BY <1>1, <1>5, <1>6 DEF WireFollows, Open

\* What the panel sends, and what changes there, keeps every zone followed.
LEMMA PanelFollows ==
    ASSUME LinkAssumption, IInv, WireFollows, Panel
    PROVE  WireFollows'
<1> USE DEF IInv
<1>1. UNCHANGED codeVars
  BY DEF Panel, PanelSnapshot, PanelReports, PanelReconfigured, PanelChatters
<1>2. pc = "connect" => ~Open(client)
  BY DEF Held, Open
<1>3. ASSUME ~Open(client) PROVE WireFollows'
  <2>1. wire' = wire /\ synced' = synced
    BY <1>3 DEF Panel, PanelSnapshot, PanelReports, PanelReconfigured, PanelChatters, PanelSends
  <2> QED
    BY <1>1, <1>3, <2>1 DEF WireFollows, codeVars, Open
<1>4. ASSUME Open(client) PROVE WireFollows'
  <2>1. CASE PanelSnapshot
    <3> DEFINE m == [t |-> "snapshot", zones |-> panel]
    <3>1. /\ m \in Message /\ m.t = "snapshot" /\ m.zones = panel /\ wire' = Append(wire, m)
          /\ synced' = TRUE /\ panel' = panel
      BY <2>1 DEF PanelSnapshot, PanelSends, TypeOK, Message, Kind
    <3> HIDE DEF m
    <3>2. \A z \in Zone : Followed(z)'
      BY <1>1, <3>1, AppendFollowed DEF Says, codeVars
    <3> QED
      BY <1>1, <1>2, <1>4, <3>1, <3>2 DEF WireFollows, codeVars
  <2>2. ASSUME NEW z \in Zone, NEW v \in Value, PanelReports(z, v) PROVE WireFollows'
    <3>1. CASE ~synced
      BY <1>1, <1>2, <1>4, <2>2, <3>1 DEF WireFollows, PanelReports, codeVars, Open, Ready
    <3>2. CASE synced
      <4> DEFINE m == [t |-> "delta", zones |-> [NoZones EXCEPT ![z] = v]]
      <4>1. /\ m \in Message /\ m.t = "delta" /\ m.zones[z] = v
            /\ \A y \in Zone : y # z => m.zones[y] = Absent
        BY DEF Message, Kind, NoZones, Zones
      <4>2. /\ wire' = Append(wire, m) /\ panel'[z] = v /\ synced' = synced
            /\ \A y \in Zone : y # z => panel'[y] = panel[y]
        BY <1>4, <2>2, <3>2 DEF PanelReports, PanelSends, TypeOK, Zones, Open
      <4> HIDE DEF m
      <4>3. ASSUME NEW y \in Zone PROVE Followed(y)'
        <5>1. Followed(y) /\ state' = state
          BY <1>1, <1>4, <3>2 DEF WireFollows, codeVars
        <5>2. Says(m, y) => m.zones[y] = panel'[y]
          BY <4>1, <4>2 DEF Says
        <5>3. ~Says(m, y) => panel'[y] = panel[y]
          BY <4>1, <4>2 DEF Says, LinkAssumption
        <5> QED
          BY <4>1, <4>2, <5>1, <5>2, <5>3, AppendFollowed
      <4> QED
        BY <1>1, <1>2, <1>4, <3>2, <4>2, <4>3 DEF WireFollows, codeVars
    <3> QED
      BY <3>1, <3>2 DEF TypeOK
  <2>3. ASSUME NEW z \in Zone, PanelReconfigured(z) PROVE WireFollows'
    <3>1. CASE ~synced
      BY <1>1, <1>2, <1>4, <2>3, <3>1 DEF WireFollows, PanelReconfigured, codeVars, Open, Ready
    <3>2. CASE synced
      <4> DEFINE m == [t |-> "snapshot", zones |-> panel']
      <4>1. panel' \in Zones
        BY <2>3 DEF PanelReconfigured, TypeOK, Zones
      <4>2. /\ m \in Message /\ m.t = "snapshot" /\ m.zones = panel'
            /\ wire' = Append(wire, m) /\ synced' = synced
        BY <1>4, <2>3, <3>2, <4>1 DEF PanelReconfigured, PanelSends, Message, Kind, Open
      <4>3. ASSUME NEW y \in Zone PROVE Followed(y)'
        <5>1. ~Silent(y)'
          BY <4>2 DEF Silent, Says, TypeOK
        <5>2. ASSUME NEW i \in 1..Len(wire'), LastSays(i, y)'
              PROVE  wire'[i].zones[y] = panel'[y]
          BY <4>2, <5>2 DEF LastSays, Says, TypeOK
        <5> QED
          BY <5>1, <5>2 DEF Followed
      <4> QED
        BY <1>1, <1>2, <1>4, <3>2, <4>2, <4>3 DEF WireFollows, codeVars
    <3> QED
      BY <3>1, <3>2 DEF TypeOK
  <2>4. ASSUME NEW t \in Kind, PanelChatters(t) PROVE WireFollows'
    <3> DEFINE m == [t |-> t, zones |-> IF t = "delta" THEN panel ELSE NoZones]
    <3>1. /\ m \in Message /\ m.t = t /\ t # "snapshot"
          /\ wire' = Append(wire, m) /\ UNCHANGED <<panel, synced>>
      BY <2>4 DEF PanelChatters, PanelSends, Message, Kind, TypeOK, Zones, NoZones
    <3>2. t = "delta" => ~synced
      BY <2>4 DEF PanelChatters
    <3> HIDE DEF m
    <3>3. CASE synced
      <4>1. \A z \in Zone : Followed(z)'
        BY <1>1, <1>4, <3>1, <3>2, <3>3, AppendFollowed DEF Says, codeVars, WireFollows
      <4> QED
        BY <1>1, <1>2, <1>4, <3>1, <3>3, <4>1 DEF WireFollows, codeVars
    <3>4. CASE ~synced
      <4>1. \A i \in 1..Len(wire') : wire'[i].t # "snapshot"
        BY <1>4, <3>1, <3>4 DEF WireFollows, TypeOK
      <4> QED
        BY <1>1, <1>2, <1>4, <3>1, <3>4, <4>1 DEF WireFollows, codeVars, Open, Ready
    <3> QED
      BY <3>3, <3>4 DEF TypeOK
  <2> QED
    BY <2>1, <2>2, <2>3, <2>4 DEF Panel
<1> QED
  BY <1>3, <1>4

LEMMA StepFollows ==
    ASSUME LinkAssumption, IInv, WireFollows, [Next]_vars
    PROVE  WireFollows'
<1> USE DEF IInv
<1>1. CASE Receive
  BY <1>1, ReceiveFollows
<1>2. CASE Panel
  BY <1>2, PanelFollows
<1>3. ASSUME ~Open(client)', pc' # "connect" \/ conn' = NoConn PROVE WireFollows'
  BY <1>3 DEF WireFollows, Open
<1>4. ASSUME NEW g \in Goal, EndSession(g) PROVE WireFollows'
  BY <1>3, <1>4 DEF EndSession, Open
<1>5. CASE HelloAccepted
  <2>1. ~synced' /\ wire' = <<>> /\ ~Ready(state') /\ pc' = "resync"
    BY <1>5 DEF HelloAccepted, WireFollows, FreshState, Ready, panelVars
  <2> QED
    BY <2>1 DEF WireFollows, Ready
<1>6. CASE \/ ReceiveRefused \/ ReceiveOsError \/ LinkDrops \/ NoticesClosed
           \/ ResyncTimesOut \/ SetupCancelled \/ \E g \in Goal : ConnectFails(g)
  BY <1>4, <1>6 DEF ReceiveRefused, ReceiveOsError, LinkDrops, NoticesClosed, ResyncTimesOut,
                    SetupCancelled, Cancelled, ConnectFails, Goal
<1>7. CASE PushDone
  BY <1>7, SameFollowed DEF PushDone, WireFollows, panelVars, Open, Ready
<1>8. CASE OwnSendFails \/ Others
  <2>1. /\ client' = client /\ pc' = pc /\ pc # "connect" /\ client \in Conn
        /\ sock' = SockAfterClose(client)
    <3>1. CASE OwnSendFails
      BY <3>1 DEF OwnSendFails, Open, TypeOK
    <3>2. CASE Others
      BY <3>2 DEF Others, OtherSendFails, Open, TypeOK, Held
    <3> QED
      BY <1>8, <3>1, <3>2
  <2>2. ~Open(client)'
    BY <2>1, CloseLemma DEF Open
  <2> QED
    BY <1>3, <2>1, <2>2
<1>9. CASE BackoffOver \/ AfterClose \/ SetUp \/ Unloaded
  <2>1. client' = NoConn /\ (pc' # "connect" \/ conn' = NoConn)
    BY <1>9 DEF BackoffOver, AfterClose, SetUp, Unloaded, Held, EntryFollows
  <2> QED
    BY <1>3, <2>1 DEF Open
<1>10. CASE \E c \in Conn : SocketOpens(c)
  <2>1. client' = NoConn /\ ~synced' /\ wire' = <<>>
    BY <1>10 DEF SocketOpens, Held
  <2> QED
    BY <2>1 DEF WireFollows, Open
<1>11. CASE Unload
  <2>1. CASE pc = "stopped"
    BY <1>3, <1>11, <2>1 DEF Unload, Held, Open, panelVars
  <2>2. CASE pc # "stopped"
    BY <1>4, <1>11, <2>2 DEF Unload, Cancelled, Goal
  <2> QED
    BY <2>1, <2>2
<1>12. CASE Transport
  <2>1. PICK c \in Conn : Flushed(c)
    BY <1>12 DEF Transport, Abort
  <2>2. /\ UNCHANGED <<pc, conn, client, state, panel, synced, wire>>
        /\ Open(client)' => Open(client)
    BY <2>1 DEF Flushed, Open, TypeOK, panelVars
  <2> QED
    BY <2>2, SameFollowed DEF WireFollows, Ready
<1>13. CASE UNCHANGED vars
  BY <1>13, SameFollowed DEF vars, WireFollows, Open, Ready
<1> QED
  BY <1>1, <1>2, <1>5, <1>6, <1>7, <1>8, <1>9, <1>10, <1>11, <1>12, <1>13
  DEF Next, Owner, HomeAssistant

\* With nothing on its way, what the entities show is the panel as it is: the
\* snapshot and every later change were applied, in order, to one state, and
\* none that belongs to another connection (PanelState.apply, _async_handle).
THEOREM ShownCurrent == Spec => []ShownIsCurrent
<1>1. LinkAssumption
  BY LinkAssumption
<1>2. Init => WireFollows
  BY DEF Init, WireFollows, Open
<1>3. IInv /\ WireFollows /\ [Next]_vars => WireFollows'
  BY <1>1, StepFollows
<1>4. IInv /\ WireFollows => ShownIsCurrent
  <2> SUFFICES ASSUME IInv, WireFollows, entry = "loaded", ok, wire = <<>>, Open(client)
               PROVE  data.zones = panel
    BY DEF ShownIsCurrent
  <2>1. data = state /\ Ready(state) /\ state \in PanelStates /\ panel \in Zones
    BY DEF IInv, TypeOK, Held, Published, EntryFollows, Ready
  <2>2. \A z \in Zone : state.zones[z] = panel[z]
    BY <2>1 DEF WireFollows, Followed, Silent, IInv, TypeOK
  <2> QED
    BY <2>1, <2>2 DEF PanelStates, Zones
<1> QED
  BY <1>2, <1>3, <1>4, Invariance, PTL DEF Spec

------------------------------------------------------------------------------
(* The link implements Mirror                                              *)

\* A message received shows an update, or brings the entities back with the
\* snapshot of a connection they have not shown yet.
LEMMA ReceiveMirrored ==
    ASSUME IInv, Receive
    PROVE  Entities!Next \/ UNCHANGED Entities!vars
<1>1. pc \in {"resync", "listen"} /\ entry' = entry /\ conn \in Conn /\ conn # NoConn
  BY DEF IInv, TypeOK, Held, Receive, Reads
<1>2. /\ Head(wire) \in Message
      /\ state'.from = IF Head(wire).t = "snapshot" THEN conn ELSE state.from
  BY <1>1, AppliedLemma, LinkAssumption DEF IInv, TypeOK, Receive, Reads
<1>3. CASE entry # "loaded"
  BY <1>1, <1>3 DEF Entities!Next, Entities!Away
<1>4. CASE entry = "loaded" /\ ~Ready(state')
  BY <1>1, <1>4 DEF Receive, Entities!vars
<1>5. CASE entry = "loaded" /\ Ready(state')
  <2>1. data' = state' /\ ok' = TRUE
    BY <1>5 DEF Receive
  <2>2. CASE pc = "listen"
    BY <1>1, <1>2, <1>5, <2>1, <2>2 DEF IInv, Published, Entities!Next, Entities!Update
  <2>3. CASE pc = "resync"
    BY <1>1, <1>2, <1>5, <2>1, <2>3
    DEF IInv, Published, EntryFollows, Ready, TypeOK, Entities!Next, Entities!Resume
  <2> QED
    BY <1>1, <2>2, <2>3
<1> QED
  BY <1>3, <1>4, <1>5

\* The end of a session hides the entities, or leaves them hidden or away.
LEMMA EndSessionMirrored ==
    ASSUME IInv, NEW g \in Goal, EndSession(g), EntitiesTold, UNCHANGED entry
    PROVE  Entities!Next \/ UNCHANGED Entities!vars
  BY DEF IInv, TypeOK, EndSession, EntitiesTold, Entities!Next, Entities!Away,
         Entities!Hide, Entities!vars

LEMMA StepMirrored ==
    ASSUME IInv, Next
    PROVE  Entities!Next \/ UNCHANGED Entities!vars
<1>1. CASE Owner
  <2>1. CASE Receive
    BY <2>1, ReceiveMirrored
  <2>2. CASE \/ ReceiveRefused \/ ReceiveOsError \/ LinkDrops \/ NoticesClosed
             \/ ResyncTimesOut \/ \E g \in Goal : ConnectFails(g)
    <3>1. PICK g \in Goal : EntitiesTold /\ EndSession(g) /\ UNCHANGED entry
      BY <2>2 DEF ReceiveRefused, ReceiveOsError, LinkDrops, NoticesClosed, ResyncTimesOut,
                  ConnectFails, Goal
    <3> QED
      BY <3>1, EndSessionMirrored
  <2>3. CASE PushDone
    <3>1. ok /\ entry' = "loaded" /\ UNCHANGED <<data, ok>>
      BY <2>3 DEF IInv, Published, PushDone
    <3> QED
      BY <3>1 DEF Entities!Next, Entities!Arrive, Entities!vars
  <2>4. CASE AfterClose
    BY <2>4 DEF AfterClose, Entities!Next, Entities!Away, Entities!vars
  <2>5. CASE HelloAccepted \/ OwnSendFails \/ BackoffOver \/ \E c \in Conn : SocketOpens(c)
    BY <2>5 DEF HelloAccepted, OwnSendFails, BackoffOver, SocketOpens, Entities!vars
  <2> QED
    BY <1>1, <2>1, <2>2, <2>3, <2>4, <2>5 DEF Owner
<1>2. CASE HomeAssistant
  BY <1>2 DEF HomeAssistant, SetUp, Unload, Unloaded, SetupCancelled, Cancelled, EndSession,
              Entities!Next, Entities!Away, Entities!vars
<1>3. CASE Transport \/ Others \/ Panel
  <2>1. UNCHANGED <<entry, data, ok>>
    <3>1. CASE Transport
      BY <3>1 DEF Transport, Flushed, Abort
    <3>2. CASE Others
      BY <3>2 DEF Others, OtherSendFails
    <3>3. CASE Panel
      BY <3>3 DEF Panel, PanelSnapshot, PanelReports, PanelReconfigured, PanelChatters,
                  codeVars
    <3> QED
      BY <1>3, <3>1, <3>2, <3>3
  <2> QED
    BY <2>1 DEF Entities!vars
<1> QED
  BY <1>1, <1>2, <1>3 DEF Next

\* The coordinator keeps its promise to the entities, for any sockets, zones
\* and values: shown and maintained, or hidden and frozen (HA12).
THEOREM LinkImplementsMirror == Spec => ImplementsMirror
<1>1. Init => Entities!Init
  BY DEF Init, Entities!Init
<1>2. IInv /\ [Next]_vars => [Entities!Next]_(Entities!vars)
  <2>1. UNCHANGED vars => UNCHANGED Entities!vars
    BY DEF vars, Entities!vars
  <2> QED
    BY <2>1, StepMirrored
<1> QED
  BY <1>1, <1>2, Invariance, PTL DEF Spec, ImplementsMirror, Entities!Spec
==============================================================================
