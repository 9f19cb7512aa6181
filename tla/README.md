# Formal models of the RoboAlarms panel integration

TLA+ specifications of the Home Assistant integration in
`src/custom_components/roboalarms/`, the TLC configurations that check them and
the proofs TLAPS checks. Paths below without a directory are in that directory;
`C` stands for `coordinator.py`, `A` for `aiopanel.py`, `F` for `config_flow.py`.

    tlc -workers 2 -config MCPanelLink.cfg MCPanelLink.tla      # model-check
    tlapm PanelLinkProofs.tla                                   # check proofs

## 1. Inventory

An alarm panel speaks a small protocol of JSON frames over mutual TLS and has
**one connection slot**. The integration keeps one connection per config entry.
Everything runs in one asyncio loop: tasks interleave only at an `await`, but
there are many of them and most of them end in a send over the one connection.

| part | state it keeps | operations | meets |
|---|---|---|---|
| link lifecycle (C:339-625, `__init__.py`) | `_client`, `coordinator.data`, `last_update_success`, the task `_async_run` | setup, connect, resynchronise, listen, reconnect, end a session, unload | every other part: its end of session cancels, tells and closes |
| panel state (A:142-366) | zones, partitions, troubles, status, Z-Wave list | `apply`, `apply_status`, `apply_zwave` | filled by the link task, read by entities |
| state feed (C:629-890) | `_panel_watch`, `_watched`, `_watch_seen`, `_unwatch`, `_outbox`, `_sent`, `_draining` | watch lists, catalog, state pushes, subscription, options | link task, state-change jobs, options listeners |
| sending (A:510-603, 702-719) | `_writer`, `_send_lock`, `_waiting`, `_broken` | `connect`, `send`, `close` | every sender |
| receiving (A:438-507, 605-645) | `_buf`, `_length` | `read`, `recv` | link task, pairing |
| device actions (C:892-1007) | `_calls`, `_answered` | start, act, answer, done callback | link task, one task per action, options |
| commands (C:1009-1057) | `_pending` | request, result | callers, link task, end of session |
| config flow (F) | `_client`, `_pair_task`, unique id; the entry | check, pair, pair again, reconfigure, removal | the entry's own link: the same slot |
| entities (`entity.py`, `binary_sensor.py`, `switch.py`, ...) | known zones, partitions, Z-Wave keys; the registry; the chime's lock | add, remove, show, command | coordinator listeners |
| services, diagnostics, constants, `protocol/` (a copy of `aiopanel.py`), `scripts/` | none | | |

What each must get right:

* **link** - what shows as available is maintained, current and of one
  connection; no socket is left on the slot; every wait ends; the task follows
  the panel as long as the entry is loaded.
* **state feed** - everything owed is sent, the newest state wins, a new
  connection restates everything, the options rule what leaves.
* **sending** - no caller hangs, what piles up is bounded, a send that gave up
  ends the connection.
* **receiving** - messages whole, in order, at the right boundary; a torn frame
  is not silence.
* **device actions** - at most once per id, one answer, nothing survives its
  session.
* **commands** - each caller gets its own answer or an error.
* **keepalive** - a live panel is never given up, a silent one is in time, and
  this side is never silent itself.
* **entities** - they and the registry's devices are the panel's while it is
  followed; what a person arranged goes only with its zone or by the person; a
  light keeps its level; the chime's toggle flips the way it was asked.
* **config flow** - pin and id belong together; the slot is let go of; the
  entry unloaded for a probe comes back.

The hard behaviours: cancellation at any await (deadlines, unload, a closed
dialog), a panel that stops reading, a panel that never resynchronises,
messages in any order around the resynchronisation, a late answer meeting a
deadline and the end of the session in one turn of the loop, options that
change under pushes already planned. `PROJECT.json` lists each hazard at its line.

## 2. Modules

| module | models | abstract data |
|---|---|---|
| `PanelLink` | link lifecycle and the fold of snapshots and deltas | zones with a value; other messages are one kind, refused ones another |
| `StateFeed` | what the panel is told of Home Assistant | one value per entity |
| `PanelClient` | `send`, `close`, the transport's flow control | frames are counted |
| `FrameReader` | framing and `recv`; implements `MessageChannel` | a byte is its place in what was sent |
| `MessageChannel` | what receiving promises: the panel's messages, once, in order, an end | - |
| `DeviceCalls` | `call` messages, their tasks and answers | a service call is "acting" |
| `Commands` | `_async_request`, results, the session's end | a verdict of three |
| `ConfigFlow` | the flow and the entry it makes, repairs or moves | panels are identities |
| `Mirror` | what the link promises the entities: shown is one generation's, or it says that it is not; implemented by `PanelLink` | - |
| `Keepalive` | the clock of `_async_listen` | time in units; a message is none, in part or whole |
| `Chime` | `RoboAlarmsChime` and the panel's toggle | the chime alone of a partition |
| `Entities` | zones', partitions' and Z-Wave listeners, the registry, removal by a person, lights | a zone is its name, an output its level and whether it is online |
| `MC*` | instances for TLC | |
| `*Proofs` (8) | theorems; `FrontendProofs` has those of `Chime` and `ConfigFlow`, `PanelClientProofs` those of both halves of `PanelClient` | every value of the constants |

**How state and actions correspond to the code.** Variables carry the code's
names where they exist (`_outbox` is `outbox`). An action is what runs from one
await to the next, with everything it calls: `EndSession` in `PanelLink` is the
synchronous part of `_async_end_session` up to the close it awaits, and
`AfterClose` what follows that close, chosen by the variable `goal` (back off,
ask for a new pairing, stop, or be cancelled). The coroutine that owns the
connection is one process with a program counter `pc`. In `StateFeed` a task's
remaining steps are a sequence `todo` and `cpu` is the task that runs: only a
send lets another one in, as in the code. The options listener exists
(`listening`) from the end of `async_start` (`Returns`) until the unload is over
(`StopsListening`); options that change on a connection while it does not exist
are `OptionsChangeUnheard`, and `unheard` remembers that until options are heard or
the connection ends. A message of the entities in `Long` may not fit into a
frame, in which case `encode_frame` raises before anything is awaited:
`DrainTooLong` and `SendTooLong` give up that state, or the rest of that catalog,
and the connection goes on. `refused` remembers such states, and `listing` whose
catalog was begun last and whether it was cut short. In `DeviceCalls` the done callback is
an action of its own, because asyncio runs it a turn later. In `ConfigFlow` the
dialog (`Removed`) and the request (`StepCancelled`) end separately, because
removing a flow does not cancel its step; the unload that a reconfigure waits for
is a place of its own (`unload`), before the `try` that restores the entry. In `Keepalive` an action is a wait that ends, and
`Tick` lets time pass while the loop waits; the moments the code stores are kept
as ages. In `Entities` an update of the coordinator (`Updates`) is one action that
runs every listener, as `async_update_listeners` does without an await between
them; the registry survives `Unload`, the known sets and the entities do not.
Definitions marked `(slip)` are
plausible mistakes, used to show that a property notices them; the
specifications do not use them. `Chime` and `FrameReader` share a proof module
with another module, so their standard names carry a prefix (`ChimeSpec`,
`ReaderSpec`, ...).

**How the modules divide the system.** They meet at two operations: a send that
may fail, and the end of a session. `PanelLink` has both, with the other tasks'
failing sends as `OtherSendFails`; each other module has the end of its session
as one action (`SessionEnds`, `Close`) with the part of `_async_end_session`
that concerns it. `PanelClient` supports what they assume of a send: it ends,
with success or CannotConnect, and callers are served in order.
`FrameReader`'s `MessageChannel` supports the `wire` of `PanelLink` and the
answers of `Commands`. `Keepalive` takes from `PanelLink` that a dropped link
ends its session and says when it is dropped; `Chime` takes from `Commands` that a
toggle is answered, refused or given up, and `Entities` takes from `Mirror` that
what the coordinator publishes is one generation at a time.

## 3. Runs

| run | instance | what it shows |
|---|---|---|
| `panel_link` | 2 sockets, 2 zones, 2 values, 2 unread messages | available is maintained (`AvailableIsMaintained`), no socket left open (`SocketsOwned`), shown is current (`ShownIsCurrent`), the link is a mirror (`ImplementsMirror`, refinement); `ResyncEnds`, `Retries`, `UnloadEnds` |
| `state_feed` | 2 entities, 2 values (symmetric), 3 options, 2 watch lists, pages of 1, 1 options listener, 1 entity whose messages may be too long | `OutboxIsDrained`, `SentIsTold`, `EverythingRestated`, `ToldIsCurrent`, `FollowsOptions`, `CatalogCovers`, and its types |
| `panel_client` | 3 senders, 2 may wait, 2 cancellable | `LockIsExact`, `PileIsBounded`, `SendsEnd`, `GivingUpCloses` |
| `device_calls` | 3 ids, 3 tasks, 2 entities, 2 at once, 2 answers remembered | `AtMostOnce`, `AnswersAgree`, `WorkIsTracked`, `NoCallForgotten` |
| `frame_reader` | frames of 0 to 3 bytes, valid and not, 3 frames, a header of 2 bytes, 1 cancellation | `IsChannel` (refinement), `TornFrameEnds` |
| `commands` | 3 commands, symmetric | `OwnAnswer`, `CanBeWoken` |
| `config_flow` | 2 panels, 2 connections | `PinsTheOneChecked`, `FlowLetsGo`, `SetsUpAlone`, `EntryComesBack`, and its types |
| `keepalive` | units of 5 s: a round of 6, 3 rounds, stall and send 2, handlers up to 12 | `LiveLinkKept`, `DeadLinkFound`, `PanelHearsUs` |
| `chime` | 2 requests, 2 updates unread | `FlipsAsAsked`, `DoneIsAsked`, `RequestsEnd` |
| `entities` | 2 zones with 2 names, 1 partition, 1 dimmer at 0, 30 or 100, brightness 1, 77 or 254 | `Mirrored`, `LightKeepsLevel`, `PlacedUntilGone` |
| `state_feed_converge` | as `state_feed` | violation, see below |
| `panel_link_stops` | 1 zone, 1 unread message | violation |

**Why the bounds are enough.** Two sockets: one still closing while the next is
opened, and no third can be, as reconnecting waits for the old one (the backoff
is not shorter than the close timeout). Two zones: a delta carries one and not
the other, or a zone vanishes in a snapshot. Two unread messages: a pair in the
wrong order. Pages of one entity: a catalog of two pages with an await between. One options
listener: it meets the link task and the drain in every order, and with it two
catalogs and two pushes cross. One entity whose messages may be too long: a
state or a page is given up while the other goes out. The two values are told
apart by nothing but being different, so they are symmetric.
Three senders: one draining, one queued, one turned away. Three ids and tasks:
the limit, a refusal, and a task of the last session still there; the third
answer makes `_answered` forget the first. Frames of 0 and 3
with a limit of 2: both sides of the length check; 2 header bytes: a header cut
in two. Three commands: one answered, one given up, one told by the end of the
session. The keepalive's instance is the code's own
proportions (30 s, 3 rounds, 10 s, 10 s) in units of 5 s: an event in the unit of
its deadline counts as late, and handlers whose sends take 12 units together are
exactly the two rounds up to which a live link is safe. Two chime requests: one
holds the lock and one waits behind it; three pass too, in five minutes. Two zones
of two names: one is renamed or removed while the other stays; 30 is the level
whose brightness rounds from a half (76.5), and 1, 77 and 254 are the
brightnesses beside the edges of a level.
`WireMax`, `DeltasMax`, `FramesMax`, `CancelsMax`, `AbandonMax` and `HOLD_MAX` are
the only bounds that the code does not have; they cap the panel's or the
caller's persistence, and for `HOLD_MAX` the number of sends in one handler. `CHECK_DEADLOCK FALSE` stands where the system may stop:
`FrameReader` when the link is over, `Commands` when every command is done.

**Fairness.** Only what a deadline or the loop guarantees: `_CONNECT_TIMEOUT`,
`_FIRST_SNAPSHOT_S`, `_SEND_TIMEOUT`, `_CLOSE_TIMEOUT` (`Abort`, `SocketGone`),
`_FRAME_STALL`, the backoff, the chime's own timeout, and that a ready task runs.
Nothing is assumed of the panel, the network or the person: no fairness on
their actions.

## 4. Where the code and its comments part

Two are listed as runs (`PROJECT.json`, findings, quotes the lines):

* `WatchedConverge` - a state that returns to the last one sent while a newer
  one drains is skipped; the panel keeps the newer one (C:872).
* `StopsOnlyForReauth` - an OSError outside ConnectionError ends the listening
  task while the entry stays loaded (C:478).

The others have a property and a configuration of their own, for
`tlc -config <cfg> <module>`; TLC finds each violated:

* `MCStateFeedRevoked.cfg`: `NothingRevokedLeaves` - pushes planned before an
  options change still go out (C:864).
* `MCStateFeedUnheard.cfg`: `RevokedIsDropped` - the options listener is
  registered only after the first resynchronisation and everything it sends
  (C:404-413); options that change before are heard by nobody, so an entity they
  no longer allow stays on the watch list of that connection, where C:793 has it
  "stop being followed at once" and C:884-887 filters the list again. The same
  gap leaves an old catalog on the panel and a newly controllable entity untold:
  what `FollowsOptions`, `EverythingRestated`, `ToldIsCurrent` and `CatalogCovers`
  say of the options is of those that were heard (`~unheard`).
* `MCConfigFlowHalfway.cfg`: `CancelledRestores` - a reconfigure is cancelled
  inside the unload it waits for (F:224), which is before the `try` (F:227) whose
  `finally` restores the entry; F:211 says "restore the original entry if
  validation fails or is cancelled". `EntryComesBack` holds once the unload is over.
* `MCFrameReaderTimeout.cfg`: `TimeoutMeansQuiet` - a stream that failed with
  ETIMEDOUT reads as silence, at once and again (A:479, 635-640; C:565-568).
* `MCConfigFlowAbandoned.cfg`: `AbandonedFlowLetsGo` - a flow removed while its
  pairing step connects keeps the panel's slot (F:127-137).
* `MCKeepaliveHeld.cfg`: `LiveLinkKept` with handlers of three rounds - the loop
  judges the panel by when it last read, so a handler whose sends take longer
  than two rounds may find a panel quiet that spoke meanwhile. The theorem's
  assumption (`HoldShort`) is exactly what this run lacks.
* `MCEntitiesGone.cfg`: `ZoneGoneIsRemoved` - the zone listener knows only the
  zones of this load (`known` starts empty, `binary_sensor.py:57`), so a zone
  that went while the entry was not loaded keeps its device, where the module's
  comment (`binary_sensor.py:3-5`) has it removed.
* `MCEntitiesRelisted.cfg`: `ListedHasEntity` - a Z-Wave output that a person
  deleted and the panel lists again has no entity until the entry is reloaded:
  the set of known keys never shrinks (`entity.py:173`).
* `MCStateFeedControl.cfg`: `ControllableFollowed` - controllable entities are
  not followed until a watch list has come (C:657-669 says they are).
* `MCStateFeedCatalog.cfg`: `CatalogIsWhole` - two catalogs interleave by page
  (C:717).
* `MCStateFeedUnload.cfg`: `SubscriptionEnds` - an options listener that
  resumes after unload subscribes again (C:440).
* `MCPanelLinkClosing.cfg`: `ClosingIsAttended` - a cancelled `close()` aborts
  nothing (A:705-707).
* `MCPanelClientPile.cfg`: `OneFrameAtATime` - a command's deadline cancels
  its drain and lets the next frame into the paused transport (A:565);
  `PileIsBounded` is what holds.

## 5. Proofs

TLC checks the instances above; TLAPS proves, for every value of the constants:

* `PanelLinkProofs` - `TypeOK`, `AvailableIsMaintained`, `SocketsOwned`,
  `ShownIsCurrent`, `GenerationsSeparated`, and `ImplementsMirror`. None is inductive: that an
  available entity is maintained rests on what every place of the owner (`pc`)
  says of the client, the sockets and the published state, and on who may be
  closing what. `IInv` states that place by place; each group of actions keeps it
  by a lemma. That every step of the link is a step or a stutter of `Mirror`
  uses the same invariant: what is available is of the current connection, so
  what is shown anew is of a new one. `ShownIsCurrent` is about an empty wire;
  what is inductive speaks of every wire (`WireFollows`): for each zone the last
  message that says something of it says the truth, or none does and the state
  already holds it. A snapshot, a delta and their folds keep that by lemmas about
  one zone each.
* `PanelClientProofs` - `TypeOK`, `LockIsExact`, `PileIsBounded`, and
  `OneFrameAtATime` when nobody can be cancelled. The queue is handled by three
  lemmas (a caller joins, is served, leaves from anywhere in it). The pile is
  bounded because, with the lock free and the connection good, everything in a
  paused transport is of a cancelled sender (`Pile`): a deadline or a loss
  finishes the connection instead.
  Its second half proves that `FrameReader` implements `MessageChannel`
  (`IsChannel`) for any frames, header and limit, and `ReaderTypeOK`. What arrived
  or will (`buf \o wire`) is a run of consecutive bytes of what was sent
  (`Stream`) that begins where the reader stands: at the next frame's first byte,
  or at its payload when the length has been read (`Aligned`). While the
  connection is up it is also whole to the end of the last frame (`Complete`), so
  the end of the stream is clean exactly between frames. A cancelled or timed out
  read changes neither the bytes nor the length, which is what `IsChannel` needs
  of it.
* `StateFeedProofs` - `TypeOK` and the six invariants of the run. `IInv` says
  what a coroutine's remaining steps look like and where it waits (`Tasks`,
  `Queued`), what exists per connection (`PerLink`), and that an outbox is never
  left without its drain (`OutboxOnce`). The other five are each proved over it,
  as each property of a settled feed has to be said of one that is not:
  `Remembers` (the message being written is what the panel hears, all else
  remembered is what it heard last) for `SentIsTold`; `Filters` (somebody is about
  to filter the watch list, or it is filtered) for `FollowsOptions`; `Restates`
  (told, waiting, or named in somebody's remaining steps) for
  `EverythingRestated`; `Keeps` (what the panel heard or is about to hear last is
  how it is, or the entity is owed) for `ToldIsCurrent`; `Lists` (each catalogued
  entity is on a page to come of a catalog that counts, or waits or has been heard
  behind the last page 0) for `CatalogCovers`. A catalog counts if its page 0 is to
  come or it was begun last (`Current`): the pages of an older one may be given up
  without the panel missing anything. What was too long or not heard is excepted in
  each of them as it is in the property; that no more than that is, rests on
  `refused` being a part of `missed` (`StepRefused`) and on `Unmade`: before the
  first connection there is neither a coroutine nor a subscription.
* `DeviceCallsProofs` - `TypeOK`, `AtMostOnce`, `AnswersAgree`,
  `WorkIsTracked`, `ActionsBounded`, `NoCallForgotten`. The invariant is a ledger: how often an id
  has acted and what it was given is a function of whether it is remembered and
  where its task is; with it go the order of `_answered` (each remembered id
  once, which is what evicts the oldest) and the tracking of tasks.
  `RememberLemma` says what `_remember` does to the ledger at the limit and
  below it. `ActionsBounded` follows from the number of tracked ids, into which
  the tasks at work map one to one.
* `CommandsProofs` - `TypeOK`, `OwnAnswer`, `CanBeWoken`,
  `NothingLeftPending`, `FutureIsFinal`. `CanBeWoken` is strengthened to
  requests that are still sending (`Wakeable`), `OwnAnswer` to the futures.

* `KeepaliveProofs` - `TypeOK`, `PanelHearsUs` for any lengths the module's
  assumption allows, and `LiveLinkKept` and `DeadLinkFound` under `HoldShort`:
  handlers take at most QUIET_LIMIT - 1 rounds. The invariant relates the ages to
  each other and to what is left of the wait under way.
* `FrontendProofs` - of `Chime`: `ChimeTypeOK`, `FlipsAsAsked`, `DoneIsAsked`, for
  any number of requests: only the holder of the lock has a toggle out or is being
  confirmed, and what the panel last said, is still to arrive and is shown are one
  story. Of `ConfigFlow`: `TypeOK`, `PinsTheOneChecked`, `FlowLetsGo`,
  `SetsUpAlone`. Between its awaits a step keeps in local variables what it is
  for, and the dialog may move on meanwhile: `InStep` ties the step to the page
  and the flow it began from, `Closing` says that what is being closed is all
  there is left to let go of, `Checked` that whoever is being paired with is the
  panel that the flow is about.
* `EntitiesProofs` - `TypeOK`, `Mirrored`, `LightKeepsLevel`, `PlacedUntilGone`,
  and `ShownLevelIsKept`: each level from 1 to 100 survives its brightness.

Assumptions: the named `ASSUME`s of the modules (limits are positive, the null
value is none of the others), and `HoldShort` and `Cancellable = {}` where a
theorem names them. Proved but in no run: the `TypeOK`s of the modules other than
`StateFeed` and `ConfigFlow`, `GenerationsSeparated` (`Mirror` implies it),
`ActionsBounded`, `NothingLeftPending`, `FutureIsFinal`.

Every safety property of a passing run is stated by a theorem. Only
model-checked: what must eventually happen (`ResyncEnds`, `Retries`,
`UnloadEnds`, `SendsEnd`, `GivingUpCloses`, `TornFrameEnds`, `EntryComesBack`,
`RequestsEnd`), as fairness and ENABLED are out of the prover's reach.
`Filter` in `StateFeed` picks elements by their rank and `Without` in
`PanelClient` is a function: the library's `SelectSeq` is recursive and has no
theorem to cite.

## 6. Not modelled

* Time as a quantity, but in `Keepalive`: deadlines fire at any moment. The
  margin that keeps a stale `_async_link_failed` from closing the next connection
  (backoff and close timeout are both 5 s) is outside; the guards that stand for
  it say so.
* Validation of message fields (one refused kind), the service table and its
  data (C:105-327), catalog contents.
* The alarm panel, event, sensor and update entities, and the attributes of the
  binary sensors: views of `coordinator.data` with no state of their own; what
  they show of a partition or zone is a function of it. Events are relayed to
  the entity that asked, their fields unread.
* Services and diagnostics: stateless.
* In `Entities`, delays between the panel and the coordinator (`PanelLink` has
  them); troubles, `seq` and `status` in the panel's state.
* Pairing codes, certificates, TLS: cryptography.
* Home Assistant, asyncio and the panel: external, as nondeterministic as the
  code allows them to be. A connection nobody refers to may be closed by the
  interpreter at any time (`SocketGone` in `ConfigFlow`).
* The interpreter's own failures (memory), and two entries for one panel.

## 7. Plan

Done, in the order of importance: `PanelLink`, `StateFeed`, `PanelClient`,
`DeviceCalls`, `MessageChannel` and `FrameReader`, `Commands`, `ConfigFlow`; then
`Mirror` and the refinement to it, `Keepalive`, `Chime`, `Entities`; then the
proofs of every safety property that the passing runs check.

Next:

1. A composition of `Commands` and `PanelClient` in which the deadline of one
   cancels the drain of the other.
2. `PanelState` - snapshot and delta over all fields, refusal leaves no trace,
   against a reference fold.
3. A timed `PanelLink` for the stale `_async_link_failed` against the backoff.
4. Events: routing to entities that come and go.
5. Proofs: that `Keepalive`'s dropped link is `PanelLink`'s `LinkDrops`, and the
   safety half of the liveness properties (each wait has a deadline that will
   fire).
