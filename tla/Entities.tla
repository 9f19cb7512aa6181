------------------------------ MODULE Entities ------------------------------
(***************************************************************************)
(* What Home Assistant keeps of the panel: zones, partitions and Z-Wave    *)
(* outputs, as entities of this load of the entry and as devices of the    *)
(* registry, which outlives the load.  Every update of the coordinator     *)
(* runs the platforms' listeners; what the panel sends is handled at once  *)
(* (delays and generations are PanelLink's, commands' answers Commands').  *)
(***************************************************************************)
EXTENDS Integers

CONSTANTS
    Zone, Name,     \* what a zone's name may be, the default for none included
    Partition,
    Output,         \* Z-Wave outputs, as dimmers: keys of one kind
    Level,          \* the panel's levels that occur
    Brightness,     \* what a person picks; Home Assistant turns 0 into off
    Absent,         \* not in a dictionary; no entity; no device
    None            \* the code's None

Zones == [Zone -> Name \cup {Absent}]
Devices == [level : Level \cup {None}, online : BOOLEAN]
Outputs == [Output -> Devices \cup {Absent}]

ASSUME EntitiesAssumption ==
    /\ Level \subseteq 0..100 /\ Brightness \subseteq 1..255
    /\ Absent \notin Name \cup Devices \cup (0..100)
    /\ None \notin Outputs \cup (0..100) /\ None # Absent
    /\ Zone \cap Output = {}

VARIABLES
    panel,          \* the panel's zones by name, and its partitions
    loaded,         \* the entry is set up
    up,             \* last_update_success: the panel is connected and followed
    zones, partitions, zwave,               \* coordinator.data
    knownZones, knownPartitions, knownZwave,    \* the platforms' known sets
    named,          \* each zone entity's _device_name, Absent without it
    last,           \* each light's _last_level, Absent without it
    zoneDevices, zwaveDevices,              \* the registry's devices, zones' by name
    placed,         \* the devices a person has given an area or a name
    sent,           \* the zwave_set of this step: its level, and which are right
    deleted,        \* (ghost) outputs of this load that a person has deleted
    heard           \* (ghost) each output's last level above 0 since the load

dataVars == <<zones, partitions, zwave>>
zoneVars == <<knownZones, named, zoneDevices>>
zwaveVars == <<knownZwave, last, zwaveDevices, deleted, heard>>
vars == <<panel, loaded, up, dataVars, zoneVars, knownPartitions, zwaveVars, placed, sent>>

Panels == [zones : Zones, partitions : SUBSET Partition]
Present(f) == {x \in DOMAIN f : f[x] # Absent}
Every(S, value) == [x \in S |-> value]

TypeOK ==
    /\ panel \in Panels /\ loaded \in BOOLEAN /\ up \in BOOLEAN
    /\ zones \in Zones /\ partitions \in SUBSET Partition /\ zwave \in Outputs \cup {None}
    /\ knownZones \in SUBSET Zone /\ knownPartitions \in SUBSET Partition
    /\ knownZwave \in SUBSET Output
    /\ named \in Zones
    /\ last \in [Output -> (Level \ {0}) \cup {None, Absent}]
    /\ zoneDevices \in Zones /\ zwaveDevices \in SUBSET Output
    /\ placed \in SUBSET (Zone \cup Output)
    /\ sent \in [level : 0..100, right : SUBSET (0..100)] \cup {None}
    /\ deleted \in SUBSET Output
    /\ heard \in [Output -> (Level \ {0}) \cup {None}]

\* No entities, and nothing the entry holds.
Unloaded ==
    /\ loaded' = FALSE /\ up' = FALSE
    /\ zones' = Every(Zone, Absent) /\ partitions' = {} /\ zwave' = None
    /\ knownZones' = {} /\ knownPartitions' = {} /\ knownZwave' = {}
    /\ named' = Every(Zone, Absent) /\ last' = Every(Output, Absent)
    /\ deleted' = {} /\ heard' = Every(Output, None)

Init ==
    /\ panel \in Panels /\ loaded = FALSE /\ up = FALSE
    /\ zones = Every(Zone, Absent) /\ partitions = {} /\ zwave = None
    /\ knownZones = {} /\ knownPartitions = {} /\ knownZwave = {}
    /\ named = Every(Zone, Absent) /\ last = Every(Output, Absent)
    /\ deleted = {} /\ heard = Every(Output, None)
    /\ zoneDevices = Every(Zone, Absent) /\ zwaveDevices = {}
    /\ placed = {} /\ sent = None

------------------------------------------------------------------------------
(* An update's listeners.                                                   *)

\* The part of a message's objects that the state held takes.
Applied(whole, held, carried) ==
    [x \in DOMAIN held |-> IF carried[x] # Absent \/ whole THEN carried[x] ELSE held[x]]

\* (slip) A zone that goes stays known.
ForgottenNone(zs, removed) == zs
Forgotten(zs, removed) == zs \ removed

\* _sync_zones, then every zone entity's _async_reconcile_device; an entity
\* registers its device, under the name it finds, as it is added.
ZonesSynced ==
    LET now == Present(zones')
        removed == knownZones \ now
        new == now \ knownZones
        Renamed(z) == z \in now /\ named[z] # Absent /\ zones'[z] # named[z]
        After(held) == [z \in Zone |-> IF z \in removed THEN Absent
                                       ELSE IF z \in new \/ Renamed(z) THEN zones'[z]
                                       ELSE held[z]]
    IN /\ named' = After(named)
       /\ zoneDevices' = After(zoneDevices)
       /\ placed' = placed \ removed
       /\ knownZones' = Forgotten(knownZones, removed) \cup new

\* async_add_partition_entities' _sync: what is added stays.
PartitionsSynced == knownPartitions' = knownPartitions \cup partitions'

Listed(list) == IF list = None THEN {} ELSE Present(list)
Lit(list) == {k \in Listed(list) : list[k].level \notin {None, 0}}

\* (slip) _remember takes whatever level is known.
RemembersAny(k, level) ==
    IF k \in Listed(zwave') /\ zwave'[k].level # None THEN zwave'[k].level ELSE level
Remembers(k, level) == IF k \in Lit(zwave') THEN zwave'[k].level ELSE level

\* async_add_zwave_entities' _sync, and each light's _remember.
ZwaveSynced ==
    LET new == Listed(zwave') \ knownZwave
    IN /\ last' = [k \in Output |-> IF k \in new THEN Remembers(k, None)
                                    ELSE IF last[k] = Absent THEN Absent
                                    ELSE Remembers(k, last[k])]
       /\ zwaveDevices' = zwaveDevices \cup new
       /\ knownZwave' = knownZwave \cup new
       /\ heard' = [k \in Output |-> IF k \in Lit(zwave') THEN zwave'[k].level ELSE heard[k]]
       /\ UNCHANGED deleted

Updated == ZonesSynced /\ PartitionsSynced /\ ZwaveSynced /\ sent' = None

------------------------------------------------------------------------------
(* The entry and its link.                                                  *)

\* The state of a connection of its own: its snapshot, and the list of the
\* outputs where that has come too.
Fresh ==
    /\ zones' = panel.zones /\ partitions' = panel.partitions
    /\ zwave' \in Outputs \cup {None}
    /\ up' = TRUE /\ UNCHANGED panel

\* async_setup_entry: the platforms start with nothing known.
Load ==
    /\ ~loaded /\ loaded' = TRUE
    /\ Fresh /\ Updated

\* The entry unloads, or Home Assistant stops.
Unload ==
    /\ loaded /\ Unloaded /\ sent' = None
    /\ UNCHANGED <<panel, zoneDevices, zwaveDevices, placed>>

Reconnects ==
    /\ loaded /\ ~up /\ Fresh /\ Updated /\ UNCHANGED loaded

\* The link fails, a message it refuses included: the listeners run over what
\* was held.
LinkFails ==
    /\ loaded /\ up /\ up' = FALSE
    /\ UNCHANGED <<panel, loaded, dataVars>>
    /\ Updated

\* Nothing follows the panel.
PanelChanges ==
    /\ ~up /\ panel' \in Panels /\ sent' = None
    /\ UNCHANGED <<loaded, up, dataVars, zoneVars, knownPartitions, zwaveVars, placed>>

------------------------------------------------------------------------------
(* What the panel sends.                                                    *)

Arrives == loaded /\ up /\ UNCHANGED <<loaded, up>>

\* A zone or a partition goes from the panel: it sends a snapshot.
SnapshotArrives ==
    /\ Arrives /\ panel' \in Panels
    /\ zones' = Applied(TRUE, zones, panel'.zones) /\ partitions' = panel'.partitions
    /\ UNCHANGED zwave /\ Updated

\* A zone is added, renamed or changes, and so do partitions.
DeltaArrives(z, name, more) ==
    /\ Arrives
    /\ panel' = [panel EXCEPT !.zones[z] = name, !.partitions = @ \cup more]
    /\ zones' = Applied(FALSE, zones, [Every(Zone, Absent) EXCEPT ![z] = name])
    /\ partitions' = partitions \cup more
    /\ UNCHANGED zwave /\ Updated

\* The whole list, every time; it is empty while the panel's radio starts.
ListArrives ==
    /\ Arrives /\ zwave' \in Outputs
    /\ UNCHANGED <<panel, zones, partitions>> /\ Updated

------------------------------------------------------------------------------
(* What a person does.                                                      *)

\* The device of an area: the integration passes neither it nor the name
\* the person chose, so nothing else touches them.
Places(d) ==
    /\ d \in Present(zoneDevices) \cup zwaveDevices
    /\ placed' = placed \cup {d} /\ sent' = None
    /\ UNCHANGED <<panel, loaded, up, dataVars, zoneVars, knownPartitions, zwaveVars>>

\* (slip) While there is no list, nothing is listed.
MayDeleteUnheard(k) == loaded /\ k \notin Listed(zwave)
\* async_remove_config_entry_device: an output the last list lacks.
MayDelete(k) == loaded /\ zwave # None /\ k \notin Listed(zwave)

Deletes(k) ==
    /\ k \in zwaveDevices /\ MayDelete(k)
    /\ zwaveDevices' = zwaveDevices \ {k}
    /\ last' = [last EXCEPT ![k] = Absent]
    /\ placed' = placed \ {k} /\ sent' = None
    /\ deleted' = deleted \cup ({k} \cap knownZwave)
    /\ UNCHANGED <<panel, loaded, up, dataVars, zoneVars, knownPartitions, knownZwave, heard>>

------------------------------------------------------------------------------
(* The lights.                                                              *)

Round(n, d) ==
    LET q == n \div d
        r == n % d
    IN IF 2 * r > d \/ (2 * r = d /\ q % 2 = 1) THEN q + 1 ELSE q

LevelToBrightness(level) == Round(level * 255, 100)
BrightnessToLevel(b) ==
    LET level == Round(b * 100, 255)
    IN IF level < 1 THEN 1 ELSE IF level > 100 THEN 100 ELSE level

Available(k) == loaded /\ up /\ last[k] # Absent /\ k \in Listed(zwave) /\ zwave[k].online

Sets(k, level, right) ==
    /\ Available(k)
    /\ sent' = [level |-> level, right |-> right]
    /\ UNCHANGED <<panel, loaded, up, dataVars, zoneVars, knownPartitions, zwaveVars, placed>>

TurnsOn(k) ==
    Sets(k, IF last[k] = None THEN 100 ELSE last[k],
         {IF heard[k] = None THEN 100 ELSE heard[k]})

\* A brightness of the person's, or the one that is shown.
TurnsOnAt(k, b) == Sets(k, BrightnessToLevel(b), 1..100)
TurnsOnAsShown(k) ==
    k \in Lit(zwave)
    /\ Sets(k, BrightnessToLevel(LevelToBrightness(zwave[k].level)), {zwave[k].level})
TurnsOff(k) == Sets(k, 0, {0})

------------------------------------------------------------------------------

Next ==
    \/ Load \/ Unload \/ Reconnects \/ LinkFails \/ PanelChanges
    \/ SnapshotArrives
    \/ \E z \in Zone, name \in Name, more \in SUBSET Partition : DeltaArrives(z, name, more)
    \/ ListArrives
    \/ \E d \in Zone \cup Output : Places(d)
    \/ \E k \in Output : Deletes(k) \/ TurnsOn(k) \/ TurnsOnAsShown(k) \/ TurnsOff(k)
    \/ \E k \in Output, b \in Brightness : TurnsOnAt(k, b)

Spec == Init /\ [][Next]_vars

------------------------------------------------------------------------------

\* (HAI-005, HA08, HA09) While the panel is followed, the entities and the
\* devices are the panel's: each zone it has, and no other, has its entity
\* and a device under its name, each partition has its controls, and each
\* listed output its light, unless a person deleted it in this load.
Mirrored ==
    loaded /\ up =>
        /\ named = panel.zones /\ knownZones = Present(panel.zones)
        /\ \A z \in Present(panel.zones) : zoneDevices[z] = panel.zones[z]
        /\ partitions = panel.partitions /\ partitions \subseteq knownPartitions
        /\ \A k \in Listed(zwave) \ deleted : last[k] # Absent /\ k \in zwaveDevices

\* (HA08, RoboAlarmsZwaveEntity) An area or a name a person gave is lost
\* only with a zone that the panel no longer has, or with an output that the
\* person deleted and the panel's list lacked: an empty list, a lost link, a
\* restart or a delta that leaves a zone out never takes it.
MayLose(d) ==
    \/ d \in Zone /\ up' /\ panel'.zones[d] = Absent
    \/ d \in Output /\ zwave # None /\ zwave[d] = Absent /\ d \notin zwaveDevices'
PlacedUntilGone == [][\A d \in placed \ placed' : MayLose(d)]_vars

\* A light that is turned on goes to the last level above 0 the panel gave
\* it in this load, or to full; setting it to the brightness it shows leaves
\* its level; and no brightness turns it off.
LightKeepsLevel == sent # None => sent.level \in sent.right

\* (binary_sensor.py) "a zone that disappears from the panel's snapshot is
\* removed from the entity and device registries".
ZoneGoneIsRemoved ==
    loaded /\ up => Present(zoneDevices) = Present(panel.zones)

\* (async_add_zwave_entities) An entity "for any it lists later".
ListedHasEntity == loaded /\ up => \A k \in Listed(zwave) : last[k] # Absent
=============================================================================
