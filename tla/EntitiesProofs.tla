--------------------------- MODULE EntitiesProofs ---------------------------
(***************************************************************************)
(* The entities' promises for every set of zones, names, partitions,       *)
(* outputs and levels.  The invariant says that each update leaves the     *)
(* platforms in step with the data they ran over, loaded or not; what is   *)
(* kept across loads is the registry alone, of which it says no more than  *)
(* the names of the zones that are known.                                  *)
(***************************************************************************)
EXTENDS Entities, TLAPS

\* The platforms are in step with coordinator.data.
Synced ==
    /\ named = zones /\ knownZones = Present(zones)
    /\ \A z \in knownZones : zoneDevices[z] = zones[z]
    /\ partitions \subseteq knownPartitions
    /\ Listed(zwave) \subseteq knownZwave
    /\ \A k \in knownZwave \ deleted : last[k] # Absent /\ k \in zwaveDevices

\* The data is the panel's while it is followed.
Followed == up => loaded /\ zones = panel.zones /\ partitions = panel.partitions

\* A light remembers what was heard of it.
LastHeard ==
    \A k \in Output :
        /\ last[k] # Absent => last[k] = heard[k]
        /\ heard[k] # None \/ last[k] # Absent => k \in knownZwave

IInv == TypeOK /\ Synced /\ Followed /\ LastHeard /\ LightKeepsLevel

------------------------------------------------------------------------------
(* The lights' arithmetic.                                                  *)

\* Rounding stays within a half of the quotient.
LEMMA RoundIsNear ==
    ASSUME NEW n \in Nat, NEW d \in Nat, d > 0
    PROVE  /\ Round(n, d) \in Nat
           /\ 2 * n - d <= 2 * (d * Round(n, d)) /\ 2 * (d * Round(n, d)) <= 2 * n + d
<1> DEFINE q == n \div d
           r == n % d
<1>1. q \in Nat /\ r \in Nat /\ r < d /\ n = d * q + r
  BY SMT
<1>2. /\ q % 2 = 1 \/ q % 2 # 1
      /\ d * (q + 1) = d * q + d
  BY <1>1, SMT
<1>3. Round(n, d) = IF 2 * r > d \/ (2 * r = d /\ q % 2 = 1) THEN q + 1 ELSE q
  BY DEF Round
<1> HIDE DEF q, r
<1>4. CASE Round(n, d) = q + 1 /\ 2 * r >= d
  BY <1>1, <1>2, <1>4, SMT
<1>5. CASE Round(n, d) = q /\ 2 * r <= d
  BY <1>1, <1>5, SMT
<1> QED
  BY <1>1, <1>3, <1>4, <1>5, SMT

\* (light.py) A brightness that is shown names the level it stands for: a
\* level above 0 is the same after it has been shown and set again.
THEOREM ShownLevelIsKept ==
    ASSUME NEW level \in 1..100
    PROVE  BrightnessToLevel(LevelToBrightness(level)) = level
<1> DEFINE b == LevelToBrightness(level)
           back == Round(b * 100, 255)
<1>1. b \in Nat /\ 2 * (level * 255) - 100 <= 2 * (100 * b) /\ 2 * (100 * b) <= 2 * (level * 255) + 100
  <2>1. level * 255 \in Nat /\ 100 \in Nat /\ 100 > 0
    BY SMT
  <2> QED
    BY <2>1, RoundIsNear DEF LevelToBrightness
<1> HIDE DEF b
<1>2. back \in Nat /\ 2 * (b * 100) - 255 <= 2 * (255 * back) /\ 2 * (255 * back) <= 2 * (b * 100) + 255
  <2>1. b * 100 \in Nat /\ 255 \in Nat /\ 255 > 0
    BY <1>1, SMT
  <2> QED
    BY <2>1, RoundIsNear, ZenonT(60)
<1>3. BrightnessToLevel(b) = IF back < 1 THEN 1 ELSE IF back > 100 THEN 100 ELSE back
  BY DEF BrightnessToLevel
<1> HIDE DEF back
<1>4. back = level
  BY <1>1, <1>2, SMT
<1> QED
  BY <1>3, <1>4, SMT DEF b

\* (light.py) A brightness never turns the light off, and never asks for more
\* than full.
LEMMA BrightnessIsOn ==
    ASSUME NEW b \in Nat
    PROVE  BrightnessToLevel(b) \in 1..100
<1>1. b * 100 \in Nat /\ 255 \in Nat /\ 255 > 0
  BY SMT
<1>2. Round(b * 100, 255) \in Nat
  BY <1>1, RoundIsNear
<1> QED
  BY <1>2, SMT DEF BrightnessToLevel

------------------------------------------------------------------------------

LEMMA InitInvariant == Init => IInv
<1> SUFFICES ASSUME Init PROVE IInv
  OBVIOUS
<1> USE EntitiesAssumption DEF Init
<1>1. TypeOK
  <2>1. /\ Every(Zone, Absent) \in Zones
        /\ Every(Output, Absent) \in [Output -> (Level \ {0}) \cup {None, Absent}]
        /\ Every(Output, None) \in [Output -> (Level \ {0}) \cup {None}]
    BY DEF Every, Zones
  <2>2. /\ panel \in Panels /\ loaded \in BOOLEAN /\ up \in BOOLEAN
        /\ zones \in Zones /\ partitions \in SUBSET Partition /\ zwave \in Outputs \cup {None}
        /\ named \in Zones /\ zoneDevices \in Zones
    BY <2>1
  <2> QED
    BY <2>1, <2>2 DEF TypeOK
<1>2. Synced
  BY DEF Synced, Every, Present, Listed
<1>3. Followed /\ LastHeard /\ LightKeepsLevel
  BY DEF Followed, LastHeard, LightKeepsLevel, Every
<1> QED
  BY <1>1, <1>2, <1>3 DEF IInv

\* The data after a step that changes it: all of its kinds.
DataOK ==
    /\ zones \in Zones /\ partitions \in SUBSET Partition
    /\ zwave \in Outputs \cup {None}

\* What is listed is the panel's, and a lit level is a level above 0.
LEMMA ListedLevels ==
    ASSUME NEW list \in Outputs \cup {None}
    PROVE  /\ Listed(list) \subseteq Output /\ Lit(list) \subseteq Listed(list)
           /\ \A k \in Lit(list) : list[k].level \in Level \ {0}
<1>1. CASE list = None
  BY <1>1 DEF Listed, Lit
<1>2. CASE list # None
  <2>1. list \in Outputs
    BY <1>2
  <2>2. DOMAIN list = Output
    BY <2>1 DEF Outputs
  <2>3. Listed(list) = {k \in Output : list[k] # Absent}
    BY <1>2, <2>2 DEF Listed, Present
  <2>4. \A k \in Listed(list) : list[k].level \in Level \cup {None}
    <3>1. \A k \in Listed(list) : list[k] \in Devices
      BY <2>1, <2>3 DEF Outputs
    <3> QED
      BY <3>1 DEF Devices
  <2> QED
    BY <2>3, <2>4 DEF Lit
<1> QED
  BY <1>1, <1>2

\* The zones' listeners bring entities and devices in step with the data.
LEMMA ZonesInStep ==
    ASSUME TypeOK, Synced, DataOK', ZonesSynced
    PROVE  /\ named' = zones' /\ knownZones' = Present(zones')
           /\ \A z \in knownZones' : zoneDevices'[z] = zones'[z]
           /\ knownZones' \in SUBSET Zone /\ zoneDevices' \in Zones
           /\ placed' \in SUBSET (Zone \cup Output)
<1> DEFINE now == Present(zones')
           removed == knownZones \ now
           new == now \ knownZones
           Renamed(z) == z \in now /\ named[z] # Absent /\ zones'[z] # named[z]
           After(held) == [z \in Zone |-> IF z \in removed THEN Absent
                                          ELSE IF z \in new \/ Renamed(z) THEN zones'[z]
                                          ELSE held[z]]
<1>1. /\ named' = After(named) /\ zoneDevices' = After(zoneDevices)
      /\ placed' = placed \ removed
      /\ knownZones' = (knownZones \ removed) \cup new
  BY DEF ZonesSynced, Forgotten
<1>2. /\ zones \in Zones /\ zones' \in Zones /\ zoneDevices \in Zones
      /\ named = zones /\ knownZones = {z \in Zone : zones[z] # Absent}
      /\ now = {z \in Zone : zones'[z] # Absent}
      /\ placed \in SUBSET (Zone \cup Output)
      /\ \A z \in knownZones : zoneDevices[z] = zones[z]
  BY DEF TypeOK, Synced, DataOK, Present, Zones
<1>3. knownZones' = now
  BY <1>1
<1> HIDE DEF now
<1>4. ASSUME NEW z \in Zone
      PROVE  named'[z] = zones'[z] /\ (z \in now => zoneDevices'[z] = zones'[z])
  <2>1. named'[z] = After(named)[z] /\ zoneDevices'[z] = After(zoneDevices)[z]
    BY <1>1
  <2>2. CASE z \in removed
    BY <1>2, <2>1, <2>2
  <2>3. CASE z \in new \/ Renamed(z)
    BY <1>2, <2>1, <2>3
  <2>4. CASE z \notin removed /\ z \notin new /\ ~Renamed(z)
    BY <1>2, <2>1, <2>4
  <2> QED
    BY <2>2, <2>3, <2>4
<1>5. named' = zones'
  <2>1. named' = [z \in Zone |-> named'[z]] /\ zones' = [z \in Zone |-> zones'[z]]
    BY <1>1, <1>2 DEF Zones
  <2> QED
    BY <1>4, <2>1
<1>6. zoneDevices' \in Zones
  <2>1. \A z \in Zone : zones'[z] \in Name \cup {Absent} /\ zoneDevices[z] \in Name \cup {Absent}
    BY <1>2 DEF Zones
  <2> QED
    BY <1>1, <2>1 DEF Zones
<1>7. now \subseteq Zone /\ placed' \in SUBSET (Zone \cup Output)
  BY <1>1, <1>2
<1> QED
  BY <1>3, <1>4, <1>5, <1>6, <1>7 DEF now

\* The outputs' listeners give every listed one its entity and device, and
\* every light its last level.
LEMMA OutputsInStep ==
    ASSUME TypeOK, Synced, LastHeard, DataOK', ZwaveSynced
    PROVE  /\ Listed(zwave') \subseteq knownZwave'
           /\ \A k \in knownZwave' \ deleted' : last'[k] # Absent /\ k \in zwaveDevices'
           /\ LastHeard'
           /\ knownZwave' \in SUBSET Output /\ zwaveDevices' \in SUBSET Output
           /\ deleted' \in SUBSET Output
           /\ last' \in [Output -> (Level \ {0}) \cup {None, Absent}]
           /\ heard' \in [Output -> (Level \ {0}) \cup {None}]
<1> DEFINE new == Listed(zwave') \ knownZwave
           lit == Lit(zwave')
<1>1. /\ last' = [k \in Output |-> IF k \in new THEN Remembers(k, None)
                                   ELSE IF last[k] = Absent THEN Absent
                                   ELSE Remembers(k, last[k])]
      /\ zwaveDevices' = zwaveDevices \cup new
      /\ knownZwave' = knownZwave \cup new
      /\ heard' = [k \in Output |-> IF k \in lit THEN zwave'[k].level ELSE heard[k]]
      /\ deleted' = deleted
  BY DEF ZwaveSynced
<1>2. /\ Listed(zwave') \subseteq Output /\ lit \subseteq Listed(zwave')
      /\ \A k \in lit : zwave'[k].level \in Level \ {0}
  <2>1. zwave' \in Outputs \cup {None}
    BY DEF DataOK
  <2> QED
    BY <2>1, ListedLevels
<1>3. \A k \in Output : \A level : Remembers(k, level) = IF k \in lit THEN zwave'[k].level ELSE level
  BY DEF Remembers
<1>4. /\ Level \subseteq 0..100 /\ Absent \notin 0..100 /\ None \notin 0..100 /\ None # Absent
  BY EntitiesAssumption
<1>5. /\ knownZwave \in SUBSET Output /\ zwaveDevices \in SUBSET Output
      /\ deleted \in SUBSET Output
      /\ last \in [Output -> (Level \ {0}) \cup {None, Absent}]
      /\ heard \in [Output -> (Level \ {0}) \cup {None}]
  BY DEF TypeOK
<1>6. /\ \A k \in knownZwave \ deleted : last[k] # Absent /\ k \in zwaveDevices
      /\ \A k \in Output : /\ last[k] # Absent => last[k] = heard[k]
                           /\ heard[k] # None \/ last[k] # Absent => k \in knownZwave
  BY DEF Synced, LastHeard
<1> HIDE DEF lit
<1>7. ASSUME NEW k \in Output
      PROVE  /\ last'[k] = IF k \in new \/ last[k] # Absent
                           THEN IF k \in lit THEN zwave'[k].level
                                ELSE IF k \in new THEN None ELSE last[k]
                           ELSE Absent
             /\ heard'[k] = IF k \in lit THEN zwave'[k].level ELSE heard[k]
  <2>1. last'[k] = IF k \in new THEN Remembers(k, None)
                   ELSE IF last[k] = Absent THEN Absent ELSE Remembers(k, last[k])
    BY <1>1
  <2>2. heard'[k] = IF k \in lit THEN zwave'[k].level ELSE heard[k]
    BY <1>1
  <2> QED
    BY <1>3, <2>1, <2>2
<1>8. /\ last' \in [Output -> (Level \ {0}) \cup {None, Absent}]
      /\ heard' \in [Output -> (Level \ {0}) \cup {None}]
  BY <1>1, <1>2, <1>3, <1>5
<1>9. ASSUME NEW k \in knownZwave' \ deleted'
      PROVE  last'[k] # Absent /\ k \in zwaveDevices'
  <2>1. k \in Output /\ k \in zwaveDevices' /\ (k \in new \/ last[k] # Absent)
    BY <1>1, <1>2, <1>5, <1>6
  <2> QED
    BY <1>2, <1>4, <1>7, <2>1
<1>10. LastHeard'
  <2>1. SUFFICES ASSUME NEW k \in Output
                 PROVE  /\ last'[k] # Absent => last'[k] = heard'[k]
                        /\ heard'[k] # None \/ last'[k] # Absent => k \in knownZwave'
    BY DEF LastHeard
  <2>2. CASE k \in new
    BY <1>1, <1>2, <1>6, <1>7, <2>2
  <2>3. CASE k \notin new
    BY <1>1, <1>2, <1>6, <1>7, <2>3
  <2> QED
    BY <2>2, <2>3
<1> QED
  BY <1>1, <1>2, <1>5, <1>8, <1>9, <1>10

\* An update restores the whole invariant, whatever the data it ran over.
LEMMA UpdateInvariant ==
    ASSUME IInv, DataOK', Updated,
           panel' \in Panels, loaded' \in BOOLEAN, up' \in BOOLEAN, Followed'
    PROVE  IInv'
<1>1. ZonesSynced /\ PartitionsSynced /\ ZwaveSynced /\ sent' = None
  BY DEF Updated
<1>2. TypeOK /\ Synced /\ LastHeard
  BY DEF IInv
<1>3. TypeOK'
  BY <1>1, <1>2, ZonesInStep, OutputsInStep DEF TypeOK, DataOK, PartitionsSynced
<1>4. Synced'
  BY <1>1, <1>2, ZonesInStep, OutputsInStep DEF Synced, PartitionsSynced
<1>5. LastHeard' /\ LightKeepsLevel'
  BY <1>1, <1>2, OutputsInStep DEF LightKeepsLevel
<1> QED
  BY <1>3, <1>4, <1>5 DEF IInv
------------------------------------------------------------------------------
(* What an update runs over.                                                *)

\* What is applied of a whole state is that state.
LEMMA AppliedWholeIs ==
    ASSUME NEW held \in Zones, NEW carried \in Zones
    PROVE  Applied(TRUE, held, carried) = carried
<1>1. DOMAIN held = Zone /\ carried = [y \in Zone |-> carried[y]]
  BY DEF Zones
<1> QED
  BY <1>1 DEF Applied

\* A delta of one zone puts that zone in.
LEMMA AppliedOneIs ==
    ASSUME NEW held \in Zones, NEW z \in Zone, NEW name \in Name
    PROVE  Applied(FALSE, held, [Every(Zone, Absent) EXCEPT ![z] = name])
             = [held EXCEPT ![z] = name]
<1>1. DOMAIN held = Zone /\ held = [y \in Zone |-> held[y]]
  BY DEF Zones
<1> DEFINE one == [Every(Zone, Absent) EXCEPT ![z] = name]
<1>2. \A y \in Zone : one[y] = IF y = z THEN name ELSE Absent
  BY DEF Every
<1>3. name # Absent
  BY EntitiesAssumption
<1> HIDE DEF one
<1>4. Applied(FALSE, held, one) = [y \in Zone |-> IF one[y] # Absent THEN one[y] ELSE held[y]]
  BY <1>1 DEF Applied
<1>5. Applied(FALSE, held, one) = [y \in Zone |-> IF y = z THEN name ELSE held[y]]
  BY <1>2, <1>3, <1>4
<1>6. [held EXCEPT ![z] = name] = [y \in Zone |-> IF y = z THEN name ELSE held[y]]
  BY <1>1
<1> QED
  BY <1>5, <1>6 DEF one

\* The steps that run the listeners.
Updates ==
    \/ Load \/ Reconnects \/ LinkFails \/ SnapshotArrives \/ ListArrives
    \/ \E z \in Zone, name \in Name, more \in SUBSET Partition : DeltaArrives(z, name, more)

\* They leave data of its kinds, the panel's while it is followed; where it
\* is not, the data is what it was.
LEMMA UpdateData ==
    ASSUME IInv, Updates
    PROVE  /\ DataOK' /\ Followed' /\ Updated
           /\ panel' \in Panels /\ loaded' \in BOOLEAN /\ up' \in BOOLEAN
           /\ up' \/ zones' = zones
<1>1. /\ panel \in Panels /\ loaded \in BOOLEAN /\ up \in BOOLEAN
      /\ zones \in Zones /\ partitions \in SUBSET Partition /\ zwave \in Outputs \cup {None}
      /\ Followed
  BY DEF IInv, TypeOK
<1>2. /\ panel.zones \in Zones /\ panel.partitions \in SUBSET Partition
  BY <1>1 DEF Panels
<1>3. CASE Load \/ Reconnects
  BY <1>1, <1>2, <1>3 DEF Load, Reconnects, Fresh, DataOK, Followed
<1>4. CASE LinkFails
  BY <1>1, <1>4 DEF LinkFails, dataVars, DataOK, Followed
<1>5. CASE SnapshotArrives
  <2>1. panel' \in Panels /\ panel'.zones \in Zones /\ panel'.partitions \in SUBSET Partition
    BY <1>5 DEF SnapshotArrives, Panels
  <2>2. zones' = panel'.zones
    BY <1>1, <1>5, <2>1, AppliedWholeIs DEF SnapshotArrives
  <2> QED
    BY <1>1, <1>5, <2>1, <2>2 DEF SnapshotArrives, Arrives, DataOK, Followed
<1>6. CASE ListArrives
  BY <1>1, <1>6 DEF ListArrives, Arrives, DataOK, Followed
<1>7. CASE \E z \in Zone, name \in Name, more \in SUBSET Partition : DeltaArrives(z, name, more)
  <2>1. PICK z \in Zone, name \in Name, more \in SUBSET Partition : DeltaArrives(z, name, more)
    BY <1>7
  <2>2. zones' = [zones EXCEPT ![z] = name]
    BY <1>1, <2>1, AppliedOneIs DEF DeltaArrives
  <2>3. zones = panel.zones /\ partitions = panel.partitions /\ loaded /\ up
    BY <1>1, <2>1 DEF DeltaArrives, Arrives, Followed
  <2>4. panel = [zones |-> panel.zones, partitions |-> panel.partitions]
    BY <1>1 DEF Panels
  <2>5. panel' = [zones |-> zones', partitions |-> partitions']
    BY <2>1, <2>2, <2>3, <2>4 DEF DeltaArrives
  <2>6. zones' \in Zones /\ partitions' \in SUBSET Partition
    BY <1>1, <2>1, <2>2 DEF DeltaArrives, Zones
  <2>7. DataOK' /\ Updated /\ loaded' /\ up'
    BY <1>1, <2>1, <2>3, <2>6 DEF DeltaArrives, Arrives, DataOK
  <2>8. panel'.zones = zones' /\ panel'.partitions = partitions' /\ panel' \in Panels
    BY <2>5, <2>6 DEF Panels
  <2> QED
    BY <2>7, <2>8 DEF Followed
<1> QED
  BY <1>3, <1>4, <1>5, <1>6, <1>7 DEF Updates

------------------------------------------------------------------------------
(* The other steps.                                                         *)

LEMMA UnloadInvariant == ASSUME IInv, Unload PROVE IInv'
<1> USE EntitiesAssumption
<1>1. /\ Unloaded /\ sent' = None /\ TypeOK
      /\ panel' = panel /\ zoneDevices' = zoneDevices /\ zwaveDevices' = zwaveDevices
      /\ placed' = placed
  BY DEF Unload, IInv
<1>2. /\ Every(Zone, Absent) \in Zones
      /\ Every(Output, Absent) \in [Output -> (Level \ {0}) \cup {None, Absent}]
      /\ Every(Output, None) \in [Output -> (Level \ {0}) \cup {None}]
  BY DEF Every, Zones
<1>3. TypeOK'
  BY <1>1, <1>2 DEF TypeOK, Unloaded
<1>4. Synced'
  BY <1>1 DEF Unloaded, Synced, Every, Present, Listed
<1>5. Followed' /\ LastHeard' /\ LightKeepsLevel'
  BY <1>1 DEF Unloaded, Followed, LastHeard, LightKeepsLevel, Every
<1> QED
  BY <1>3, <1>4, <1>5 DEF IInv

LEMMA PanelChangesInvariant == ASSUME IInv, PanelChanges PROVE IInv'
<1>1. /\ UNCHANGED <<loaded, up, dataVars, zoneVars, knownPartitions, zwaveVars, placed>>
      /\ panel' \in Panels /\ sent' = None /\ ~up'
  BY DEF PanelChanges
<1>2. TypeOK' /\ Synced'
  BY <1>1 DEF IInv, TypeOK, Synced, dataVars, zoneVars, zwaveVars
<1>3. LastHeard' /\ Followed' /\ LightKeepsLevel'
  BY <1>1 DEF IInv, LastHeard, Followed, LightKeepsLevel, zoneVars, zwaveVars
<1> QED
  BY <1>2, <1>3 DEF IInv

LEMMA PlacesInvariant == ASSUME IInv, NEW d \in Zone \cup Output, Places(d) PROVE IInv'
<1>1. /\ UNCHANGED <<panel, loaded, up, dataVars, zoneVars, knownPartitions, zwaveVars>>
      /\ placed' = placed \cup {d} /\ sent' = None
  BY DEF Places
<1>2. TypeOK' /\ Synced'
  BY <1>1 DEF IInv, TypeOK, Synced, dataVars, zoneVars, zwaveVars
<1>3. LastHeard' /\ Followed' /\ LightKeepsLevel'
  BY <1>1 DEF IInv, LastHeard, Followed, LightKeepsLevel, dataVars, zoneVars, zwaveVars
<1> QED
  BY <1>2, <1>3 DEF IInv

LEMMA DeletesInvariant == ASSUME IInv, NEW k \in Output, Deletes(k) PROVE IInv'
<1>1. /\ UNCHANGED <<panel, loaded, up, dataVars, zoneVars, knownPartitions, knownZwave, heard>>
      /\ zwaveDevices' = zwaveDevices \ {k}
      /\ last' = [last EXCEPT ![k] = Absent]
      /\ placed' = placed \ {k} /\ sent' = None
      /\ deleted' = deleted \cup ({k} \cap knownZwave)
  BY DEF Deletes
<1>2. TypeOK'
  BY <1>1 DEF IInv, TypeOK, dataVars, zoneVars
<1>3. \A j \in Output : last'[j] = IF j = k THEN Absent ELSE last[j]
  BY <1>1 DEF IInv, TypeOK
<1>4. Synced'
  BY <1>1, <1>3 DEF IInv, TypeOK, Synced, dataVars, zoneVars
<1>5. LastHeard' /\ Followed' /\ LightKeepsLevel'
  BY <1>1, <1>3 DEF IInv, LastHeard, Followed, LightKeepsLevel, dataVars
<1> QED
  BY <1>2, <1>4, <1>5 DEF IInv

\* A light's command is of a level, and of a right one.
LEMMA SetsInvariant ==
    ASSUME IInv,
           UNCHANGED <<panel, loaded, up, dataVars, zoneVars, knownPartitions, zwaveVars, placed>>,
           sent' \in [level : 0..100, right : SUBSET (0..100)],
           sent'.level \in sent'.right
    PROVE  IInv'
<1>1. UNCHANGED <<panel, loaded, up, dataVars, zoneVars, knownPartitions, zwaveVars, placed>>
  OBVIOUS
<1>2. TypeOK' /\ Synced'
  BY <1>1 DEF IInv, TypeOK, Synced, dataVars, zoneVars, zwaveVars
<1>3. LastHeard' /\ Followed' /\ LightKeepsLevel'
  BY <1>1 DEF IInv, LastHeard, Followed, LightKeepsLevel, dataVars, zoneVars, zwaveVars
<1> QED
  BY <1>2, <1>3 DEF IInv

LEMMA LightInvariant ==
    ASSUME IInv, NEW k \in Output,
           \/ TurnsOn(k) \/ TurnsOnAsShown(k) \/ TurnsOff(k)
           \/ \E b \in Brightness : TurnsOnAt(k, b)
    PROVE  IInv'
<1> DEFINE Rest == UNCHANGED <<panel, loaded, up, dataVars, zoneVars, knownPartitions,
                               zwaveVars, placed>>
<1>1. Level \subseteq 0..100 /\ Brightness \subseteq 1..255 /\ None \notin 0..100 /\ Absent \notin 0..100
  BY EntitiesAssumption
<1>2. CASE TurnsOn(k)
  <2> DEFINE level == IF last[k] = None THEN 100 ELSE last[k]
             other == IF heard[k] = None THEN 100 ELSE heard[k]
  <2>1. Rest /\ sent' = [level |-> level, right |-> {other}] /\ last[k] # Absent
    BY <1>2 DEF TurnsOn, Sets, Available
  <2>2. last[k] = heard[k] /\ last[k] \in (Level \ {0}) \cup {None, Absent}
    BY <2>1 DEF IInv, TypeOK, LastHeard
  <2>3. level = other
    BY <2>2
  <2>4. last[k] = None \/ last[k] \in 0..100
    BY <1>1, <2>1, <2>2
  <2>5. 100 \in 0..100
    BY SMT
  <2>6. level \in 0..100
    BY <2>4, <2>5
  <2> HIDE DEF level, other
  <2> QED
    BY <2>1, <2>3, <2>6, SetsInvariant
<1>3. CASE TurnsOnAsShown(k)
  <2> DEFINE level == zwave[k].level
  <2>1. k \in Lit(zwave) /\ Rest
        /\ sent' = [level |-> BrightnessToLevel(LevelToBrightness(level)), right |-> {level}]
    BY <1>3 DEF TurnsOnAsShown, Sets
  <2>2. level \in Level \ {0}
    BY <2>1, ListedLevels DEF IInv, TypeOK
  <2> HIDE DEF level, Rest
  <2>2a. level \in Level /\ level # 0
    BY <2>2
  <2>3. level \in 1..100
    BY <1>1, <2>2a
  <2>4. BrightnessToLevel(LevelToBrightness(level)) = level
    BY <2>3, ShownLevelIsKept
  <2>5. sent' = [level |-> level, right |-> {level}] /\ level \in 0..100
    BY <2>1, <2>3, <2>4
  <2> QED
    BY <2>1, <2>5, SetsInvariant DEF Rest
<1>4. CASE TurnsOff(k)
  BY <1>4, SetsInvariant DEF TurnsOff, Sets
<1>5. CASE \E b \in Brightness : TurnsOnAt(k, b)
  <2>1. PICK b \in Brightness :
           Rest /\ sent' = [level |-> BrightnessToLevel(b), right |-> 1..100]
    BY <1>5 DEF TurnsOnAt, Sets
  <2>2. b \in Nat
    BY <1>1
  <2>3. BrightnessToLevel(b) \in 1..100
    BY <2>2, BrightnessIsOn
  <2> QED
    BY <2>1, <2>3, SetsInvariant
<1> QED
  BY <1>2, <1>3, <1>4, <1>5
------------------------------------------------------------------------------

\* The zones' listeners take an area only with a zone the data lacks.
LEMMA UpdateKeepsPlaced ==
    ASSUME IInv, Updates, NEW d \in placed \ placed'
    PROVE  MayLose(d)
<1>1. /\ placed' = placed \ (knownZones \ Present(zones'))
      /\ Followed' /\ DataOK' /\ (up' \/ zones' = zones)
  BY UpdateData DEF Updated, ZonesSynced
<1>2. knownZones = Present(zones) /\ zones \in Zones /\ zones' \in Zones
  BY <1>1 DEF IInv, Synced, TypeOK, DataOK
<1>3. d \in knownZones /\ d \notin Present(zones')
  BY <1>1
<1>4. d \in Zone /\ zones'[d] = Absent
  BY <1>2, <1>3 DEF Present, Zones
<1>5. up'
  BY <1>1, <1>2, <1>3
<1>6. panel'.zones = zones'
  BY <1>1, <1>5 DEF Followed
<1> QED
  BY <1>4, <1>5, <1>6 DEF MayLose

LEMMA StepInvariant == ASSUME IInv, [Next]_vars PROVE IInv'
<1>1. CASE Updates
  BY <1>1, UpdateData, UpdateInvariant
<1>2. CASE Unload
  BY <1>2, UnloadInvariant
<1>3. CASE PanelChanges
  BY <1>3, PanelChangesInvariant
<1>4. CASE \E d \in Zone \cup Output : Places(d)
  BY <1>4, PlacesInvariant
<1>5. CASE \E k \in Output : Deletes(k)
  BY <1>5, DeletesInvariant
<1>6. CASE \E k \in Output : \/ TurnsOn(k) \/ TurnsOnAsShown(k) \/ TurnsOff(k)
                            \/ \E b \in Brightness : TurnsOnAt(k, b)
  BY <1>6, LightInvariant
<1>7. CASE UNCHANGED vars
  BY <1>7 DEF vars, dataVars, zoneVars, zwaveVars, IInv, TypeOK, Synced, Followed, LastHeard,
              LightKeepsLevel
<1> QED
  BY <1>1, <1>2, <1>3, <1>4, <1>5, <1>6, <1>7 DEF Next, Updates

\* The invariant holds of every state.
THEOREM Invariance == Spec => []IInv
<1>1. IInv /\ [Next]_vars => IInv'
  BY StepInvariant
<1> QED
  BY InitInvariant, <1>1, PTL DEF Spec

\* Every variable keeps its kind of value.
THEOREM TypeCorrect == Spec => []TypeOK
<1>1. IInv => TypeOK
  BY DEF IInv
<1> QED
  BY <1>1, Invariance, PTL

\* (HAI-005, HA08, HA09) While the panel is followed, its zones, partitions
\* and listed outputs are the entities and devices, by name.
THEOREM EntitiesMirrorThePanel == Spec => []Mirrored
<1>1. IInv => Mirrored
  <2>1. SUFFICES ASSUME IInv, loaded, up PROVE Mirrored
    BY DEF Mirrored
  <2>2. zones = panel.zones /\ partitions = panel.partitions
    BY <2>1 DEF IInv, Followed
  <2> QED
    BY <2>1, <2>2 DEF IInv, Synced, Mirrored
<1> QED
  BY <1>1, Invariance, PTL

\* (light.py) A light goes to the level it is meant to, however it is asked.
THEOREM LightsKeepTheirLevel == Spec => []LightKeepsLevel
<1>1. IInv => LightKeepsLevel
  BY DEF IInv
<1> QED
  BY <1>1, Invariance, PTL

\* (HA08) An area or a name a person gave stays until its zone is gone from
\* the panel or the person deletes its unlisted output.
THEOREM PlacesAreKept == Spec => PlacedUntilGone
<1>1. IInv /\ [Next]_vars => [\A d \in placed \ placed' : MayLose(d)]_vars
  <2>1. SUFFICES ASSUME IInv, Next, NEW d \in placed \ placed'
                 PROVE  MayLose(d)
    OBVIOUS
  <2>2. CASE Updates
    BY <2>1, <2>2, UpdateKeepsPlaced
  <2>3. CASE \E k \in Output : Deletes(k)
    <3>1. PICK k \in Output : Deletes(k)
      BY <2>3
    <3>2. /\ d = k /\ zwave # None /\ k \notin Listed(zwave) /\ d \notin zwaveDevices'
      BY <2>1, <3>1 DEF Deletes, MayDelete
    <3>3. zwave \in Outputs
      BY <2>1, <3>2 DEF IInv, TypeOK
    <3>4. zwave[k] = Absent
      BY <3>2, <3>3 DEF Listed, Present, Outputs
    <3> QED
      BY <3>1, <3>2, <3>4 DEF MayLose
  <2>4. CASE \/ Unload \/ PanelChanges \/ \E e \in Zone \cup Output : Places(e)
             \/ \E k \in Output : \/ TurnsOn(k) \/ TurnsOnAsShown(k) \/ TurnsOff(k)
                                 \/ \E b \in Brightness : TurnsOnAt(k, b)
    BY <2>1, <2>4 DEF Unload, PanelChanges, Places, TurnsOn, TurnsOnAsShown, TurnsOff, TurnsOnAt, Sets
  <2> QED
    BY <2>1, <2>2, <2>3, <2>4 DEF Next, Updates
<1> QED
  BY <1>1, Invariance, PTL DEF Spec, PlacedUntilGone
=============================================================================
