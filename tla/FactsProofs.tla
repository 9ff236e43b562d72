----------------------------- MODULE FactsProofs -----------------------------
(***************************************************************************)
(* How old what the daemon knows may be, for every set of supplies,        *)
(* sensors and processes, every interval and any number of changes.        *)
(*                                                                         *)
(* A property bounds the age of a fact.  What keeps it is the deadline of  *)
(* the next read: age and time left add up to no more than the interval,   *)
(* and a read starts both over.  The config has two more steps, the stat   *)
(* and the load, and its bound depends on where the loop is between them.  *)
(***************************************************************************)
EXTENDS Facts, SequenceTheorems, WellFoundedInduction, TLAPS

-----------------------------------------------------------------------------
(* Readings *)

LEMMA Smallest ==
  ASSUME NEW S \in SUBSET Nat, S # {}
  PROVE  \E i \in S : \A j \in S : i <= j
<1> DEFINE Less == OpToRel(<, Nat)
<1>1. IsWellFoundedOn(Less, Nat)
  BY NatLessThanWellFounded
<1>2. \A x, y \in Nat : x < y => <<x, y>> \in Less
  BY DEF OpToRel
<1> HIDE DEF Less
<1>3. PICK i \in S : \A j \in S : ~(<<j, i>> \in Less)
  BY <1>1, WFMin
<1>4. ASSUME NEW j \in S PROVE i <= j
  <2>1. i \in Nat /\ j \in Nat
    OBVIOUS
  <2>2. ~(j < i)
    BY <1>2, <1>3, <2>1
  <2>3. QED
    BY <2>1, <2>2
<1>5. QED
  BY <1>4

\* The first of the entries looked for is one of them. (on_ac_power, battery_device)
LEMMA FirstIsOne ==
  ASSUME NEW s, NEW hits \in SUBSET Nat
  PROVE  First(s, hits) = None \/ \E i \in hits : First(s, hits) = s[i]
<1>1. CASE hits = {}
  BY <1>1 DEF First
<1>2. CASE hits # {}
  <2>1. \E i \in hits : \A j \in hits : i <= j
    BY <1>2, Smallest
  <2>2. QED
    BY <1>2, <2>1 DEF First
<1>3. QED
  BY <1>1, <1>2

LEMMA ReadingTyped ==
  ASSUME NEW s \in Supplies
  PROVE  Reading(s).on_ac \in BOOLEAN /\ Reading(s).battery \in (0..100) \cup {None}
<1> DEFINE Entry == [name : STRING, online : {"0", "1", None}, type : {"Mains", "Battery"},
                     capacity : (0..100) \cup {None}]
           hits == {i \in DOMAIN s : s[i].type = "Battery"}
           battery == First(s, hits)
<1>1. s \in Seq(Entry)
  BY FactsAssumption
<1>2. DOMAIN s = 1..Len(s) /\ Len(s) \in Nat
  <2> HIDE DEF Entry
  <2>1. QED
    BY <1>1, LenProperties
<1>3. \A i \in DOMAIN s : s[i] \in Entry
  <2> HIDE DEF Entry
  <2>1. QED
    BY <1>1, <1>2, ElementOfSeq
<1>4. battery = None \/ \E i \in hits : battery = s[i]
  <2>1. hits \in SUBSET Nat
    BY <1>2
  <2> HIDE DEF hits
  <2>2. QED
    BY <2>1, FirstIsOne
<1>5. BatteryCapacity(s) = IF battery = None THEN None ELSE battery.capacity
  BY DEF BatteryCapacity
<1> HIDE DEF battery
<1>6. BatteryCapacity(s) \in (0..100) \cup {None}
  <2>1. CASE battery = None
    BY <1>5, <2>1
  <2>2. CASE battery # None
    <3>1. PICK i \in hits : battery = s[i]
      BY <1>4, <2>2
    <3>2. battery \in Entry
      BY <1>3, <3>1
    <3>3. QED
      BY <1>5, <2>2, <3>2
  <2>3. QED
    BY <2>1, <2>2
<1>7. OnAcPower(s) \in BOOLEAN
  BY DEF OnAcPower
<1>8. QED
  BY <1>6, <1>7 DEF Reading

\* A sensor that is found is there, and answers. (find_temperature_input)
LEMMA SensorThere ==
  ASSUME NEW devices \in Hwmons
  PROVE  /\ \/ FindTemperatureInput(devices) = None
            \/ FindTemperatureInput(devices) \in DOMAIN devices
         /\ DOMAIN devices \subseteq Nat
         /\ \A i \in DOMAIN devices : devices[i] \in Drivers /\ devices[i] # None
<1>1. devices \in Seq(Drivers)
  BY FactsAssumption
<1>2. DOMAIN devices = 1..Len(devices) /\ Len(devices) \in Nat
  BY <1>1, LenProperties
<1>3. \A i \in DOMAIN devices : devices[i] \in Drivers
  BY <1>1, <1>2, ElementOfSeq
<1>4. None \notin Drivers
  BY FactsAssumption
<1>5. ASSUME NEW driver, {i \in DOMAIN devices : devices[i] = driver} # {}
      PROVE  (CHOOSE i \in {n \in DOMAIN devices : devices[n] = driver} :
                \A j \in {n \in DOMAIN devices : devices[n] = driver} : i <= j)
               \in DOMAIN devices
  <2> DEFINE S == {i \in DOMAIN devices : devices[i] = driver}
  <2>1. S \in SUBSET Nat /\ S # {}
    BY <1>2, <1>5
  <2>2. \E i \in S : \A j \in S : i <= j
    <3> HIDE DEF S
    <3>1. QED
      BY <2>1, Smallest
  <2>3. QED
    BY <2>2
<1>6. FindTemperatureInput(devices) = None \/ FindTemperatureInput(devices) \in DOMAIN devices
  BY <1>5 DEF FindTemperatureInput
<1>7. QED
  BY <1>2, <1>3, <1>4, <1>6

LEMMA GameTyped ==
  ASSUME NEW table \in ProcessTables
  PROVE  FindSteamGame[table].game \in BOOLEAN /\ FindSteamGame[table].steam \in BOOLEAN
BY DEF FindSteamGame

-----------------------------------------------------------------------------
(* Ages *)

FactNames == {"power", "game", "sensor", "config"}

\* What a step makes of the ages: a fact that is right has none, the others grow
\* older by a tick.
LEMMA AgingDoes ==
  ASSUME ages \in [FactNames -> Nat], Aging
  PROVE  LET older(age) == IF at = "facts" /\ at' = "select" THEN age + 1 ELSE age
         IN  /\ ages' \in [FactNames -> Nat]
             /\ ages'.power = IF power' = Reading(supply') THEN 0 ELSE older(ages.power)
             /\ ages'.game = IF ~Detection \/ game' = FindSteamGame[procs'].game
                               THEN 0 ELSE older(ages.game)
             /\ ages'.sensor = IF temp' # None \/ FindTemperatureInput(hwmon') = None
                                 THEN 0 ELSE older(ages.sensor)
             /\ ages'.config = IF loaded' = mtime' \/ (raced' /\ mtime' = stamp')
                                 THEN 0 ELSE older(ages.config)
<1> DEFINE now == Current'
           ticked == at = "facts" /\ at' = "select"
<1>1. ages' = [fact \in FactNames |->
                 IF now[fact] THEN 0 ELSE IF ticked THEN ages[fact] + 1 ELSE ages[fact]]
  BY DEF Aging, FactNames
<1>2. /\ now.power = (power' = Reading(supply'))
      /\ now.game = (~Detection \/ game' = FindSteamGame[procs'].game)
      /\ now.sensor = (temp' # None \/ FindTemperatureInput(hwmon') = None)
      /\ now.config = (loaded' = mtime' \/ (raced' /\ mtime' = stamp'))
  BY DEF Current, Reading
<1> HIDE DEF now
<1>3. ages' \in [FactNames -> Nat]
  BY <1>1
<1>4. QED
  BY <1>1, <1>2, <1>3 DEF FactNames

\* Between ticks no fact grows older.
LEMMA NoOlder ==
  ASSUME ages \in [FactNames -> Nat], Aging, ~(at = "facts" /\ at' = "select")
  PROVE  /\ ages'.power \in {0, ages.power} /\ ages'.game \in {0, ages.game}
         /\ ages'.sensor \in {0, ages.sensor} /\ ages'.config \in {0, ages.config}
BY AgingDoes

-----------------------------------------------------------------------------
(* The queue of kernel events *)

Subsystems == {"power_supply", "usb"}

KernelOK ==
  /\ events \in Seq(Subsystems) /\ Len(events) <= QueueSize
  /\ socket \in BOOLEAN /\ overrun \in BOOLEAN /\ congested \in BOOLEAN

\* A power event is waiting to be read.
Told == \E i \in DOMAIN events : events[i] = "power_supply"

\* An event that is queued, or dropped, takes none away, and a power event leaves
\* itself or an error behind unless the socket is congested already.
LEMMA BroadcastTells ==
  ASSUME KernelOK, NEW subsystem \in Subsystems, Broadcast(subsystem)
  PROVE  /\ KernelOK'
         /\ Told => Told'
         /\ overrun => overrun'
         /\ subsystem = "power_supply" /\ socket /\ ~congested => overrun' \/ Told'
<1>1. CASE socket /\ ~congested /\ Len(events) < QueueSize
  <2>1. events' = Append(events, subsystem) /\ UNCHANGED <<socket, overrun, congested>>
    BY <1>1 DEF Broadcast
  <2>2. events \in Seq(Subsystems) /\ QueueSize \in Nat /\ Len(events) \in Nat
    BY FactsAssumption, LenProperties DEF KernelOK
  <2>3. /\ events' \in Seq(Subsystems) /\ Len(events') = Len(events) + 1
        /\ \A i \in 1..Len(events) : events'[i] = events[i]
        /\ events'[Len(events) + 1] = subsystem
    BY <2>1, <2>2, AppendProperties
  <2>4. DOMAIN events = 1..Len(events) /\ DOMAIN events' = 1..(Len(events) + 1)
    BY <2>2, <2>3, LenProperties
  <2>5. Told => Told'
    <3>1. SUFFICES ASSUME NEW i \in 1..Len(events), events[i] = "power_supply"
                   PROVE  i \in 1..(Len(events) + 1) /\ events'[i] = "power_supply"
      BY <2>4 DEF Told
    <3>2. QED
      BY <2>2, <2>3, <3>1
  <2>6. subsystem = "power_supply" => Told'
    <3>1. Len(events) + 1 \in 1..(Len(events) + 1)
      BY <2>2
    <3>2. QED
      BY <2>3, <2>4, <3>1 DEF Told
  <2>7. KernelOK'
    BY <1>1, <2>1, <2>2, <2>3 DEF KernelOK
  <2>8. QED
    BY <2>1, <2>5, <2>6, <2>7
<1>2. CASE ~(socket /\ ~congested /\ Len(events) < QueueSize)
  <2>1. /\ overrun' = (overrun \/ (socket /\ ~congested)) /\ congested' = socket
        /\ events' = events /\ socket' = socket
    BY <1>2 DEF Broadcast
  <2>2. KernelOK'
    BY <2>1 DEF KernelOK
  <2>3. Told => Told'
    BY <2>1 DEF Told
  <2>4. QED
    BY <2>1, <2>2, <2>3
<1>3. QED
  BY <1>1, <1>2

LEMMA BurstTyped == KernelOK /\ Burst => KernelOK'
<1> SUFFICES ASSUME KernelOK, Burst PROVE KernelOK'
  OBVIOUS
<1> DEFINE flood == [i \in 1..(QueueSize - Len(events)) |-> "usb"]
<1>1. events' = events \o flood /\ overrun' = TRUE /\ congested' = TRUE /\ socket' = socket
  BY DEF Burst
<1>2. events \in Seq(Subsystems) /\ Len(events) \in Nat /\ Len(events) <= QueueSize
      /\ QueueSize \in Nat
  BY FactsAssumption, LenProperties DEF KernelOK
<1>3. flood \in Seq(Subsystems) /\ Len(flood) = QueueSize - Len(events)
  <2>1. QueueSize - Len(events) \in Nat
    BY <1>2
  <2>2. \A i \in 1..(QueueSize - Len(events)) : "usb" \in Subsystems
    BY DEF Subsystems
  <2>3. QED
    BY <2>1, <2>2, IsASeq, LenProperties
<1> HIDE DEF flood
<1>4. events' \in Seq(Subsystems) /\ Len(events') = QueueSize
  BY <1>1, <1>2, <1>3, ConcatProperties
<1>5. QED
  BY <1>1, <1>2, <1>4 DEF KernelOK

\* A recv that does not mark the supply dirty takes no power event away.
LEMMA RecvTells ==
  ASSUME KernelOK, dirty \in BOOLEAN, Recv
  PROVE  /\ KernelOK'
         /\ overrun \/ Told => dirty' \/ Told'
         /\ dirty' \in BOOLEAN /\ (dirty => dirty')
<1>1. /\ overrun' = FALSE /\ socket' = socket
      /\ events' = IF overrun \/ events = <<>> THEN events ELSE Tail(events)
      /\ congested' = (congested /\ events' # <<>>)
      /\ dirty' = (dirty \/ overrun \/ (events # <<>> /\ Head(events) = "power_supply"))
  BY DEF Recv
<1>2. events \in Seq(Subsystems) /\ Len(events) \in Nat /\ Len(events) <= QueueSize
      /\ QueueSize \in Nat /\ overrun \in BOOLEAN
  BY FactsAssumption, LenProperties DEF KernelOK
<1>3. CASE overrun \/ events = <<>>
  <2>1. events' = events
    BY <1>1, <1>3
  <2>2. KernelOK'
    BY <1>1, <2>1, Zenon DEF KernelOK
  <2>3. ~overrun => ~Told
    BY <1>2, <1>3 DEF Told
  <2>4. QED
    BY <1>1, <1>2, <2>2, <2>3
<1>4. CASE ~overrun /\ events # <<>>
  <2>1. events' = Tail(events)
    BY <1>1, <1>4
  <2>2. /\ Tail(events) \in Seq(Subsystems) /\ Len(Tail(events)) = Len(events) - 1
        /\ Len(events) >= 1 /\ Head(events) = events[1]
        /\ \A i \in 1..(Len(events) - 1) : Tail(events)[i] = events[i + 1]
    BY <1>2, <1>4, HeadTailProperties, EmptySeq, LenProperties
  <2>3. DOMAIN events = 1..Len(events) /\ DOMAIN Tail(events) = 1..(Len(events) - 1)
    BY <1>2, <2>2, LenProperties
  <2>4. KernelOK'
    <3>1. events' \in Seq(Subsystems) /\ Len(events') <= QueueSize
      BY <1>2, <2>1, <2>2
    <3>2. congested' \in BOOLEAN
      BY <1>1
    <3>3. QED
      BY <1>1, <3>1, <3>2 DEF KernelOK
  <2>5. Told => dirty' \/ Told'
    <3>1. SUFFICES ASSUME NEW i \in 1..Len(events), events[i] = "power_supply", i # 1
                   PROVE  Told'
      BY <1>1, <1>4, <2>2, <2>3 DEF Told
    <3>2. i - 1 \in 1..(Len(events) - 1) /\ Tail(events)[i - 1] = "power_supply"
      BY <1>2, <2>2, <3>1
    <3>3. QED
      BY <2>1, <2>3, <3>2 DEF Told
  <2>6. QED
    BY <1>1, <1>4, <2>4, <2>5
<1>5. QED
  BY <1>3, <1>4

-----------------------------------------------------------------------------
(* The inductive invariant *)

WorldOK ==
  /\ supply \in Supplies /\ hwmon \in Hwmons /\ mtime \in Mtimes /\ procs \in ProcessTables
  /\ slept \in BOOLEAN /\ changes \in 0..MaxChanges

WatchOK ==
  /\ power.on_ac \in BOOLEAN /\ power.battery \in (0..100) \cup {None}
  /\ dirty \in BOOLEAN /\ pollLeft \in 0..PowerPoll

DetectorOK ==
  /\ game \in BOOLEAN
  /\ scanLeft \in 0..IntervalActive \cup 0..IntervalAc \cup 0..IntervalBattery
  /\ scanned \in [{"steam", "on_ac"} -> BOOLEAN]

SensorOK ==
  /\ tempInput \in Nat \cup {None} /\ temp \in Drivers \cup {None}
  /\ searchLeft \in 0..SensorSearch

ConfigOK ==
  /\ loaded \in Mtimes \cup {None} /\ stamp \in Mtimes \cup {None}
  /\ checkLeft \in 0..ConfigCheck /\ raced \in BOOLEAN

Places == {"load", "stamp", "select", "drain", "serve", "tick", "reload", "facts"}

Typed ==
  /\ WorldOK /\ KernelOK /\ WatchOK /\ DetectorOK /\ SensorOK /\ ConfigOK
  /\ at \in Places /\ unannounced \in BOOLEAN
  /\ ages \in [FactNames -> Nat]

LEMMA TypedIsTypeOK == Typed <=> TypeOK
BY DEF Typed, TypeOK, WorldOK, KernelOK, WatchOK, DetectorOK, SensorOK, ConfigOK, Places,
       Subsystems, FactNames

\* A power change that was told of is on its way to the next reading.
Noted ==
  power # Reading(supply) => dirty \/ overrun \/ slept \/ unannounced \/ Told

\* The age of a fact and the time left to its next reading are within the interval.
PowerBound == ages.power + pollLeft <= PowerPoll /\ ages.power < PowerPoll

Interval(last) ==
  IF last.steam THEN IntervalActive ELSE IF last.on_ac THEN IntervalAc ELSE IntervalBattery

GameBound == ages.game + scanLeft <= Interval(scanned) /\ ages.game < Interval(scanned)

SensorBound == ages.sensor + searchLeft <= SensorSearch /\ ages.sensor < SensorSearch

Looping == {"select", "drain", "serve", "tick"}

\* The check comes first in a tick and the facts last, so between ticks the config may
\* be one tick older than the time left allows; a load that did not race is of the
\* file the stat saw.
ConfigBound ==
  /\ ages.config <= ConfigCheck
  /\ at \in {"load", "stamp"} => ages.config = 0 /\ checkLeft = 0
  /\ at = "facts" => ages.config + checkLeft <= ConfigCheck
  /\ at = "facts" /\ checkLeft = 0 => ages.config = 0
  /\ at \in Looping => ages.config + checkLeft <= ConfigCheck + 1
  /\ at = "reload" => checkLeft = ConfigCheck
  /\ at \in Looping \cup {"facts"} /\ ~raced => loaded = stamp

Inv == Typed /\ Noted /\ PowerBound /\ GameBound /\ SensorBound /\ ConfigBound

LEMMA Numbers ==
  /\ QueueSize \in Nat \ {0} /\ PowerPoll \in Nat \ {0} /\ ConfigCheck \in Nat \ {0}
  /\ SensorSearch \in Nat \ {0} /\ IntervalActive \in Nat \ {0}
  /\ IntervalAc \in Nat \ {0} /\ IntervalBattery \in Nat \ {0} /\ MaxChanges \in Nat
BY FactsAssumption

LEMMA InitInv == Init => Inv
<1> SUFFICES ASSUME Init PROVE Inv
  OBVIOUS
<1>1. /\ supply \in Supplies /\ hwmon \in Hwmons /\ mtime \in Mtimes /\ procs \in ProcessTables
      /\ socket \in BOOLEAN /\ slept = FALSE /\ changes = 0
  BY DEF Init
<1>2. events = <<>> /\ overrun = FALSE /\ congested = FALSE /\ unannounced = FALSE
  BY DEF Init
<1>3. /\ power = NoPower /\ dirty = TRUE /\ pollLeft = 0 /\ game = FALSE /\ scanLeft = 0
      /\ scanned = [steam |-> FALSE, on_ac |-> TRUE]
  BY DEF Init
<1>4. /\ tempInput = None /\ searchLeft = 0 /\ temp = None /\ at = "load"
      /\ loaded = None /\ stamp = None /\ checkLeft = 0 /\ raced = FALSE
  BY DEF Init
<1>5. /\ ages \in [FactNames -> Nat]
      /\ ages.power = 0 /\ ages.game = 0 /\ ages.sensor = 0 /\ ages.config = 0
  BY DEF Init, FactNames
<1>6. WorldOK /\ at \in Places /\ unannounced \in BOOLEAN
  <2>1. 0 \in 0..MaxChanges
    BY Numbers
  <2>2. WorldOK
    BY <1>1, <2>1, Zenon DEF WorldOK
  <2>3. QED
    BY <1>2, <1>4, <2>2, Zenon DEF Places
<1>7. KernelOK
  <2>1. <<>> \in Seq(Subsystems) /\ Len(<<>>) = 0
    OBVIOUS
  <2>2. 0 <= QueueSize
    BY Numbers
  <2>3. QED
    BY <1>1, <1>2, <2>1, <2>2, Zenon DEF KernelOK
<1>8. WatchOK
  BY <1>3, Numbers DEF WatchOK, NoPower
<1>9. DetectorOK
  <2>1. [steam |-> FALSE, on_ac |-> TRUE] \in [steam : BOOLEAN, on_ac : BOOLEAN]
    OBVIOUS
  <2>2. [steam : BOOLEAN, on_ac : BOOLEAN] = [{"steam", "on_ac"} -> BOOLEAN]
    OBVIOUS
  <2>3. 0 \in 0..IntervalActive
    BY Numbers
  <2>4. QED
    BY <1>3, <2>1, <2>2, <2>3, Zenon DEF DetectorOK
<1>10. SensorOK /\ ConfigOK
  <2>1. 0 \in 0..SensorSearch /\ 0 \in 0..ConfigCheck
    BY Numbers
  <2>2. QED
    BY <1>4, <2>1, Zenon DEF SensorOK, ConfigOK
<1>11. Noted /\ PowerBound /\ SensorBound /\ ConfigBound
  BY <1>3, <1>4, <1>5, Numbers DEF Noted, PowerBound, SensorBound, ConfigBound, Looping
<1>12. GameBound
  BY <1>3, <1>5, Numbers DEF GameBound, Interval
<1>13. QED
  BY <1>5, <1>6, <1>7, <1>8, <1>9, <1>10, <1>11, <1>12 DEF Inv, Typed

-----------------------------------------------------------------------------
(* Steps that read nothing *)

LEMMA StillBounded ==
  ASSUME Inv, Aging, ~(at = "facts" /\ at' = "select"),
         UNCHANGED <<pollLeft, scanLeft, scanned, searchLeft>>
  PROVE  /\ PowerBound' /\ GameBound' /\ SensorBound'
         /\ ages' \in [FactNames -> Nat] /\ ages'.config \in {0, ages.config}
<1>1. ages \in [FactNames -> Nat] /\ pollLeft \in Nat /\ searchLeft \in Nat /\ scanLeft \in Nat
      /\ Interval(scanned) \in Nat
  BY Numbers DEF Inv, Typed, WatchOK, SensorOK, DetectorOK, Interval
<1>2. /\ ages'.power \in {0, ages.power} /\ ages'.game \in {0, ages.game}
      /\ ages'.sensor \in {0, ages.sensor} /\ ages'.config \in {0, ages.config}
      /\ ages' \in [FactNames -> Nat]
  BY <1>1, NoOlder, AgingDoes
<1>3. ages.power \in Nat /\ ages.game \in Nat /\ ages.sensor \in Nat
  BY <1>1 DEF FactNames
<1>4. PowerBound' /\ SensorBound'
  BY <1>1, <1>2, <1>3, Numbers DEF Inv, PowerBound, SensorBound
<1>5. GameBound'
  <2>1. Interval(scanned)' = Interval(scanned)
    BY DEF Interval
  <2>2. QED
    BY <1>1, <1>2, <1>3, <2>1 DEF Inv, GameBound
<1>6. QED
  BY <1>2, <1>4, <1>5

LEMMA ConfigStill ==
  ASSUME Inv, ages' \in [FactNames -> Nat], ages'.config \in {0, ages.config},
         UNCHANGED <<loaded, stamp, checkLeft, raced>>,
         at' = at \/ {at, at'} \subseteq Looping
  PROVE  ConfigBound'
<1>1. ages.config \in Nat /\ checkLeft \in Nat
  BY Numbers DEF Inv, Typed, FactNames, ConfigOK
<1>2. QED
  BY <1>1, Numbers DEF Inv, ConfigBound, Looping

LEMMA WorldInv == Inv /\ World => Inv'
<1> SUFFICES ASSUME Inv, World PROVE Inv'
  OBVIOUS
<1>1. WorldOK /\ KernelOK /\ Noted /\ unannounced \in BOOLEAN /\ MaxChanges \in Nat
  BY Numbers DEF Inv, Typed
<1>2. UNCHANGED <<at, watch, detector, sensor, config>> /\ Aging
  BY DEF World, SupplyEvent, ChargeChanges, Sleep, OtherEvent, Burst, ProcessesChange,
         HwmonChanges, Edit
<1>3. WorldOK'
  <2>1. Change
    BY DEF World, SupplyEvent, ChargeChanges, Sleep, OtherEvent, Burst, ProcessesChange,
           HwmonChanges, Edit
  <2>2. changes' \in 0..MaxChanges
    BY <1>1, <2>1 DEF Change, WorldOK
  <2>3. supply' \in Supplies /\ slept' \in BOOLEAN
    BY <1>1 DEF WorldOK, World, SupplyEvent, ChargeChanges, Sleep, OtherEvent, Burst,
                ProcessesChange, HwmonChanges, Edit
  <2>4. hwmon' \in Hwmons /\ mtime' \in Mtimes /\ procs' \in ProcessTables
    BY <1>1 DEF WorldOK, World, SupplyEvent, ChargeChanges, Sleep, OtherEvent, Burst,
                ProcessesChange, HwmonChanges, Edit
  <2>5. QED
    BY <2>2, <2>3, <2>4 DEF WorldOK
<1>4. KernelOK' /\ Noted' /\ unannounced' \in BOOLEAN
  <2>1. ASSUME NEW s \in Supplies, SupplyEvent(s)
        PROVE  KernelOK' /\ Noted' /\ unannounced' \in BOOLEAN
    <3>1. Broadcast("power_supply") /\ unannounced' = (~socket \/ congested)
      BY <2>1 DEF SupplyEvent
    <3>2. KernelOK' /\ (socket /\ ~congested => overrun' \/ Told')
      BY <1>1, <3>1, BroadcastTells DEF Subsystems
    <3>3. QED
      BY <3>1, <3>2 DEF Noted
  <2>2. ASSUME NEW s \in Supplies, ChargeChanges(s)
        PROVE  KernelOK' /\ Noted' /\ unannounced' \in BOOLEAN
    <3>1. UNCHANGED kernel /\ unannounced' = TRUE
      BY <2>2 DEF ChargeChanges
    <3>2. QED
      BY <1>1, <3>1 DEF kernel, KernelOK, Noted
  <2>3. ASSUME NEW s \in Supplies, Sleep(s)
        PROVE  KernelOK' /\ Noted' /\ unannounced' \in BOOLEAN
    <3>1. UNCHANGED kernel /\ unannounced' = unannounced /\ slept' = TRUE
      BY <2>3 DEF Sleep
    <3>2. QED
      BY <1>1, <3>1 DEF kernel, KernelOK, Noted
  <2>4. CASE OtherEvent
    <3>1. Broadcast("usb") /\ UNCHANGED <<supply, slept, power, dirty, unannounced>>
      BY <2>4 DEF OtherEvent, watch
    <3>2. KernelOK' /\ (Told => Told') /\ (overrun => overrun')
      BY <1>1, <3>1, BroadcastTells DEF Subsystems
    <3>3. QED
      BY <1>1, <3>1, <3>2 DEF Noted, Reading
  <2>5. CASE Burst
    <3>1. overrun' = TRUE /\ unannounced' = unannounced
      BY <2>5 DEF Burst
    <3>2. QED
      BY <1>1, <2>5, <3>1, BurstTyped DEF Noted
  <2>6. CASE \/ (\E table \in ProcessTables : ProcessesChange(table))
             \/ (\E devices \in Hwmons : HwmonChanges(devices))
             \/ (\E time \in Mtimes : Edit(time))
    <3>1. UNCHANGED <<supply, slept, kernel, power, dirty, unannounced>>
      BY <2>6 DEF ProcessesChange, HwmonChanges, Edit, watch
    <3>2. UNCHANGED <<events, overrun>> /\ KernelOK'
      BY <1>1, <3>1 DEF kernel, KernelOK
    <3>3. QED
      BY <1>1, <3>1, <3>2 DEF Noted, Told, Reading
  <2>7. QED
    BY <2>1, <2>2, <2>3, <2>4, <2>5, <2>6 DEF World
<1>5. UNCHANGED <<at, power, dirty, pollLeft, game, scanLeft, scanned, tempInput, searchLeft>>
      /\ UNCHANGED <<temp, loaded, stamp, checkLeft, raced>>
  BY <1>2 DEF watch, detector, sensor, config
<1>6. /\ PowerBound' /\ GameBound' /\ SensorBound'
      /\ ages' \in [FactNames -> Nat] /\ ages'.config \in {0, ages.config}
  BY <1>2, <1>5, StillBounded
<1>7. ConfigBound'
  BY <1>5, <1>6, ConfigStill
<1>8. WatchOK' /\ DetectorOK' /\ SensorOK' /\ ConfigOK' /\ at' \in Places
  BY <1>5 DEF Inv, Typed, WatchOK, DetectorOK, SensorOK, ConfigOK
<1>9. QED
  BY <1>3, <1>4, <1>6, <1>7, <1>8 DEF Inv, Typed
-----------------------------------------------------------------------------
(* Steps of the daemon *)

LEMMA Earlier ==
  ASSUME NEW interval \in Nat, NEW left \in 0..interval
  PROVE  /\ Sooner(left) \in 0..interval
         /\ left # 0 => Sooner(left) = left - 1
         /\ left = 0 => Sooner(left) = 0
BY DEF Sooner

\* A read of the supply starts its age and its deadline over; one that is not due
\* leaves what was told of waiting. (PowerWatch.read)
LEMMA ReadPowerDoes ==
  ASSUME Inv, NEW left \in 0..PowerPoll, ReadPower(left),
         UNCHANGED <<supply, slept, events, overrun, unannounced>>
  PROVE  /\ WatchOK' /\ Noted'
         /\ \/ power' = Reading(supply') /\ pollLeft' = PowerPoll
            \/ left # 0 /\ pollLeft' = left
<1>1. WatchOK /\ Noted /\ supply \in Supplies /\ PowerPoll \in Nat \ {0}
  BY Numbers DEF Inv, Typed, WorldOK
<1>2. Reading(supply') = Reading(supply)
  OBVIOUS
<1>3. CASE ~socket \/ dirty \/ left = 0
  <2>1. power' = Reading(supply) /\ dirty' = FALSE /\ pollLeft' = PowerPoll
    BY <1>3 DEF ReadPower
  <2>2. WatchOK'
    <3>1. power'.on_ac \in BOOLEAN /\ power'.battery \in (0..100) \cup {None}
      BY <1>1, <2>1, ReadingTyped
    <3>2. PowerPoll \in 0..PowerPoll
      BY <1>1
    <3>3. QED
      BY <2>1, <3>1, <3>2, Zenon DEF WatchOK
  <2>3. QED
    BY <1>2, <2>1, <2>2 DEF Noted
<1>4. CASE ~(~socket \/ dirty \/ left = 0)
  <2>1. UNCHANGED <<power, dirty>> /\ pollLeft' = left
    BY <1>4 DEF ReadPower
  <2>2. WatchOK'
    BY <1>1, <2>1 DEF WatchOK
  <2>3. Noted'
    BY <1>1, <1>2, <2>1 DEF Noted, Told
  <2>4. QED
    BY <1>4, <2>1, <2>2, <2>3
<1>5. QED
  BY <1>3, <1>4

\* What a step leaves of the typing when it does not touch the world or the queue.
LEMMA WorldStill ==
  ASSUME Inv, UNCHANGED world
  PROVE  WorldOK' /\ Reading(supply') = Reading(supply)
BY DEF Inv, Typed, WorldOK, world

LEMMA KernelStill ==
  ASSUME Inv, UNCHANGED kernel
  PROVE  KernelOK' /\ Told' = Told /\ overrun' = overrun
BY DEF Inv, Typed, KernelOK, kernel, Told

LEMMA WatchStill ==
  ASSUME Inv, UNCHANGED <<world, kernel, watch, unannounced>>
  PROVE  WatchOK' /\ Noted' /\ pollLeft' = pollLeft
<1>1. UNCHANGED <<supply, slept, power, dirty, pollLeft, events, overrun>>
  BY DEF world, kernel, watch
<1>2. QED
  BY <1>1 DEF Inv, Typed, WatchOK, Noted, Told

LEMMA DetectorStill ==
  ASSUME Inv, UNCHANGED detector
  PROVE  DetectorOK' /\ UNCHANGED <<scanLeft, scanned>>
BY DEF Inv, Typed, DetectorOK, detector

LEMMA SensorStill ==
  ASSUME Inv, UNCHANGED sensor
  PROVE  SensorOK' /\ UNCHANGED searchLeft
BY DEF Inv, Typed, SensorOK, sensor

LEMMA StartLoadInv == Inv /\ StartLoad => Inv'
<1> SUFFICES ASSUME Inv, StartLoad PROVE Inv'
  OBVIOUS
<1>1. /\ at = "load" /\ at' = "stamp" /\ loaded' = mtime /\ Aging
      /\ UNCHANGED <<world, kernel, watch, detector, sensor, unannounced>>
      /\ UNCHANGED <<stamp, checkLeft, raced>>
  BY DEF StartLoad
<1>2. WorldOK' /\ KernelOK' /\ WatchOK' /\ DetectorOK' /\ SensorOK' /\ Noted'
  BY <1>1, WorldStill, KernelStill, WatchStill, DetectorStill, SensorStill
<1>3. /\ PowerBound' /\ GameBound' /\ SensorBound'
      /\ ages' \in [FactNames -> Nat] /\ ages'.config \in {0, ages.config}
  BY <1>1, WatchStill, DetectorStill, SensorStill, StillBounded
<1>4. ConfigOK' /\ ConfigBound'
  BY <1>1, <1>3, Numbers DEF Inv, Typed, WorldOK, ConfigOK, ConfigBound, Looping
<1>5. at' \in Places /\ unannounced' \in BOOLEAN
  BY <1>1 DEF Inv, Typed, Places
<1>6. QED
  BY <1>2, <1>3, <1>4, <1>5 DEF Inv, Typed

LEMMA StartStampInv == Inv /\ StartStamp => Inv'
<1> SUFFICES ASSUME Inv, StartStamp PROVE Inv'
  OBVIOUS
<1>1. /\ at = "stamp" /\ at' = "facts" /\ tempInput' = FindTemperatureInput(hwmon)
      /\ stamp' = mtime /\ raced' = (mtime # loaded) /\ Aging
      /\ UNCHANGED <<world, kernel, watch, detector, unannounced>>
      /\ UNCHANGED <<searchLeft, temp, loaded, checkLeft>>
  BY DEF StartStamp
<1>2. WorldOK' /\ KernelOK' /\ WatchOK' /\ DetectorOK' /\ Noted'
  BY <1>1, WorldStill, KernelStill, WatchStill, DetectorStill
<1>3. /\ PowerBound' /\ GameBound' /\ SensorBound'
      /\ ages' \in [FactNames -> Nat] /\ ages'.config \in {0, ages.config}
  BY <1>1, WatchStill, DetectorStill, StillBounded
<1>4. SensorOK'
  <2>1. tempInput' \in Nat \cup {None}
    BY <1>1, SensorThere DEF Inv, Typed, WorldOK
  <2>2. QED
    BY <1>1, <2>1 DEF Inv, Typed, SensorOK
<1>5. ConfigOK' /\ ConfigBound'
  <2>1. ConfigOK'
    BY <1>1 DEF Inv, Typed, WorldOK, ConfigOK
  <2>2. ages'.config = 0 /\ checkLeft' = 0
    BY <1>1, <1>3 DEF Inv, ConfigBound
  <2>3. ~raced' => loaded' = stamp'
    BY <1>1
  <2>4. QED
    BY <1>1, <2>1, <2>2, <2>3, Numbers DEF ConfigBound, Looping
<1>6. at' \in Places /\ unannounced' \in BOOLEAN
  BY <1>1 DEF Inv, Typed, Places
<1>7. QED
  BY <1>2, <1>3, <1>4, <1>5, <1>6 DEF Inv, Typed

\* The main loop waits, or has nothing to serve.
LEMMA IdleStepInv == Inv /\ (Wake \/ ServeNothing) => Inv'
<1> SUFFICES ASSUME Inv, Wake \/ ServeNothing PROVE Inv'
  OBVIOUS
<1>1. /\ {at, at'} \subseteq Looping /\ Aging
      /\ UNCHANGED <<world, kernel, watch, detector, sensor, config, unannounced>>
  BY DEF Wake, ServeNothing, Looping
<1>2. WorldOK' /\ KernelOK' /\ WatchOK' /\ DetectorOK' /\ SensorOK' /\ Noted'
  BY <1>1, WorldStill, KernelStill, WatchStill, DetectorStill, SensorStill
<1>3. ~(at = "facts" /\ at' = "select")
  BY <1>1 DEF Looping
<1>4. /\ PowerBound' /\ GameBound' /\ SensorBound'
      /\ ages' \in [FactNames -> Nat] /\ ages'.config \in {0, ages.config}
  BY <1>1, <1>3, WatchStill, DetectorStill, SensorStill, StillBounded
<1>5. UNCHANGED <<loaded, stamp, checkLeft, raced>>
  BY <1>1 DEF config
<1>6. ConfigOK' /\ ConfigBound'
  <2>1. ConfigBound'
    BY <1>1, <1>4, <1>5, ConfigStill
  <2>2. QED
    BY <1>5, <2>1 DEF Inv, Typed, ConfigOK
<1>7. at' \in Places /\ unannounced' \in BOOLEAN
  BY <1>1 DEF Inv, Typed, Places, Looping
<1>8. QED
  BY <1>2, <1>4, <1>6, <1>7 DEF Inv, Typed

LEMMA RecvInv == Inv /\ Recv => Inv'
<1> SUFFICES ASSUME Inv, Recv PROVE Inv'
  OBVIOUS
<1>1. /\ {at, at'} \subseteq Looping /\ Aging
      /\ UNCHANGED <<world, socket, power, pollLeft, detector, sensor, config, unannounced>>
  BY DEF Recv, Looping
<1>2. KernelOK /\ dirty \in BOOLEAN /\ WatchOK
  BY DEF Inv, Typed, WatchOK
<1>3. /\ KernelOK' /\ (overrun \/ Told => dirty' \/ Told')
      /\ dirty' \in BOOLEAN /\ (dirty => dirty')
  BY <1>2, RecvTells
<1>4. WorldOK' /\ DetectorOK' /\ SensorOK'
  BY <1>1, WorldStill, DetectorStill, SensorStill
<1>5. WatchOK'
  BY <1>1, <1>2, <1>3 DEF WatchOK
<1>6. Noted'
  <2>1. Reading(supply') = Reading(supply) /\ slept' = slept
    BY <1>1, WorldStill DEF world
  <2>2. QED
    BY <1>1, <1>3, <2>1 DEF Inv, Noted
<1>7. ~(at = "facts" /\ at' = "select")
  BY <1>1 DEF Looping
<1>8. /\ PowerBound' /\ GameBound' /\ SensorBound'
      /\ ages' \in [FactNames -> Nat] /\ ages'.config \in {0, ages.config}
  BY <1>1, <1>7, DetectorStill, SensorStill, StillBounded
<1>9. UNCHANGED <<loaded, stamp, checkLeft, raced>>
  BY <1>1 DEF config
<1>10. ConfigOK' /\ ConfigBound'
  <2>1. ConfigBound'
    BY <1>1, <1>8, <1>9, ConfigStill
  <2>2. QED
    BY <1>9, <2>1 DEF Inv, Typed, ConfigOK
<1>11. at' \in Places /\ unannounced' \in BOOLEAN
  BY <1>1 DEF Inv, Typed, Places, Looping
<1>12. QED
  BY <1>3, <1>4, <1>5, <1>6, <1>8, <1>10, <1>11 DEF Inv, Typed

\* A request between ticks reads the supply, perhaps, and nothing else.
LEMMA ServeInv == Inv /\ Serve => Inv'
<1> SUFFICES ASSUME Inv, Serve PROVE Inv'
  OBVIOUS
<1>1. /\ {at, at'} \subseteq Looping /\ at' = "tick" /\ Aging /\ ReadPower(pollLeft)
      /\ UNCHANGED <<world, kernel, detector, sensor, config, unannounced>>
  BY DEF Serve, Looping
<1>2. UNCHANGED <<supply, slept, events, overrun>> /\ pollLeft \in 0..PowerPoll
  BY <1>1 DEF world, kernel, Inv, Typed, WatchOK
<1>3. /\ WatchOK' /\ Noted'
      /\ \/ power' = Reading(supply') /\ pollLeft' = PowerPoll
         \/ pollLeft' = pollLeft
  BY <1>1, <1>2, ReadPowerDoes
<1>4. WorldOK' /\ KernelOK' /\ DetectorOK' /\ SensorOK'
  BY <1>1, WorldStill, KernelStill, DetectorStill, SensorStill
<1>5. ages \in [FactNames -> Nat] /\ ~(at = "facts" /\ at' = "select")
  BY <1>1 DEF Inv, Typed
<1>6. /\ ages' \in [FactNames -> Nat]
      /\ ages'.power \in {0, ages.power} /\ ages'.game \in {0, ages.game}
      /\ ages'.sensor \in {0, ages.sensor} /\ ages'.config \in {0, ages.config}
      /\ power' = Reading(supply') => ages'.power = 0
  BY <1>1, <1>5, AgingDoes, NoOlder
<1>7. /\ ages.power \in Nat /\ ages.game \in Nat /\ ages.sensor \in Nat
      /\ pollLeft \in Nat /\ scanLeft \in Nat /\ searchLeft \in Nat
      /\ Interval(scanned) \in Nat \ {0}
  BY Numbers DEF Inv, Typed, FactNames, WatchOK, DetectorOK, SensorOK, Interval
<1>8. PowerBound'
  <2>1. CASE ages'.power = 0 /\ pollLeft' = PowerPoll
    BY <2>1, Numbers DEF PowerBound
  <2>2. CASE pollLeft' = pollLeft
    BY <1>6, <1>7, <2>2, Numbers DEF Inv, PowerBound
  <2>3. QED
    BY <1>3, <1>6, <2>1, <2>2
<1>9. GameBound' /\ SensorBound'
  <2>1. UNCHANGED <<scanLeft, scanned, searchLeft>> /\ Interval(scanned)' = Interval(scanned)
    BY <1>1, DetectorStill, SensorStill DEF Interval
  <2>2. QED
    BY <1>6, <1>7, <2>1, Numbers DEF Inv, GameBound, SensorBound
<1>10. UNCHANGED <<loaded, stamp, checkLeft, raced>>
  BY <1>1 DEF config
<1>11. ConfigOK' /\ ConfigBound'
  <2>1. ConfigBound'
    BY <1>1, <1>6, <1>10, ConfigStill
  <2>2. QED
    BY <1>10, <2>1 DEF Inv, Typed, ConfigOK
<1>12. at' \in Places /\ unannounced' \in BOOLEAN
  BY <1>1 DEF Inv, Typed, Places
<1>13. QED
  BY <1>3, <1>4, <1>6, <1>8, <1>9, <1>11, <1>12 DEF Inv, Typed

\* A check that finds the file as the last stat saw it finds the config right, or let
\* off; one that finds it changed leads to the load; without one, time is left.
LEMMA TickInv == Inv /\ Tick => Inv'
<1> SUFFICES ASSUME Inv, Tick PROVE Inv'
  OBVIOUS
<1>1. /\ at = "tick" /\ Aging /\ slept' = FALSE /\ dirty' = (dirty \/ slept)
      /\ UNCHANGED <<supply, hwmon, procs, mtime, changes, kernel, power, pollLeft, detector>>
      /\ UNCHANGED <<sensor, loaded, unannounced>>
  BY DEF Tick
<1>2. at' \in {"reload", "facts"}
  BY DEF Tick
<1>3. WorldOK' /\ KernelOK' /\ DetectorOK' /\ SensorOK' /\ WatchOK'
  <2>1. WorldOK' /\ WatchOK'
    BY <1>1 DEF Inv, Typed, WorldOK, WatchOK
  <2>2. QED
    BY <1>1, <2>1, KernelStill, DetectorStill, SensorStill
<1>4. Noted'
  <2>1. Reading(supply') = Reading(supply) /\ Told' = Told /\ overrun' = overrun
    BY <1>1, KernelStill
  <2>2. QED
    BY <1>1, <2>1 DEF Inv, Noted
<1>5. ~(at = "facts" /\ at' = "select")
  BY <1>2
<1>6. /\ PowerBound' /\ GameBound' /\ SensorBound'
      /\ ages' \in [FactNames -> Nat] /\ ages'.config \in {0, ages.config}
  BY <1>1, <1>5, DetectorStill, SensorStill, StillBounded
<1>7. /\ ages.config \in Nat /\ ages.config <= ConfigCheck
      /\ ages.config + checkLeft <= ConfigCheck + 1 /\ (~raced => loaded = stamp)
      /\ checkLeft \in 0..ConfigCheck /\ ConfigCheck \in Nat \ {0}
  BY <1>1, Numbers DEF Inv, Typed, FactNames, ConfigOK, ConfigBound, Looping
<1>8. CASE Sooner(checkLeft) = 0 /\ Edited
  <2>1. /\ checkLeft' = ConfigCheck /\ stamp' = mtime /\ at' = "reload"
        /\ raced' = (raced /\ ~Edited)
    BY <1>8 DEF Tick
  <2>2. ConfigOK'
    <3>1. loaded' \in Mtimes \cup {None} /\ stamp' \in Mtimes \cup {None}
      BY <1>1, <2>1 DEF Inv, Typed, WorldOK, ConfigOK
    <3>2. checkLeft' \in 0..ConfigCheck /\ raced' \in BOOLEAN
      BY <1>7, <2>1
    <3>3. QED
      BY <3>1, <3>2 DEF ConfigOK
  <2>3. ConfigBound'
    BY <1>6, <1>7, <2>1 DEF ConfigBound, Looping
  <2>4. QED
    BY <1>1, <1>3, <1>4, <1>6, <2>1, <2>2, <2>3 DEF Inv, Typed, Places
<1>9. CASE Sooner(checkLeft) = 0 /\ ~Edited
  <2>1. /\ checkLeft' = ConfigCheck /\ stamp' = mtime /\ at' = "facts"
        /\ raced' = (raced /\ ~Edited)
    BY <1>9 DEF Tick
  <2>2. mtime = stamp /\ raced' = raced
    <3>1. raced \in BOOLEAN
      BY DEF Inv, Typed, ConfigOK
    <3>2. QED
      BY <1>9, <2>1, <3>1 DEF Edited
  <2>3. loaded' = mtime' \/ (raced' /\ mtime' = stamp')
    BY <1>1, <1>7, <2>1, <2>2
  <2>4. ages'.config = 0
    BY <1>1, <2>3, AgingDoes DEF Inv, Typed
  <2>5. ConfigOK'
    BY <1>1, <1>7, <2>1, <2>2 DEF Inv, Typed, WorldOK, ConfigOK
  <2>6. ~raced' => loaded' = stamp'
    BY <1>1, <1>7, <2>1, <2>2
  <2>7. ConfigBound'
    BY <1>7, <2>1, <2>4, <2>6 DEF ConfigBound, Looping
  <2>8. QED
    BY <1>1, <1>3, <1>4, <1>6, <2>1, <2>5, <2>7 DEF Inv, Typed, Places
<1>10. CASE Sooner(checkLeft) # 0
  <2>1. checkLeft' = Sooner(checkLeft) /\ at' = "facts" /\ UNCHANGED <<stamp, raced>>
    BY <1>10 DEF Tick
  <2>2. checkLeft' = checkLeft - 1 /\ checkLeft' \in 0..ConfigCheck /\ checkLeft' # 0
    BY <1>7, <1>10, <2>1, Earlier
  <2>3. ConfigOK'
    BY <1>1, <2>1, <2>2 DEF Inv, Typed, ConfigOK
  <2>4. ConfigBound'
    BY <1>1, <1>6, <1>7, <2>1, <2>2 DEF ConfigBound, Looping
  <2>5. QED
    BY <1>1, <1>3, <1>4, <1>6, <2>1, <2>3, <2>4 DEF Inv, Typed, Places
<1>11. QED
  BY <1>8, <1>9, <1>10

LEMMA ReloadInv == Inv /\ Reload => Inv'
<1> SUFFICES ASSUME Inv, Reload PROVE Inv'
  OBVIOUS
<1>1. /\ at = "reload" /\ at' = "facts" /\ loaded' = mtime /\ raced' = (mtime # stamp) /\ Aging
      /\ UNCHANGED <<world, kernel, watch, detector, sensor, unannounced>>
      /\ UNCHANGED <<stamp, checkLeft>>
  BY DEF Reload
<1>2. WorldOK' /\ KernelOK' /\ WatchOK' /\ DetectorOK' /\ SensorOK' /\ Noted'
  BY <1>1, WorldStill, KernelStill, WatchStill, DetectorStill, SensorStill
<1>3. /\ PowerBound' /\ GameBound' /\ SensorBound' /\ ages' \in [FactNames -> Nat]
  BY <1>1, WatchStill, DetectorStill, SensorStill, StillBounded
<1>4. ages'.config = 0
  <2>1. loaded' = mtime'
    BY <1>1 DEF world
  <2>2. QED
    BY <1>1, <2>1, AgingDoes DEF Inv, Typed
<1>5. ConfigOK'
  BY <1>1 DEF Inv, Typed, WorldOK, ConfigOK
<1>6. ConfigBound'
  <2>1. checkLeft' = ConfigCheck /\ (~raced' => loaded' = stamp')
    BY <1>1 DEF Inv, ConfigBound
  <2>2. QED
    BY <1>1, <1>4, <2>1, Numbers DEF ConfigBound, Looping
<1>7. at' \in Places /\ unannounced' \in BOOLEAN
  BY <1>1 DEF Inv, Typed, Places
<1>8. QED
  BY <1>2, <1>3, <1>5, <1>6, <1>7 DEF Inv, Typed

\* A scan starts the age of the game and its deadline over, at the interval the scan
\* itself calls for. (GameDetector.poll)
LEMMA PollDoes ==
  ASSUME Inv, NEW left \in Nat, left <= scanLeft,
         left \in 0..IntervalActive \cup 0..IntervalAc \cup 0..IntervalBattery,
         NEW onAc \in BOOLEAN, Poll(left, onAc), procs' = procs
  PROVE  /\ DetectorOK'
         /\ \/ /\ ~Detection \/ game' = FindSteamGame[procs'].game
               /\ scanLeft' <= Interval(scanned')
            \/ left # 0 /\ scanLeft' = left /\ UNCHANGED scanned
<1>1. DetectorOK /\ procs \in ProcessTables /\ Detection \in BOOLEAN
  BY FactsAssumption DEF Inv, Typed, WorldOK
<1>2. /\ ages.game \in Nat /\ scanLeft \in Nat /\ Interval(scanned) \in Nat
      /\ ages.game + scanLeft <= Interval(scanned)
  BY Numbers DEF Inv, Typed, FactNames, DetectorOK, GameBound, Interval
<1>3. CASE Detection /\ left = 0
  <2> DEFINE found == FindSteamGame[procs]
  <2>1. /\ game' = found.game /\ scanLeft' = ScanInterval(found, onAc)
        /\ scanned' = [steam |-> found.steam, on_ac |-> onAc]
    BY <1>3 DEF Poll
  <2>2. found.game \in BOOLEAN /\ found.steam \in BOOLEAN
    BY <1>1, GameTyped
  <2> HIDE DEF found
  <2>3. scanLeft' = Interval(scanned')
    BY <2>1 DEF ScanInterval, Interval
  <2>4. scanned' \in [{"steam", "on_ac"} -> BOOLEAN]
    <3>1. scanned' \in [steam : BOOLEAN, on_ac : BOOLEAN]
      BY <2>1, <2>2
    <3>2. [steam : BOOLEAN, on_ac : BOOLEAN] = [{"steam", "on_ac"} -> BOOLEAN]
      OBVIOUS
    <3>3. QED
      BY <3>1, <3>2, Zenon
  <2>5. scanLeft' \in 0..IntervalActive \cup 0..IntervalAc \cup 0..IntervalBattery
    BY <2>3, Numbers DEF Interval
  <2>6. DetectorOK'
    BY <2>1, <2>2, <2>4, <2>5, Zenon DEF DetectorOK
  <2>7. game' = FindSteamGame[procs'].game
    BY <2>1 DEF found
  <2>8. scanLeft' <= Interval(scanned')
    BY <2>3, <2>5, Numbers
  <2>9. QED
    BY <2>6, <2>7, <2>8
<1>4. CASE ~(Detection /\ left = 0)
  <2>1. scanLeft' = left /\ UNCHANGED <<game, scanned>>
    BY <1>4 DEF Poll
  <2>2. DetectorOK'
    BY <1>1, <2>1 DEF DetectorOK
  <2>3. scanLeft' <= Interval(scanned')
    BY <1>2, <2>1
  <2>4. QED
    BY <1>4, <2>1, <2>2, <2>3
<1>5. QED
  BY <1>3, <1>4

\* A search starts the age of the sensor and its deadline over: it finds one that
\* answers, or there is none. (Daemon.temperature)
LEMMA TemperatureDoes ==
  ASSUME Inv, NEW left \in 0..SensorSearch, Temperature(left), hwmon' = hwmon
  PROVE  /\ SensorOK'
         /\ \/ /\ temp' # None \/ FindTemperatureInput(hwmon') = None
               /\ searchLeft' \in {left, SensorSearch}
            \/ left # 0 /\ searchLeft' = left
<1>1. SensorOK /\ hwmon \in Hwmons /\ SensorSearch \in Nat
  BY Numbers DEF Inv, Typed, WorldOK
<1>2. \A input : ReadTemperature(input) \in Drivers \cup {None}
  BY <1>1, SensorThere DEF ReadTemperature
<1>3. FindTemperatureInput(hwmon) \in Nat \cup {None}
  BY <1>1, SensorThere
<1>4. CASE ReadTemperature(tempInput) = None /\ left = 0
  <2>1. /\ tempInput' = FindTemperatureInput(hwmon) /\ searchLeft' = SensorSearch
        /\ temp' = ReadTemperature(FindTemperatureInput(hwmon))
    BY <1>4 DEF Temperature
  <2>2. \/ FindTemperatureInput(hwmon) = None
        \/ ReadTemperature(FindTemperatureInput(hwmon)) # None
    BY <1>1, SensorThere DEF ReadTemperature
  <2>3. SensorSearch \in 0..SensorSearch
    BY <1>1
  <2>4. SensorOK'
    BY <1>2, <1>3, <2>1, <2>3, Zenon DEF SensorOK
  <2>5. QED
    BY <2>1, <2>2, <2>4
<1>5. CASE ~(ReadTemperature(tempInput) = None /\ left = 0)
  <2>1. searchLeft' = left /\ temp' = ReadTemperature(tempInput) /\ tempInput' = tempInput
    BY <1>5 DEF Temperature
  <2>2. SensorOK'
    BY <1>1, <1>2, <2>1, Zenon DEF SensorOK
  <2>3. QED
    BY <1>5, <2>1, <2>2
<1>6. QED
  BY <1>4, <1>5

LEMMA TakeFactsInv == Inv /\ TakeFacts => Inv'
<1> SUFFICES ASSUME Inv, TakeFacts PROVE Inv'
  OBVIOUS
<1>1. /\ at = "facts" /\ at' = "select" /\ Aging
      /\ UNCHANGED <<world, kernel, config, unannounced>>
      /\ ReadPower(Sooner(pollLeft)) /\ Poll(Sooner(scanLeft), power'.on_ac)
      /\ Temperature(Sooner(searchLeft))
  BY DEF TakeFacts
<1>2. UNCHANGED <<supply, hwmon, procs, slept, events, overrun>>
  BY <1>1 DEF world, kernel
<1>3. /\ ages \in [FactNames -> Nat] /\ pollLeft \in 0..PowerPoll
      /\ scanLeft \in 0..IntervalActive \cup 0..IntervalAc \cup 0..IntervalBattery
      /\ searchLeft \in 0..SensorSearch
  BY DEF Inv, Typed, WatchOK, DetectorOK, SensorOK
<1>4. /\ ages.power \in Nat /\ ages.game \in Nat /\ ages.sensor \in Nat /\ ages.config \in Nat
  BY <1>3 DEF FactNames
<1>5. LET older(age) == age + 1
      IN  /\ ages' \in [FactNames -> Nat]
          /\ ages'.power = IF power' = Reading(supply') THEN 0 ELSE older(ages.power)
          /\ ages'.game = IF ~Detection \/ game' = FindSteamGame[procs'].game
                            THEN 0 ELSE older(ages.game)
          /\ ages'.sensor = IF temp' # None \/ FindTemperatureInput(hwmon') = None
                              THEN 0 ELSE older(ages.sensor)
          /\ ages'.config \in {0, older(ages.config)}
  BY <1>1, <1>3, AgingDoes
<1>6. WorldOK' /\ KernelOK' /\ ConfigOK' /\ at' \in Places /\ unannounced' \in BOOLEAN
  <2>1. ConfigOK'
    BY <1>1 DEF Inv, Typed, ConfigOK, config
  <2>2. QED
    BY <1>1, <2>1, WorldStill, KernelStill DEF Inv, Typed, Places
<1>7. WatchOK' /\ Noted' /\ PowerBound'
  <2>1. /\ Sooner(pollLeft) \in 0..PowerPoll
        /\ Sooner(pollLeft) # 0 => Sooner(pollLeft) = pollLeft - 1
    BY <1>3, Numbers, Earlier
  <2>2. /\ WatchOK' /\ Noted'
        /\ \/ power' = Reading(supply') /\ pollLeft' = PowerPoll
           \/ Sooner(pollLeft) # 0 /\ pollLeft' = Sooner(pollLeft)
    BY <1>1, <1>2, <2>1, ReadPowerDoes
  <2>3. CASE power' = Reading(supply') /\ pollLeft' = PowerPoll
    BY <1>5, <2>2, <2>3, Numbers DEF PowerBound
  <2>4. CASE Sooner(pollLeft) # 0 /\ pollLeft' = Sooner(pollLeft)
    <3>1. ages.power + pollLeft <= PowerPoll /\ ages'.power <= ages.power + 1
          /\ ages'.power \in Nat
      BY <1>4, <1>5 DEF Inv, PowerBound
    <3>2. QED
      BY <1>3, <1>4, <2>1, <2>2, <2>4, <3>1, Numbers DEF PowerBound
  <2>5. QED
    BY <2>2, <2>3, <2>4
<1>8. DetectorOK' /\ GameBound'
  <2> DEFINE left == Sooner(scanLeft)
  <2>1. /\ left \in 0..IntervalActive \cup 0..IntervalAc \cup 0..IntervalBattery
        /\ left \in Nat /\ scanLeft \in Nat /\ left <= scanLeft /\ scanLeft <= left + 1
        /\ left # 0 => left = scanLeft - 1
    BY <1>3, Numbers DEF Sooner
  <2> HIDE DEF left
  <2>2. power'.on_ac \in BOOLEAN /\ Poll(left, power'.on_ac)
    BY <1>1, <1>3, <1>7, <2>1, Numbers DEF WatchOK, left
  <2>3. /\ DetectorOK'
        /\ \/ /\ ~Detection \/ game' = FindSteamGame[procs'].game
              /\ scanLeft' <= Interval(scanned')
           \/ left # 0 /\ scanLeft' = left /\ UNCHANGED scanned
    BY <1>2, <2>1, <2>2, PollDoes
  <2>4. Interval(scanned') \in Nat \ {0} /\ Interval(scanned) \in Nat \ {0} /\ scanLeft' \in Nat
    BY <2>3, Numbers DEF Interval, DetectorOK
  <2>5. CASE ages'.game = 0 /\ scanLeft' <= Interval(scanned')
    BY <2>3, <2>4, <2>5 DEF GameBound
  <2>6. CASE left # 0 /\ scanLeft' = left /\ UNCHANGED scanned
    <3>1. ages.game + scanLeft <= Interval(scanned) /\ ages'.game <= ages.game + 1
          /\ ages'.game \in Nat
      BY <1>4, <1>5 DEF Inv, GameBound
    <3>2. Interval(scanned') = Interval(scanned) /\ scanLeft' = scanLeft - 1 /\ scanLeft' # 0
      BY <2>1, <2>6 DEF Interval
    <3>3. ages'.game + scanLeft' <= Interval(scanned') /\ ages'.game < Interval(scanned')
      BY <1>4, <2>1, <2>2, <2>4, <3>1, <3>2
    <3>4. QED
      BY <2>3, <3>3 DEF GameBound
  <2>7. QED
    BY <1>5, <2>3, <2>5, <2>6
<1>9. SensorOK' /\ SensorBound'
  <2>1. /\ Sooner(searchLeft) \in 0..SensorSearch
        /\ Sooner(searchLeft) # 0 => Sooner(searchLeft) = searchLeft - 1
    BY <1>3, Numbers, Earlier
  <2>2. /\ SensorOK'
        /\ \/ /\ temp' # None \/ FindTemperatureInput(hwmon') = None
              /\ searchLeft' \in {Sooner(searchLeft), SensorSearch}
           \/ Sooner(searchLeft) # 0 /\ searchLeft' = Sooner(searchLeft)
    BY <1>1, <1>2, <2>1, TemperatureDoes
  <2>3. CASE ages'.sensor = 0
    BY <2>1, <2>2, <2>3, Numbers DEF SensorBound
  <2>4. CASE Sooner(searchLeft) # 0 /\ searchLeft' = Sooner(searchLeft)
    <3>1. ages.sensor + searchLeft <= SensorSearch /\ ages'.sensor <= ages.sensor + 1
          /\ ages'.sensor \in Nat
      BY <1>4, <1>5 DEF Inv, SensorBound
    <3>2. searchLeft' = searchLeft - 1 /\ searchLeft' # 0 /\ searchLeft' \in Nat
      BY <1>3, <2>1, <2>4, Numbers
    <3>3. QED
      BY <1>3, <1>4, <2>2, <3>1, <3>2, Numbers DEF SensorBound
  <2>5. QED
    BY <1>5, <2>2, <2>3, <2>4
<1>10. ConfigBound'
  <2>1. /\ ages.config + checkLeft <= ConfigCheck /\ (checkLeft = 0 => ages.config = 0)
        /\ checkLeft \in Nat /\ ConfigCheck \in Nat \ {0}
    BY <1>1, Numbers DEF Inv, Typed, ConfigOK, ConfigBound
  <2>2. UNCHANGED <<loaded, stamp, checkLeft, raced>> /\ (~raced => loaded = stamp)
    BY <1>1 DEF config, Inv, ConfigBound
  <2>3. ages'.config <= ConfigCheck /\ ages'.config + checkLeft <= ConfigCheck + 1
    BY <1>4, <1>5, <2>1
  <2>4. QED
    BY <1>1, <2>2, <2>3 DEF ConfigBound, Looping
<1>11. QED
  BY <1>5, <1>6, <1>7, <1>8, <1>9, <1>10 DEF Inv, Typed

LEMMA StutterInv == Inv /\ UNCHANGED vars => Inv'
<1> SUFFICES ASSUME Inv, UNCHANGED vars PROVE Inv'
  OBVIOUS
<1>1. UNCHANGED <<world, kernel, at, watch, detector, sensor, config, unannounced, ages>>
  BY DEF vars
<1>2. WorldOK' /\ KernelOK' /\ WatchOK' /\ DetectorOK' /\ SensorOK' /\ Noted'
  BY <1>1, WorldStill, KernelStill, WatchStill, DetectorStill, SensorStill
<1>3. /\ UNCHANGED <<pollLeft, scanLeft, scanned, searchLeft>>
      /\ UNCHANGED <<loaded, stamp, checkLeft, raced>>
  BY <1>1 DEF watch, detector, sensor, config
<1>4. ConfigOK' /\ at' \in Places /\ unannounced' \in BOOLEAN /\ ages' \in [FactNames -> Nat]
  BY <1>1, <1>3 DEF Inv, Typed, ConfigOK
<1>5. PowerBound' /\ GameBound' /\ SensorBound' /\ ConfigBound'
  BY <1>1, <1>3 DEF Inv, PowerBound, GameBound, Interval, SensorBound, ConfigBound
<1>6. QED
  BY <1>2, <1>4, <1>5 DEF Inv, Typed

LEMMA NextInv == Inv /\ [Next]_vars => Inv'
BY WorldInv, StartLoadInv, StartStampInv, IdleStepInv, RecvInv, ServeInv, TickInv, ReloadInv,
   TakeFactsInv, StutterInv DEF Next, Daemon

LEMMA Invariant == Spec => []Inv
<1>1. QED
  BY InitInv, NextInv, PTL DEF Spec

-----------------------------------------------------------------------------
(* What the runs check on a small instance *)

\* Every deadline stays within its interval, the queue within the socket's, and no
\* fact is of anything but what the world may hold: in PowerWatch, GameDetector and
\* the daemon's temperature and config checks.
THEOREM Types == Spec => []TypeOK
<1>1. Inv => TypeOK
  BY TypedIsTypeOK DEF Inv
<1>2. QED
  BY <1>1, Invariant, PTL

\* A power change the kernel told of, dropped, or let happen in the machine's sleep is
\* marked for the next reading until it is read, and none is missed for longer than the
\* poll's interval: PowerWatch.drain and read, called from the tick and from requests,
\* and Daemon.check_resume.
THEOREM SupplyNoted == Spec => []PowerNoted
<1>1. Inv => PowerNoted
  BY DEF Inv, Noted, PowerBound, PowerNoted, Told
<1>2. QED
  BY <1>1, Invariant, PTL

\* GameDetector.poll never goes without a scan for longer than the interval its last
\* scan called for, whatever happens to Steam and to the supply in between.
THEOREM GameSeen == Spec => []GameNoticed
<1>1. Inv => GameNoticed
  BY DEF Inv, GameBound, Interval, GameNoticed
<1>2. QED
  BY <1>1, Invariant, PTL

\* Daemon.temperature is without the temperature of a sensor there is for less than the
\* interval between two searches, however often drivers come and go.
THEOREM SensorSeen == Spec => []SensorFound
<1>1. Inv => SensorFound
  BY DEF Inv, SensorBound, SensorFound
<1>2. QED
  BY <1>1, Invariant, PTL

\* Daemon.check_config puts an edit in force within a check's interval, for any number
\* of edits between its stat, its load and the next stat, but for the one a load raced
\* with, while the file is the stat's.
THEOREM ConfigSeen == Spec => []ConfigPickedUp
<1>1. Inv => ConfigPickedUp
  BY DEF Inv, ConfigBound, ConfigPickedUp
<1>2. QED
  BY <1>1, Invariant, PTL
=============================================================================
