-------------------------------- MODULE Facts --------------------------------
(***************************************************************************)
(* What the daemon knows of the world, and how old it may be: the power    *)
(* supply (PowerWatch), a running game (GameDetector), the temperature     *)
(* sensor and profiles.conf, each kept between reads to keep a tick cheap. *)
(* The world changes at any moment, between any two steps of the main      *)
(* loop; the kernel tells of power changes through a queue that overflows. *)
(*                                                                         *)
(* One tick is one unit of time; a deadline is kept as the ticks left to   *)
(* it, 0 when due.  What the engine makes of the facts is module Engine,   *)
(* where they may be anything at any tick.                                 *)
(***************************************************************************)
EXTENDS Integers, Sequences

CONSTANTS
  None,
  Supplies,     \* what /sys/class/power_supply may hold
  Hwmons,       \* what /sys/class/hwmon may hold
  ProcessTables,\* what /proc may hold
  Mtimes,       \* the mtimes profiles.conf may have; None: no such file
  QueueSize,    \* events the socket can hold
  Detection,    \* ELITEBOOK_STEAM_DETECTION
  PowerPoll, ConfigCheck, SensorSearch,            \* ticks
  IntervalActive, IntervalAc, IntervalBattery,     \* ticks
  MaxChanges    \* bound: what happens to the world in a behaviour

Drivers == {"k10temp", "zenpower", "nvme"}

ASSUME FactsAssumption ==
  /\ None \notin Drivers
  /\ Supplies \subseteq Seq([name : STRING, online : {"0", "1", None},
                            type : {"Mains", "Battery"}, capacity : (0..100) \cup {None}])
  /\ Hwmons \subseteq Seq(Drivers)
  /\ ProcessTables \subseteq Seq([comm : STRING, ppid : Nat, appid : Nat \cup {None}])
  /\ Detection \in BOOLEAN
  /\ {QueueSize, PowerPoll, ConfigCheck, SensorSearch, IntervalActive, IntervalAc,
      IntervalBattery} \subseteq Nat \ {0}
  /\ MaxChanges \in Nat

VARIABLES
  supply,      \* the power supplies: a sequence of [name, online, type, capacity]
  hwmon,       \* the hwmon devices in order: their drivers
  procs,       \* /proc: each process's [comm, ppid, appid]
  mtime,       \* of profiles.conf, which stands for its contents
  socket,      \* PowerWatch.sock: the socket for kernel events could be opened
  events,      \* the socket's queue: the subsystem of each event
  overrun,     \* the socket has an ENOBUFS to report
  congested,   \* and drops every event until it has been emptied
  slept,       \* the machine slept since the last tick
  at,          \* where the main loop is
  power,       \* PowerWatch: on_ac and battery
  dirty, pollLeft,          \* PowerWatch
  game, scanLeft,           \* GameDetector
  tempInput, searchLeft,    \* Daemon.temp_input, next_sensor_search
  temp,                     \* the device the last temperature is of, or None
  loaded,                   \* the config in force
  stamp, checkLeft,         \* Daemon.config_mtime, next_config_check
  unannounced, \* history: the last change of the supply came without an event
  raced,       \* history: the load in force saw another file than the stat it goes with
  scanned,     \* history: [steam, on_ac] at the last scan
  ages,        \* history: for how many ticks each fact has been out of date
  changes

world == <<supply, hwmon, procs, mtime, slept, changes>>
kernel == <<socket, events, overrun, congested>>
watch == <<power, dirty, pollLeft>>
detector == <<game, scanLeft, scanned>>
sensor == <<tempInput, searchLeft, temp>>
config == <<loaded, stamp, checkLeft, raced>>
vars == <<world, kernel, at, watch, detector, sensor, config, unannounced, ages>>

-----------------------------------------------------------------------------
(* Readings *)

First(s, hits) == IF hits = {} THEN None ELSE s[CHOOSE i \in hits : \A j \in hits : i <= j]

\* A present AC/online decides alone, else the first Mains supply; unknown is battery.
OnAcPower(s) ==
  LET ac == First(s, {i \in DOMAIN s : s[i].name = "AC" /\ s[i].online # None})
      mains == First(s, {i \in DOMAIN s : s[i].type = "Mains"})
  IN  IF ac # None THEN ac.online = "1"
      ELSE mains # None /\ mains.online = "1"

BatteryCapacity(s) ==
  LET battery == First(s, {i \in DOMAIN s : s[i].type = "Battery"})
  IN  IF battery = None THEN None ELSE battery.capacity

Reading(s) == [on_ac |-> OnAcPower(s), battery |-> BatteryCapacity(s)]

\* find_temperature_input: k10temp before zenpower, wherever they are.
FindTemperatureInput(devices) ==
  LET of(driver) == {i \in DOMAIN devices : devices[i] = driver}
      Least(S) == CHOOSE i \in S : \A j \in S : i <= j
  IN  IF of("k10temp") # {} THEN Least(of("k10temp"))
      ELSE IF of("zenpower") # {} THEN Least(of("zenpower")) ELSE None

\* read_temperature_c: whatever device is now at that path.
ReadTemperature(input) == IF input \in DOMAIN hwmon THEN hwmon[input] ELSE None

SteamRoots == {"steam", "steamwebhelper"}
SteamIgnored == SteamRoots \cup {"steam-runtime-l", "pressure-vessel", "pv-bwrap"}

\* A game is what descends from Steam, is no part of it and carries an app id.
FindSteamGame ==
  [table \in ProcessTables |->
     LET roots == {p \in DOMAIN table : table[p].comm \in SteamRoots}
         children(S) == {p \in DOMAIN table : table[p].ppid \in S}
         generation[n \in 1..Len(table)] ==
           IF n = 1 THEN children(roots) ELSE children(generation[n - 1])
         descendants == UNION {generation[n] : n \in 1..Len(table)}
         games == {p \in descendants \ roots :
                     table[p].comm \notin SteamIgnored /\ table[p].appid # None}
     IN  [game |-> games # {}, steam |-> roots # {}]]

\* Mutant: a deadline that passed is not kept as passed.
SoonerBelow(left) == left - 1

Sooner(left) == IF left = 0 THEN 0 ELSE left - 1

NoPower == [on_ac |-> FALSE, battery |-> None]

Init ==
  /\ supply \in Supplies /\ hwmon \in Hwmons /\ mtime \in Mtimes
  /\ procs \in ProcessTables
  /\ socket \in BOOLEAN
  /\ events = <<>> /\ overrun = FALSE /\ congested = FALSE
  /\ slept = FALSE
  /\ at = "load"
  /\ power = NoPower /\ dirty = TRUE /\ pollLeft = 0
  /\ game = FALSE /\ scanLeft = 0
  /\ scanned = [steam |-> FALSE, on_ac |-> TRUE]
  /\ tempInput = None /\ searchLeft = 0 /\ temp = None
  /\ loaded = None /\ stamp = None /\ checkLeft = 0
  /\ unannounced = FALSE /\ raced = FALSE
  /\ ages = [power |-> 0, game |-> 0, sensor |-> 0, config |-> 0]
  /\ changes = 0

\* Whether each fact is as the world is, at this moment.  A raced config is let off
\* for as long as the file is the one the stat saw.
Current ==
  [power  |-> power = Reading(supply),
   game   |-> ~Detection \/ game = FindSteamGame[procs].game,
   sensor |-> temp # None \/ FindTemperatureInput(hwmon) = None,
   config |-> loaded = mtime \/ (raced /\ mtime = stamp)]

Aging ==
  ages' = [fact \in DOMAIN ages |->
             IF Current'[fact] THEN 0
             ELSE IF at = "facts" /\ at' = "select" THEN ages[fact] + 1 ELSE ages[fact]]

-----------------------------------------------------------------------------
(* The world *)

Change == changes < MaxChanges /\ changes' = changes + 1

\* The kernel broadcasts an event: queued, or the first of those dropped leaves an
\* error; a congested socket drops in silence.
Broadcast(subsystem) ==
  IF socket /\ ~congested /\ Len(events) < QueueSize
    THEN /\ events' = Append(events, subsystem)
         /\ UNCHANGED <<socket, overrun, congested>>
    ELSE /\ overrun' = (overrun \/ (socket /\ ~congested))
         /\ congested' = socket
         /\ UNCHANGED <<socket, events>>

\* Plugged, unplugged, or a charge the driver tells of.
SupplyEvent(s) ==
  /\ Change
  /\ s # supply /\ supply' = s
  /\ Broadcast("power_supply")
  /\ unannounced' = (~socket \/ congested)
  /\ UNCHANGED <<hwmon, procs, mtime, slept, at, watch, detector, sensor, config>>
  /\ Aging

\* The charge changes and the driver does not tell.
ChargeChanges(s) ==
  /\ Change
  /\ s # supply /\ OnAcPower(s) = OnAcPower(supply)
  /\ supply' = s
  /\ unannounced' = TRUE
  /\ UNCHANGED <<hwmon, procs, mtime, slept, kernel, at, watch, detector, sensor, config>>
  /\ Aging

\* Asleep, anything may happen to the supply and no event comes of it.
Sleep(s) ==
  /\ Change
  /\ supply' = s
  /\ slept' = TRUE
  /\ UNCHANGED <<hwmon, procs, mtime, kernel, at, watch, detector, sensor, config, unannounced>>
  /\ Aging

OtherEvent ==
  /\ Change
  /\ Broadcast("usb")
  /\ UNCHANGED <<supply, hwmon, procs, mtime, slept, at, watch, detector, sensor, config,
                 unannounced>>
  /\ Aging

\* More events at once than the socket holds: a dock, say.
Burst ==
  /\ Change
  /\ socket /\ ~congested
  /\ events' = events \o [i \in 1..(QueueSize - Len(events)) |-> "usb"]
  /\ overrun' = TRUE /\ congested' = TRUE
  /\ UNCHANGED <<socket, supply, hwmon, procs, mtime, slept, at, watch, detector, sensor, config,
                 unannounced>>
  /\ Aging

ProcessesChange(table) ==
  /\ Change
  /\ table # procs /\ procs' = table
  /\ UNCHANGED <<supply, hwmon, mtime, slept, kernel, at, watch, detector, sensor, config,
                 unannounced>>
  /\ Aging

\* A driver is loaded, unloaded or reloaded.
HwmonChanges(devices) ==
  /\ Change
  /\ devices # hwmon /\ hwmon' = devices
  /\ UNCHANGED <<supply, procs, mtime, slept, kernel, at, watch, detector, sensor, config,
                 unannounced>>
  /\ Aging

\* The file is edited, removed, or put back as it was.
Edit(time) ==
  /\ Change
  /\ time # mtime /\ mtime' = time
  /\ UNCHANGED <<supply, hwmon, procs, slept, kernel, at, watch, detector, sensor, config,
                 unannounced>>
  /\ Aging

-----------------------------------------------------------------------------
(* Start: the config in build_engine, the sensor, the mtime *)

StartLoad ==
  /\ at = "load"
  /\ at' = "stamp"
  /\ loaded' = mtime
  /\ UNCHANGED <<world, kernel, watch, detector, sensor, stamp, checkLeft, raced, unannounced>>
  /\ Aging

StartStamp ==
  /\ at = "stamp"
  /\ at' = "facts"
  /\ tempInput' = FindTemperatureInput(hwmon)
  /\ stamp' = mtime
  /\ raced' = (mtime # loaded)
  /\ UNCHANGED <<world, kernel, watch, detector, searchLeft, temp, loaded, checkLeft, unannounced>>
  /\ Aging

-----------------------------------------------------------------------------
(* The main loop: select, drain, serve_one, tick *)

Wake ==
  /\ at = "select"
  /\ at' = IF events # <<>> \/ overrun THEN "drain" ELSE "serve"
  /\ UNCHANGED <<world, kernel, watch, detector, sensor, config, unannounced>>
  /\ Aging

\* Mutant: an error of the socket is passed over.
RecvQuiet ==
  /\ at = "drain"
  /\ overrun' = FALSE
  /\ events' = IF overrun \/ events = <<>> THEN events ELSE Tail(events)
  /\ congested' = (congested /\ events' # <<>>)
  /\ at' = IF overrun \/ events = <<>> THEN "serve" ELSE "drain"
  /\ dirty' = (dirty \/ (~overrun /\ events # <<>> /\ Head(events) = "power_supply"))
  /\ UNCHANGED <<world, socket, power, pollLeft, detector, sensor, config, unannounced>>
  /\ Aging

\* One recv of PowerWatch.drain: an error first, and it ends the loop.
Recv ==
  /\ at = "drain"
  /\ overrun' = FALSE
  /\ events' = IF overrun \/ events = <<>> THEN events ELSE Tail(events)
  /\ congested' = (congested /\ events' # <<>>)
  /\ at' = IF overrun \/ events = <<>> THEN "serve" ELSE "drain"
  /\ dirty' = (dirty \/ overrun \/ (events # <<>> /\ Head(events) = "power_supply"))
  /\ UNCHANGED <<world, socket, power, pollLeft, detector, sensor, config, unannounced>>
  /\ Aging

\* PowerWatch.read, with the poll's deadline.
ReadPower(left) ==
  IF ~socket \/ dirty \/ left = 0
    THEN power' = Reading(supply) /\ dirty' = FALSE /\ pollLeft' = PowerPoll
    ELSE UNCHANGED <<power, dirty>> /\ pollLeft' = left

\* A control request between ticks: Daemon.refresh.
Serve ==
  /\ at = "serve"
  /\ at' = "tick"
  /\ ReadPower(pollLeft)
  /\ UNCHANGED <<world, kernel, detector, sensor, config, unannounced>>
  /\ Aging

ServeNothing ==
  /\ at = "serve"
  /\ at' \in {"tick", "select"}
  /\ UNCHANGED <<world, kernel, watch, detector, sensor, config, unannounced>>
  /\ Aging

\* Mutant: only a newer file is a changed file.
EditedNewer == IF {mtime, stamp} \subseteq Nat THEN mtime > stamp ELSE mtime # stamp

Edited == mtime # stamp

\* A tick is due: check_resume, and the first half of check_config.
Tick ==
  /\ at = "tick"
  /\ slept' = FALSE
  /\ dirty' = (dirty \/ slept)
  /\ IF Sooner(checkLeft) = 0
       THEN /\ checkLeft' = ConfigCheck
            /\ stamp' = mtime
            /\ raced' = (raced /\ ~Edited)
            /\ at' = IF Edited THEN "reload" ELSE "facts"
       ELSE /\ checkLeft' = Sooner(checkLeft)
            /\ at' = "facts"
            /\ UNCHANGED <<stamp, raced>>
  /\ UNCHANGED <<supply, hwmon, procs, mtime, changes, kernel, power, pollLeft, detector, sensor,
                 loaded, unannounced>>
  /\ Aging

\* The second: the file may have changed again.
Reload ==
  /\ at = "reload"
  /\ at' = "facts"
  /\ loaded' = mtime
  /\ raced' = (mtime # stamp)
  /\ UNCHANGED <<world, kernel, watch, detector, sensor, stamp, checkLeft, unannounced>>
  /\ Aging

\* Mutant: the short interval is for games, not for Steam.
ScanIntervalGame(found, onAc) ==
  IF found.game THEN IntervalActive ELSE IF onAc THEN IntervalAc ELSE IntervalBattery

ScanInterval(found, onAc) ==
  IF found.steam THEN IntervalActive ELSE IF onAc THEN IntervalAc ELSE IntervalBattery

\* GameDetector.poll.
Poll(left, onAc) ==
  IF Detection /\ left = 0
    THEN LET found == FindSteamGame[procs]
         IN  /\ game' = found.game
             /\ scanLeft' = ScanInterval(found, onAc)
             /\ scanned' = [steam |-> found.steam, on_ac |-> onAc]
    ELSE scanLeft' = left /\ UNCHANGED <<game, scanned>>

\* Mutant: every tick without a temperature puts the search off.
TemperaturePutOff(left) ==
  LET value == ReadTemperature(tempInput)
      found == IF left = 0 THEN FindTemperatureInput(hwmon) ELSE tempInput
  IN  /\ tempInput' = IF value = None THEN found ELSE tempInput
      /\ searchLeft' = IF value = None THEN SensorSearch ELSE left
      /\ temp' = ReadTemperature(tempInput')

\* Daemon.temperature: a sensor that does not answer is looked for, once in a while.
Temperature(left) ==
  IF ReadTemperature(tempInput) = None /\ left = 0
    THEN /\ tempInput' = FindTemperatureInput(hwmon)
         /\ searchLeft' = SensorSearch
         /\ temp' = ReadTemperature(tempInput')
    ELSE /\ searchLeft' = left
         /\ temp' = ReadTemperature(tempInput)
         /\ UNCHANGED tempInput

\* Daemon.facts, which ends the tick.
TakeFacts ==
  /\ at = "facts"
  /\ at' = "select"
  /\ ReadPower(Sooner(pollLeft))
  /\ Poll(Sooner(scanLeft), power'.on_ac)
  /\ Temperature(Sooner(searchLeft))
  /\ UNCHANGED <<world, kernel, config, unannounced>>
  /\ Aging

World ==
  \/ \E s \in Supplies : SupplyEvent(s) \/ ChargeChanges(s) \/ Sleep(s)
  \/ OtherEvent
  \/ Burst
  \/ \E table \in ProcessTables : ProcessesChange(table)
  \/ \E devices \in Hwmons : HwmonChanges(devices)
  \/ \E time \in Mtimes : Edit(time)

Daemon ==
  \/ StartLoad
  \/ StartStamp
  \/ Wake
  \/ Recv
  \/ Serve
  \/ ServeNothing
  \/ Tick
  \/ Reload
  \/ TakeFacts

Next == World \/ Daemon

Spec == Init /\ [][Next]_vars

-----------------------------------------------------------------------------
(* What must hold *)

TypeOK ==
  /\ supply \in Supplies /\ hwmon \in Hwmons /\ mtime \in Mtimes
  /\ procs \in ProcessTables
  /\ events \in Seq({"power_supply", "usb"}) /\ Len(events) <= QueueSize
  /\ {socket, overrun, congested, slept, dirty, game, unannounced, raced} \subseteq BOOLEAN
  /\ at \in {"load", "stamp", "select", "drain", "serve", "tick", "reload", "facts"}
  /\ power.on_ac \in BOOLEAN /\ power.battery \in (0..100) \cup {None}
  /\ pollLeft \in 0..PowerPoll
  /\ scanLeft \in 0..IntervalActive \cup 0..IntervalAc \cup 0..IntervalBattery
  /\ tempInput \in Nat \cup {None} /\ searchLeft \in 0..SensorSearch
  /\ temp \in Drivers \cup {None}
  /\ loaded \in Mtimes \cup {None} /\ stamp \in Mtimes \cup {None}
  /\ checkLeft \in 0..ConfigCheck
  /\ scanned \in [{"steam", "on_ac"} -> BOOLEAN]
  /\ ages \in [{"power", "game", "sensor", "config"} -> Nat]
  /\ changes \in 0..MaxChanges

\* A power change the kernel told of, or tried to, or that happened asleep is read
\* by the next tick, and any other within the poll's interval: no event is lost
\* between the drain, the requests and the tick. (PowerWatch.drain, read,
\* Daemon.check_resume; "events were dropped, so assume one was ours")
PowerNoted ==
  /\ power # Reading(supply) =>
       \/ dirty \/ overrun \/ slept \/ unannounced
       \/ \E i \in DOMAIN events : events[i] = "power_supply"
  /\ ages.power < PowerPoll

\* A game that starts or ends is noticed within the interval the last scan called
\* for. (GameDetector: "every ``interval_active`` seconds while Steam is open and
\* every ``interval_ac`` or ``interval_battery`` seconds otherwise")
GameNoticed ==
  ages.game < IF scanned.steam THEN IntervalActive
              ELSE IF scanned.on_ac THEN IntervalAc ELSE IntervalBattery

\* A sensor there is is read again within a minute of its move. (Daemon.temperature)
SensorFound == ages.sensor < SensorSearch

\* An edit of profiles.conf is in force within a check's interval, whether the file
\* grew older or newer, unless a load raced with an edit and the file is now the one
\* the stat saw: at start, or put back since.
\* (check_config; README: "The service picks up edits within about five seconds")
ConfigPickedUp == ages.config <= ConfigCheck
=============================================================================
