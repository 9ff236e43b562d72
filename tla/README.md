# A TLA+ model of the EliteBook Ryzen power service

This directory holds TLA+ modules that model the power service of this
repository, the TLC configurations that check them on small instances, and
proofs, checked by TLAPS, of what matters most for every value of the constants.

## The system

One daemon (`src/elitebook-thermal-profile`, run by systemd) owns the laptop's
power settings: the tuned profile, the CPU policy (EPP, boost, frequency cap),
the SMU power limits and VRM current limit (through RyzenAdj), PCI runtime PM,
panel power savings and the PCIe ASPM policy.  About once a second it reads the
facts (AC or battery, charge, CPU load, a running game, temperature) and
reconciles the machine with the profile they call for.

| Component | State it keeps | Operations | Talks to |
|---|---|---|---|
| Profile decisions (`elitebook_profiles.py`) | none | resolve a profile from `profiles.conf`, choose the profile, compute the target | called by the engine |
| Idle detector (`elitebook_profiles.py`) | stage, count of quiet samples | update with a sample, reset | called by the engine |
| Engine (`elitebook_engine.py`) | choice, latch, target applied last, deadlines, statuses, thermal record | step, reconcile, drift check, leave idle | hardware layer, `/run` files |
| Daemon (`elitebook-thermal-profile`) | tick, power events, config mtime, control socket | start, tick, resume, reload, serve a request, stop | engine, systemd, clients |
| Hardware layer (`elitebook_engine.py`, `elitebook_common.py`) | records of replaced runtime PM and ASPM values, the firmware's VRM limit | apply one part, read the CPU policy, reset the cpufreq driver | sysfs, RyzenAdj, tuned |
| D-Bus front end (`elitebook-thermal-profile-dbus`) | queue of requests, a worker thread | authorize with polkit, forward | panel, polkit, daemon |
| GNOME extension | what it shows | read the state files, switch profile, pkexec when the front end is absent | front end, `/run` files |
| Power guard (`elitebook-power-guard`) | guard and fallback files | check, repair, sysfs fallback | systemd, daemon, sysfs |
| Hibernation preflight | none | allow or refuse hibernation | sysfs, swap |
| Installer, packaging, units | none | copy files, enable units | systemd |

What is hard about it: the engine writes only *differences* from what it believes
it wrote last, so a part left out of a comparison stays wrong silently; any write
may be refused and the belief then differs from the machine; another tool, the
firmware after a resume, or a driver may change the machine behind it; control
requests fall between ticks and must not count as samples; a kill loses the
memory but not the `/run` files or the hardware; and several deadlines (hourly
reassert, follow-up after a resume, retry of a failed SMU call, drift check,
driver reset) run beside each other.  The hazards are listed one by one, with
their lines and the properties that cover them, in `PROJECT.json`.

What makes each component correct:

- decisions: limits stay in the safe ranges whatever the file says; an idle stage
  lowers and never raises; on battery the VRM current stays under the battery
  profile's limit; the low battery guard beats a manual choice, which beats a game,
  which beats the power source;
- idle detector: an overlay is earned by an unbroken quiet run and ends with the
  first busy sample;
- engine and daemon: the machine holds the target; failures are repaired; state
  files, answers and the remembered choice tell the truth across restarts;
- front end: every caller gets its own answer, and requests apply in order;
- facts: no change of the world is missed for longer than its interval;
- guard: a second writer beside a live daemon does not prevail;
- records of replaced values: what was there at boot can be put back.

## Modules

| Module | Models | |
|---|---|---|
| `Profiles` | the pure functions of `elitebook_profiles.py` | operators only |
| `Decisions`, `MCDecisions` | `Profiles` under every combination of inputs | checked |
| `IdleDetector` | class `IdleDetector` | the variable `idle` and functions of it |
| `IdleHysteresis` | the detector alone under any samples, with history | checked |
| `Engine`, `MCEngine` | `elitebook_engine.py` and the daemon loop that drives it; EXTENDS `Profiles` and `IdleDetector` | checked |
| `PowerPolicy` | what the engine and daemon promise, without ticks, files or faults; `Engine` implements it | refined |
| `Service`, `MCService` | the daemon's process write by write, systemd, the power guard | checked |
| `Facts`, `MCFacts` | where the facts come from: `PowerWatch`, `GameDetector`, the sensor, the config's mtime, and the world they watch | checked |
| `FrontEnd` | the way of a click: panel, polkit, D-Bus front end, control socket | checked |
| `ProfilesProofs`, `DecisionsProofs`, `IdleProofs`, `EngineProofs`, `PolicyProofs`, `ServiceProofs`, `FactsProofs`, `FrontEndProofs` | lemmas and theorems | proved |

`Engine`, `Facts`, `Service` and `FrontEnd` look at one program from four sides and
meet at its interfaces.  The facts of `Engine` are any facts at any tick; how old they
may be is `Facts`.  A request is one action of `Engine`; when and for whom it is made
is `FrontEnd`.  A step is one action of `Engine`, whose parts differ by what they
compare; `Service` takes the step apart at every write that has a record, and takes
the target as any of a few, because what it says holds for any order of targets.

### Profiles and Decisions

The built-in profiles carry their real numbers.  A parsed `profiles.conf` is a
function from `<<profile, field>>` to a raw value; text that is not of its field's
type is `Garbage`, an absent or empty key is outside the domain.  `Override` keeps
the current value for anything `Accepted` refuses.  `TargetFor` and
`CapBatteryCurrent` are `target_for` and `cap_battery_current`; the VRM limit sits
beside the power limits in the model's target, because RyzenAdj treats it
differently.  `Decisions` lets the inputs change freely, so every reachable state is
one call of the decision functions.

### IdleDetector and IdleHysteresis

A sample is what the two threshold comparisons make of load and busy share: quiet,
busy or between.  This assumes the enter thresholds below the exit ones, as by
default; `_env_int` would accept other orders and zero samples, and the model does
not cover those.  `IdleHysteresis` adds two history variables the detector does not
see: the run of quiet samples and the run of samples without a busy one.

### Engine

| Variable | Code |
|---|---|
| `phase` | the process: stopped, crashed, starting (constructed), up (after READY=1) |
| `config`, `manual`, `latched`, `base`, `applied`, `stage`, `written` | the fields of `Engine` of that meaning |
| `facts` | `Engine.last_facts` but for the clock and the CPU sample |
| `status` | `smu_status`, `panel_state`, `aspm_state`; "failed" stands for "failed" and "blocked" |
| `timers` | `next_reassert`, `followup`, `next_smu_retry`, `next_drift_check`, `next_driver_reset` as the ticks left |
| `thermal`, `stock` | `ThermalTracker`, `SysfsHardware.stock_vrmmax_ma` |
| `current`, `overlayFile`, `thermalFile`, `override`, `stockRecord` | `/run`: `current`, `idle-watcher`, `thermal`, `override`, `smu-stock` |
| `pmFile`, `aspmFile` | `/run`: `runtime-pm-defaults`, device by device, and `pcie-aspm-default` |
| `hw` | what the machine holds: the tuned profile, the CPU policy of the first cpufreq policy and of the others, the driver's mode, the SMU limits, the VRM limit, `power/control` of each device, the panel's level, the ASPM policy; `Other` for a value nobody here asked for |
| `reply` | what `handle()` answered in the last step |

| Action | Code |
|---|---|
| `Start` | `Daemon.__init__`, with `stock_vrmmax` and `build_engine` |
| `FirstStep` | the step of `run()` before READY=1 |
| `Tick` | `check_resume`, `check_config`, `facts`, `Engine.step` |
| `Choose`, `HandleReassert` | `Daemon.handle` and `refresh` for `set`, `auto` and `reassert` |
| `Stop` | SIGTERM: `leave_idle` and the removal of the overlay |
| `Crash` | SIGKILL or the watchdog; an exception in the loop goes through `finally` and is a `Stop` |
| `Disturb` | another tool, the firmware or the cpufreq driver (external) |

`Step` is `Engine.step` with everything it calls, in the order of the code: the
choice, the latch, the dropped manual choice with its file, the idle stage, the
target, the writes, the drift check, the deadlines, the state file, the overlay
file, the thermal record.  Abstractions:

- One tick is one unit of time; a deadline is a countdown.  A request between ticks
  finds the timers as the last tick left them.
- A step is atomic.  A kill in the middle of one is in `Service`.
- `refused` is the set of operations one step finds refused.  `applied` is the new
  target all the same (`_reconcile`, 769), and a part whose write was refused keeps what
  it held, which may be an older target's value.  Where more than one value is written
  (tuned, the files of a cpufreq policy, the limits of a RyzenAdj call), "partly" says
  that some of it was done: that leaves `Other`.
- tuned rewrites the CPU policy as it switches; a switch that failed before it did
  anything does not.
- Runtime PM and ASPM go through their records as in `elitebook_common.py`: "auto" and a
  policy record what they replace, and under "default" only what is on record is written.
  Runtime PM drops its record even when a device refused the value, ASPM keeps it until
  the policy is back.  A boot value whose record is gone, or that was changed from
  outside with none, is never written again: `DeviceHolds` and `AspmHolds` ask under
  "default" only for what is still on record (`DeviceBack`, `AspmBack`), and `BootKept`
  says when that is the boot value.
- The drift check reads the first cpufreq policy only (`read_cpu`) and rewrites all of
  them.  Where another policy alone is off, the next reassert is what repairs it.
- A game's source, "steam-game-watcher" in the code, is "game" here.
- The state, overlay, thermal and override files are written without failures; the code
  logs one and goes on.  The cache of resolved
  profiles, cleared by every reload, is left out.
- tuned-adm is taken to be installed, and read-back of the CPU policy is exact (the
  code allows for the driver's rounding).
- `Disturb` may set the devices to any values and any other part to `Other`; a
  disturbance of the SMU limits sets the VRM limit to the firmware's.

### PowerPolicy

The promise a user can see: a rule (which profile, by automatic choice, by hand or by
a game), the facts it was decided on, one choice that outlives the daemon and is
forgotten only to the low battery guard, the guard that holds on until the charge is
above the hysteresis, and what a request was told.  The refinement mapping in `Engine`
reads the rule off `base`, the choice off the override *file* and the answer off
`reply`.  The latch of the code has no counterpart: the policy sees only what rules.
A tick is an `Observe`; a crash or a stop an `End`; a start is a stutter.

### Service

`at` is the place in the process between two writes: the record of the firmware's VRM
limit (`stock_vrmmax`), then `_reconcile`'s CPU, SMU, device, ASPM and state file
writes.  `applied` is None when a reassert makes every part due.  `/run` outlives the
process, the machine outlives both; `Init` is a boot.  `Kill` may strike at any place;
a unit that failed waits for a restart or, after the start limit, has failed.  The
guard is a second process with its own place: it looks at the unit, starts it, looks
again, asks for a reassert, looks once more and writes its fallback, and anything may
happen between two looks.  Two histories name what the code does lose: `orphans`, the
devices whose boot value was never recorded or whose record was thrown away, and
`blurred`, a kill with a profile's VRM limit in force and no file to show it.
Abstractions: the panel's knob and TuneD have no record and are left to `Engine`; the
SMU write succeeds here; the start limit is a choice of `Kill`, and `systemctl start`
within the ten minutes it lasts is taken to work, the guard coming six hours apart.

### Facts

The daemon's main loop (`select`, `drain`, `serve_one`, the tick) against a world that
changes between any two of its steps.  The socket for kernel events holds `QueueSize`
of them; the next one leaves an error for the reader, and until the queue is empty
the kernel drops in silence.  `mtime` stands for the file and its contents.  Power
supplies, hwmon devices and process tables are whole directories, and `OnAcPower`,
`BatteryCapacity`, `FindTemperatureInput` and `FindSteamGame` are computed from them
as in the code.  `ages` counts for how many ticks a fact has been wrong.

The config is loaded after its mtime is taken, at start (`build_engine` even loads it
before) and in `check_config`; the file may change between the two.  `raced` names a
load that saw another file than the stat it goes with.  The next check repairs it,
unless the file is by then the one the stat saw: an edit undone, or at start the edit
itself.  Then nothing is loaded until the file changes once more, and `ConfigPickedUp`
excepts exactly that.  The undone edit takes three changes, one more than the run has;
the proof, which has no such bound, found it, and a run of a smaller world with three
changes shows it.

### FrontEnd

Each click is a call.  The main loop, the worker thread, polkit, the daemon's socket
and the panel's pkexec interleave freely.  `locals` are the variables of
`Forwarder._run`, and a callback on the main loop is the name of the variable it will
look up, because that is what the closure holds.  A panel that gets no answer in time,
or whose front end dies, goes to pkexec; a refusal does not.

The repository's README table gives the battery profile 30 W and 88 °C; the code has 22 W and
80 °C, and the model follows the code.

## Runs

| Run | What it shows | States |
|---|---|---|
| `decisions` | the decision functions over good, edge, bad and absent configuration | 7 200 |
| `idle` | the detector with its real thresholds (5 and 30 samples) | 846 |
| `engine` | the daemon without faults but one kill: ticks, requests, AC and battery around the threshold, games, idle stages, two configurations | 9 160 |
| `engine_faults` | two faults: refused operations, outside changes, a stuck driver, kills, resumes | 24 219 |
| `engine_thermal` | the thermal record in memory and on disk | 13 466 |
| `front_end` | three clicks, one for an unknown profile, three faults | 286 818 |
| `service` | the process write by write, killed anywhere, two faults, three devices, four targets | 150 010 |
| `facts` | the facts against a world that changes twice at any moment | 731 500 |
| `front_end_answers` | violated: a caller is answered with another's outcome | |
| `soft_idle` | violated: soft idle raises EPP of the `cool` and `battery-saver` profiles | |
| `engine_stop` | violated: a stop on battery lifts the VRM limit to the firmware's | |
| `engine_record` | violated: a change of source alone restarts the thermal record | |

The properties, by what they are for:

- **The machine is what was decided.** `HardwareIsTarget` (no fault: every part holds
  exactly the target of the facts, or its boot value), `NothingLeftBehind` (after any
  faults: a step that is refused nothing takes every part that held the last target to
  the new one, device by device and policy by policy, and loses no boot value; a part a
  refusal left at an older target's value may stay there till its repair), `Repaired`
  (ticks put it back), `RepairsComeNearer` (step by step: each deadline comes nearer or
  its repair is made: the reassert settles every part, the drift check the policy it
  reads, the retry the SMU limits), `DeadlinesKept` (no deadline is ever further than its
  interval; a failed SMU call, only that, has a retry waiting).
- **The choice.** `LowBatteryWins`, `ChoiceInForce`, `AnswerIsTrue`, `NoFlapping`,
  `StrongestClaimWins`, and all of them in one: `ImplementsPolicy`.
- **Limits.** `BatteryCurrentHeld`, `BatteryCurrentCapped`, `OverridesStaySafe`,
  `IdleNeverRaises`.
- **Idle.** `OverlayEarned`, `RunDecides`, `OverlayByTicks`.
- **Files.** `CurrentTellsTruth`, `OverlayTellsTruth` (and after a stop without refusals
  neither the caps nor the power limits of an overlay), `RecordOnDisk`.
- **Boot values.** `AspmBootKept` (without exception, wherever the process dies),
  `DevicesComeBack` and `StockIsFirmware` (but for the windows `orphans` and `blurred`
  name, which shows that there are no others).
- **The service.** `ComesBack` (from a stop, a crash and the start limit),
  `OwnerPrevails` (the guard's fallback beside a starting daemon does not last).
- **Facts.** `PowerNoted` (no event is lost between drain, request and tick; what comes
  without an event waits for the poll at most), `GameNoticed`, `SensorFound`,
  `ConfigPickedUp`.
- **Requests.** `HandledInOrder`, `AnswersAddUp`, `RefusalIsFinal`, `WorkedOff`.

### Bounds

Intervals of one to four ticks keep the deadlines' orders (a retry before and after a
reassert, a drift check at every or every other tick) with few states; the code
compares a deadline only with now, so longer intervals add no new order.  Soft idle
after one quiet sample and deep after two pass through every stage; the real
thresholds are in `idle`, and the proofs hold for any.  Charges of 20, 22 and 23 %
are at the threshold, at the end of the hysteresis and above it; `decisions` adds
the points beside the threshold and an unreadable battery.  `MaxFaults`
(one in `engine`, two in `engine_faults`) bounds the steps that are refused something,
disturbances and kills in a behaviour: two are needed for a failure during the repair of another.  `engine_faults`
has two sets of facts only, mains and a battery at the threshold: `ac` and
`battery-saver` differ in tuned profile, CPU policy, SMU and VRM limits, runtime PM and
panel level, and the configuration gives `battery-saver` an ASPM policy, so every part
changes with the profile, and runtime PM and ASPM go to "default" and back.  What is
refused to one step there are operations on several parts at once, since the parts do
not read each other but for tuned and the CPU policy; one device, on "on" at boot, stands
for all (`engine` has one on "auto" too), and its outside changes for those of the panel
and the ASPM policy.  `RepairsNear` and `NothingBehind` hold without these bounds.
In `front_end` three faults let a call time out, the daemon die under it and the front
end die after, which is the longest chain the code handles; two known calls are enough
for any two requests to change places and the unknown one for the early refusal.  In
`service` two kills are needed for a record to be half written and then misread; a
device on auto at boot must never be recorded.  Three faults were checked too
(524 000 states) and are left out for time.  In `facts` two changes let a fact change
during the repair of a change, and a queue of one overflows with the second event; the
file edited, loaded and put back takes three, and is left to the proof of
`ConfigPickedUp`.
`MaxSamples` stops the thermal counters beyond a write interval.  The proofs rest on
none of these values.  The runs of `Engine`, `Service` and `Facts` check for deadlock;
`front_end` does not, because a behaviour ends when its clicks are used up.

### Fairness

`Repaired` assumes `TickTaken`: a daemon that stays up takes a tick infinitely
often.  The loop's `select()` has the next tick as its timeout and after any event
compares the clock with it (`run`, 1114-1130), so requests cannot starve the tick.
Nothing is assumed of requests, faults, restarts or the firmware; that faults stop
is the bound `MaxFaults`.  Liveness excepts a daemon that is down and a driver left in passive
mode, which the code cannot repair: `read_cpu` returns None there and
`reset_cpufreq_driver` refuses anything but active mode.  What `Settled` asks of devices
and ASPM under "default" is what is on record: a lost boot value is not repaired by the
code, and no property says so.

`Service` assumes weak fairness of what a process does next (`Starting`, `Writing`),
of `Restart` (systemd's RestartSec), of the guard's timer (`GuardWakes`, every six
hours) and of the guard's own steps, each of which has a timeout.  `Reasserting` is
strongly fair: the hourly deadline is compared at every tick, so a daemon that keeps
coming back to its loop takes a full reassert however often its target changes in
between; weak fairness would let changes of target put it off for ever.  Starting by
hand, stopping, killing and changing the target are not fair.

`FrontEnd` assumes weak fairness of polkit (it answers or POLKIT_TIMEOUT_MS runs out),
of the worker (its send ends in an answer, an error or DAEMON_TIMEOUT_S) and of the main
loop.  Nothing is assumed of the daemon: `WorkedOff` holds with a daemon that never
serves.

## Disagreements

1. `leave_idle` does not apply `cap_battery_current`.  On battery, with a profile
   that has no VRM limit of its own in force, stopping the service writes the
   firmware's limit back, which the repository's README says holds "whatever profile
   runs".  (`engine_stop`)
2. `target_for` gives soft idle its EPP unconditionally, so `cool` and
   `battery-saver` (EPP `power`) become more eager when idle, against the
   docstring of `IdleSettings`.  (`soft_idle`)
3. The thermal record starts over when the profile stays and only its source
   changes, against `docs/configuration.md`.  (`engine_record`)
4. The closures `Forwarder._run` leaves for the main loop look up its variables when
   they run.  If the worker takes the next request first, the last outcome goes to the
   next caller, the first caller gets none and the next one two.  The repository's test
   delivers at once and does not see it.  (`front_end_answers`)

## Proofs

| Theorem | Statement |
|---|---|
| `IdleProofs!Types`, `Earned`, `Decides` | `TypeOK`, `OverlayEarned`, `RunDecides` |
| `DecisionsProofs!Typed`, `Overrides`, `IdleLowers`, `CurrentCapped`, `StrongestWins` | the five invariants of `Decisions` |
| `EngineProofs!Types`, `Guard`, `Choices`, `Deadlines`, `StateFile`, `BatteryCurrent` | `TypeOK`, `LowBatteryWins`, `ChoiceInForce`, `DeadlinesKept`, `CurrentTellsTruth`, `BatteryCurrentHeld` |
| `EngineProofs!Answers` | `AnswerIsTrue` |
| `EngineProofs!Machine`, `NothingBehind`, `RepairsNear` | `HardwareIsTarget`, `NothingLeftBehind`, `RepairsComeNearer` |
| `EngineProofs!OverlayFile`, `Record`, `OverlayDeepens` | `OverlayTellsTruth`, `RecordOnDisk`, `OverlayByTicks` |
| `PolicyProofs!Implements` | `Spec => ImplementsPolicy`: the engine implements `PowerPolicy` |
| `PolicyProofs!SaverDoesNotFlap` | `NoFlapping` |
| `ServiceProofs!Types`, `AspmRecord`, `Stock`, `DevicesReturn` | `TypeOK`, `AspmBootKept`, `StockIsFirmware`, `DevicesComeBack` |
| `FrontEndProofs!Types`, `Ordered`, `AddsUp`, `CliFinal` | `TypeOK`, `HandledInOrder`, `AnswersAddUp`, `RefusalIsFinal` |
| `FactsProofs!Types`, `SupplyNoted`, `GameSeen`, `SensorSeen`, `ConfigSeen` | `TypeOK`, `PowerNoted`, `GameNoticed`, `SensorFound`, `ConfigPickedUp` |

They hold for every value of the constants that satisfies the assumptions named in
the modules: `NoneAssumption` and `NoneIsNoText` (None is not a number, a Boolean or
text), `IdleAssumption`, `DecisionsAssumption`, `EngineAssumption`, `NoneIsNoRule`,
`NoneIsNoRecord`, `NoneIsNoAnswer`, `ServiceAssumption`, `FactsAssumption`, `FrontEndAssumption`.
In particular for every `profiles.conf`,
every interval, any devices, targets and calls, and every number of faults.

The argument for `Engine` is two inductive invariants.  `Inv` is about what is decided
and holds whatever the machine holds: the properties
themselves and what ties them to the rest of the state.  A daemon that starts has
its choice from the override file and fresh timers (so that its first step keeps the
two equal); every timer fits its interval, also the ones a resume resets; `written` is the VRM
limit of the target applied last, which is why the state file is rewritten
whenever that limit changes; and the stock limit the daemon knows is a number or None,
so the value in the machine after a successful SMU call is the one asked for.  `ChoiceInForce` needs the low
battery guard's step as a case of its own: it drops the choice and the file
together.  Each action has a step of the proof; `Tick`, `FirstStep` and the two
requests share lemmas about `Step`.

`Kept` is about the machine, the overlay file and the thermal record, and rests on
`Inv`.  `HardwareIsTarget` is not inductive: a step compares with `applied`, so the
invariant adds that `applied` is the target of the last facts (`TargetKept`), and that
without a fault the cpufreq driver is active, or its policy could not be read, and the
boot values are what "default" would put back, also while no daemon is up (`Unspoilt`).
At its heart are two lemmas about one step that is refused nothing: `StepHolds`, a part
that held the last target holds the new one, because it is written or has the same
target before and after, and `StepSettles`, a step that writes all parts settles them
all.  `BackKept` says of such a step that what "default" puts back stays the same: what
"auto" replaces goes on record, and a record is dropped with its value in place.
`StepHolds` and `BackKept` need no history, so they give `NothingLeftBehind` from `Inv`
alone, after any faults; `RefusalCounts` says that a step that counts no fault was
refused nothing.  The overlay
file is right after a start because a daemon begins with none (`CleanStart`), and after
a stop because of what the machine held before it.  `RecordOnDisk` says nothing of a
record without samples; `RecordKept` adds that such a one is due to be written with the
first sample, which is why a fresh record starts with a full `pending`.  It needs
`NoneIsNoRecord`, as a file that is there must be told from none.
`OverlayByTicks` follows from the types and what `Step` makes of a sample.

`RepairsComeNearer` is what can be proved of `Repaired`.  A tick that nothing is refused
to either has a deadline one tick nearer (`TickDeadlines`) or does what it is for:
`StepSettles` says that a step that writes all parts leaves the machine settled,
`DriftRepairs` that a drift check leaves the first cpufreq policy right unless it waits
for the driver's reset, and a reset all of them, `SmuRepairs` that a retry leaves the SMU
limits right.  With
`DeadlinesKept`, which bounds the deadlines, only the induction over the ticks is left,
and TLC checks it as `Repaired`.

`ProfilesProofs` holds the lemmas about the decisions that the other two rest on:
that a resolved profile is safe, that a cap is lowered, that the battery cap is set
for every configuration.

The refinement needs one invariant more, `Latch`: the latch is set exactly while the
guard rules, and is down whenever no daemon is up; with it the threshold the engine
compares with is the policy's `Limit`.  `TakenDecides` says what any step decides,
whatever it writes; `NextDecides` sorts the engine's actions by what they come to; the
theorem maps each to an action of the policy or a stutter.  `NoneIsNoRule` keeps None
apart from the policy's records.

`ServiceProofs` has one invariant for each record, because each is kept in another
way.  For ASPM it says what the places between the record and the policy know: before
the policy is set the boot one is on record, and before the record is removed the boot
one is in force (`AspmInv`).  For the VRM limit: before a daemon reads it with neither
a record nor a state file there, nobody wrote it, unless a kill blurred it
(`StockInv`).  For the devices: one that was changed has its boot value on disk or in
the record the loop is about to save (`OnRecord`); what the loop has still to do covers
every device that is not as at boot (`InLoop`); and whenever the profile in force
leaves runtime PM alone, there is none (`PutBack`).  The guard writes only the CPU
policy and disturbs none of them.

In `FrontEndProofs` a granted call goes one way: the queue, the worker, the daemon's
backlog, the handled calls.  `HandledInOrder` speaks of the end of it and is not
inductive; `InOrder` says that each part of the way is sorted by the order of the
grants (`Sorted`) and the parts among themselves (`Apart`, `AtWorker`), and that a rank
is at most the number of grants, so that a new one is above all.  `AnswersAddUp` is
inductive with `Steps` (only a click there was is checked, so that none is counted
twice) and with `CliInv`, which also gives `RefusalIsFinal`: a click that is with
pkexec, or in the backlog for the command line, lost its call.

In `FactsProofs` a property bounds the age of a fact, and is not inductive, because a
bound on the age alone says nothing of the next tick.  The invariant adds the deadline:
the age and the ticks left to the next read are together no more than the interval
(`PowerBound`, `GameBound`, `SensorBound`), and a read starts both over.  For the sensor
a read that finds nothing counts too, because then there is nothing to find
(`SensorThere`); for a game the interval is that of the last scan, whatever Steam and
the supply did since.  The config has its check at the start of a tick and its age at
the end, so its bound depends on where the loop is (`ConfigBound`), and a load that did
not race is of the file the stat saw, which is what lets a check do without a load.
`Noted` follows a power event: the kernel queues it or leaves an error, unless the
socket is congested (`BroadcastTells`), and a recv that takes it marks the supply
(`RecvTells`).  `FactsAssumption` says that None is no sensor's driver and that
directories hold supplies, drivers and processes of the shapes the code reads.

Only model-checked: the properties that are liveness under fairness and so out of the
proof system's reach, `Repaired`, `ComesBack`, `OwnerPrevails` and `WorkedOff`.  Every
safety invariant and action property of the passing runs is a theorem.

## Not modelled

- The control socket's file (`_listen`: probe, unlink, bind) and the one-shot mode beside
  a starting daemon.  Two daemons never run under systemd; by hand they may.
- `check_hardware` and exit 78, `disable_dynamic_epp`: decided once, before the engine.
- `CpuSampler` and `load1`: arithmetic on two files; the detector takes any sample.
- The guard's checks of scripts, swap, hibernation and legacy units, the hibernation
  preflight, the measurement and report commands: they decide or print once, and keep
  nothing the daemon reads.
- The panel's indicator: it shows the state files.
- The installer and the packaging: I/O without a state of its own.

## Plan

1. `ControlSocket`: two daemons, probes, `apply-once`, the socket file.
2. For `ComesBack` and `OwnerPrevails` what `RepairsComeNearer` is for `Repaired`: the
   step-by-step part of each as an action property of `Service`, and its proof.
