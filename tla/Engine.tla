------------------------------- MODULE Engine -------------------------------
(***************************************************************************)
(* The reconcile engine of elitebook_engine.py under the daemon that       *)
(* drives it (elitebook-thermal-profile).  Every tick, and every control   *)
(* request, the engine chooses a profile from the facts, computes the      *)
(* target, writes the parts of it that differ from what it applied last,   *)
(* and reports in /run.  Every hour, after a resume, after a failed SMU    *)
(* call and on a drift check it writes again what it believes is there.    *)
(*                                                                         *)
(* One tick is one unit of time; a deadline is kept as the ticks left to   *)
(* it, 0 when due.  A write that is refused leaves what was there, or,     *)
(* where it is more than one write, a mixture: Other.  What the engine     *)
(* believes is the new target all the same.                                *)
(***************************************************************************)
EXTENDS Profiles, IdleDetector

CONSTANTS
  Other,               \* a hardware value nobody here asked for, or a mixture
  Overlay,             \* IdleSettings: what an idle stage asks for
  Configs,             \* the contents profiles.conf may have
  ManualChoices,       \* the profiles a request may ask for
  PowerFacts,          \* [on_ac, battery]: what the power supplies may read
  Games,               \* the answers of the game detector
  CpuSamples,          \* what a tick's CPU sample may be
  Sleeps,              \* whether the machine may have slept before a tick
  Temperatures,        \* package temperatures, or None
  LowThreshold,        \* ELITEBOOK_LOW_BATTERY_THRESHOLD
  SaverMaxFreq,        \* ELITEBOOK_BATTERY_SAVER_MAX_FREQ_KHZ
  FirmwareVrm,         \* the firmware's own VRM limit, at boot
  HasRyzenAdj,         \* the ryzenadj program was found
  Devices,             \* the PCI devices whose runtime PM may change
  BootControl,         \* their power/control at boot
  BootAspm,            \* the kernel's PCIe ASPM policy at boot
  ReassertInterval, ResumeFollowup, SmuRetry, DriftCheck, DriverResetInterval,
  WriteSamples,        \* ELITEBOOK_THERMAL_WRITE_SAMPLES
  MaxSamples,          \* bound: the thermal record's counters stop there
  Refusals,            \* the sets of operations one step may find refused
  Disturbances,        \* the parts something else may change
  MaxFaults            \* bound: steps refused something, disturbances and crashes

Hysteresis == 2        \* LOW_BATTERY_HYSTERESIS, percentage points

\* What the cpufreq driver holds: read_cpu looks at the first policy only.
Cpus == {"policy0", "others"}

\* What may be refused: a tuned switch, the files of a cpufreq policy, a limit in a
\* RyzenAdj call, the panel's knob, the ASPM policy, the records of replaced values,
\* the two halves of a driver reset; and Devices.  "partly" says that what is refused
\* was done in part.
Operations == Cpus \cup {"tuned", "power", "vrm", "panel", "aspm", "records", "reset",
                        "passive", "partly"}

ASSUME EngineAssumption ==
  /\ Other \notin {None}
  /\ None \notin {"on", "auto"} \cup PcieAspmPolicies
  /\ BootControl \in [Devices -> {"on", "auto"}]
  /\ BootAspm \in PcieAspmPolicies
  /\ ManualChoices \subseteq ProfileNames
  /\ PowerFacts \subseteq [on_ac : BOOLEAN, battery : (0..100) \cup {None}]
  /\ Games \subseteq BOOLEAN /\ Sleeps \subseteq BOOLEAN
  /\ CpuSamples \subseteq Samples
  /\ Temperatures \subseteq Int \cup {None}
  /\ LowThreshold \in 0..100
  /\ SaverMaxFreq \in Nat
  /\ FirmwareVrm \in Nat
  /\ HasRyzenAdj \in BOOLEAN
  /\ {ReassertInterval, ResumeFollowup, SmuRetry, DriftCheck, DriverResetInterval,
      WriteSamples, MaxSamples} \subseteq Nat \ {0}
  /\ Refusals \subseteq SUBSET (Operations \cup Devices)
  /\ Disturbances \subseteq {"tuned", "policy0", "others", "power", "devices", "panel", "aspm",
                            "stuck"}
  /\ MaxFaults \in Nat

\* Python's None is no profile in force.
ASSUME NoneIsNoRule ==
  None \notin [name : ProfileNames, by : {"auto", "manual", "game"}]

\* The record of temperatures as it is on disk; no record is none.
Records == [profile : ProfileNames, target : Int, peak : Int, samples : Nat, over : Nat]

ASSUME NoneIsNoRecord == None \notin Records

\* Nor is it an answer to a request.
ASSUME NoneIsNoAnswer == None \notin [wanted : ProfileNames \cup {None}, ok : BOOLEAN]

VARIABLES
  phase,     \* the daemon: "stopped", "crashed", "starting" or "up"
  config,    \* Engine.config
  manual,    \* Engine.manual
  latched,   \* Engine._saver_latched
  facts,     \* Engine.last_facts, but for the clock
  base,      \* Engine.base: [profile, source]
  applied,   \* Engine.applied: the target last written
  stage,     \* Engine.stage: the overlay last reported
  status,    \* smu_status, panel_state and aspm_state
  written,   \* Engine._written_vrmmax
  timers,    \* ticks left to each deadline
  thermal,   \* the ThermalTracker
  stock,     \* SysfsHardware.stock_vrmmax_ma
  current,     \* /run: the base profile and what was written for it
  overlayFile, \* /run: idle-watcher, the overlay while there is one
  thermalFile, \* /run: the thermal record as last written
  override,    \* /run: the manual choice
  stockRecord, \* /run: smu-stock
  pmFile,      \* /run/runtime-pm-defaults: the value recorded for each device
  aspmFile,    \* /run/pcie-aspm-default
  hw,        \* what the machine holds
  reply,     \* what handle() answered, if the last step served a request
  faults     \* faults so far

memory == <<config, manual, latched, idle, facts, base, applied, stage, status, written,
            timers, thermal, stock>>
files == <<current, overlayFile, thermalFile, override, stockRecord, pmFile, aspmFile>>
vars == <<phase, memory, files, hw, reply, faults>>

-----------------------------------------------------------------------------
(* Facts and deadlines *)

TickFacts(power, game, temp) ==
  [on_ac |-> power.on_ac, battery |-> power.battery, game |-> game, temp |-> temp]

Sooner(left) == IF left = None \/ left = 0 THEN left ELSE left - 1

Elapse(t) == [deadline \in DOMAIN t |-> Sooner(t[deadline])]

\* Engine.request_reassert, with followup when the machine slept.
RequestReassert(t, followup) ==
  [t EXCEPT !.reassert = 0, !.followup = IF followup THEN ResumeFollowup ELSE @]

\* Mutant: only a resume reasserts.
ReassertDueOnResume(t) == t.followup = 0

ReassertDue(t) == t.reassert = 0 \/ t.followup = 0

NoTimers == [reassert |-> 0, followup |-> None, smuRetry |-> None, drift |-> 0,
             driverReset |-> 0]

-----------------------------------------------------------------------------
(* The profile in force *)

\* Mutant: the latch is forgotten.
ThresholdNoLatch(latch) == LowThreshold

Threshold(latch) ==
  IF latch /\ LowThreshold > 0 THEN LowThreshold + Hysteresis ELSE LowThreshold

Chosen(f, choice) ==
  ChooseBase(f.on_ac, f.battery, Threshold(latched), choice, f.game)

SaverForced(chosen) == chosen.source = "auto" /\ chosen.name = "battery-saver"

\* The low battery guard drops a manual choice for good.
KeptChoice(f, choice) == IF SaverForced(Chosen(f, choice)) THEN None ELSE choice

\* Mutant: the override file outlives the choice it holds.
KeptOverrideStale(f, choice, file) == file

\* Mutant: the file is written for no choice instead of being removed.
KeptOverrideText(f, choice, file) ==
  IF SaverForced(Chosen(f, choice)) /\ choice # None THEN "none" ELSE file

KeptOverride(f, choice, file) ==
  IF SaverForced(Chosen(f, choice)) /\ choice # None THEN None ELSE file

Resolved(name, conf) == ResolveProfile(name, conf, SaverMaxFreq)

BatteryCap(conf) == Resolved("battery", conf).vrmmax_ma

\* Mutant: a control request counts as a quiet sample.
NextIdleAlways(sample, name) ==
  IdleUpdate(idle, IF sample = None THEN "quiet" ELSE sample, name # "gaming")

\* A request between ticks reuses the detector's stage; gaming has no overlay.
NextIdle(sample, name) ==
  IF sample # None THEN IdleUpdate(idle, sample, name # "gaming")
  ELSE IF name = "gaming" THEN IdleReset ELSE idle

Target(f, profile, conf, newStage) ==
  LET target == TargetFor(profile, newStage, Overlay)
  IN  IF f.on_ac THEN target ELSE CapBatteryCurrent(target, BatteryCap(conf))

-----------------------------------------------------------------------------
(* What a reconcile writes: all of it on the first one and on a reassert,  *)
(* else the parts that differ from the target applied last                 *)

Everything(t) == applied = None \/ ReassertDue(t)

TunedDue(t, target) == Everything(t) \/ applied.tuned # target.tuned

\* tuned may rewrite EPP, so the CPU policy follows a tuned switch.
CpuDue(t, target) == TunedDue(t, target) \/ applied.cpu # target.cpu

\* Mutant: the VRM limit is not compared.
SmuDueByPower(t, target) ==
  Everything(t) \/ t.smuRetry = 0 \/ applied.power # target.power

SmuDue(t, target) ==
  \/ Everything(t)
  \/ t.smuRetry = 0
  \/ applied.power # target.power
  \/ applied.vrmmax_ma # target.vrmmax_ma

DevicesDue(t, target) == Everything(t) \/ applied.devices # target.devices

AspmDue(t, target) == Everything(t) \/ applied.aspm # target.aspm

-----------------------------------------------------------------------------
(* What the machine holds after the writes, given the operations it refuses.   *)
(* A part that is not due, or already as wanted, is not written.               *)

\* What a refused write of more than one value leaves.
Left(there, refused) == IF "partly" \in refused THEN Other ELSE there

\* tuned-adm is run only when tuned reports another profile than the one wanted.
SwitchTuned(t, target) == TunedDue(t, target) /\ hw.tuned # target.tuned

\* It may fail before it has done anything, or time out on the way.
TunedAfter(t, target, refused) ==
  IF ~SwitchTuned(t, target) THEN hw.tuned
  ELSE IF "tuned" \in refused THEN Left(hw.tuned, refused) ELSE target.tuned

CpuLost == [part \in Cpus |-> Other]

\* A CPU policy written over what is there.  A stuck driver accepts the write and
\* ignores it; in passive mode the EPP file is gone.
CpuWritten(there, cpu, driver, refused) ==
  [part \in Cpus |->
     IF there[part] = cpu THEN cpu
     ELSE IF part \in refused THEN Left(there[part], refused)
     ELSE IF driver = "active" THEN cpu ELSE Other]

\* A tuned profile has an EPP of its own: the CPU policy is written over it.
CpuAfterTuned(t, target, refused) ==
  IF SwitchTuned(t, target) /\ ("tuned" \in refused => "partly" \in refused)
    THEN CpuLost ELSE hw.cpu

\* Mutant: the CPU policy is written before tuned switches.
CpuBeforeTuned(t, target, refused) ==
  IF SwitchTuned(t, target) THEN CpuLost
  ELSE IF ~CpuDue(t, target) THEN hw.cpu
  ELSE CpuWritten(hw.cpu, target.cpu, hw.driver, refused)

CpuAfterWrites(t, target, refused) ==
  IF ~CpuDue(t, target) THEN hw.cpu
  ELSE CpuWritten(CpuAfterTuned(t, target, refused), target.cpu, hw.driver, refused)

\* The argument of --vrmmax-current: the firmware's value for a profile that
\* has none, and no argument at all when that was never read.
VrmArg(vrmmax, known) == IF vrmmax # None THEN vrmmax ELSE known

\* A RyzenAdj call fails when it does not run or does not set all its limits.
SmuStatus(refused) ==
  IF ~HasRyzenAdj THEN "unavailable"
  ELSE IF {"power", "vrm"} \cap refused # {} THEN "failed" ELSE "ok"

PowerAfter(t, target, refused) ==
  IF ~SmuDue(t, target) \/ ~HasRyzenAdj THEN hw.power
  ELSE IF "power" \in refused THEN Left(hw.power, refused) ELSE target.power

VrmAfter(t, target, refused) ==
  IF \/ ~SmuDue(t, target) \/ ~HasRyzenAdj \/ "vrm" \in refused
     \/ VrmArg(target.vrmmax_ma, stock) = None
    THEN hw.vrm
    ELSE VrmArg(target.vrmmax_ma, stock)

\* What "default" would leave a device at: the value on record, if there is one.
DeviceBack(d) == IF pmFile[d] # None THEN pmFile[d] ELSE hw.control[d]

\* apply_pci_runtime_pm: "auto" for every device, or the recorded values back.
ControlAfter(t, target, refused) ==
  [d \in Devices |->
     IF ~DevicesDue(t, target) \/ d \in refused THEN hw.control[d]
     ELSE IF target.devices.runtime_pm = "auto" THEN "auto" ELSE DeviceBack(d)]

\* "auto" adds what it replaced to the record, "default" drops the record, whether
\* the devices took their values or not.
PmRecordAfter(t, target, refused) ==
  [d \in Devices |->
     IF ~DevicesDue(t, target) \/ "records" \in refused THEN pmFile[d]
     ELSE IF target.devices.runtime_pm # "auto" THEN None
     ELSE IF d \in refused \/ hw.control[d] = "auto" THEN pmFile[d] ELSE DeviceBack(d)]

PanelAfter(t, target, refused) ==
  IF ~DevicesDue(t, target) \/ "panel" \in refused THEN hw.panel ELSE target.devices.panel

\* What "default" would leave the ASPM policy at.
AspmBack == IF aspmFile # None THEN aspmFile ELSE hw.aspm

\* apply_pcie_aspm: a policy replaces another only once that is on record.
AspmSet(t, target, refused) ==
  /\ AspmDue(t, target) /\ target.aspm # "default" /\ hw.aspm # target.aspm
  /\ aspmFile = None => "records" \notin refused

AspmAfter(t, target, refused) ==
  IF "aspm" \in refused THEN hw.aspm
  ELSE IF AspmSet(t, target, refused) THEN target.aspm
  ELSE IF AspmDue(t, target) /\ target.aspm = "default" THEN AspmBack
  ELSE hw.aspm

\* The record stays as long as its policy was not put back.
AspmRecordAfter(t, target, refused) ==
  IF AspmSet(t, target, refused) THEN AspmBack
  ELSE IF AspmDue(t, target) /\ target.aspm = "default" /\ "records" \notin refused
          /\ AspmAfter(t, target, refused) = AspmBack
    THEN None
  ELSE aspmFile

\* Mutant: a driver that does not do its work is not checked either.
DriftedActive(t, there, cpu) == t.drift = 0 /\ hw.driver = "active" /\ there.policy0 # cpu

\* _check_drift: the first policy is read back, unless the driver is passive and there
\* is nothing to compare, and all are rewritten where it does not match.
Drifted(t, there, cpu) == t.drift = 0 /\ hw.driver # "passive" /\ there.policy0 # cpu

\* Where the rewrite does not hold either, at most once an hour the driver is
\* registered anew, through passive mode and back.
ResetTried(t, there, cpu, refused) ==
  /\ Drifted(t, there, cpu)
  /\ CpuWritten(there, cpu, hw.driver, refused).policy0 # cpu
  /\ t.driverReset = 0

DriverAfter(t, there, cpu, refused) ==
  IF ~ResetTried(t, there, cpu, refused) \/ "reset" \in refused THEN hw.driver
  ELSE IF "passive" \in refused THEN "passive" ELSE "active"

\* The policy is lost in a reset and written once more after it.
CpuAfterDrift(t, there, cpu, refused) ==
  IF ~Drifted(t, there, cpu) THEN there
  ELSE IF ResetTried(t, there, cpu, refused) /\ "reset" \notin refused
    THEN CpuWritten(CpuLost, cpu, DriverAfter(t, there, cpu, refused), refused)
  ELSE CpuWritten(there, cpu, hw.driver, refused)

Hardware(t, target, refused) ==
  LET there == CpuAfterWrites(t, target, refused)
  IN  [tuned |-> TunedAfter(t, target, refused),
       cpu |-> CpuAfterDrift(t, there, target.cpu, refused),
       driver |-> DriverAfter(t, there, target.cpu, refused),
       power |-> PowerAfter(t, target, refused),
       vrm |-> VrmAfter(t, target, refused),
       control |-> ControlAfter(t, target, refused),
       panel |-> PanelAfter(t, target, refused),
       aspm |-> AspmAfter(t, target, refused)]

\* The records of what runtime PM and ASPM replaced.
Recorded(t, target, refused) ==
  /\ pmFile' = PmRecordAfter(t, target, refused)
  /\ aspmFile' = AspmRecordAfter(t, target, refused)

\* A knob that does not hold its level was refused: Other stands for "failed".
NextStatus(t, target, refused) ==
  [smu |-> IF SmuDue(t, target) THEN SmuStatus(refused) ELSE status.smu,
   panel |-> IF ~DevicesDue(t, target) THEN status.panel
             ELSE IF PanelAfter(t, target, refused) = target.devices.panel
               THEN target.devices.panel ELSE Other,
   aspm |-> IF ~AspmDue(t, target) THEN status.aspm
            ELSE IF AspmSet(t, target, refused) /\ "aspm" \in refused THEN "failed"
            ELSE AspmAfter(t, target, refused)]

-----------------------------------------------------------------------------
(* The record of temperatures *)

NoRecord == [profile |-> None, target |-> 0, peak |-> 0, samples |-> 0, over |-> 0,
             pending |-> 0]

\* ThermalTracker.reset: the next sample is written at once.
FreshRecord(profile) ==
  [profile |-> profile.name, target |-> profile.tctl_c, peak |-> 0, samples |-> 0,
   over |-> 0, pending |-> WriteSamples]

\* ThermalTracker.sample, up to its write; the counters stop at MaxSamples.
Counted(r, temp) ==
  [r EXCEPT !.samples = AtMost(@ + 1, MaxSamples),
            !.peak = IF temp > @ THEN temp ELSE @,
            !.over = IF r.target > 0 /\ temp > r.target THEN AtMost(@ + 1, MaxSamples) ELSE @,
            !.pending = @ + 1]

SampleIgnored(r, temp) == temp = None \/ r.profile = None

\* Mutant: a new peak waits for the interval.
RecordDueByCount(r, temp) == r.pending + 1 >= WriteSamples

RecordDue(r, temp) == temp > r.peak \/ r.pending + 1 >= WriteSamples

Sampled(r, temp) ==
  IF SampleIgnored(r, temp) THEN r
  ELSE IF RecordDue(r, temp) THEN [Counted(r, temp) EXCEPT !.pending = 0]
  ELSE Counted(r, temp)

RecordFile(r) == [profile |-> r.profile, target |-> r.target, peak |-> r.peak,
                  samples |-> r.samples, over |-> r.over]

TrackThermal(r, temp) ==
  /\ thermal' = Sampled(r, temp)
  /\ thermalFile' = IF ~SampleIgnored(r, temp) /\ RecordDue(r, temp)
                      THEN RecordFile(thermal') ELSE thermalFile

-----------------------------------------------------------------------------
(* Reconcile: write, check for drift, set the deadlines, report *)

\* Mutant: a failed call is retried by the next reassert only.
NextTimersNoRetry(t, target, refused) ==
  [reassert |-> IF ReassertDue(t) THEN ReassertInterval ELSE t.reassert,
   followup |-> IF t.followup = 0 THEN None ELSE t.followup,
   smuRetry |-> None,
   drift |-> IF t.drift = 0 THEN DriftCheck ELSE t.drift,
   driverReset |-> t.driverReset]

NextTimers(t, target, refused) ==
  [reassert |-> IF ReassertDue(t) THEN ReassertInterval ELSE t.reassert,
   followup |-> IF t.followup = 0 THEN None ELSE t.followup,
   smuRetry |-> IF ~SmuDue(t, target) THEN t.smuRetry
                ELSE IF SmuStatus(refused) = "failed" THEN SmuRetry ELSE None,
   drift |-> IF t.drift = 0 THEN DriftCheck ELSE t.drift,
   driverReset |-> IF ResetTried(t, CpuAfterWrites(t, target, refused), target.cpu, refused)
                     THEN DriverResetInterval ELSE t.driverReset]

Report(profile, source, target, st) ==
  [profile |-> profile, source |-> source, vrmmax_ma |-> target.vrmmax_ma, smu |-> st.smu,
   panel |-> st.panel, aspm |-> st.aspm]

OverlayReport(newStage, profile, source, target) ==
  IF newStage = "none" THEN None
  ELSE [stage |-> newStage, profile |-> profile.name, source |-> source, cpu |-> target.cpu,
        power |-> target.power]

\* A new base, that is another profile or another source, starts a new record.
RecordFor(profile, source) ==
  IF base = [profile |-> profile, source |-> source] THEN thermal ELSE FreshRecord(profile)

\* Mutant: the VRM limit in force is not compared.
CurrentDueByBase(newBase, newStatus, newWritten) == newBase # base \/ newStatus # status

CurrentDue(newBase, newStatus, newWritten) ==
  newBase # base \/ newStatus # status \/ newWritten # written

\* Mutant: the overlay file keeps the base profile it was written for.
OverlayDueByStage(newBase, newStage) == newStage # stage

\* The overlay file names its base profile, so a new base rewrites it too.
OverlayDue(newBase, newStage) ==
  newStage # stage \/ (newBase # base /\ newStage # "none")

\* In the order of the code: the writes, the drift check, the deadlines, the
\* state file, the overlay file.
Reconcile(profile, source, newStage, target, t, refused) ==
  /\ applied' = target
  /\ hw' = Hardware(t, applied', refused)
  /\ Recorded(t, applied', refused)
  /\ status' = NextStatus(t, applied', refused)
  /\ timers' = NextTimers(t, applied', refused)
  /\ base' = [profile |-> profile, source |-> source]
  /\ written' = applied'.vrmmax_ma
  /\ current' = IF CurrentDue(base', status', written')
                  THEN Report(profile, source, applied', status') ELSE current
  /\ stage' = newStage
  /\ overlayFile' = IF OverlayDue(base', newStage)
                      THEN OverlayReport(newStage, profile, source, applied')
                      ELSE overlayFile

\* What is refused to one step or stop is one fault, within the bound on faults.
Refuse(refused) ==
  /\ faults' = IF refused = {} THEN faults ELSE faults + 1
  /\ faults' <= MaxFaults

\* Engine.step on facts f, with choice as the manual profile, file as the
\* override file and conf as the configuration, t the deadlines at this instant;
\* sample is None when sample_idle is False.
Step(f, sample, choice, file, conf, t, refused) ==
  LET chosen == Chosen(f, choice)
      profile == Resolved(chosen.name, conf)
  IN  /\ Refuse(refused)
      /\ facts' = f
      /\ config' = conf
      /\ latched' = SaverForced(chosen)
      /\ manual' = KeptChoice(f, choice)
      /\ override' = KeptOverride(f, choice, file)
      /\ idle' = NextIdle(sample, chosen.name)
      /\ Reconcile(profile, chosen.source, idle'.stage,
                    Target(f, profile, conf, idle'.stage), t, refused)
      /\ TrackThermal(RecordFor(profile, chosen.source), f.temp)
      /\ UNCHANGED <<stock, stockRecord>>

-----------------------------------------------------------------------------
(* The daemon *)

Forget ==
  /\ latched' = FALSE
  /\ idle' = IdleReset
  /\ facts' = None
  /\ base' = None
  /\ applied' = None
  /\ stage' = "none"
  /\ status' = [smu |-> "unknown", panel |-> None, aspm |-> "unknown"]
  /\ written' = Other
  /\ timers' = NoTimers
  /\ thermal' = NoRecord

Init ==
  /\ phase = "stopped"
  /\ config \in Configs
  /\ manual = None
  /\ latched = FALSE
  /\ idle = IdleReset
  /\ facts = None
  /\ base = None
  /\ applied = None
  /\ stage = "none"
  /\ status = [smu |-> "unknown", panel |-> None, aspm |-> "unknown"]
  /\ written = Other
  /\ timers = NoTimers
  /\ thermal = NoRecord
  /\ stock = None
  /\ current = None /\ overlayFile = None /\ thermalFile = None
  /\ override = None /\ stockRecord = None
  /\ pmFile = [d \in Devices |-> None] /\ aspmFile = None
  /\ hw = [tuned |-> Other, cpu |-> CpuLost, power |-> Other, vrm |-> FirmwareVrm,
           control |-> BootControl, panel |-> Other, aspm |-> BootAspm, driver |-> "active"]
  /\ reply = None
  /\ faults = 0

\* stock_vrmmax: the record of this boot, else a reading, which is only taken
\* while nothing was applied yet; the reading or its record may fail.
ReadStock ==
  IF stockRecord # None \/ ~HasRyzenAdj \/ current # None
    THEN stock' = stockRecord /\ UNCHANGED stockRecord
    ELSE /\ stock' \in {None, hw.vrm}
         /\ stockRecord' \in {None, stock'}

\* Mutant: the manual choice does not survive a restart.
StartForgets ==
  /\ phase \in {"stopped", "crashed"}
  /\ phase' = "starting"
  /\ overlayFile' = None
  /\ manual' = None
  /\ override' = None
  /\ config' \in Configs
  /\ ReadStock
  /\ Forget
  /\ UNCHANGED <<current, thermalFile, pmFile, aspmFile, hw, reply, faults>>

\* Daemon.__init__: a stale overlay file goes, the manual choice comes back.
Start ==
  /\ phase \in {"stopped", "crashed"}
  /\ phase' = "starting"
  /\ overlayFile' = None
  /\ manual' = override
  /\ config' \in Configs
  /\ ReadStock
  /\ Forget
  /\ UNCHANGED <<current, thermalFile, override, pmFile, aspmFile, hw, reply, faults>>

\* The step run() takes before it reports ready.
FirstStep(f, sample, refused) ==
  /\ phase = "starting"
  /\ phase' = "up"
  /\ reply' = None
  /\ Step(f, sample, manual, override, config, timers, refused)

\* One tick: check_resume, check_config, step.
Tick(f, sample, slept, conf, refused) ==
  /\ phase = "up"
  /\ UNCHANGED phase
  /\ reply' = None
  /\ Step(f, sample, manual, override, conf,
          IF slept THEN RequestReassert(Elapse(timers), TRUE) ELSE Elapse(timers), refused)

\* refresh(): the power supply may be read again, the rest is the last tick's.
Refreshed(power) ==
  [facts EXCEPT !.on_ac = power.on_ac, !.battery = power.battery]

\* Mutant: every request is answered yes.
AnswerYes(choice, name) == [wanted |-> choice, ok |-> TRUE]

\* What handle() answers to "set" is whether the profile is now the one asked for.
Answer(choice, name) == [wanted |-> choice, ok |-> choice = None \/ name = choice]

\* handle() for "set" and for "auto" (choice None).
Choose(choice, power, refused) ==
  /\ phase = "up"
  /\ UNCHANGED phase
  /\ Step(Refreshed(power), None, choice, choice, config, timers, refused)
  /\ reply' = Answer(choice, base'.profile.name)

HandleReassert(power, refused) ==
  /\ phase = "up"
  /\ UNCHANGED phase
  /\ Step(Refreshed(power), None, manual, override, config,
          RequestReassert(timers, FALSE), refused)
  /\ reply' = Answer(None, base'.profile.name)

\* SIGTERM: leave_idle writes the base profile without the overlay.
Stop(refused) ==
  /\ phase = "up"
  /\ phase' = "stopped"
  /\ LET target == TargetFor(base.profile, "none", Overlay)
     IN  /\ hw' = Hardware(timers, target, refused)
         /\ Recorded(timers, target, refused)
         /\ current' = IF CurrentDue(base, NextStatus(timers, target, refused),
                                     target.vrmmax_ma)
                         THEN Report(base.profile, base.source, target,
                                     NextStatus(timers, target, refused))
                         ELSE current
         /\ overlayFile' = IF OverlayDue(base, "none") THEN None ELSE overlayFile
  /\ Refuse(refused)
  /\ Forget
  /\ manual' = None
  /\ reply' = None
  /\ UNCHANGED <<config, stock, thermalFile, override, stockRecord>>

\* SIGKILL, the watchdog, or an exception in the first step: nothing is tidied up.
\* (After it, run()'s finally clause makes of an exception a stop.)
Crash ==
  /\ phase \in {"starting", "up"}
  /\ faults < MaxFaults
  /\ faults' = faults + 1
  /\ phase' = "crashed"
  /\ Forget
  /\ manual' = None
  /\ reply' = None
  /\ UNCHANGED <<config, stock, files, hw>>

\* Another tool, the firmware or a driver changes what the machine holds.
Changed(part) ==
  IF part \in Cpus THEN { [hw EXCEPT !.cpu = [hw.cpu EXCEPT ![part] = Other]] }
  ELSE IF part = "power" THEN { [hw EXCEPT !.power = Other, !.vrm = FirmwareVrm] }
  ELSE IF part = "stuck" THEN { [hw EXCEPT !.driver = "stuck", !.cpu = CpuLost] }
  ELSE IF part = "devices"
    THEN { [hw EXCEPT !.control = control] : control \in [Devices -> {"on", "auto"}] }
  ELSE { [hw EXCEPT ![part] = Other] }

Disturb(part) ==
  /\ faults < MaxFaults
  /\ faults' = faults + 1
  /\ hw' \in Changed(part)
  /\ UNCHANGED <<phase, memory, files, reply>>

AnyTick == \E power \in PowerFacts, game \in Games, sample \in CpuSamples,
              temp \in Temperatures, slept \in Sleeps, conf \in Configs,
              refused \in Refusals :
             Tick(TickFacts(power, game, temp), sample, slept, conf, refused)

Next ==
  \/ Start
  \/ \E power \in PowerFacts, game \in Games, sample \in CpuSamples,
        temp \in Temperatures, refused \in Refusals :
       FirstStep(TickFacts(power, game, temp), sample, refused)
  \/ AnyTick
  \/ \E choice \in ManualChoices \cup {None}, power \in PowerFacts,
        refused \in Refusals : Choose(choice, power, refused)
  \/ \E power \in PowerFacts, refused \in Refusals : HandleReassert(power, refused)
  \/ \E refused \in Refusals : Stop(refused)
  \/ Crash
  \/ \E part \in Disturbances : Disturb(part)

Spec == Init /\ [][Next]_vars

Up == phase = "up"

\* A tick comes from a select() timeout, so while the daemon is up it is never
\* held up for good.  This is weak fairness of Tick written out: a tick is enabled
\* exactly while the daemon is up, and of the steps an up daemon can repeat for
\* ever it is the one that answers no request.
TickTaken == Up /\ Up' /\ reply' = None
FairSpec == Spec /\ ([]<>(~Up) \/ []<><<TickTaken>>_vars)

-----------------------------------------------------------------------------
(* What must hold *)

\* The parts of the machine that hold what was applied last, or, where the target is
\* the boot value, what "default" has to put back there.
CpuHolds(part) == hw.cpu[part] = applied.cpu

LimitsHold == HasRyzenAdj => hw.power = applied.power

VrmHolds ==
  HasRyzenAdj /\ VrmArg(applied.vrmmax_ma, stock) # None =>
    hw.vrm = VrmArg(applied.vrmmax_ma, stock)

DeviceHolds(d) ==
  hw.control[d] = IF applied.devices.runtime_pm = "auto" THEN "auto" ELSE DeviceBack(d)

AspmHolds == hw.aspm = IF applied.aspm # "default" THEN applied.aspm ELSE AspmBack

Settled ==
  /\ hw.tuned = applied.tuned
  /\ \A part \in Cpus : CpuHolds(part)
  /\ LimitsHold /\ VrmHolds
  /\ \A d \in Devices : DeviceHolds(d)
  /\ hw.panel = applied.devices.panel
  /\ AspmHolds

\* What "default" would put back is what was there at boot.
BootKept == (\A d \in Devices : DeviceBack(d) = BootControl[d]) /\ AspmBack = BootAspm

AllFacts == [on_ac : BOOLEAN, battery : Nat \cup {None}, game : BOOLEAN,
             temp : Int \cup {None}]

TypeOK ==
  /\ phase \in {"stopped", "crashed", "starting", "up"}
  /\ config \in Configs
  /\ manual \in ProfileNames \cup {None}
  /\ override \in ProfileNames \cup {None}
  /\ latched \in BOOLEAN
  /\ IdleTypeOK
  /\ stage \in IdleStages
  /\ faults \in 0..MaxFaults
  /\ status.smu \in {"unknown", "unavailable", "failed", "ok"}
  /\ hw.control \in [Devices -> {"on", "auto"}]
  /\ pmFile \in [Devices -> {"on", "auto", None}]
  /\ hw.aspm \in PcieAspmPolicies \cup {Other}
  /\ aspmFile \in PcieAspmPolicies \cup {Other, None}
  /\ Up => /\ facts \in AllFacts
           /\ base.source \in {"auto", "manual", "game"}
           /\ base.profile.name \in ProfileNames
  /\ ~Up => facts = None /\ base = None /\ applied = None

\* While nothing was refused, disturbed or killed, writing only the differences
\* leaves the machine holding exactly the target of the facts, and the boot values
\* where that is "default": no part keeps the value of an earlier profile, overlay,
\* configuration or power source. (Engine._reconcile against Engine.step)
HardwareIsTarget ==
  Up /\ faults = 0 =>
    /\ Settled /\ BootKept
    /\ applied = Target(facts, base.profile, config, idle.stage)
    /\ base.profile = Resolved(base.profile.name, config)

\* On a battery at or below the threshold only battery-saver runs, and the manual
\* choice it replaced is gone, from the override file too, so a restart cannot
\* bring it back. (Engine.step, choose_base)
LowBatteryWins ==
  Up /\ LowBattery(facts.on_ac, facts.battery, LowThreshold) =>
    /\ base.profile.name = "battery-saver" /\ base.source = "auto"
    /\ manual = None /\ override = None

\* A manual choice the daemon remembers is the one in force, and the override
\* file names the same one: what a restart would bring back is what runs now.
\* (Engine.step, set_manual, Daemon.handle)
ChoiceInForce ==
  Up => /\ override = manual
        /\ manual # None => base.source = "manual" /\ base.profile.name = manual
        /\ manual = None => base.source # "manual"

\* A request is answered yes only if the profile it asked for is in force, and
\* one answered no was replaced by the low battery guard and is forgotten: the
\* caller is never told of a choice that comes back later. (Daemon.handle)
AnswerIsTrue ==
  Up /\ reply # None /\ reply.wanted # None =>
    /\ reply.ok => base.profile.name = reply.wanted
    /\ ~reply.ok => /\ base.profile.name = "battery-saver" /\ base.source = "auto"
                   /\ ~facts.on_ac
                   /\ manual = None /\ override = None

\* On battery no profile, chosen by whom it may, lifts the VRM current limit
\* over that of the battery profile: neither what is asked for nor, unless the SMU
\* refused it or the firmware reset all its limits, what the machine holds.
\* (cap_battery_current)
BatteryCurrentHeld ==
  Up /\ ~facts.on_ac =>
    /\ applied.vrmmax_ma # None /\ applied.vrmmax_ma <= BatteryCap(config)
    /\ HasRyzenAdj /\ status.smu = "ok" =>
         hw.vrm = applied.vrmmax_ma \/ (hw.power = Other /\ hw.vrm = FirmwareVrm)

\* Every deadline lies ahead and within its interval, so none of the repairs can
\* be put off for ever, and a failed SMU call, only that, has a retry waiting.
\* (Engine._reconcile, _check_drift, request_reassert)
DeadlinesKept ==
  Up => /\ timers.reassert \in 1..ReassertInterval
        /\ timers.followup # None => timers.followup \in 1..ResumeFollowup
        /\ timers.drift \in 1..DriftCheck
        /\ timers.driverReset \in 0..DriverResetInterval
        /\ timers.smuRetry # None => timers.smuRetry \in 1..SmuRetry
        /\ (status.smu = "failed") = (timers.smuRetry # None)

\* The state file tells the truth about the base profile, the VRM limit in force
\* and the outcome of the last writes. (Engine._write_current)
CurrentTellsTruth ==
  Up => current = Report(base.profile, base.source, applied, status)

\* An overlay file is there exactly while an overlay is in force, and it names
\* the base profile under it and the limits it set; a stop leaves none, and, if nothing
\* was refused or disturbed, not the caps of one. (Engine._write_idle, leave_idle)
OverlayTellsTruth ==
  /\ Up => /\ stage = idle.stage
           /\ overlayFile = OverlayReport(idle.stage, base.profile, base.source, applied)
  /\ phase = "stopped" =>
       /\ overlayFile = None
       /\ current # None /\ faults = 0 =>
            /\ \A part \in Cpus : hw.cpu[part] = CpuPolicy(current.profile, "none", Overlay)
            /\ HasRyzenAdj => hw.power = PowerLimits(current.profile, "none", Overlay)

\* The record on disk is never behind on the peak, and never more than a write
\* interval behind otherwise. (ThermalTracker.sample)
RecordOnDisk ==
  Up /\ thermal.samples > 0 =>
    /\ thermalFile # None
    /\ thermalFile.profile = thermal.profile /\ thermalFile.target = thermal.target
    /\ thermalFile.peak = thermal.peak
    /\ thermal.pending < WriteSamples
    /\ thermal.samples <= thermalFile.samples + thermal.pending
    /\ thermal.over <= thermal.samples

\* battery-saver comes in at the threshold and lets go of a battery only above
\* it by the hysteresis, so a charge that jitters by a point flips nothing; a
\* restart may forget it is latched. (Engine._saver_latched)
NoFlapping ==
  [][LET auto(b) == b.source = "auto" /\ b.profile.name = "battery-saver"
         percent == facts'.battery
     IN  Up /\ Up' /\ ~facts'.on_ac /\ percent # None =>
           /\ auto(base) /\ ~auto(base') => percent > LowThreshold + Hysteresis
           /\ ~auto(base) /\ auto(base') => percent <= LowThreshold]_vars

\* A control request is not a CPU sample: it never deepens the overlay, and the
\* overlay never skips soft idle. (Engine.step with sample_idle False)
OverlayByTicks ==
  [][Up /\ Up' =>
       /\ idle.stage = "none" => idle'.stage # "deep"
       /\ idle'.stage # idle.stage /\ idle'.stage # "none" =>
            idle'.quiet > 0 /\ base'.profile.name # "gaming"
       /\ reply' # None => idle' \in {idle, IdleReset}]_vars

\* A step that is refused nothing leaves nothing behind: whatever part held the last
\* target, each device and policy by itself, holds the new one, though the step writes
\* only differences and whatever failed before; a driver that does not do its work takes
\* nothing.  And no such step loses or changes what "default" has to put back.
\* (Engine._reconcile, apply_pci_runtime_pm, apply_pcie_aspm)
NothingLeftBehind ==
  [][faults' = faults =>
       /\ Up /\ Up' =>
            /\ hw.tuned = applied.tuned => hw'.tuned = applied'.tuned
            /\ hw.driver = "active" => \A part \in Cpus : CpuHolds(part) => CpuHolds(part)'
            /\ LimitsHold => LimitsHold'
            /\ VrmHolds => VrmHolds'
            /\ \A d \in Devices : DeviceHolds(d) => DeviceHolds(d)'
            /\ hw.panel = applied.devices.panel => hw'.panel = applied'.devices.panel
            /\ AspmHolds => AspmHolds'
       /\ \A d \in Devices : DeviceBack(d)' = DeviceBack(d)
       /\ AspmBack' = AspmBack]_vars

\* A tick that nothing is refused to.
QuietTick == TickTaken /\ faults' = faults

\* Every quiet tick brings each repair nearer or makes it: the reassert settles the
\* machine, the drift check the CPU policy it reads, the retry the SMU limits.  With a
\* stuck driver the drift check waits for the driver's reset, which comes nearer too.
\* (Engine.step's deadlines, _check_drift)
RepairsComeNearer ==
  [][QuietTick =>
       /\ \/ timers'.reassert < timers.reassert
          \/ timers'.reassert = ReassertInterval /\ (hw.driver = "active" => Settled')
       /\ \/ timers'.drift < timers.drift
          \/ /\ timers'.drift = DriftCheck
             /\ \/ hw.driver = "passive" \/ CpuHolds("policy0")'
                \/ /\ hw.driver # "active"
                   /\ timers'.driverReset \in 1..(timers.driverReset - 1)
       /\ timers'.driverReset > timers.driverReset =>
            hw'.driver = "active" /\ \A part \in Cpus : CpuHolds(part)'
       /\ timers.smuRetry # None =>
            \/ timers'.smuRetry # None /\ timers'.smuRetry < timers.smuRetry
            \/ timers'.smuRetry = None /\ LimitsHold' /\ VrmHolds']_vars

\* Whatever disturbs the machine or refuses a write, the ticks put it back; only a
\* driver left in passive mode keeps the CPU policy from it.  A boot value whose record
\* is gone is out of their reach: Settled asks for what is still on record.
\* (the reassert, the follow-up, the SMU retry and the drift check)
Repaired == (Up /\ ~Settled) ~> (~Up \/ hw.driver = "passive" \/ Settled)

\* README: the limit holds on battery whatever profile runs. The service that
\* stops on battery keeps the base profile applied. (Engine.leave_idle)
StopKeepsBatteryCurrent ==
  [][Up /\ phase' = "stopped" /\ ~facts.on_ac /\ hw.vrm = applied.vrmmax_ma =>
       hw'.vrm = hw.vrm]_vars

\* docs/configuration.md: the thermal record starts over only when the base
\* profile changes. (Engine._reconcile's base_changed)
RecordKeepsBuilding ==
  [][Up /\ Up' /\ base'.profile = base.profile =>
       thermal'.samples >= thermal.samples]_vars

-----------------------------------------------------------------------------
(* What all of it is for *)

\* The engine implements the policy: the profile in force is the base of a running
\* daemon, and the choice is the one on disk.
Policy == INSTANCE PowerPolicy WITH
  rule <- IF Up THEN [name |-> base.profile.name, by |-> base.source] ELSE None,
  facts <- IF Up THEN [on_ac |-> facts.on_ac, battery |-> facts.battery, game |-> facts.game]
           ELSE None,
  choice <- override,
  told <- reply

\* Ticks, requests, restarts, refused writes and crashes come to nothing but the
\* policy: one choice that survives restarts and is forgotten only to the low
\* battery guard, a guard that latches, and answers that say what rules.
\* (Engine.step, Daemon.handle, StateFiles.read_override)
ImplementsPolicy == Policy!Spec
=============================================================================
