------------------------------- MODULE Service -------------------------------
(***************************************************************************)
(* The life of the daemon's process, write by write: systemd starts it,    *)
(* restarts it when it fails and gives up after too many failures; it may  *)
(* be killed between any two writes; the power guard wakes now and then,   *)
(* starts it when it is down and, when that does not help, writes a CPU    *)
(* policy of its own.                                                      *)
(*                                                                         *)
(* What a profile changes and "default" must put back is here one by one:  *)
(* the runtime PM switch of each PCI device, the PCIe ASPM policy and the  *)
(* firmware's VRM limit, each with its record in /run, which outlives the  *)
(* process.  A reboot empties /run and resets the machine: it is Init.     *)
(***************************************************************************)
EXTENDS Integers, FiniteSets

CONSTANTS
  None,
  Devices,      \* the PCI devices whose runtime PM may change
  BootControl,  \* their power/control at boot
  AspmPolicies, \* the kernel's PCIe ASPM policies
  BootAspm,     \* the one at boot
  VrmLimits,    \* the VRM limits a target may ask for
  FirmwareVrm,  \* the firmware's own
  Targets,      \* what the engine may come to want
  MaxFaults     \* bound: kills, stops, refusals and timeouts in a behaviour

ASSUME ServiceAssumption ==
  /\ None \notin {"on", "auto"} /\ None \notin AspmPolicies
  /\ None \notin VrmLimits \cup {FirmwareVrm}
  /\ IsFiniteSet(Devices)
  /\ BootControl \in [Devices -> {"on", "auto"}]
  /\ BootAspm \in AspmPolicies
  /\ Targets \subseteq [runtime_pm : {"default", "auto"},
                        pcie_aspm : AspmPolicies \cup {"default"},
                        vrmmax : VrmLimits \cup {None}]
  /\ None \notin Targets
  /\ MaxFaults \in Nat

VARIABLES
  control,     \* power/control of each device
  aspm,        \* the ASPM policy in force
  vrm,         \* the VRM limit the SMU holds
  cpu,         \* whose CPU policy is in force: "boot", "daemon" or "fallback"
  pmFile,      \* /run/runtime-pm-defaults: the value recorded for each device
  aspmFile,    \* /run/pcie-aspm-default
  stockFile,   \* /run/smu-stock
  currentFile, \* /run/current exists
  at,          \* where the process is; "none" when there is none
  target,      \* Engine._reconcile's target
  applied,     \* prev; None when everything is written
  stock,       \* SysfsHardware.stock_vrmmax_ma
  recorded,    \* apply_pci_runtime_pm's recorded
  todo,        \* the devices its loop has still to write
  leaving,     \* leave_idle: the process ends after this step
  unit,        \* systemd: "inactive", "starting", "active", "waiting" or "failed"
  guard,       \* where the power guard is
  orphans,     \* history: devices whose boot value was lost
  blurred,     \* history: killed with a profile's VRM limit in force and no file written
  faults

machine == <<control, aspm, vrm, cpu>>
files == <<pmFile, aspmFile, stockFile, currentFile>>
process == <<at, target, applied, stock, recorded, todo, leaving>>
histories == <<orphans, blurred>>
vars == <<machine, files, process, unit, guard, histories, faults>>

NoneRecorded == [d \in Devices |-> None]

Fault == faults < MaxFaults /\ faults' = faults + 1

Init ==
  /\ control = BootControl /\ aspm = BootAspm /\ vrm = FirmwareVrm /\ cpu = "boot"
  /\ pmFile = NoneRecorded /\ aspmFile = None /\ stockFile = None /\ currentFile = FALSE
  /\ at = "none" /\ target = None /\ applied = None /\ stock = None
  /\ recorded = NoneRecorded /\ todo = {} /\ leaving = FALSE
  /\ unit = "inactive"
  /\ guard = "idle"
  /\ orphans = {} /\ blurred = FALSE
  /\ faults = 0

-----------------------------------------------------------------------------
(* Start: stock_vrmmax *)

\* Mutant: no look at the state file.
ReadStockAnyTime ==
  /\ at = "start"
  /\ \/ stock' = (IF stockFile # None THEN stockFile ELSE vrm) /\ UNCHANGED faults
     \/ stockFile = None /\ stock' = None /\ Fault
  /\ at' = IF stockFile = None /\ stock' # None THEN "keep_stock" ELSE "begin"
  /\ UNCHANGED <<machine, files, target, applied, recorded, todo, leaving, unit, guard, histories>>

\* The limit is read only while nothing was applied since boot; reading may fail.
ReadStock ==
  /\ at = "start"
  /\ LET readable == stockFile = None /\ ~currentFile
     IN  /\ \/ stock' = (IF readable THEN vrm ELSE stockFile) /\ UNCHANGED faults
            \/ readable /\ stock' = None /\ Fault
         /\ at' = IF readable /\ stock' # None THEN "keep_stock" ELSE "begin"
  /\ UNCHANGED <<machine, files, target, applied, recorded, todo, leaving, unit, guard, histories>>

\* A record that cannot be written is passed over.
KeepStock ==
  /\ at = "keep_stock"
  /\ at' = "begin"
  /\ \/ stockFile' = stock /\ UNCHANGED faults
     \/ UNCHANGED stockFile /\ Fault
  /\ UNCHANGED <<machine, pmFile, aspmFile, currentFile, target, applied, stock, recorded, todo,
                 leaving, unit, guard, histories>>

-----------------------------------------------------------------------------
(* A step of the engine: cpu, smu, devices, aspm, state file *)

Enter(t, prev) == at' = "cpu" /\ target' = t /\ applied' = prev

\* The first step, before READY=1.
FirstStep(t) ==
  /\ at = "begin"
  /\ Enter(t, None)
  /\ UNCHANGED <<machine, files, stock, recorded, todo, leaving, unit, guard, histories, faults>>

\* A tick whose facts ask for another target.
Retarget(t) ==
  /\ at = "loop" /\ t # target
  /\ Enter(t, target)
  /\ UNCHANGED <<machine, files, stock, recorded, todo, leaving, unit, guard, histories, faults>>

\* Mutant: the hourly reassert writes only what differs.
ReassertDifference(t) ==
  /\ at = "loop"
  /\ Enter(t, target)
  /\ UNCHANGED <<machine, files, stock, recorded, todo, leaving, unit, guard, histories, faults>>

\* A tick with the hourly reassert due, or the one after a resume.
Reassert(t) ==
  /\ at = "loop"
  /\ Enter(t, None)
  /\ UNCHANGED <<machine, files, stock, recorded, todo, leaving, unit, guard, histories, faults>>

\* SIGTERM: leave_idle drops the overlay, which changes none of these parts; the
\* target it computes may differ in the VRM limit.
Terminate(t) ==
  /\ Fault
  /\ at = "loop"
  /\ t.runtime_pm = target.runtime_pm /\ t.pcie_aspm = target.pcie_aspm
  /\ Enter(t, target)
  /\ leaving' = TRUE
  /\ UNCHANGED <<machine, files, stock, recorded, todo, unit, guard, histories>>

Due(part) == applied # None => applied[part] # target[part]

WriteCpu(changed) ==
  /\ at = "cpu"
  /\ at' = "smu"
  /\ cpu' = IF applied = None \/ changed THEN "daemon" ELSE cpu
  /\ UNCHANGED <<control, aspm, vrm, files, target, applied, stock, recorded, todo, leaving, unit,
                 guard, histories, faults>>

\* Mutant: a limit that is not known is written too.
WriteSmuUnknown ==
  /\ at = "smu"
  /\ at' = "devices"
  /\ vrm' = IF target.vrmmax # None THEN target.vrmmax ELSE stock
  /\ UNCHANGED <<control, aspm, cpu, files, target, applied, stock, recorded, todo, leaving, unit,
                 guard, histories, faults>>

\* _vrmmax_arg: without a limit of the target's the firmware's, if it is known.
WriteSmu ==
  /\ at = "smu"
  /\ at' = "devices"
  /\ vrm' = IF Due("vrmmax") /\ {target.vrmmax, stock} # {None}
              THEN IF target.vrmmax # None THEN target.vrmmax ELSE stock
              ELSE vrm
  /\ UNCHANGED <<control, aspm, cpu, files, target, applied, stock, recorded, todo, leaving, unit,
                 guard, histories, faults>>

\* Mutant: auto begins its record anew.
ReadRecordAnew ==
  /\ at = "devices" /\ Due("runtime_pm")
  /\ at' = "device"
  /\ IF target.runtime_pm = "auto"
       THEN /\ recorded' = NoneRecorded
            /\ todo' = {d \in Devices : control[d] # "auto"}
       ELSE /\ recorded' = pmFile
            /\ todo' = {d \in Devices : pmFile[d] \notin {None, control[d]}}
  /\ UNCHANGED <<machine, files, target, applied, stock, leaving, unit, guard, histories, faults>>

\* apply_pci_runtime_pm reads its record, and what its loop will have to write.
ReadRecord ==
  /\ at = "devices"
  /\ IF Due("runtime_pm")
       THEN /\ at' = "device"
            /\ recorded' = pmFile
            /\ todo' = IF target.runtime_pm = "auto"
                         THEN {d \in Devices : control[d] # "auto"}
                         ELSE {d \in Devices : pmFile[d] \notin {None, control[d]}}
       ELSE at' = "aspm" /\ UNCHANGED <<recorded, todo>>
  /\ UNCHANGED <<machine, files, target, applied, stock, leaving, unit, guard, histories, faults>>

\* One device switched to auto, or back; setdefault keeps the first value recorded.
WriteDevice(d) ==
  /\ at = "device" /\ d \in todo
  /\ todo' = todo \ {d}
  /\ IF target.runtime_pm = "auto"
       THEN /\ control' = [control EXCEPT ![d] = "auto"]
            /\ recorded' = [recorded EXCEPT ![d] = IF @ = None THEN control[d] ELSE @]
       ELSE /\ control' = [control EXCEPT ![d] = recorded[d]]
            /\ UNCHANGED recorded
  /\ UNCHANGED <<aspm, vrm, cpu, files, at, target, applied, stock, leaving, unit, guard,
                 histories, faults>>

\* The device refuses the value: it is left as it is.
DeviceRefuses(d) ==
  /\ Fault
  /\ at = "device" /\ d \in todo
  /\ todo' = todo \ {d}
  /\ orphans' = IF target.runtime_pm = "auto" THEN orphans ELSE orphans \cup {d}
  /\ UNCHANGED <<machine, files, at, target, applied, stock, recorded, leaving, unit, guard,
                 blurred>>

\* Devices changed with nothing in the file to say what they were.
Unrecorded == {d \in Devices : control[d] # BootControl[d] /\ pmFile[d] = None}

EndDevices(file) ==
  /\ at = "device" /\ todo = {}
  /\ at' = "aspm"
  /\ pmFile' = file
  /\ UNCHANGED <<machine, aspmFile, stockFile, currentFile, target, applied, stock, recorded, todo,
                 leaving, unit, guard, blurred>>

\* The record is written when there is something in it.
RecordDevices ==
  /\ EndDevices(IF recorded = NoneRecorded THEN pmFile ELSE recorded)
  /\ target.runtime_pm = "auto"
  /\ UNCHANGED <<orphans, faults>>

RecordRefused ==
  /\ Fault
  /\ EndDevices(pmFile)
  /\ target.runtime_pm = "auto" /\ recorded # NoneRecorded
  /\ orphans' = orphans \cup Unrecorded

\* Back to the defaults: the record goes, whatever the devices did.
ForgetDevices ==
  /\ EndDevices(NoneRecorded)
  /\ target.runtime_pm = "default"
  /\ UNCHANGED <<orphans, faults>>

-----------------------------------------------------------------------------
(* apply_pcie_aspm *)

AspmGoes(next) ==
  /\ at' = next
  /\ UNCHANGED <<control, vrm, cpu, pmFile, stockFile, currentFile, target, applied, stock,
                 recorded, todo, leaving, unit, guard, histories>>

\* Nothing to do: unchanged, no record to restore, or already that policy.
AspmStays ==
  /\ at = "aspm"
  /\ \/ ~Due("pcie_aspm")
     \/ target.pcie_aspm = "default" /\ aspmFile = None
     \/ target.pcie_aspm = aspm /\ aspm # "default"
  /\ AspmGoes("report")
  /\ UNCHANGED <<aspm, aspmFile, faults>>

\* Mutant: every change is recorded.
RecordAspmAlways ==
  /\ at = "aspm" /\ Due("pcie_aspm")
  /\ target.pcie_aspm \notin {"default", aspm}
  /\ aspmFile' = aspm
  /\ AspmGoes("set_aspm")
  /\ UNCHANGED <<aspm, faults>>

\* The boot policy is recorded before the first change.
RecordAspm ==
  /\ at = "aspm" /\ Due("pcie_aspm")
  /\ target.pcie_aspm \notin {"default", aspm}
  /\ aspmFile' = IF aspmFile = None THEN aspm ELSE aspmFile
  /\ AspmGoes("set_aspm")
  /\ UNCHANGED <<aspm, faults>>

\* No record, no change.
AspmRecordRefused ==
  /\ Fault
  /\ at = "aspm" /\ Due("pcie_aspm")
  /\ target.pcie_aspm \notin {"default", aspm}
  /\ aspmFile = None
  /\ AspmGoes("report")
  /\ UNCHANGED <<aspm, aspmFile>>

SetAspm ==
  /\ at = "set_aspm"
  /\ \/ aspm' = target.pcie_aspm /\ UNCHANGED faults
     \/ UNCHANGED aspm /\ Fault
  /\ AspmGoes("report")
  /\ UNCHANGED aspmFile

\* The record outlives a refused restore.
RestoreAspm ==
  /\ at = "aspm" /\ Due("pcie_aspm")
  /\ target.pcie_aspm = "default" /\ aspmFile # None
  /\ \/ aspm' = aspmFile /\ AspmGoes("forget_aspm") /\ UNCHANGED faults
     \/ aspm # aspmFile /\ UNCHANGED aspm /\ AspmGoes("report") /\ Fault
  /\ UNCHANGED aspmFile

ForgetAspm ==
  /\ at = "forget_aspm"
  /\ aspmFile' = None
  /\ AspmGoes("report")
  /\ UNCHANGED <<aspm, faults>>

-----------------------------------------------------------------------------
(* The end of a step, and of the process *)

NoProcess ==
  /\ at' = "none" /\ target' = None /\ applied' = None /\ stock' = None
  /\ recorded' = NoneRecorded /\ todo' = {} /\ leaving' = FALSE

\* The drift check may find the CPU policy of another; the state file is written.
Report(drift) ==
  /\ at = "report"
  /\ cpu' = IF drift THEN "daemon" ELSE cpu
  /\ currentFile' = TRUE
  /\ guard' = IF guard = "answered" THEN "idle" ELSE guard
  /\ IF leaving
       THEN NoProcess /\ unit' = "inactive"
       ELSE /\ at' = "loop" /\ applied' = target /\ unit' = "active"
            /\ UNCHANGED <<target, stock, recorded, todo, leaving>>
  /\ UNCHANGED <<control, aspm, vrm, pmFile, aspmFile, stockFile, histories, faults>>

\* The watchdog, the start timeout, a crash or kill -9, between any two writes.
Kill(after) ==
  /\ Fault
  /\ at # "none"
  /\ leaving => after = "failed"
  /\ NoProcess
  /\ unit' = after
  /\ guard' = IF guard = "answered" THEN "recheck" ELSE guard
  /\ orphans' = orphans \cup Unrecorded
  /\ blurred' = (blurred \/ (vrm # FirmwareVrm /\ stockFile = None /\ ~currentFile))
  /\ UNCHANGED <<machine, files>>

Launch == at = "none" /\ at' = "start" /\ unit' = "starting"

\* At boot, or by hand.
StartUnit ==
  /\ unit \in {"inactive", "failed"}
  /\ Launch
  /\ UNCHANGED <<machine, files, target, applied, stock, recorded, todo, leaving, guard, histories,
                 faults>>

\* Restart=on-failure, after RestartSec.
Restart ==
  /\ unit = "waiting"
  /\ Launch
  /\ UNCHANGED <<machine, files, target, applied, stock, recorded, todo, leaving, guard, histories,
                 faults>>

-----------------------------------------------------------------------------
(* The power guard: ensure_daemon_active, apply_auto_profile *)

\* Mutant: only a unit that failed is started.
GuardWakesForFailed ==
  /\ guard = "idle"
  /\ guard' = IF unit = "active" THEN "check" ELSE "starting"
  /\ IF unit = "failed" THEN Launch ELSE UNCHANGED <<at, unit>>
  /\ UNCHANGED <<machine, files, target, applied, stock, recorded, todo, leaving, histories, faults>>

\* The timer: systemctl start when the unit is not active.
GuardWakes ==
  /\ guard = "idle"
  /\ guard' = IF unit = "active" THEN "check" ELSE "starting"
  /\ IF at = "none" THEN Launch ELSE UNCHANGED <<at, unit>>
  /\ UNCHANGED <<machine, files, target, applied, stock, recorded, todo, leaving, histories, faults>>

GuardMoves(next) ==
  /\ guard' = next
  /\ UNCHANGED <<control, aspm, vrm, files, stock, recorded, todo, leaving, unit, histories>>

\* systemctl start returned, or was given up after 60 seconds.
GuardStarted ==
  /\ guard = "starting"
  /\ \/ unit # "starting" /\ UNCHANGED faults
     \/ Fault
  /\ GuardMoves("check")
  /\ UNCHANGED <<cpu, at, target, applied>>

GuardChecks ==
  /\ guard = "check"
  /\ GuardMoves(IF unit = "active" THEN "asking" ELSE "recheck")
  /\ UNCHANGED <<cpu, at, target, applied, faults>>

\* The daemon serves the guard's reassert request.
GuardServed(t) ==
  /\ guard = "asking" /\ at = "loop"
  /\ Enter(t, None)
  /\ GuardMoves("answered")
  /\ UNCHANGED <<cpu, faults>>

\* The request got no answer: no daemon any more, or 60 seconds passed.
GuardUnserved ==
  /\ guard \in {"asking", "answered"}
  /\ \/ at = "none" /\ UNCHANGED faults
     \/ Fault
  /\ GuardMoves("recheck")
  /\ UNCHANGED <<cpu, at, target, applied>>

\* A daemon that runs and did not answer is left to recover.
GuardRechecks ==
  /\ guard = "recheck"
  /\ GuardMoves(IF unit = "active" THEN "idle" ELSE "fallback")
  /\ UNCHANGED <<cpu, at, target, applied, faults>>

\* apply_sysfs_fallback, by now perhaps beside a daemon that started meanwhile.
Fallback ==
  /\ guard = "fallback"
  /\ cpu' = "fallback"
  /\ GuardMoves("idle")
  /\ UNCHANGED <<at, target, applied, faults>>

Reasserting == \E t \in Targets : Reassert(t)

Starting == ReadStock \/ KeepStock \/ \E t \in Targets : FirstStep(t)

Writing ==
  \/ \E changed \in BOOLEAN : WriteCpu(changed)
  \/ WriteSmu
  \/ ReadRecord
  \/ \E d \in Devices : WriteDevice(d)
  \/ RecordDevices
  \/ ForgetDevices
  \/ AspmStays
  \/ RecordAspm
  \/ SetAspm
  \/ RestoreAspm
  \/ ForgetAspm
  \/ \E drift \in BOOLEAN : Report(drift)

Refusing ==
  \/ \E d \in Devices : DeviceRefuses(d)
  \/ RecordRefused
  \/ AspmRecordRefused

Guarding ==
  \/ GuardStarted
  \/ GuardChecks
  \/ \E t \in Targets : GuardServed(t)
  \/ GuardUnserved
  \/ GuardRechecks
  \/ Fallback

Next ==
  \/ StartUnit
  \/ Restart
  \/ Starting
  \/ Writing
  \/ Refusing
  \/ \E t \in Targets : Retarget(t) \/ Terminate(t)
  \/ Reasserting
  \/ \E after \in {"waiting", "failed"} : Kill(after)
  \/ GuardWakes
  \/ Guarding

Spec == Init /\ [][Next]_vars

\* A process that runs goes on, its reassert comes round every hour however busy
\* the ticks are, systemd restarts what waits for a restart, and the guard's
\* timer fires every six hours.
Fairness ==
  /\ WF_vars(Starting) /\ WF_vars(Writing)
  /\ SF_vars(Reasserting)
  /\ WF_vars(Restart)
  /\ WF_vars(GuardWakes) /\ WF_vars(Guarding)

FairSpec == Spec /\ Fairness

-----------------------------------------------------------------------------
(* What must hold *)

Values == {"on", "auto"}

MachineOK ==
  /\ control \in [Devices -> Values]
  /\ aspm \in AspmPolicies
  /\ vrm \in VrmLimits \cup {FirmwareVrm}
  /\ cpu \in {"boot", "daemon", "fallback"}
  /\ pmFile \in [Devices -> Values \cup {None}]
  /\ aspmFile \in AspmPolicies \cup {None}
  /\ stockFile \in VrmLimits \cup {FirmwareVrm, None}
  /\ currentFile \in BOOLEAN

ProcessOK ==
  /\ at \in {"none", "start", "keep_stock", "begin", "cpu", "smu", "devices", "device", "aspm",
             "set_aspm", "forget_aspm", "report", "loop"}
  /\ target \in Targets \cup {None} /\ applied \in Targets \cup {None}
  /\ (at \in {"none", "start", "keep_stock", "begin"}) <=> target = None
  /\ stock \in VrmLimits \cup {FirmwareVrm, None}
  /\ recorded \in [Devices -> Values \cup {None}]
  /\ todo \subseteq Devices
  /\ leaving \in BOOLEAN

OthersOK ==
  /\ unit \in {"inactive", "starting", "active", "waiting", "failed"}
  /\ guard \in {"idle", "starting", "check", "asking", "answered", "recheck", "fallback"}
  /\ orphans \subseteq Devices
  /\ blurred \in BOOLEAN
  /\ faults \in 0..MaxFaults

TypeOK == MachineOK /\ ProcessOK /\ OthersOK

\* Wherever the process is killed and whatever is refused, a changed ASPM policy
\* has the boot one on record. (apply_pcie_aspm: "``default`` restores the value
\* recorded before the first change")
AspmBootKept ==
  /\ aspm # BootAspm => aspmFile = BootAspm
  /\ aspmFile \in {None, BootAspm}

\* When a profile that leaves runtime PM alone is in force, every device is as it
\* was at boot, through any profiles, stops and kills in between, but for devices
\* lost to a kill or a refusal between the change and its record.
\* (apply_pci_runtime_pm: "``default`` writes the recorded values back")
DevicesComeBack ==
  at = "loop" /\ target.runtime_pm = "default" =>
    \A d \in Devices \ orphans : control[d] = BootControl[d]

\* What passes for the firmware's VRM limit is the firmware's, but after a kill
\* that left a profile's limit without a record or a state file. (stock_vrmmax:
\* "reading it later would capture a limit some profile set")
StockIsFirmware ==
  ~blurred => stock \in {None, FirmwareVrm} /\ stockFile \in {None, FirmwareVrm}

\* The service comes back from every stop, crash and start limit. (Restart= and
\* "the power guard timer starts it again later")
ComesBack == []<>(unit = "active")

\* The guard's fallback may write beside a daemon that starts meanwhile, but does
\* not stay in force. (apply_auto_profile, apply_sysfs_fallback)
OwnerPrevails == []<>(cpu = "daemon")
=============================================================================
