---------------------------- MODULE EngineProofs ----------------------------
(***************************************************************************)
(* The engine's safety invariants, for every configuration, overlay, set   *)
(* of facts and interval, and under any number of faults.                  *)
(*                                                                         *)
(* Every handler of a running daemon is one Step; what a Step establishes  *)
(* does not depend on which handler took it, only on the choice and the    *)
(* override file it was handed being the same.  So each property is one    *)
(* lemma about Step, and the handlers are told apart only where each is    *)
(* shown to take one.                                                      *)
(*                                                                         *)
(* There are two inductive invariants.  Inv is about what was decided, and *)
(* holds whatever the machine holds.  Kept is about the machine, the       *)
(* overlay file and the record of temperatures, and rests on Inv.          *)
(***************************************************************************)
EXTENDS Engine, ProfilesProofs

\* A Step taken by one of the handlers of a running daemon, or the first one.
Handled(f, sample, choice, conf, t, refused) ==
  /\ f \in AllFacts
  /\ choice \in ProfileNames \cup {None}
  /\ conf \in Configs
  /\ refused \in Refusals
  /\ phase' = "up"
  /\ Step(f, sample, choice, choice, conf, t, refused)
  /\ reply' = None \/ (\E wanted \in {None, choice} : reply' = Answer(wanted, base'.profile.name))

AllTimers == [reassert : Nat, followup : Nat \cup {None}, smuRetry : Nat \cup {None},
              drift : Nat, driverReset : Nat]

\* The deadlines a Step may be handed: due or ahead, and a retry after a failed call.
TimersFit(t) ==
  /\ t \in AllTimers
  /\ t.reassert <= ReassertInterval
  /\ t.followup # None => t.followup <= ResumeFollowup
  /\ t.drift <= DriftCheck
  /\ t.driverReset <= DriverResetInterval
  /\ t.smuRetry # None => t.smuRetry <= SmuRetry
  /\ (status.smu = "failed") = (t.smuRetry # None)

-----------------------------------------------------------------------------
(* What a Step does, without the hardware *)

LEMMA StepDoes ==
  ASSUME NEW f, NEW sample, NEW choice, NEW file, NEW conf, NEW t, NEW refused,
         Step(f, sample, choice, file, conf, t, refused)
  PROVE  /\ facts' = f
         /\ config' = conf
         /\ latched' = SaverForced(Chosen(f, choice))
         /\ manual' = KeptChoice(f, choice)
         /\ override' = KeptOverride(f, choice, file)
         /\ base' = [profile |-> Resolved(Chosen(f, choice).name, conf),
                     source |-> Chosen(f, choice).source]
         /\ idle' = NextIdle(sample, Chosen(f, choice).name)
         /\ stage' = idle'.stage
         /\ applied' = Target(f, Resolved(Chosen(f, choice).name, conf), conf, idle'.stage)
         /\ status' = NextStatus(t, applied', refused)
         /\ timers' = NextTimers(t, applied', refused)
         /\ written' = applied'.vrmmax_ma
         /\ hw' = Hardware(t, applied', refused)
         /\ Recorded(t, applied', refused)
         /\ current' = IF CurrentDue(base', status', written')
                         THEN Report(base'.profile, base'.source, applied', status')
                         ELSE current
         /\ stock' = stock
         /\ Refuse(refused)
BY DEF Step, Reconcile

\* Whatever the facts, some profile there is gets chosen; its resolution has its name.
LEMMA ChosenTyped ==
  ASSUME NEW f, NEW choice \in ProfileNames \cup {None}, NEW conf
  PROVE  /\ Chosen(f, choice) \in [name : ProfileNames, source : {"auto", "manual", "game"}]
         /\ SafeProfile(Resolved(Chosen(f, choice).name, conf), SaverMaxFreq)
         /\ Resolved(Chosen(f, choice).name, conf).name = Chosen(f, choice).name
<1>1. Chosen(f, choice) \in [name : ProfileNames, source : {"auto", "manual", "game"}]
  BY DEF Chosen, ChooseBase, AutoProfile, ProfileNames
<1>2. QED
  BY <1>1, ResolvedSafe DEF Resolved

\* The idle detector keeps its type, whatever it is fed.
LEMMA NextIdleTyped ==
  ASSUME NEW sample, NEW name, IdleTypeOK
  PROVE  NextIdle(sample, name) \in [stage : {"none", "soft", "deep"}, quiet : Nat]
<1> DEFINE Detectors == [stage : {"none", "soft", "deep"}, quiet : Nat]
<1>1. \A d \in Detectors : d.quiet \in Nat /\ d.stage \in {"none", "soft", "deep"}
  OBVIOUS
<1>2. ASSUME NEW d \in Detectors PROVE UpdateAwake(d, sample) \in Detectors
  BY <1>1, IdleAssumption DEF UpdateAwake, AtMost
<1>3. ASSUME NEW d \in Detectors PROVE UpdateOverlay(d, sample) \in Detectors
  BY <1>1, IdleAssumption DEF UpdateOverlay, IdleReset, AtMost
<1>4. IdleReset \in Detectors
  BY DEF IdleReset
<1>5. QED
  BY <1>2, <1>3, <1>4 DEF NextIdle, IdleUpdate, IdleTypeOK

\* Whatever is refused to a step is one fault, so a step without one was refused nothing.
LEMMA RefusalCounts ==
  ASSUME faults \in 0..MaxFaults, NEW refused, Refuse(refused)
  PROVE  /\ faults' \in 0..MaxFaults
         /\ faults' = faults => refused = {}
         /\ faults' = 0 => faults = 0 /\ refused = {}
BY EngineAssumption DEF Refuse

-----------------------------------------------------------------------------
(* The machine and the records of what was replaced *)

Parts == {"tuned", "cpu", "driver", "power", "vrm", "control", "panel", "aspm"}

MachineTyped ==
  /\ hw = [part \in Parts |-> hw[part]]
  /\ hw.control \in [Devices -> {"on", "auto"}]
  /\ pmFile \in [Devices -> {"on", "auto", None}]
  /\ hw.aspm \in PcieAspmPolicies \cup {Other}
  /\ aspmFile \in PcieAspmPolicies \cup {Other, None}

\* Writing a target leaves the machine and the records what they may be.
LEMMA WritesTyped ==
  ASSUME MachineTyped, NEW t, NEW target, NEW refused, target.aspm \in PcieAspmPolicies,
         hw' = Hardware(t, target, refused), Recorded(t, target, refused)
  PROVE  MachineTyped'
<1>1. /\ hw' = [part \in Parts |-> hw'[part]]
      /\ hw'.control = ControlAfter(t, target, refused)
      /\ hw'.aspm = AspmAfter(t, target, refused)
  BY DEF Hardware, Parts
<1>2. \A d \in Devices : hw.control[d] \in {"on", "auto"} /\ pmFile[d] \in {"on", "auto", None}
                         /\ DeviceBack(d) \in {"on", "auto"}
  BY DEF MachineTyped, DeviceBack
<1>3. hw'.control \in [Devices -> {"on", "auto"}]
  BY <1>1, <1>2 DEF ControlAfter
<1>4. pmFile' \in [Devices -> {"on", "auto", None}]
  <2>1. \A d \in Devices : PmRecordAfter(t, target, refused)[d] \in {"on", "auto", None}
    BY <1>2 DEF PmRecordAfter
  <2>2. QED
    BY <2>1 DEF Recorded, PmRecordAfter
<1>5. hw.aspm \in PcieAspmPolicies \cup {Other} /\ AspmBack \in PcieAspmPolicies \cup {Other}
      /\ aspmFile \in PcieAspmPolicies \cup {Other, None}
  BY DEF MachineTyped, AspmBack
<1>6. hw'.aspm \in PcieAspmPolicies \cup {Other}
  BY <1>1, <1>5 DEF AspmAfter
<1>7. aspmFile' \in PcieAspmPolicies \cup {Other, None}
  BY <1>5 DEF Recorded, AspmRecordAfter
<1>8. QED
  BY <1>1, <1>3, <1>4, <1>6, <1>7 DEF MachineTyped

\* What other tools change is one part, and stays what it may be.
LEMMA ChangedTyped ==
  ASSUME MachineTyped, NEW part \in Disturbances, hw' \in Changed(part),
         UNCHANGED <<pmFile, aspmFile>>
  PROVE  /\ MachineTyped'
         /\ \/ hw'.vrm = hw.vrm /\ hw'.power = hw.power
            \/ hw'.vrm = FirmwareVrm /\ hw'.power = Other
<1>1. hw = [p \in Parts |-> hw[p]]
  BY DEF MachineTyped
<1>2. part \in {"tuned", "policy0", "others", "power", "devices", "panel", "aspm", "stuck"}
  BY EngineAssumption
<1>3. SUFFICES /\ hw' = [p \in Parts |-> hw'[p]]
               /\ hw'.control \in {hw.control} \cup [Devices -> {"on", "auto"}]
               /\ hw'.aspm \in {hw.aspm, Other}
               /\ \/ hw'.vrm = hw.vrm /\ hw'.power = hw.power
                  \/ hw'.vrm = FirmwareVrm /\ hw'.power = Other
  BY DEF MachineTyped
<1>4. CASE part \in Cpus
  <2> DEFINE cpu == [hw.cpu EXCEPT ![part] = Other]
  <2>1. hw' = [hw EXCEPT !.cpu = cpu]
    BY <1>4 DEF Changed
  <2> HIDE DEF cpu
  <2>2. QED
    BY <1>1, <2>1 DEF Parts
<1>5. CASE part = "power"
  <2>1. hw' = [hw EXCEPT !.power = Other, !.vrm = FirmwareVrm]
    BY <1>5 DEF Changed, Cpus
  <2>2. QED
    BY <1>1, <2>1 DEF Parts
<1>6. CASE part = "stuck"
  <2>1. hw' = [hw EXCEPT !.driver = "stuck", !.cpu = CpuLost]
    BY <1>6 DEF Changed, Cpus
  <2>2. QED
    BY <1>1, <2>1 DEF Parts
<1>7. CASE part = "devices"
  <2>1. PICK control \in [Devices -> {"on", "auto"}] : hw' = [hw EXCEPT !.control = control]
    BY <1>7 DEF Changed, Cpus
  <2>2. QED
    BY <1>1, <2>1 DEF Parts
<1>8. CASE part \in {"tuned", "panel", "aspm"}
  <2>1. hw' = [hw EXCEPT ![part] = Other]
    BY <1>8 DEF Changed, Cpus
  <2>2. QED
    BY <1>1, <1>8, <2>1 DEF Parts
<1>9. QED
  BY <1>2, <1>4, <1>5, <1>6, <1>7, <1>8 DEF Cpus

-----------------------------------------------------------------------------
(* One lemma for each thing a Step establishes *)

LEMMA StepTypeOK ==
  ASSUME TypeOK, MachineTyped, NEW f, NEW sample, NEW choice, NEW conf, NEW t, NEW refused,
         Handled(f, sample, choice, conf, t, refused)
  PROVE  TypeOK' /\ MachineTyped' /\ SafeProfile(base'.profile, SaverMaxFreq)
<1> DEFINE chosen == Chosen(f, choice)
<1>1. Step(f, sample, choice, choice, conf, t, refused) /\ f \in AllFacts /\ conf \in Configs
      /\ choice \in ProfileNames \cup {None} /\ refused \in Refusals /\ phase' = "up"
  BY DEF Handled
<1>2. /\ chosen \in [name : ProfileNames, source : {"auto", "manual", "game"}]
      /\ Resolved(chosen.name, conf).name = chosen.name
      /\ SafeProfile(Resolved(chosen.name, conf), SaverMaxFreq)
  BY <1>1, ChosenTyped
<1>3. phase' = "up" /\ config' \in Configs /\ facts' \in AllFacts
  BY <1>1, StepDoes
<1>4. manual' \in ProfileNames \cup {None} /\ override' \in ProfileNames \cup {None}
  BY <1>1, StepDoes DEF KeptChoice, KeptOverride
<1>5. latched' \in BOOLEAN
  BY <1>1, StepDoes DEF SaverForced
<1>6. IdleTypeOK' /\ stage' \in IdleStages
  <2>1. IdleTypeOK
    BY DEF TypeOK
  <2>2. idle' \in [stage : {"none", "soft", "deep"}, quiet : Nat] /\ stage' = idle'.stage
    BY <1>1, <2>1, StepDoes, NextIdleTyped
  <2>3. QED
    BY <2>2 DEF IdleTypeOK, IdleStages
<1>7. faults' \in 0..MaxFaults
  BY <1>1, StepDoes, RefusalCounts DEF TypeOK
<1>8. status'.smu \in {"unknown", "unavailable", "failed", "ok"}
  <2>1. status' = NextStatus(t, applied', refused)
    BY <1>1, StepDoes
  <2>2. status.smu \in {"unknown", "unavailable", "failed", "ok"}
    BY DEF TypeOK
  <2>3. QED
    BY <2>1, <2>2 DEF NextStatus, SmuStatus
<1>9. base'.source \in {"auto", "manual", "game"} /\ base'.profile.name \in ProfileNames
  BY <1>1, <1>2, StepDoes
<1>10. SafeProfile(base'.profile, SaverMaxFreq)
  BY <1>1, <1>2, StepDoes
<1>11. MachineTyped'
  <2>1. applied'.aspm = base'.profile.pcie_aspm
    <3>1. applied' = Target(f, base'.profile, conf, idle'.stage)
      BY <1>1, StepDoes
    <3>2. QED
      BY <3>1 DEF Target, TargetFor, CapBatteryCurrent
  <2>2. applied'.aspm \in PcieAspmPolicies
    BY <1>10, <2>1 DEF SafeProfile
  <2>3. hw' = Hardware(t, applied', refused) /\ Recorded(t, applied', refused)
    BY <1>1, StepDoes
  <2>4. QED
    BY <2>2, <2>3, WritesTyped
<1>12. QED
  BY <1>3, <1>4, <1>5, <1>6, <1>7, <1>8, <1>9, <1>10, <1>11 DEF TypeOK, MachineTyped, Up

LEMMA StepChoosesTruly ==
  ASSUME NEW f, NEW sample, NEW choice, NEW conf, NEW t, NEW refused,
         Handled(f, sample, choice, conf, t, refused)
  PROVE  LowBatteryWins' /\ ChoiceInForce' /\ AnswerIsTrue'
<1> DEFINE chosen == Chosen(f, choice)
<1>1. Step(f, sample, choice, choice, conf, t, refused) /\ f \in AllFacts
      /\ choice \in ProfileNames \cup {None}
  BY DEF Handled
<1>2. /\ chosen \in [name : ProfileNames, source : {"auto", "manual", "game"}]
      /\ Resolved(chosen.name, conf).name = chosen.name
  BY <1>1, ChosenTyped
<1>3. base'.profile.name = chosen.name /\ base'.source = chosen.source /\ facts' = f
  BY <1>1, <1>2, StepDoes
<1>4. manual' = KeptChoice(f, choice) /\ override' = KeptOverride(f, choice, choice)
  BY <1>1, StepDoes
<1>5. override' = manual'
  BY <1>4 DEF KeptChoice, KeptOverride
<1>6. \/ reply' = None
      \/ reply'.wanted \in {None, choice}
         /\ (reply'.ok = (reply'.wanted = None \/ base'.profile.name = reply'.wanted))
  <2>1. SUFFICES ASSUME NEW wanted \in {None, choice},
                        reply' = Answer(wanted, base'.profile.name)
                 PROVE  /\ reply'.wanted \in {None, choice}
                        /\ reply'.ok = (reply'.wanted = None
                                         \/ base'.profile.name = reply'.wanted)
    BY DEF Handled
  <2>2. reply'.wanted = wanted
    BY <2>1 DEF Answer
  <2>3. reply'.ok = (wanted = None \/ base'.profile.name = wanted)
    BY <2>1, Zenon DEF Answer
  <2>4. QED
    BY <2>2, <2>3
<1>7. CASE SaverForced(chosen)
  <2>1. base'.profile.name = "battery-saver" /\ base'.source = "auto" /\ manual' = None
    BY <1>3, <1>4, <1>7 DEF SaverForced, KeptChoice
  <2>2. ~f.on_ac
    BY <1>7 DEF SaverForced, Chosen, ChooseBase, AutoProfile
  <2>3. LowBatteryWins' /\ ChoiceInForce'
    BY <1>5, <2>1 DEF LowBatteryWins, ChoiceInForce
  <2>4. AnswerIsTrue'
    BY <1>3, <1>5, <1>6, <2>1, <2>2 DEF AnswerIsTrue
  <2>5. QED
    BY <2>3, <2>4
<1>8. CASE ~SaverForced(chosen)
  <2>1. manual' = choice
    BY <1>4, <1>8 DEF KeptChoice
  <2>2. ~LowBattery(f.on_ac, f.battery, LowThreshold)
    <3>1. LowThreshold \in Nat /\ f.battery \in Nat \cup {None} /\ Threshold(latched) \in Nat
          /\ LowThreshold <= Threshold(latched)
      BY <1>1, EngineAssumption DEF AllFacts, Threshold, Hysteresis
    <3>2. ~LowBattery(f.on_ac, f.battery, Threshold(latched))
      <4>1. SUFFICES ASSUME LowBattery(f.on_ac, f.battery, Threshold(latched))
                     PROVE  SaverForced(chosen)
        BY <1>8
      <4>2. ~f.on_ac
        BY <4>1 DEF LowBattery
      <4>3. AutoProfile(f.on_ac, f.battery, Threshold(latched)) = "battery-saver"
        BY <4>1, <4>2 DEF AutoProfile
      <4>4. QED
        BY <4>3 DEF SaverForced, Chosen, ChooseBase
    <3>3. QED
      BY <3>1, <3>2, NoneAssumption DEF LowBattery
  <2>3. choice # None => chosen = [name |-> choice, source |-> "manual"]
    BY <1>8 DEF SaverForced, Chosen, ChooseBase
  <2>4. choice = None => chosen.source # "manual"
    BY DEF Chosen, ChooseBase
  <2>5. LowBatteryWins' /\ ChoiceInForce'
    BY <1>3, <1>5, <2>1, <2>2, <2>3, <2>4 DEF LowBatteryWins, ChoiceInForce
  <2>6. AnswerIsTrue'
    <3>1. choice # None => base'.profile.name = choice
      BY <1>3, <2>3
    <3>2. reply' # None /\ reply'.wanted # None =>
            reply'.ok /\ base'.profile.name = reply'.wanted
      BY <1>6, <3>1
    <3>3. QED
      BY <3>2 DEF AnswerIsTrue
  <2>7. QED
    BY <2>5, <2>6
<1>9. QED
  BY <1>7, <1>8

LEMMA StepKeepsDeadlines ==
  ASSUME NEW f, NEW sample, NEW choice, NEW conf, NEW t, NEW refused, TimersFit(t),
         Handled(f, sample, choice, conf, t, refused)
  PROVE  TimersFit(timers)' /\ DeadlinesKept'
<1>1. timers' = NextTimers(t, applied', refused) /\ status' = NextStatus(t, applied', refused)
  BY StepDoes DEF Handled
<1>2. {ReassertInterval, ResumeFollowup, SmuRetry, DriftCheck, DriverResetInterval}
        \subseteq Nat \ {0}
  BY EngineAssumption
<1>3. t \in AllTimers
  BY DEF TimersFit
<1>4. timers'.reassert \in 1..ReassertInterval /\ timers'.drift \in 1..DriftCheck
      /\ timers'.driverReset \in 0..DriverResetInterval
  BY <1>1, <1>2, <1>3 DEF TimersFit, AllTimers, NextTimers, ReassertDue
<1>5. timers'.followup = None \/ timers'.followup \in 1..ResumeFollowup
  BY <1>1, <1>2, <1>3 DEF TimersFit, AllTimers, NextTimers
<1>6. /\ timers'.smuRetry = None \/ timers'.smuRetry \in 1..SmuRetry
      /\ (status'.smu = "failed") = (timers'.smuRetry # None)
  <2>1. CASE SmuDue(t, applied')
    <3>1. status'.smu = SmuStatus(refused)
      BY <1>1, <2>1 DEF NextStatus
    <3>2. timers'.smuRetry = IF SmuStatus(refused) = "failed" THEN SmuRetry ELSE None
      BY <1>1, <2>1 DEF NextTimers
    <3>3. QED
      BY <1>2, <3>1, <3>2, NoneAssumption
  <2>2. CASE ~SmuDue(t, applied')
    <3>1. status'.smu = status.smu /\ timers'.smuRetry = t.smuRetry
      BY <1>1, <2>2 DEF NextStatus, NextTimers
    <3>2. t.smuRetry # 0
      BY <2>2 DEF SmuDue
    <3>3. QED
      BY <1>2, <1>3, <3>1, <3>2 DEF TimersFit, AllTimers
  <2>3. QED
    BY <2>1, <2>2
<1>7. timers' \in AllTimers
  BY <1>1, <1>4, <1>5, <1>6, <1>2 DEF AllTimers, NextTimers
<1>8. QED
  BY <1>2, <1>4, <1>5, <1>6, <1>7 DEF TimersFit, DeadlinesKept

\* A Step that starts anew: nothing applied yet, and everything due.
Fresh(t) == status.smu = "unknown" /\ t.reassert = 0

LEMMA StepReports ==
  ASSUME NEW f, NEW sample, NEW choice, NEW conf, NEW t, NEW refused,
         Handled(f, sample, choice, conf, t, refused),
         Fresh(t) \/ (Up /\ CurrentTellsTruth /\ written = applied.vrmmax_ma)
  PROVE  CurrentTellsTruth' /\ written' = applied'.vrmmax_ma
<1>1. /\ status' = NextStatus(t, applied', refused)
      /\ written' = applied'.vrmmax_ma
      /\ current' = IF CurrentDue(base', status', written')
                      THEN Report(base'.profile, base'.source, applied', status')
                      ELSE current
  BY StepDoes DEF Handled
<1>2. CASE CurrentDue(base', status', written')
  BY <1>1, <1>2 DEF CurrentTellsTruth
<1>3. CASE ~CurrentDue(base', status', written')
  <2>1. base' = base /\ status' = status /\ written' = written
    BY <1>3 DEF CurrentDue
  <2>2. ~Fresh(t)
    <3>1. SUFFICES ASSUME Fresh(t) PROVE status'.smu # "unknown"
      BY <2>1 DEF Fresh
    <3>2. SmuDue(t, applied')
      BY <3>1 DEF Fresh, SmuDue, Everything, ReassertDue
    <3>3. QED
      BY <1>1, <3>2 DEF NextStatus, SmuStatus
  <2>3. QED
    BY <1>1, <1>3, <2>1, <2>2 DEF CurrentTellsTruth, Report
<1>4. QED
  BY <1>1, <1>2, <1>3

\* What the machine holds for a limit that was asked for and not refused.
VrmKnown ==
  Up /\ HasRyzenAdj /\ status.smu = "ok" /\ applied.vrmmax_ma # None =>
    hw.vrm = applied.vrmmax_ma \/ (hw.power = Other /\ hw.vrm = FirmwareVrm)

LEMMA StepHoldsCurrent ==
  ASSUME NEW f, NEW sample, NEW choice, NEW conf, NEW t, NEW refused,
         Handled(f, sample, choice, conf, t, refused),
         Fresh(t) \/ (Up /\ VrmKnown)
  PROVE  BatteryCurrentHeld' /\ VrmKnown'
<1> DEFINE profile == Resolved(Chosen(f, choice).name, conf)
<1>1. /\ f \in AllFacts /\ choice \in ProfileNames \cup {None}
      /\ facts' = f /\ config' = conf
      /\ applied' = Target(f, profile, conf, idle'.stage)
      /\ status' = NextStatus(t, applied', refused)
      /\ hw' = Hardware(t, applied', refused)
  BY StepDoes DEF Handled
<1>2. hw'.vrm = VrmAfter(t, applied', refused) /\ hw'.power = PowerAfter(t, applied', refused)
  BY <1>1 DEF Hardware
<1>3. VrmKnown'
  <2> SUFFICES ASSUME HasRyzenAdj, status'.smu = "ok", applied'.vrmmax_ma # None
               PROVE  hw'.vrm = applied'.vrmmax_ma \/ (hw'.power = Other /\ hw'.vrm = FirmwareVrm)
    BY DEF VrmKnown
  <2>1. CASE SmuDue(t, applied')
    BY <1>1, <1>2, <2>1 DEF VrmAfter, VrmArg, NextStatus, SmuStatus
  <2>2. CASE ~SmuDue(t, applied')
    <3>1. applied'.vrmmax_ma = applied.vrmmax_ma /\ ~Fresh(t)
      BY <2>2 DEF SmuDue, Fresh, Everything, ReassertDue
    <3>2. status'.smu = status.smu /\ hw'.vrm = hw.vrm /\ hw'.power = hw.power
      BY <1>1, <1>2, <2>2 DEF NextStatus, VrmAfter, PowerAfter
    <3>3. QED
      BY <3>1, <3>2 DEF VrmKnown
  <2>3. QED
    BY <2>1, <2>2
<1>4. ~f.on_ac => Within(applied'.vrmmax_ma, 15000, BatteryCap(conf))
  <2>1. SafeProfile(profile, SaverMaxFreq)
    BY <1>1, ChosenTyped
  <2>2. Within(BatteryCap(conf), 15000, 120000)
    BY BatteryCapSet DEF BatteryCap, Resolved
  <2>3. Within(CapBatteryCurrent(TargetFor(profile, idle'.stage, Overlay),
                                 BatteryCap(conf)).vrmmax_ma, 15000, BatteryCap(conf))
    BY <2>1, <2>2, CapHolds
  <2>4. QED
    BY <1>1, <2>3 DEF Target
<1>5. BatteryCurrentHeld'
  <2>1. ~f.on_ac => applied'.vrmmax_ma # None /\ applied'.vrmmax_ma <= BatteryCap(conf)
    BY <1>4, NoneAssumption DEF Within
  <2>2. BatteryCap(config)' = BatteryCap(conf)
    BY <1>1 DEF BatteryCap, Resolved
  <2>3. Up'
    BY DEF Up, Handled
  <2>4. QED
    BY <1>1, <1>3, <2>1, <2>2, <2>3 DEF BatteryCurrentHeld, VrmKnown
<1>6. QED
  BY <1>3, <1>5

-----------------------------------------------------------------------------
(* The inductive invariant: the properties, and what links a daemon that is *)
(* starting to the files it was left and a running one to its own deadlines *)

Linked ==
  /\ phase \in {"starting", "up"} => override = manual
  /\ phase = "starting" => timers = NoTimers /\ status.smu = "unknown"
  /\ Up => TimersFit(timers) /\ written = applied.vrmmax_ma
  /\ Up => SafeProfile(base.profile, SaverMaxFreq)
  /\ VrmKnown
  /\ MachineTyped

Inv ==
  /\ TypeOK
  /\ LowBatteryWins /\ ChoiceInForce /\ AnswerIsTrue
  /\ DeadlinesKept
  /\ CurrentTellsTruth
  /\ BatteryCurrentHeld
  /\ Linked

LEMMA InitInv == Init => Inv
<1> SUFFICES ASSUME Init PROVE Inv
  OBVIOUS
<1>1. phase = "stopped" /\ ~Up
  BY DEF Init, Up
<1>2. MachineTyped
  <2>1. hw = [tuned |-> Other, cpu |-> CpuLost, power |-> Other, vrm |-> FirmwareVrm,
              control |-> BootControl, panel |-> Other, aspm |-> BootAspm, driver |-> "active"]
        /\ pmFile = [d \in Devices |-> None] /\ aspmFile = None
    BY DEF Init
  <2>2. QED
    BY <2>1, EngineAssumption DEF MachineTyped, Parts
<1>3. TypeOK
  <2>1. idle \in [stage : {"none", "soft", "deep"}, quiet : Nat] /\ stage \in IdleStages
    BY DEF Init, IdleReset, IdleStages
  <2>2. faults \in 0..MaxFaults
    BY EngineAssumption DEF Init
  <2>3. status.smu = "unknown" /\ latched \in BOOLEAN /\ config \in Configs
    BY DEF Init
  <2>4. manual = None /\ override = None /\ facts = None /\ base = None /\ applied = None
    BY DEF Init
  <2>5. QED
    BY <1>1, <1>2, <2>1, <2>2, <2>3, <2>4 DEF TypeOK, IdleTypeOK, MachineTyped
<1>4. Linked
  BY <1>1, <1>2 DEF Init, Linked, VrmKnown
<1>5. QED
  BY <1>1, <1>3, <1>4 DEF Inv, LowBatteryWins, ChoiceInForce, AnswerIsTrue, DeadlinesKept,
                          CurrentTellsTruth, BatteryCurrentHeld

\* A Step from a state that fits it re-establishes the whole invariant.
LEMMA HandledInv ==
  ASSUME TypeOK, MachineTyped, NEW f, NEW sample, NEW choice, NEW conf, NEW t, NEW refused,
         Handled(f, sample, choice, conf, t, refused), TimersFit(t),
         Fresh(t) \/ (Up /\ CurrentTellsTruth /\ written = applied.vrmmax_ma /\ VrmKnown)
  PROVE  Inv'
<1>1. TypeOK' /\ MachineTyped' /\ SafeProfile(base'.profile, SaverMaxFreq)
  BY StepTypeOK
<1>2. LowBatteryWins' /\ ChoiceInForce' /\ AnswerIsTrue'
  BY StepChoosesTruly
<1>3. TimersFit(timers)' /\ DeadlinesKept'
  BY StepKeepsDeadlines
<1>4. CurrentTellsTruth' /\ written' = applied'.vrmmax_ma
  BY StepReports
<1>5. BatteryCurrentHeld' /\ VrmKnown'
  BY StepHoldsCurrent
<1>6. phase' = "up"
  BY DEF Handled
<1>7. override' = manual'
  BY <1>2, <1>6 DEF ChoiceInForce, Up
<1>8. QED
  BY <1>1, <1>2, <1>3, <1>4, <1>5, <1>6, <1>7 DEF Inv, Linked

\* Time passing and a reassert asked for keep the deadlines fit for a Step.
LEMMA ElapseFits ==
  ASSUME NEW t, TimersFit(t)
  PROVE  TimersFit(Elapse(t))
<1>1. \A n \in Nat : Sooner(n) \in Nat /\ Sooner(n) <= n
  BY NoneAssumption DEF Sooner
<1>2. Sooner(None) = None /\ \A n \in Nat : Sooner(n) # None
  BY <1>1, NoneAssumption DEF Sooner
<1>3. Elapse(t) = [reassert |-> Sooner(t.reassert), followup |-> Sooner(t.followup),
                   smuRetry |-> Sooner(t.smuRetry), drift |-> Sooner(t.drift),
                   driverReset |-> Sooner(t.driverReset)]
  BY DEF Elapse, TimersFit, AllTimers
<1>4. t \in AllTimers
  BY DEF TimersFit
<1>5. Elapse(t) \in AllTimers
  BY <1>1, <1>2, <1>3, <1>4 DEF AllTimers
<1>6. /\ t.reassert \in Nat /\ t.drift \in Nat /\ t.driverReset \in Nat
      /\ t.followup \in Nat \cup {None} /\ t.smuRetry \in Nat \cup {None}
  BY <1>4 DEF AllTimers
<1>7. /\ ReassertInterval \in Nat /\ ResumeFollowup \in Nat /\ SmuRetry \in Nat
      /\ DriftCheck \in Nat /\ DriverResetInterval \in Nat
  BY EngineAssumption
<1>8. Elapse(t).reassert <= ReassertInterval /\ Elapse(t).drift <= DriftCheck
      /\ Elapse(t).driverReset <= DriverResetInterval
  BY <1>1, <1>3, <1>6, <1>7 DEF TimersFit
<1>9. Elapse(t).followup # None => Elapse(t).followup <= ResumeFollowup
  BY <1>1, <1>2, <1>3, <1>6, <1>7 DEF TimersFit
<1>10. /\ Elapse(t).smuRetry # None => Elapse(t).smuRetry <= SmuRetry
       /\ (Elapse(t).smuRetry # None) = (t.smuRetry # None)
  BY <1>1, <1>2, <1>3, <1>6, <1>7 DEF TimersFit
<1>11. QED
  BY <1>5, <1>8, <1>9, <1>10 DEF TimersFit

LEMMA RequestFits ==
  ASSUME NEW t, TimersFit(t), NEW followup \in BOOLEAN
  PROVE  TimersFit(RequestReassert(t, followup))
<1>1. RequestReassert(t, followup) =
        [reassert |-> 0, followup |-> IF followup THEN ResumeFollowup ELSE t.followup,
         smuRetry |-> t.smuRetry, drift |-> t.drift, driverReset |-> t.driverReset]
  <2>1. t \in AllTimers
    BY DEF TimersFit
  <2>2. RequestReassert(t, followup) =
          [deadline \in {"reassert", "followup", "smuRetry", "drift", "driverReset"} |->
             IF deadline = "reassert" THEN 0
             ELSE IF deadline = "followup" /\ followup THEN ResumeFollowup ELSE t[deadline]]
    BY <2>1 DEF RequestReassert, AllTimers
  <2>3. QED
    BY <2>2
<1>2. ReassertInterval \in Nat /\ ResumeFollowup \in Nat
  BY EngineAssumption
<1>3. QED
  BY <1>1, <1>2 DEF TimersFit, AllTimers

-----------------------------------------------------------------------------
(* The handlers: each one is a Step from a state that fits it *)

Taken(f, sample, choice, conf, t, refused) ==
  /\ Handled(f, sample, choice, conf, t, refused)
  /\ TimersFit(t)
  /\ Fresh(t) \/ Up

LEMMA TickFactsTyped ==
  ASSUME NEW power \in PowerFacts, NEW game \in Games, NEW temp \in Temperatures
  PROVE  TickFacts(power, game, temp) \in AllFacts
BY EngineAssumption DEF TickFacts, AllFacts

LEMMA RefreshedTyped ==
  ASSUME facts \in AllFacts, NEW power \in PowerFacts
  PROVE  Refreshed(power) \in AllFacts
<1>1. power.on_ac \in BOOLEAN /\ power.battery \in Nat \cup {None}
  BY EngineAssumption
<1>2. QED
  BY <1>1 DEF Refreshed, AllFacts

LEMMA FirstStepTaken ==
  ASSUME Inv, NEW power \in PowerFacts, NEW game \in Games, NEW sample \in CpuSamples,
         NEW temp \in Temperatures, NEW refused \in Refusals,
         FirstStep(TickFacts(power, game, temp), sample, refused)
  PROVE  Taken(TickFacts(power, game, temp), sample, manual, config, timers, refused)
<1>1. override = manual /\ timers = NoTimers /\ status.smu = "unknown"
  BY DEF Inv, Linked, FirstStep
<1>2. manual \in ProfileNames \cup {None} /\ config \in Configs
  BY DEF Inv, TypeOK
<1>3. TimersFit(timers) /\ Fresh(timers)
  <2>1. NoTimers \in AllTimers
    BY DEF NoTimers, AllTimers
  <2>2. ReassertInterval \in Nat /\ DriftCheck \in Nat /\ DriverResetInterval \in Nat
    BY EngineAssumption
  <2>3. TimersFit(timers)
    BY <1>1, <2>1, <2>2 DEF TimersFit, NoTimers
  <2>4. Fresh(timers)
    BY <1>1 DEF Fresh, NoTimers
  <2>5. QED
    BY <2>3, <2>4
<1>4. Handled(TickFacts(power, game, temp), sample, manual, config, timers, refused)
  BY <1>1, <1>2, TickFactsTyped DEF FirstStep, Handled
<1>5. QED
  BY <1>3, <1>4 DEF Taken

LEMMA TickTakesStep ==
  ASSUME Inv, NEW power \in PowerFacts, NEW game \in Games, NEW sample \in CpuSamples,
         NEW temp \in Temperatures, NEW slept \in Sleeps, NEW conf \in Configs,
         NEW refused \in Refusals,
         Tick(TickFacts(power, game, temp), sample, slept, conf, refused)
  PROVE  \E t : Taken(TickFacts(power, game, temp), sample, manual, conf, t, refused)
<1> DEFINE t == IF slept THEN RequestReassert(Elapse(timers), TRUE) ELSE Elapse(timers)
<1>1. override = manual /\ Up /\ TimersFit(timers)
  BY DEF Inv, Linked, Tick, Up
<1>2. manual \in ProfileNames \cup {None}
  BY DEF Inv, TypeOK
<1>3. TimersFit(t)
  BY <1>1, ElapseFits, RequestFits
<1>4. Handled(TickFacts(power, game, temp), sample, manual, conf, t, refused)
  BY <1>1, <1>2, TickFactsTyped DEF Tick, Handled
<1>5. QED
  BY <1>1, <1>3, <1>4 DEF Taken

LEMMA ChooseTaken ==
  ASSUME Inv, NEW choice \in ManualChoices \cup {None}, NEW power \in PowerFacts,
         NEW refused \in Refusals, Choose(choice, power, refused)
  PROVE  Taken(Refreshed(power), None, choice, config, timers, refused)
<1>1. Up /\ TimersFit(timers) /\ facts \in AllFacts /\ config \in Configs
  BY DEF Inv, TypeOK, Linked, Choose, Up
<1>2. choice \in ProfileNames \cup {None}
  BY EngineAssumption
<1>3. Handled(Refreshed(power), None, choice, config, timers, refused)
  BY <1>1, <1>2, RefreshedTyped DEF Choose, Handled
<1>4. QED
  BY <1>1, <1>3 DEF Taken

LEMMA HandleReassertTaken ==
  ASSUME Inv, NEW power \in PowerFacts, NEW refused \in Refusals,
         HandleReassert(power, refused)
  PROVE  Taken(Refreshed(power), None, manual, config, RequestReassert(timers, FALSE), refused)
<1>1. Up /\ TimersFit(timers) /\ facts \in AllFacts /\ config \in Configs
      /\ override = manual /\ manual \in ProfileNames \cup {None}
  BY DEF Inv, TypeOK, Linked, HandleReassert, Up
<1>2. TimersFit(RequestReassert(timers, FALSE))
  BY <1>1, RequestFits
<1>3. Handled(Refreshed(power), None, manual, config, RequestReassert(timers, FALSE), refused)
  BY <1>1, RefreshedTyped DEF HandleReassert, Handled
<1>4. QED
  BY <1>1, <1>2, <1>3 DEF Taken

-----------------------------------------------------------------------------
(* The other actions *)

\* A daemon that is not running keeps every promise but the types and the links.
LEMMA DownInv ==
  ASSUME TypeOK', Linked', ~Up'
  PROVE  Inv'
BY DEF Inv, LowBatteryWins, ChoiceInForce, AnswerIsTrue, DeadlinesKept, CurrentTellsTruth,
       BatteryCurrentHeld

LEMMA ForgetTyped ==
  ASSUME Forget
  PROVE  /\ latched' \in BOOLEAN /\ IdleTypeOK' /\ stage' \in IdleStages
         /\ status'.smu = "unknown" /\ timers' = NoTimers
         /\ facts' = None /\ base' = None /\ applied' = None
BY DEF Forget, IdleTypeOK, IdleReset, IdleStages

LEMMA StartInv == Inv /\ Start => Inv'
<1> SUFFICES ASSUME Inv, Start PROVE Inv'
  OBVIOUS
<1>1. phase' = "starting" /\ ~Up' /\ manual' = override /\ override' = override
      /\ config' \in Configs /\ faults' = faults /\ Forget
  BY DEF Start, Up
<1>2. override \in ProfileNames \cup {None} /\ faults \in 0..MaxFaults
      /\ MachineTyped
  BY DEF Inv, TypeOK, Linked
<1>3. MachineTyped'
  BY <1>2 DEF Start, MachineTyped
<1>4. TypeOK' /\ Linked'
  BY <1>1, <1>2, <1>3, ForgetTyped DEF TypeOK, MachineTyped, Linked, VrmKnown
<1>5. QED
  BY <1>1, <1>4, DownInv

LEMMA StopInv ==
  ASSUME Inv, NEW refused \in Refusals, Stop(refused)
  PROVE  Inv'
<1>1. phase' = "stopped" /\ ~Up' /\ manual' = None /\ override' = override
      /\ config' = config /\ Forget /\ Refuse(refused)
  BY DEF Stop, Up
<1>2. override \in ProfileNames \cup {None} /\ faults \in 0..MaxFaults /\ config \in Configs
  BY DEF Inv, TypeOK
<1>3. faults' \in 0..MaxFaults
  BY <1>1, <1>2, RefusalCounts
<1>4. MachineTyped'
  <2> DEFINE target == TargetFor(base.profile, "none", Overlay)
  <2>1. hw' = Hardware(timers, target, refused) /\ Recorded(timers, target, refused)
        /\ Up
    BY DEF Stop, Up
  <2>2. MachineTyped /\ SafeProfile(base.profile, SaverMaxFreq)
    BY <2>1 DEF Inv, Linked
  <2>3. target.aspm \in PcieAspmPolicies
    BY <2>2 DEF TargetFor, SafeProfile
  <2> HIDE DEF target
  <2>4. QED
    BY <2>1, <2>2, <2>3, WritesTyped
<1>5. TypeOK'
  BY <1>1, <1>2, <1>3, <1>4, ForgetTyped DEF TypeOK, MachineTyped
<1>6. Linked'
  BY <1>1, <1>4 DEF Linked, VrmKnown
<1>7. QED
  BY <1>1, <1>5, <1>6, DownInv

LEMMA CrashInv == Inv /\ Crash => Inv'
<1> SUFFICES ASSUME Inv, Crash PROVE Inv'
  OBVIOUS
<1>1. phase' = "crashed" /\ ~Up' /\ manual' = None /\ override' = override
      /\ config' = config /\ faults' = faults + 1 /\ faults < MaxFaults /\ Forget
      /\ UNCHANGED <<hw, pmFile, aspmFile>>
  BY DEF Crash, Up, files
<1>2. override \in ProfileNames \cup {None} /\ faults \in 0..MaxFaults /\ config \in Configs
      /\ MachineTyped
  BY DEF Inv, TypeOK, Linked
<1>3. faults' \in 0..MaxFaults /\ MachineTyped'
  BY <1>1, <1>2, EngineAssumption DEF MachineTyped
<1>4. TypeOK'
  BY <1>1, <1>2, <1>3, ForgetTyped DEF TypeOK, MachineTyped
<1>5. Linked'
  BY <1>1, <1>2, <1>3 DEF Linked, VrmKnown
<1>6. QED
  BY <1>1, <1>4, <1>5, DownInv

LEMMA DisturbInv ==
  ASSUME Inv, NEW part \in Disturbances, Disturb(part)
  PROVE  Inv'
<1>1. UNCHANGED <<phase, config, manual, latched, idle, facts, base, applied, stage>>
      /\ UNCHANGED <<status, written, timers, thermal, stock, current, override, reply>>
      /\ faults' = faults + 1 /\ faults < MaxFaults
  BY DEF Disturb, memory, files
<1>2. hw' \in Changed(part) /\ UNCHANGED <<pmFile, aspmFile>> /\ MachineTyped
  BY DEF Disturb, files, Inv, Linked
<1>3. /\ MachineTyped'
      /\ \/ hw'.vrm = hw.vrm /\ hw'.power = hw.power
         \/ hw'.vrm = FirmwareVrm /\ hw'.power = Other
  BY <1>2, ChangedTyped
<1>4. TypeOK'
  BY <1>1, <1>3, EngineAssumption DEF Inv, TypeOK, MachineTyped, Up, IdleTypeOK
<1>5. VrmKnown' /\ BatteryCurrentHeld'
  <2>1. VrmKnown'
    BY <1>1, <1>3 DEF Inv, Linked, VrmKnown, Up
  <2>2. QED
    BY <1>1, <2>1 DEF Inv, VrmKnown, BatteryCurrentHeld, BatteryCap, Resolved, Up
<1>6. Linked'
  BY <1>1, <1>3, <1>5 DEF Inv, Linked, TimersFit, Up
<1>7. LowBatteryWins' /\ ChoiceInForce' /\ AnswerIsTrue'
  BY <1>1 DEF Inv, LowBatteryWins, ChoiceInForce, AnswerIsTrue, Up
<1>8. DeadlinesKept' /\ CurrentTellsTruth'
  BY <1>1 DEF Inv, DeadlinesKept, CurrentTellsTruth, Report, Up
<1>9. QED
  BY <1>4, <1>5, <1>6, <1>7, <1>8 DEF Inv

-----------------------------------------------------------------------------
(* The theorems *)

LEMMA TakenInv ==
  ASSUME Inv, NEW f, NEW sample, NEW choice, NEW conf, NEW t, NEW refused,
         Taken(f, sample, choice, conf, t, refused)
  PROVE  Inv'
<1>1. Handled(f, sample, choice, conf, t, refused) /\ TimersFit(t)
  BY DEF Taken
<1>2. TypeOK /\ MachineTyped /\ CurrentTellsTruth /\ VrmKnown /\ (Up => written = applied.vrmmax_ma)
  BY DEF Inv, Linked
<1>3. Fresh(t) \/ (Up /\ CurrentTellsTruth /\ written = applied.vrmmax_ma /\ VrmKnown)
  BY <1>2 DEF Taken
<1>4. QED
  BY <1>1, <1>2, <1>3, HandledInv

LEMMA NextInv == Inv /\ [Next]_vars => Inv'
<1> SUFFICES ASSUME Inv, [Next]_vars PROVE Inv'
  OBVIOUS
<1>1. CASE Start
  BY <1>1, StartInv
<1>2. ASSUME NEW power \in PowerFacts, NEW game \in Games, NEW sample \in CpuSamples,
             NEW temp \in Temperatures, NEW refused \in Refusals,
             FirstStep(TickFacts(power, game, temp), sample, refused)
      PROVE  Inv'
  BY <1>2, FirstStepTaken, TakenInv
<1>3. ASSUME NEW power \in PowerFacts, NEW game \in Games, NEW sample \in CpuSamples,
             NEW temp \in Temperatures, NEW slept \in Sleeps, NEW conf \in Configs,
             NEW refused \in Refusals,
             Tick(TickFacts(power, game, temp), sample, slept, conf, refused)
      PROVE  Inv'
  <2>1. PICK t : Taken(TickFacts(power, game, temp), sample, manual, conf, t, refused)
    BY <1>3, TickTakesStep
  <2>2. QED
    BY <2>1, TakenInv
<1>4. ASSUME NEW choice \in ManualChoices \cup {None}, NEW power \in PowerFacts,
             NEW refused \in Refusals, Choose(choice, power, refused)
      PROVE  Inv'
  BY <1>4, ChooseTaken, TakenInv
<1>5. ASSUME NEW power \in PowerFacts, NEW refused \in Refusals,
             HandleReassert(power, refused)
      PROVE  Inv'
  BY <1>5, HandleReassertTaken, TakenInv
<1>6. ASSUME NEW refused \in Refusals, Stop(refused)
      PROVE  Inv'
  BY <1>6, StopInv
<1>7. CASE Crash
  BY <1>7, CrashInv
<1>8. ASSUME NEW part \in Disturbances, Disturb(part)
      PROVE  Inv'
  BY <1>8, DisturbInv
<1>9. CASE UNCHANGED vars
  <2>1. UNCHANGED <<phase, config, manual, latched, idle, facts, base, applied, stage>>
        /\ UNCHANGED <<status, written, timers, stock, current, override, hw, reply, faults>>
        /\ UNCHANGED <<pmFile, aspmFile>>
    BY <1>9 DEF vars, memory, files
  <2>2. TypeOK' /\ LowBatteryWins' /\ ChoiceInForce' /\ AnswerIsTrue'
    BY <2>1 DEF Inv, TypeOK, IdleTypeOK, LowBatteryWins, ChoiceInForce, AnswerIsTrue, Up
  <2>3. DeadlinesKept' /\ CurrentTellsTruth'
    BY <2>1 DEF Inv, DeadlinesKept, CurrentTellsTruth, Report, Up
  <2>4. BatteryCurrentHeld' /\ Linked'
    BY <2>1 DEF Inv, Linked, VrmKnown, MachineTyped, BatteryCurrentHeld, BatteryCap, Resolved,
                   TimersFit, Up
  <2>5. QED
    BY <2>2, <2>3, <2>4 DEF Inv
<1>10. QED
  BY <1>1, <1>2, <1>3, <1>4, <1>5, <1>6, <1>7, <1>8, <1>9 DEF Next, AnyTick

LEMMA Invariant == Spec => []Inv
BY InitInv, NextInv, PTL DEF Spec

\* The engine and its daemon hold their types. (Engine, Daemon)
THEOREM Types == Spec => []TypeOK
<1>1. Inv => TypeOK
  BY DEF Inv
<1>2. QED
  BY Invariant, <1>1, PTL

\* At or below the threshold on battery only battery-saver runs, and the manual choice
\* it replaced is forgotten on disk too. (Engine.step)
THEOREM Guard == Spec => []LowBatteryWins
<1>1. Inv => LowBatteryWins
  BY DEF Inv
<1>2. QED
  BY Invariant, <1>1, PTL

\* The manual choice in memory, the one on disk and the profile in force agree.
\* (Engine.set_manual)
THEOREM Choices == Spec => []ChoiceInForce
<1>1. Inv => ChoiceInForce
  BY DEF Inv
<1>2. QED
  BY Invariant, <1>1, PTL

\* A request is answered with what became of it. (Daemon.handle)
THEOREM Answers == Spec => []AnswerIsTrue
<1>1. Inv => AnswerIsTrue
  BY DEF Inv
<1>2. QED
  BY Invariant, <1>1, PTL

\* No deadline is lost or put off beyond its interval, and a failed SMU call always has
\* its retry. (Engine._reconcile)
THEOREM Deadlines == Spec => []DeadlinesKept
<1>1. Inv => DeadlinesKept
  BY DEF Inv
<1>2. QED
  BY Invariant, <1>1, PTL

\* The state file is never behind the engine. (Engine._write_current)
THEOREM StateFile == Spec => []CurrentTellsTruth
<1>1. Inv => CurrentTellsTruth
  BY DEF Inv
<1>2. QED
  BY Invariant, <1>1, PTL

\* On battery the VRM limit asked for, and the one in the machine unless the call
\* failed or the firmware reset it, is at most the battery profile's. (Engine.step)
THEOREM BatteryCurrent == Spec => []BatteryCurrentHeld
<1>1. Inv => BatteryCurrentHeld
  BY DEF Inv
<1>2. QED
  BY Invariant, <1>1, PTL

-----------------------------------------------------------------------------
(* The machine, the overlay and the record of temperatures.  Under the      *)
(* invariant above these hold one another up: what a stop leaves in the     *)
(* machine is what the machine held, and a Step that leaves the overlay     *)
(* file alone is right only because its target is that of the same base.    *)

\* The target in force is the one the last facts call for.
TargetKept ==
  Up => /\ applied = Target(facts, base.profile, config, idle.stage)
        /\ base.profile = Resolved(base.profile.name, config)

\* Nothing but a fault stops the driver or loses what was there at boot.
Unspoilt == faults = 0 => hw.driver = "active" /\ BootKept

\* A daemon that starts finds no overlay on file and has no record yet.
CleanStart ==
  phase = "starting" => stage = "none" /\ overlayFile = None /\ thermal = NoRecord

\* A record in memory counts the samples since it was written.
Building == [profile : ProfileNames, target : Int, peak : Int, samples : Nat, over : Nat,
             pending : Nat]

\* A record without samples is written with its first one; the others are on disk.
RecordKept ==
  Up => \/ (thermal.profile = None /\ thermal.samples = 0)
        \/ /\ thermal \in Building
           /\ thermal.over <= thermal.samples /\ thermal.samples <= MaxSamples
           /\ thermal.samples = 0 => thermal.pending >= WriteSamples
           /\ thermal.samples > 0 =>
                /\ thermalFile \in Records
                /\ thermalFile.profile = thermal.profile /\ thermalFile.target = thermal.target
                /\ thermalFile.peak = thermal.peak
                /\ thermal.pending < WriteSamples
                /\ thermal.samples <= thermalFile.samples + thermal.pending

Kept ==
  /\ HardwareIsTarget /\ TargetKept /\ Unspoilt
  /\ OverlayTellsTruth /\ CleanStart
  /\ RecordKept

\* What a Step does to the overlay file and the record.
LEMMA StepWrites ==
  ASSUME NEW f, NEW sample, NEW choice, NEW file, NEW conf, NEW t, NEW refused,
         Step(f, sample, choice, file, conf, t, refused)
  PROVE  /\ overlayFile' = IF OverlayDue(base', stage')
                             THEN OverlayReport(stage', base'.profile, base'.source, applied')
                             ELSE overlayFile
         /\ TrackThermal(RecordFor(base'.profile, base'.source), f.temp)
<1> DEFINE profile == Resolved(Chosen(f, choice).name, conf)
           source == Chosen(f, choice).source
<1>1. base'.profile = profile /\ base'.source = source
  BY StepDoes
<1>2. overlayFile' = IF OverlayDue(base', stage')
                       THEN OverlayReport(stage', profile, source, applied') ELSE overlayFile
  BY DEF Step, Reconcile
<1>3. TrackThermal(RecordFor(profile, source), f.temp)
  BY DEF Step
<1>4. QED
  BY <1>1, <1>2, <1>3

\* Writing a target loses nothing that "default" has to put back.
LEMMA BackKept ==
  ASSUME MachineTyped, NEW t, NEW target, target.aspm \in PcieAspmPolicies,
         hw' = Hardware(t, target, {}), Recorded(t, target, {})
  PROVE  (\A d \in Devices : DeviceBack(d)' = DeviceBack(d)) /\ AspmBack' = AspmBack
<1>1. hw'.control = ControlAfter(t, target, {}) /\ hw'.aspm = AspmAfter(t, target, {})
  BY DEF Hardware
<1>2. ASSUME NEW d \in Devices
      PROVE  DeviceBack(d)' = DeviceBack(d)
  <2>1. hw.control[d] \in {"on", "auto"} /\ pmFile[d] \in {"on", "auto", None}
        /\ None \notin {"on", "auto"}
    BY EngineAssumption DEF MachineTyped
  <2>2. hw'.control[d] = IF ~DevicesDue(t, target) THEN hw.control[d]
                         ELSE IF target.devices.runtime_pm = "auto" THEN "auto"
                         ELSE DeviceBack(d)
    BY <1>1 DEF ControlAfter
  <2>3. pmFile'[d] = IF ~DevicesDue(t, target) THEN pmFile[d]
                     ELSE IF target.devices.runtime_pm # "auto" THEN None
                     ELSE IF hw.control[d] = "auto" THEN pmFile[d] ELSE DeviceBack(d)
    BY DEF Recorded, PmRecordAfter
  <2>4. QED
    BY <2>1, <2>2, <2>3 DEF DeviceBack
<1>3. AspmBack' = AspmBack
  <2>1. hw.aspm \in PcieAspmPolicies \cup {Other} /\ None \notin PcieAspmPolicies \cup {Other}
    BY EngineAssumption DEF MachineTyped
  <2>2. aspmFile' = AspmRecordAfter(t, target, {})
    BY DEF Recorded
  <2>3. CASE AspmSet(t, target, {})
    BY <2>1, <2>2, <2>3 DEF AspmRecordAfter, AspmBack
  <2>4. CASE ~AspmSet(t, target, {})
    BY <1>1, <2>1, <2>2, <2>4 DEF AspmRecordAfter, AspmAfter, AspmBack
  <2>5. QED
    BY <2>3, <2>4
<1>4. QED
  BY <1>2, <1>3

\* Each CPU policy is written, or was as the last target had it and still is right.
LEMMA CpuSettles ==
  ASSUME NEW t, NEW target, hw' = Hardware(t, target, {}), hw.driver = "active"
  PROVE  /\ hw'.driver = "active"
         /\ \A part \in Cpus : Everything(t) \/ hw.cpu[part] = applied.cpu =>
                                hw'.cpu[part] = target.cpu
<1> DEFINE there == CpuAfterWrites(t, target, {})
<1>1. hw'.cpu = CpuAfterDrift(t, there, target.cpu, {})
      /\ hw'.driver = DriverAfter(t, there, target.cpu, {})
  BY DEF Hardware
<1>2. ASSUME NEW part \in Cpus, Everything(t) \/ hw.cpu[part] = applied.cpu
      PROVE  there[part] = target.cpu
  BY <1>2 DEF CpuAfterWrites, CpuWritten, CpuDue, TunedDue
<1> HIDE DEF there
<1>3. CpuWritten(there, target.cpu, hw.driver, {}) = [part \in Cpus |-> target.cpu]
  BY DEF CpuWritten
<1>4. ~ResetTried(t, there, target.cpu, {})
  <2>1. CpuWritten(there, target.cpu, hw.driver, {}).policy0 = target.cpu
    BY <1>3 DEF Cpus
  <2>2. QED
    BY <2>1 DEF ResetTried
<1>5. hw'.cpu = IF Drifted(t, there, target.cpu) THEN [part \in Cpus |-> target.cpu] ELSE there
  BY <1>1, <1>3, <1>4 DEF CpuAfterDrift
<1>6. hw'.driver = "active"
  BY <1>1, <1>4 DEF DriverAfter
<1>7. QED
  BY <1>2, <1>5, <1>6

LEMMA LimitsSettle ==
  ASSUME NEW t, NEW target, hw' = Hardware(t, target, {}), HasRyzenAdj,
         Everything(t) \/ hw.power = applied.power
  PROVE  hw'.power = target.power
<1>1. hw'.power = PowerAfter(t, target, {})
  BY DEF Hardware
<1>2. QED
  BY <1>1 DEF PowerAfter, SmuDue

\* A Step that is refused nothing leaves each part as its target has it, if it is
\* written or was as the last target had it.
LEMMA StepHolds ==
  ASSUME MachineTyped, NEW f, NEW sample, NEW choice, NEW conf, NEW t,
         Handled(f, sample, choice, conf, t, {}),
         SafeProfile(base'.profile, SaverMaxFreq)
  PROVE  /\ Everything(t) \/ hw.tuned = applied.tuned => hw'.tuned = applied'.tuned
         /\ hw.driver = "active" =>
              /\ hw'.driver = "active"
              /\ \A part \in Cpus : Everything(t) \/ CpuHolds(part) => CpuHolds(part)'
         /\ Everything(t) \/ LimitsHold => LimitsHold'
         /\ Everything(t) \/ VrmHolds => VrmHolds'
         /\ \A d \in Devices : Everything(t) \/ DeviceHolds(d) => DeviceHolds(d)'
         /\ Everything(t) \/ hw.panel = applied.devices.panel =>
              hw'.panel = applied'.devices.panel
         /\ Everything(t) \/ AspmHolds => AspmHolds'
         /\ (\A d \in Devices : DeviceBack(d)' = DeviceBack(d)) /\ AspmBack' = AspmBack
<1>1. hw' = Hardware(t, applied', {}) /\ Recorded(t, applied', {}) /\ stock' = stock
  BY StepDoes DEF Handled
<1>2. applied'.aspm \in PcieAspmPolicies
  <2>1. applied' = Target(f, base'.profile, conf, idle'.stage)
    BY StepDoes DEF Handled
  <2>2. applied'.aspm = base'.profile.pcie_aspm
    BY <2>1 DEF Target, TargetFor, CapBatteryCurrent
  <2>3. QED
    BY <2>2 DEF SafeProfile
<1>3. (\A d \in Devices : DeviceBack(d)' = DeviceBack(d)) /\ AspmBack' = AspmBack
  BY <1>1, <1>2, BackKept
<1>4. Everything(t) \/ hw.tuned = applied.tuned => hw'.tuned = applied'.tuned
  <2>1. hw'.tuned = TunedAfter(t, applied', {})
    BY <1>1 DEF Hardware
  <2>2. QED
    BY <2>1 DEF TunedAfter, SwitchTuned, TunedDue
<1>5. hw.driver = "active" =>
        /\ hw'.driver = "active"
        /\ \A part \in Cpus : Everything(t) \/ CpuHolds(part) => CpuHolds(part)'
  BY <1>1, CpuSettles DEF CpuHolds
<1>6. Everything(t) \/ LimitsHold => LimitsHold'
  BY <1>1, LimitsSettle DEF LimitsHold
<1>7. Everything(t) \/ VrmHolds => VrmHolds'
  <2>1. hw'.vrm = VrmAfter(t, applied', {})
    BY <1>1 DEF Hardware
  <2>2. CASE SmuDue(t, applied')
    BY <1>1, <2>1, <2>2 DEF VrmAfter, VrmHolds
  <2>3. CASE ~SmuDue(t, applied')
    BY <1>1, <2>1, <2>3 DEF VrmAfter, VrmHolds, SmuDue
  <2>4. QED
    BY <2>2, <2>3
<1>8. ASSUME NEW d \in Devices, Everything(t) \/ DeviceHolds(d)
      PROVE  DeviceHolds(d)'
  <2>1. hw'.control[d] = IF ~DevicesDue(t, applied') THEN hw.control[d]
                         ELSE IF applied'.devices.runtime_pm = "auto" THEN "auto"
                         ELSE DeviceBack(d)
    BY <1>1 DEF Hardware, ControlAfter
  <2>2. DeviceBack(d)' = DeviceBack(d)
    BY <1>3
  <2>3. CASE DevicesDue(t, applied')
    BY <2>1, <2>2, <2>3 DEF DeviceHolds
  <2>4. CASE ~DevicesDue(t, applied')
    <3>1. DeviceHolds(d) /\ applied'.devices = applied.devices
      BY <1>8, <2>4 DEF DevicesDue
    <3>2. QED
      BY <2>1, <2>2, <2>4, <3>1 DEF DeviceHolds
  <2>5. QED
    BY <2>3, <2>4
<1>9. Everything(t) \/ hw.panel = applied.devices.panel => hw'.panel = applied'.devices.panel
  <2>1. hw'.panel = PanelAfter(t, applied', {})
    BY <1>1 DEF Hardware
  <2>2. QED
    BY <2>1 DEF PanelAfter, DevicesDue
<1>10. Everything(t) \/ AspmHolds => AspmHolds'
  <2>1. hw'.aspm = AspmAfter(t, applied', {})
    BY <1>1 DEF Hardware
  <2>2. CASE AspmDue(t, applied')
    BY <1>3, <2>1, <2>2 DEF AspmAfter, AspmSet, AspmHolds
  <2>3. CASE ~AspmDue(t, applied')
    BY <1>3, <2>1, <2>3 DEF AspmAfter, AspmSet, AspmDue, AspmHolds
  <2>4. QED
    BY <2>2, <2>3
<1>11. QED
  BY <1>3, <1>4, <1>5, <1>6, <1>7, <1>8, <1>9, <1>10

LEMMA StepSettles ==
  ASSUME MachineTyped, NEW f, NEW sample, NEW choice, NEW conf, NEW t,
         Handled(f, sample, choice, conf, t, {}),
         SafeProfile(base'.profile, SaverMaxFreq),
         hw.driver = "active", Everything(t) \/ Settled
  PROVE  hw'.driver = "active" /\ Settled'
BY StepHolds DEF Settled

\* With nothing refused and the driver at work every part holds its target.
LEMMA StepIsTarget ==
  ASSUME TypeOK, MachineTyped, Unspoilt,
         NEW f, NEW sample, NEW choice, NEW conf, NEW t, NEW refused,
         Handled(f, sample, choice, conf, t, refused),
         Fresh(t) \/ (Up /\ HardwareIsTarget)
  PROVE  TargetKept' /\ Unspoilt' /\ HardwareIsTarget'
<1> DEFINE profile == Resolved(Chosen(f, choice).name, conf)
<1>1. /\ facts' = f /\ config' = conf
      /\ base'.profile = profile
      /\ applied' = Target(f, profile, conf, idle'.stage)
      /\ Refuse(refused)
      /\ f \in AllFacts /\ choice \in ProfileNames \cup {None}
  BY StepDoes DEF Handled
<1>2. profile.name = Chosen(f, choice).name /\ SafeProfile(profile, SaverMaxFreq)
  BY <1>1, ChosenTyped
<1>3. TargetKept'
  <2>1. applied' = Target(facts', base'.profile, config', idle'.stage)
    BY <1>1
  <2>2. base'.profile = Resolved(base'.profile.name, config')
    BY <1>1, <1>2
  <2>3. QED
    BY <2>1, <2>2 DEF TargetKept
<1>4. SUFFICES ASSUME faults' = 0
               PROVE  hw'.driver = "active" /\ Settled' /\ BootKept'
  BY <1>3 DEF Unspoilt, HardwareIsTarget, TargetKept, Up
<1>5. faults = 0 /\ refused = {}
  BY <1>1, <1>4, RefusalCounts DEF TypeOK
<1>6. hw.driver = "active" /\ BootKept
  BY <1>5 DEF Unspoilt
<1>7. Everything(t) \/ Settled
  BY <1>5 DEF Fresh, Everything, ReassertDue, HardwareIsTarget
<1>8. Handled(f, sample, choice, conf, t, {}) /\ SafeProfile(base'.profile, SaverMaxFreq)
  BY <1>1, <1>2, <1>5
<1>9. hw'.driver = "active" /\ Settled'
  BY <1>6, <1>7, <1>8, StepSettles
<1>10. BootKept'
  <2>1. (\A d \in Devices : DeviceBack(d)' = DeviceBack(d)) /\ AspmBack' = AspmBack
    BY <1>8, StepHolds
  <2>2. QED
    BY <1>6, <2>1 DEF BootKept
<1>11. QED
  BY <1>9, <1>10

\* What an overlay asks of the CPU and of the SMU follows from the base and the stage.
LEMMA OverlayTarget ==
  ASSUME TargetKept, Up
  PROVE  /\ applied.cpu = CpuPolicy(base.profile, idle.stage, Overlay)
         /\ applied.power = PowerLimits(base.profile, idle.stage, Overlay)
<1>1. applied = Target(facts, base.profile, config, idle.stage)
  BY DEF TargetKept
<1>2. QED
  BY <1>1 DEF Target, TargetFor, CapBatteryCurrent

\* The overlay file is rewritten, or names what is in force already.
LEMMA StepOverlay ==
  ASSUME NEW f, NEW sample, NEW choice, NEW conf, NEW t, NEW refused,
         Handled(f, sample, choice, conf, t, refused), TargetKept, TargetKept',
         (Up /\ OverlayTellsTruth) \/ (phase = "starting" /\ CleanStart)
  PROVE  OverlayTellsTruth'
<1>1. /\ stage' = idle'.stage /\ phase' = "up"
      /\ overlayFile' = IF OverlayDue(base', stage')
                          THEN OverlayReport(stage', base'.profile, base'.source, applied')
                          ELSE overlayFile
  BY StepDoes, StepWrites DEF Handled
<1>2. SUFFICES overlayFile' = OverlayReport(stage', base'.profile, base'.source, applied')
  BY <1>1 DEF OverlayTellsTruth, Up
<1>3. CASE stage' = "none"
  BY <1>1, <1>3 DEF OverlayDue, OverlayReport, OverlayTellsTruth, CleanStart
<1>4. CASE ~OverlayDue(base', stage') /\ stage' # "none"
  <2>1. stage' = stage /\ base' = base /\ stage # "none"
    BY <1>4 DEF OverlayDue
  <2>2. Up /\ stage = idle.stage
        /\ overlayFile = OverlayReport(stage, base.profile, base.source, applied)
    BY <2>1 DEF CleanStart, OverlayTellsTruth
  <2>3. applied.cpu = CpuPolicy(base.profile, stage, Overlay)
        /\ applied.power = PowerLimits(base.profile, stage, Overlay)
    BY <2>2, OverlayTarget
  <2>4. applied' = Target(facts', base'.profile, config', stage')
    BY <1>1 DEF TargetKept, Up
  <2>5. applied'.cpu = CpuPolicy(base'.profile, stage', Overlay)
        /\ applied'.power = PowerLimits(base'.profile, stage', Overlay)
    BY <2>4 DEF Target, TargetFor, CapBatteryCurrent
  <2>6. applied'.cpu = applied.cpu /\ applied'.power = applied.power
    BY <2>1, <2>3, <2>5
  <2>7. QED
    BY <1>1, <1>4, <2>1, <2>2, <2>6 DEF OverlayReport
<1>5. QED
  BY <1>1, <1>3, <1>4

-----------------------------------------------------------------------------
(* The record of temperatures *)

\* What one more sample makes of a record.
LEMMA CountedRecord ==
  ASSUME NEW r \in Building, NEW temp
  PROVE  Counted(r, temp) =
           [profile |-> r.profile, target |-> r.target,
            peak |-> IF temp > r.peak THEN temp ELSE r.peak,
            samples |-> AtMost(r.samples + 1, MaxSamples),
            over |-> IF r.target > 0 /\ temp > r.target
                       THEN AtMost(r.over + 1, MaxSamples) ELSE r.over,
            pending |-> r.pending + 1]
<1> DEFINE fields == {"profile", "target", "peak", "samples", "over", "pending"}
           peak == IF temp > r.peak THEN temp ELSE r.peak
           samples == AtMost(r.samples + 1, MaxSamples)
           over == IF r.target > 0 /\ temp > r.target
                     THEN AtMost(r.over + 1, MaxSamples) ELSE r.over
           pending == r.pending + 1
<1>1. r = [field \in fields |-> r[field]]
  BY DEF Building
<1>2. Counted(r, temp) = [r EXCEPT !.samples = samples, !.peak = peak, !.over = over,
                                   !.pending = pending]
  BY Zenon DEF Counted
<1> HIDE DEF peak, samples, over, pending
<1>3. Counted(r, temp) =
        [field \in fields |->
           IF field = "pending" THEN pending ELSE IF field = "over" THEN over
           ELSE IF field = "peak" THEN peak ELSE IF field = "samples" THEN samples
           ELSE r[field]]
  BY <1>1, <1>2, Zenon
<1>4. Counted(r, temp) = [profile |-> r.profile, target |-> r.target, peak |-> peak,
                          samples |-> samples, over |-> over, pending |-> pending]
  BY <1>3
<1>5. QED
  BY <1>4 DEF peak, samples, over, pending

\* A record is started or kept on: one sample more, and on disk when it is due.
LEMMA StepRecord ==
  ASSUME NEW f, NEW sample, NEW choice, NEW conf, NEW t, NEW refused,
         Handled(f, sample, choice, conf, t, refused),
         (Up /\ RecordKept) \/ (phase = "starting" /\ CleanStart)
  PROVE  RecordKept'
<1> DEFINE r == RecordFor(base'.profile, base'.source)
           temp == f.temp
           OnDisk(file, record) ==
             /\ file \in Records
             /\ file.profile = record.profile /\ file.target = record.target
             /\ file.peak = record.peak
             /\ record.pending < WriteSamples
             /\ record.samples <= file.samples + record.pending
           Good(file, record) ==
             /\ record \in Building
             /\ record.over <= record.samples /\ record.samples <= MaxSamples
             /\ record.samples = 0 => record.pending >= WriteSamples
             /\ record.samples > 0 => OnDisk(file, record)
<1>1. TrackThermal(r, temp) /\ temp \in Int \cup {None} /\ phase' = "up"
  BY StepWrites DEF Handled, AllFacts
<1>2. WriteSamples \in Nat \ {0} /\ MaxSamples \in Nat \ {0}
  BY EngineAssumption
<1>3. base'.profile.name \in ProfileNames /\ base'.profile.tctl_c \in Int
  <2>1. base'.profile = Resolved(Chosen(f, choice).name, conf)
        /\ choice \in ProfileNames \cup {None}
    BY StepDoes DEF Handled
  <2>2. SafeProfile(base'.profile, SaverMaxFreq)
    BY <2>1, ChosenTyped
  <2>3. QED
    BY <2>2 DEF SafeProfile, Within
<1>4. (r.profile = None /\ r.samples = 0) \/ Good(thermalFile, r)
  <2>1. Good(thermalFile, FreshRecord(base'.profile))
    <3> DEFINE fresh == FreshRecord(base'.profile)
    <3>1. fresh \in Building /\ fresh.samples = 0 /\ fresh.over = 0
          /\ fresh.pending = WriteSamples
      BY <1>2, <1>3 DEF FreshRecord, Building
    <3>2. ~(fresh.samples > 0) /\ fresh.over <= fresh.samples
          /\ fresh.samples <= MaxSamples /\ fresh.pending >= WriteSamples
      BY <1>2, <3>1
    <3> HIDE DEF fresh, OnDisk
    <3>3. QED
      BY <3>1, <3>2 DEF fresh
  <2>2. r = thermal \/ r = FreshRecord(base'.profile)
    BY DEF RecordFor
  <2>3. (thermal.profile = None /\ thermal.samples = 0) \/ Good(thermalFile, thermal)
    BY DEF RecordKept, CleanStart, NoRecord, Up
  <2> HIDE DEF Good, r
  <2>4. QED
    BY <2>1, <2>2, <2>3
<1> HIDE DEF r, temp
<1>5. SUFFICES (thermal'.profile = None /\ thermal'.samples = 0) \/ Good(thermalFile', thermal')
  BY DEF RecordKept
<1>6. CASE SampleIgnored(r, temp)
  BY <1>1, <1>4, <1>6 DEF TrackThermal, Sampled
<1>7. CASE ~SampleIgnored(r, temp)
  <2> DEFINE counted == Counted(r, temp)
  <2>1. Good(thermalFile, r) /\ temp \in Int
    BY <1>1, <1>4, <1>7 DEF SampleIgnored
  <2>2. /\ counted = [profile |-> r.profile, target |-> r.target,
                      peak |-> IF temp > r.peak THEN temp ELSE r.peak,
                      samples |-> AtMost(r.samples + 1, MaxSamples),
                      over |-> IF r.target > 0 /\ temp > r.target
                                 THEN AtMost(r.over + 1, MaxSamples) ELSE r.over,
                      pending |-> r.pending + 1]
    BY <2>1, CountedRecord
  <2>3. /\ counted \in Building
        /\ counted.over <= counted.samples /\ counted.samples <= MaxSamples
        /\ counted.samples > 0 /\ counted.samples <= r.samples + 1
    BY <1>2, <2>1, <2>2 DEF Building, AtMost
  <2>4. /\ counted.profile = r.profile /\ counted.target = r.target
        /\ counted.pending = r.pending + 1
        /\ temp <= r.peak => counted.peak = r.peak
    BY <2>1, <2>2 DEF Building
  <2> HIDE DEF counted
  <2>5. CASE RecordDue(r, temp)
    <3>1. thermal' = [counted EXCEPT !.pending = 0] /\ thermalFile' = RecordFile(thermal')
      BY <1>1, <1>7, <2>5 DEF TrackThermal, Sampled, counted
    <3>2. thermal' = [profile |-> counted.profile, target |-> counted.target,
                      peak |-> counted.peak, samples |-> counted.samples,
                      over |-> counted.over, pending |-> 0]
      BY <2>3, <3>1 DEF Building
    <3>3. QED
      BY <1>2, <2>3, <3>1, <3>2 DEF RecordFile, Building, Records
  <2>6. CASE ~RecordDue(r, temp)
    <3>1. thermal' = counted /\ thermalFile' = thermalFile
      BY <1>1, <1>7, <2>6 DEF TrackThermal, Sampled, counted
    <3>2. r.pending + 1 < WriteSamples /\ temp <= r.peak
      BY <1>2, <2>1, <2>6 DEF RecordDue, Building
    <3>3. r.samples > 0
      BY <1>2, <2>1, <3>2 DEF Building
    <3>4. QED
      BY <2>1, <2>3, <2>4, <3>1, <3>2, <3>3 DEF Building, Records
  <2>7. QED
    BY <2>5, <2>6
<1>8. QED
  BY <1>6, <1>7

-----------------------------------------------------------------------------
(* Every step keeps them *)

LEMMA InitKept == Init => Kept
<1> SUFFICES ASSUME Init PROVE Kept
  OBVIOUS
<1>1. phase = "stopped" /\ ~Up /\ overlayFile = None /\ current = None
  BY DEF Init, Up
<1>2. hw.driver = "active" /\ hw.control = BootControl /\ hw.aspm = BootAspm
      /\ pmFile = [d \in Devices |-> None] /\ aspmFile = None
  BY DEF Init
<1>3. BootKept
  BY <1>2 DEF BootKept, DeviceBack, AspmBack
<1>4. QED
  BY <1>1, <1>2, <1>3 DEF Kept, HardwareIsTarget, TargetKept, Unspoilt, OverlayTellsTruth,
                          CleanStart, RecordKept

LEMMA TakenKept ==
  ASSUME Inv, Kept, Up \/ phase = "starting",
         NEW f, NEW sample, NEW choice, NEW conf, NEW t, NEW refused,
         Taken(f, sample, choice, conf, t, refused)
  PROVE  Kept'
<1>1. Handled(f, sample, choice, conf, t, refused) /\ (Fresh(t) \/ Up) /\ TypeOK
      /\ MachineTyped
  BY DEF Taken, Inv, Linked
<1>2. /\ HardwareIsTarget /\ TargetKept /\ Unspoilt
      /\ OverlayTellsTruth /\ CleanStart /\ RecordKept
  BY DEF Kept
<1>3. TargetKept' /\ Unspoilt' /\ HardwareIsTarget'
  BY <1>1, <1>2, StepIsTarget
<1>4. OverlayTellsTruth'
  BY <1>1, <1>2, <1>3, StepOverlay
<1>5. RecordKept'
  BY <1>1, <1>2, StepRecord
<1>6. CleanStart'
  BY <1>1 DEF Handled, CleanStart
<1>7. QED
  BY <1>3, <1>4, <1>5, <1>6 DEF Kept

LEMMA StartKept == Kept /\ Start => Kept'
<1> SUFFICES ASSUME Kept, Start PROVE Kept'
  OBVIOUS
<1>1. phase' = "starting" /\ ~Up' /\ overlayFile' = None /\ stage' = "none"
      /\ thermal' = NoRecord /\ UNCHANGED <<hw, pmFile, aspmFile, faults>>
  BY DEF Start, Forget, Up
<1>2. Unspoilt'
  BY <1>1 DEF Kept, Unspoilt, BootKept, DeviceBack, AspmBack
<1>3. QED
  BY <1>1, <1>2 DEF Kept, HardwareIsTarget, TargetKept, OverlayTellsTruth, CleanStart,
                    RecordKept

\* A clean stop writes the base profile over the overlay, and takes its file away.
LEMMA StopKept ==
  ASSUME Inv, Kept, NEW refused \in Refusals, Stop(refused)
  PROVE  Kept'
<1> DEFINE target == TargetFor(base.profile, "none", Overlay)
<1>1. /\ phase = "up" /\ Up /\ phase' = "stopped" /\ ~Up'
      /\ hw' = Hardware(timers, target, refused) /\ Recorded(timers, target, refused)
      /\ Refuse(refused)
      /\ overlayFile' = IF OverlayDue(base, "none") THEN None ELSE overlayFile
      /\ \/ current' = current
         \/ current' = Report(base.profile, base.source, target,
                              NextStatus(timers, target, refused))
  BY DEF Stop, Up
<1>2. /\ TypeOK /\ CurrentTellsTruth /\ MachineTyped
      /\ SafeProfile(base.profile, SaverMaxFreq)
      /\ HardwareIsTarget /\ Unspoilt /\ OverlayTellsTruth
  BY <1>1 DEF Inv, Linked, Kept
<1>3. overlayFile' = None
  BY <1>1, <1>2 DEF OverlayDue, OverlayReport, OverlayTellsTruth
<1>4. current'.profile = base.profile
  BY <1>1, <1>2 DEF CurrentTellsTruth, Report
<1>5. /\ target.cpu = CpuPolicy(base.profile, "none", Overlay)
      /\ target.power = PowerLimits(base.profile, "none", Overlay)
      /\ target.aspm \in PcieAspmPolicies
  BY <1>2 DEF TargetFor, SafeProfile
<1> HIDE DEF target
<1>6. ASSUME faults' = 0
      PROVE  /\ hw'.driver = "active" /\ BootKept'
             /\ \A part \in Cpus : hw'.cpu[part] = target.cpu
             /\ HasRyzenAdj => hw'.power = target.power
  <2>1. faults = 0 /\ refused = {}
    BY <1>1, <1>2, <1>6, RefusalCounts DEF TypeOK
  <2>2. hw.driver = "active" /\ BootKept /\ Settled
    BY <1>1, <1>2, <2>1 DEF Unspoilt, HardwareIsTarget
  <2>3. hw' = Hardware(timers, target, {}) /\ Recorded(timers, target, {})
    BY <1>1, <2>1
  <2>4. hw'.driver = "active" /\ \A part \in Cpus : hw'.cpu[part] = target.cpu
    BY <2>2, <2>3, CpuSettles DEF Settled, CpuHolds
  <2>5. HasRyzenAdj => hw'.power = target.power
    BY <2>2, <2>3, LimitsSettle DEF Settled, LimitsHold
  <2>6. (\A d \in Devices : DeviceBack(d)' = DeviceBack(d)) /\ AspmBack' = AspmBack
    BY <1>2, <1>5, <2>3, BackKept
  <2>7. BootKept'
    BY <2>2, <2>6 DEF BootKept
  <2>8. QED
    BY <2>4, <2>5, <2>7
<1>7. Unspoilt'
  BY <1>6 DEF Unspoilt
<1>8. OverlayTellsTruth'
  BY <1>1, <1>3, <1>4, <1>5, <1>6 DEF OverlayTellsTruth
<1>9. QED
  BY <1>1, <1>7, <1>8 DEF Kept, HardwareIsTarget, TargetKept, CleanStart, RecordKept

LEMMA CrashKept == Inv /\ Kept /\ Crash => Kept'
<1> SUFFICES ASSUME Inv, Kept, Crash PROVE Kept'
  OBVIOUS
<1>1. phase' = "crashed" /\ ~Up' /\ hw' = hw /\ faults' = faults + 1
  BY DEF Crash, Up
<1>2. faults \in Nat
  BY EngineAssumption DEF Inv, TypeOK
<1>3. QED
  BY <1>1, <1>2 DEF Kept, HardwareIsTarget, TargetKept, Unspoilt, OverlayTellsTruth,
                    CleanStart, RecordKept

LEMMA DisturbKept ==
  ASSUME Inv, Kept, NEW part \in Disturbances, Disturb(part)
  PROVE  Kept'
<1>1. UNCHANGED <<phase, config, idle, facts, base, applied, stage, thermal, stock>>
      /\ UNCHANGED <<current, overlayFile, thermalFile>>
      /\ faults' = faults + 1
  BY DEF Disturb, memory, files
<1>2. faults' # 0
  <2>1. faults \in Nat
    BY EngineAssumption DEF Inv, TypeOK
  <2>2. QED
    BY <1>1, <2>1
<1>3. OverlayTellsTruth'
  BY <1>1, <1>2 DEF Kept, OverlayTellsTruth, OverlayReport, Up
<1>4. TargetKept' /\ CleanStart'
  BY <1>1 DEF Kept, TargetKept, CleanStart, Target, BatteryCap, Resolved, Up
<1>5. RecordKept'
  BY <1>1 DEF Kept, RecordKept, Up
<1>6. QED
  BY <1>2, <1>3, <1>4, <1>5 DEF Kept, HardwareIsTarget, Unspoilt

LEMMA StutterKept == Kept /\ UNCHANGED vars => Kept'
<1> SUFFICES ASSUME Kept, UNCHANGED vars PROVE Kept'
  OBVIOUS
<1>1. UNCHANGED <<phase, config, idle, facts, base, applied, stage, thermal, stock>>
      /\ UNCHANGED <<current, overlayFile, thermalFile, pmFile, aspmFile, hw, faults>>
  BY DEF vars, memory, files
<1>2. BootKept' = BootKept /\ Settled' = Settled
  BY <1>1 DEF BootKept, DeviceBack, AspmBack, Settled, CpuHolds, LimitsHold, VrmHolds,
              DeviceHolds, AspmHolds
<1>3. HardwareIsTarget' /\ Unspoilt'
  BY <1>1, <1>2 DEF Kept, HardwareIsTarget, Unspoilt, Target, BatteryCap, Resolved, Up
<1>4. TargetKept' /\ CleanStart' /\ OverlayTellsTruth' /\ RecordKept'
  BY <1>1 DEF Kept, TargetKept, CleanStart, OverlayTellsTruth, OverlayReport, RecordKept,
              Target, BatteryCap, Resolved, Up
<1>5. QED
  BY <1>3, <1>4 DEF Kept

LEMMA NextKept == Inv /\ Kept /\ [Next]_vars => Kept'
<1> SUFFICES ASSUME Inv, Kept, [Next]_vars PROVE Kept'
  OBVIOUS
<1>1. CASE Start
  BY <1>1, StartKept
<1>2. ASSUME NEW power \in PowerFacts, NEW game \in Games, NEW sample \in CpuSamples,
             NEW temp \in Temperatures, NEW refused \in Refusals,
             FirstStep(TickFacts(power, game, temp), sample, refused)
      PROVE  Kept'
  <2>1. phase = "starting"
    BY <1>2 DEF FirstStep
  <2>2. QED
    BY <1>2, <2>1, FirstStepTaken, TakenKept
<1>3. ASSUME NEW power \in PowerFacts, NEW game \in Games, NEW sample \in CpuSamples,
             NEW temp \in Temperatures, NEW slept \in Sleeps, NEW conf \in Configs,
             NEW refused \in Refusals,
             Tick(TickFacts(power, game, temp), sample, slept, conf, refused)
      PROVE  Kept'
  <2>1. PICK t : Taken(TickFacts(power, game, temp), sample, manual, conf, t, refused)
    BY <1>3, TickTakesStep
  <2>2. Up
    BY <1>3 DEF Tick, Up
  <2>3. QED
    BY <2>1, <2>2, TakenKept
<1>4. ASSUME NEW choice \in ManualChoices \cup {None}, NEW power \in PowerFacts,
             NEW refused \in Refusals, Choose(choice, power, refused)
      PROVE  Kept'
  <2>1. Up
    BY <1>4 DEF Choose, Up
  <2>2. QED
    BY <1>4, <2>1, ChooseTaken, TakenKept
<1>5. ASSUME NEW power \in PowerFacts, NEW refused \in Refusals,
             HandleReassert(power, refused)
      PROVE  Kept'
  <2>1. Up
    BY <1>5 DEF HandleReassert, Up
  <2>2. QED
    BY <1>5, <2>1, HandleReassertTaken, TakenKept
<1>6. ASSUME NEW refused \in Refusals, Stop(refused)
      PROVE  Kept'
  BY <1>6, StopKept
<1>7. CASE Crash
  BY <1>7, CrashKept
<1>8. ASSUME NEW part \in Disturbances, Disturb(part)
      PROVE  Kept'
  BY <1>8, DisturbKept
<1>9. CASE UNCHANGED vars
  BY <1>9, StutterKept
<1>10. QED
  BY <1>1, <1>2, <1>3, <1>4, <1>5, <1>6, <1>7, <1>8, <1>9 DEF Next, AnyTick

LEMMA Keeps == Spec => []Kept
BY Invariant, InitKept, NextKept, PTL DEF Spec

-----------------------------------------------------------------------------
(* The theorems about the machine, the overlay and the record *)

\* While nothing was refused, disturbed or killed, the machine holds exactly the target
\* of the facts, though only the differences are written, and what was there at boot can
\* be put back. (Engine._reconcile)
THEOREM Machine == Spec => []HardwareIsTarget
<1>1. Kept => HardwareIsTarget
  BY DEF Kept
<1>2. QED
  BY Keeps, <1>1, PTL

\* The overlay file is there exactly while an overlay is in force and names what it
\* set; a clean stop leaves neither the file nor its caps and limits.
\* (Engine._write_idle, leave_idle)
THEOREM OverlayFile == Spec => []OverlayTellsTruth
<1>1. Kept => OverlayTellsTruth
  BY DEF Kept
<1>2. QED
  BY Keeps, <1>1, PTL

\* The record on disk has the peak in memory and lacks at most the samples of one write
\* interval. (ThermalTracker.sample)
THEOREM Record == Spec => []RecordOnDisk
<1>1. Kept => RecordOnDisk
  <2> SUFFICES ASSUME RecordKept, Up, thermal.samples > 0
               PROVE  RecordOnDisk
    BY DEF Kept, RecordOnDisk
  <2>1. ~(thermal.profile = None /\ thermal.samples = 0)
    OBVIOUS
  <2>2. thermalFile # None
    BY <2>1, NoneIsNoRecord DEF RecordKept
  <2>3. QED
    BY <2>1, <2>2 DEF RecordKept, RecordOnDisk
<1>2. QED
  BY Keeps, <1>1, PTL

-----------------------------------------------------------------------------
(* What a step may do to the overlay *)

\* One sample, or none, takes the detector no further than to the next stage.
LEMMA NextIdleByTicks ==
  ASSUME IdleTypeOK, NEW sample \in Samples \cup {None}, NEW name
  PROVE  LET next == NextIdle(sample, name)
         IN  /\ idle.stage = "none" => next.stage # "deep"
             /\ next.stage # idle.stage /\ next.stage # "none" =>
                  next.quiet > 0 /\ name # "gaming"
             /\ sample = None => next \in {idle, IdleReset}
<1> USE IdleAssumption DEF IdleTypeOK, NextIdle, IdleReset, Samples
<1>1. CASE sample = None
  BY <1>1
<1>2. CASE sample # None /\ ~(name # "gaming" /\ IdleEnabled)
  BY <1>2 DEF IdleUpdate
<1>3. CASE sample # None /\ name # "gaming" /\ IdleEnabled /\ idle.stage = "none"
  BY <1>3 DEF IdleUpdate, UpdateAwake, AtMost
<1>4. CASE sample # None /\ name # "gaming" /\ IdleEnabled /\ idle.stage # "none"
  BY <1>4 DEF IdleUpdate, UpdateOverlay, AtMost
<1>5. QED
  BY <1>1, <1>2, <1>3, <1>4

Deepened ==
  Up /\ Up' =>
    /\ idle.stage = "none" => idle'.stage # "deep"
    /\ idle'.stage # idle.stage /\ idle'.stage # "none" =>
         idle'.quiet > 0 /\ base'.profile.name # "gaming"
    /\ reply' # None => idle' \in {idle, IdleReset}

LEMMA TakenDeepens ==
  ASSUME Inv, NEW f, NEW sample \in Samples \cup {None}, NEW choice, NEW conf, NEW t,
         NEW refused, Taken(f, sample, choice, conf, t, refused),
         sample = None \/ reply' = None
  PROVE  Deepened
<1> DEFINE name == Chosen(f, choice).name
<1>1. idle' = NextIdle(sample, name) /\ base'.profile = Resolved(name, conf)
      /\ choice \in ProfileNames \cup {None}
  BY StepDoes DEF Taken, Handled
<1>2. base'.profile.name = name
  BY <1>1, ChosenTyped
<1>3. IdleTypeOK
  BY DEF Inv, TypeOK
<1> HIDE DEF name
<1>4. QED
  BY <1>1, <1>2, <1>3, NextIdleByTicks DEF Deepened

LEMMA NextDeepens == Inv /\ [Next]_vars => [Deepened]_vars
<1> SUFFICES ASSUME Inv, Next PROVE Deepened
  BY DEF vars
<1>1. ASSUME NEW power \in PowerFacts, NEW game \in Games, NEW sample \in CpuSamples,
             NEW temp \in Temperatures, NEW slept \in Sleeps, NEW conf \in Configs,
             NEW refused \in Refusals,
             Tick(TickFacts(power, game, temp), sample, slept, conf, refused)
      PROVE  Deepened
  <2>1. PICK t : Taken(TickFacts(power, game, temp), sample, manual, conf, t, refused)
    BY <1>1, TickTakesStep
  <2>2. reply' = None /\ sample \in Samples
    BY <1>1, EngineAssumption DEF Tick
  <2>3. QED
    BY <2>1, <2>2, TakenDeepens
<1>2. ASSUME NEW choice \in ManualChoices \cup {None}, NEW power \in PowerFacts,
             NEW refused \in Refusals, Choose(choice, power, refused)
      PROVE  Deepened
  BY <1>2, ChooseTaken, TakenDeepens
<1>3. ASSUME NEW power \in PowerFacts, NEW refused \in Refusals,
             HandleReassert(power, refused)
      PROVE  Deepened
  BY <1>3, HandleReassertTaken, TakenDeepens
<1>4. ASSUME NEW part \in Disturbances, Disturb(part)
      PROVE  Deepened
  BY <1>4 DEF Disturb, memory, Deepened
<1>5. ~Up \/ ~Up' => Deepened
  BY DEF Deepened
<1>6. ASSUME \/ Start \/ Crash
             \/ (\E refused \in Refusals : Stop(refused))
             \/ (\E power \in PowerFacts, game \in Games, sample \in CpuSamples,
                    temp \in Temperatures, refused \in Refusals :
                   FirstStep(TickFacts(power, game, temp), sample, refused))
      PROVE  Deepened
  <2>1. ~Up \/ ~Up'
    BY <1>6 DEF Start, Crash, Stop, FirstStep, Up
  <2>2. QED
    BY <1>5, <2>1
<1>7. QED
  BY <1>1, <1>2, <1>3, <1>4, <1>6 DEF Next, AnyTick

\* A control request never deepens the overlay, a tick takes it one stage further at
\* most and only after a quiet sample, and never in gaming. (Engine.step)
THEOREM OverlayDeepens == Spec => OverlayByTicks
BY Invariant, NextDeepens, PTL DEF Spec, OverlayByTicks, Deepened

-----------------------------------------------------------------------------
(* What a step that is refused nothing may not leave behind *)

PartsFollow ==
  /\ hw.tuned = applied.tuned => hw'.tuned = applied'.tuned
  /\ hw.driver = "active" => \A part \in Cpus : CpuHolds(part) => CpuHolds(part)'
  /\ LimitsHold => LimitsHold'
  /\ VrmHolds => VrmHolds'
  /\ \A d \in Devices : DeviceHolds(d) => DeviceHolds(d)'
  /\ hw.panel = applied.devices.panel => hw'.panel = applied'.devices.panel
  /\ AspmHolds => AspmHolds'

BackStays == (\A d \in Devices : DeviceBack(d)' = DeviceBack(d)) /\ AspmBack' = AspmBack

LEMMA TakenFollows ==
  ASSUME Inv, NEW f, NEW sample, NEW choice, NEW conf, NEW t, NEW refused,
         Taken(f, sample, choice, conf, t, refused), faults' = faults
  PROVE  PartsFollow /\ BackStays
<1>1. Handled(f, sample, choice, conf, t, refused) /\ TypeOK /\ MachineTyped
  BY DEF Taken, Inv, Linked
<1>2. SafeProfile(base'.profile, SaverMaxFreq)
  BY <1>1, StepTypeOK
<1>3. refused = {}
  BY <1>1, StepDoes, RefusalCounts DEF Handled, TypeOK
<1>4. Handled(f, sample, choice, conf, t, {})
  BY <1>1, <1>3
<1>5. QED
  BY <1>1, <1>2, <1>4, StepHolds DEF PartsFollow, BackStays

LEMMA StopFollows ==
  ASSUME Inv, NEW refused \in Refusals, Stop(refused), faults' = faults
  PROVE  BackStays
<1> DEFINE target == TargetFor(base.profile, "none", Overlay)
<1>1. hw' = Hardware(timers, target, refused) /\ Recorded(timers, target, refused)
      /\ Up /\ Refuse(refused)
  BY DEF Stop, Up
<1>2. MachineTyped /\ SafeProfile(base.profile, SaverMaxFreq) /\ faults \in 0..MaxFaults
  BY <1>1 DEF Inv, Linked, TypeOK
<1>3. target.aspm \in PcieAspmPolicies
  BY <1>2 DEF TargetFor, SafeProfile
<1> HIDE DEF target
<1>4. refused = {}
  BY <1>1, <1>2, RefusalCounts
<1>5. QED
  BY <1>1, <1>2, <1>3, <1>4, BackKept DEF BackStays

Followed ==
  faults' = faults =>
       /\ Up /\ Up' =>
            /\ hw.tuned = applied.tuned => hw'.tuned = applied'.tuned
            /\ hw.driver = "active" => \A part \in Cpus : CpuHolds(part) => CpuHolds(part)'
            /\ LimitsHold => LimitsHold'
            /\ VrmHolds => VrmHolds'
            /\ \A d \in Devices : DeviceHolds(d) => DeviceHolds(d)'
            /\ hw.panel = applied.devices.panel => hw'.panel = applied'.devices.panel
            /\ AspmHolds => AspmHolds'
       /\ \A d \in Devices : DeviceBack(d)' = DeviceBack(d)
       /\ AspmBack' = AspmBack

LEMMA NextFollows == Inv /\ [Next]_vars => [Followed]_vars
<1> SUFFICES ASSUME Inv, Next, faults' = faults
             PROVE  (Up /\ Up' => PartsFollow) /\ BackStays
  BY DEF Followed, PartsFollow, BackStays, vars
<1>1. CASE Start
  BY <1>1 DEF Start, Up, BackStays, DeviceBack, AspmBack
<1>2. ASSUME NEW power \in PowerFacts, NEW game \in Games, NEW sample \in CpuSamples,
             NEW temp \in Temperatures, NEW refused \in Refusals,
             FirstStep(TickFacts(power, game, temp), sample, refused)
      PROVE  PartsFollow /\ BackStays
  BY <1>2, FirstStepTaken, TakenFollows
<1>3. ASSUME NEW power \in PowerFacts, NEW game \in Games, NEW sample \in CpuSamples,
             NEW temp \in Temperatures, NEW slept \in Sleeps, NEW conf \in Configs,
             NEW refused \in Refusals,
             Tick(TickFacts(power, game, temp), sample, slept, conf, refused)
      PROVE  PartsFollow /\ BackStays
  <2>1. PICK t : Taken(TickFacts(power, game, temp), sample, manual, conf, t, refused)
    BY <1>3, TickTakesStep
  <2>2. QED
    BY <2>1, TakenFollows
<1>4. ASSUME NEW choice \in ManualChoices \cup {None}, NEW power \in PowerFacts,
             NEW refused \in Refusals, Choose(choice, power, refused)
      PROVE  PartsFollow /\ BackStays
  BY <1>4, ChooseTaken, TakenFollows
<1>5. ASSUME NEW power \in PowerFacts, NEW refused \in Refusals,
             HandleReassert(power, refused)
      PROVE  PartsFollow /\ BackStays
  BY <1>5, HandleReassertTaken, TakenFollows
<1>6. ASSUME NEW refused \in Refusals, Stop(refused)
      PROVE  BackStays /\ ~Up'
  BY <1>6, StopFollows DEF Stop, Up
<1>7. ~Crash /\ ~(\E part \in Disturbances : Disturb(part))
  <2>1. faults \in Nat
    BY EngineAssumption DEF Inv, TypeOK
  <2>2. QED
    BY <2>1 DEF Crash, Disturb
<1>8. QED
  BY <1>1, <1>2, <1>3, <1>4, <1>5, <1>6, <1>7 DEF Next, AnyTick

\* For any devices, targets and earlier refusals, a step that is refused nothing leaves no
\* part behind that held the last target, and no step loses what "default" has to put
\* back. (Engine._reconcile, apply_pci_runtime_pm, apply_pcie_aspm)
THEOREM NothingBehind == Spec => NothingLeftBehind
<1>1. Spec => [][Followed]_vars
  BY Invariant, NextFollows, PTL DEF Spec
<1>2. QED
  BY <1>1 DEF NothingLeftBehind, Followed

-----------------------------------------------------------------------------
(* Repairs: the deadlines of a tick, and what is done when one is reached *)

\* The deadlines a tick hands to its Step: each one tick nearer, but for a reassert
\* that a resume asked for.
LEMMA TickDeadlines ==
  ASSUME TimersFit(timers), NEW slept,
         NEW t, t = IF slept THEN RequestReassert(Elapse(timers), TRUE) ELSE Elapse(timers)
  PROVE  /\ t.reassert \in {0, Sooner(timers.reassert)}
         /\ t.drift = Sooner(timers.drift)
         /\ t.driverReset = Sooner(timers.driverReset)
         /\ t.smuRetry = Sooner(timers.smuRetry)
<1>1. Elapse(timers) =
        [deadline \in {"reassert", "followup", "smuRetry", "drift", "driverReset"} |->
           Sooner(timers[deadline])]
  BY DEF Elapse, TimersFit, AllTimers
<1>2. CASE slept
  <2>1. t = [Elapse(timers) EXCEPT !.reassert = 0, !.followup = ResumeFollowup]
    BY <1>2 DEF RequestReassert
  <2>2. QED
    BY <1>1, <2>1
<1>3. CASE ~slept
  BY <1>1, <1>3
<1>4. QED
  BY <1>2, <1>3

LEMMA SoonerThan ==
  ASSUME NEW n \in Nat
  PROVE  Sooner(n) \in Nat /\ (n # 0 => Sooner(n) = n - 1) /\ (n = 0 => Sooner(n) = 0)
BY NoneAssumption DEF Sooner

\* The drift check of a Step that is refused nothing leaves the CPU policy right, unless
\* the driver is passive, or does not do its work and was reset not long ago.
LEMMA DriftRepairs ==
  ASSUME NEW t, NEW target,
         hw' = Hardware(t, target, {}), timers' = NextTimers(t, target, {})
  PROVE  /\ t.drift = 0 =>
              \/ hw.driver = "passive" \/ hw'.cpu.policy0 = target.cpu
              \/ hw.driver # "active" /\ t.driverReset # 0 /\ timers'.driverReset = t.driverReset
         /\ timers'.driverReset = t.driverReset
            \/ (hw'.driver = "active" /\ \A part \in Cpus : hw'.cpu[part] = target.cpu)
<1> DEFINE there == CpuAfterWrites(t, target, {})
<1>1. /\ hw'.cpu = CpuAfterDrift(t, there, target.cpu, {})
      /\ hw'.driver = DriverAfter(t, there, target.cpu, {})
      /\ timers'.driverReset = IF ResetTried(t, there, target.cpu, {})
                                 THEN DriverResetInterval ELSE t.driverReset
  BY DEF Hardware, NextTimers
<1> HIDE DEF there
<1>2. CASE ResetTried(t, there, target.cpu, {})
  <2>1. hw'.driver = "active"
    BY <1>1, <1>2 DEF DriverAfter
  <2>2. hw'.cpu = CpuWritten(CpuLost, target.cpu, "active", {})
    BY <1>1, <1>2, <2>1 DEF CpuAfterDrift, ResetTried
  <2>3. \A part \in Cpus : hw'.cpu[part] = target.cpu
    BY <2>2 DEF CpuWritten
  <2>4. hw'.cpu.policy0 = target.cpu
    BY <2>3 DEF Cpus
  <2>5. QED
    BY <2>1, <2>3, <2>4
<1>3. CASE ~ResetTried(t, there, target.cpu, {})
  <2>1. timers'.driverReset = t.driverReset
    BY <1>1, <1>3
  <2>2. ASSUME t.drift = 0, hw.driver # "passive", hw'.cpu.policy0 # target.cpu
        PROVE  hw.driver # "active" /\ t.driverReset # 0
    <3>1. Drifted(t, there, target.cpu)
      BY <1>1, <2>2 DEF CpuAfterDrift, Drifted
    <3>2. hw'.cpu = CpuWritten(there, target.cpu, hw.driver, {})
      BY <1>1, <1>3, <3>1 DEF CpuAfterDrift
    <3>3. hw.driver # "active"
      BY <2>2, <3>2 DEF CpuWritten, Cpus
    <3>4. QED
      BY <1>3, <2>2, <3>1, <3>2, <3>3 DEF ResetTried
  <2>3. QED
    BY <2>1, <2>2
<1>4. QED
  BY <1>2, <1>3

\* A retry of the SMU call that is not refused leaves its limits right.
LEMMA SmuRepairs ==
  ASSUME NEW t, NEW target, target = applied',
         hw' = Hardware(t, target, {}), timers' = NextTimers(t, target, {}), stock' = stock
  PROVE  \/ timers'.smuRetry = t.smuRetry /\ t.smuRetry # 0
         \/ timers'.smuRetry = None /\ LimitsHold' /\ VrmHolds'
<1>1. /\ hw'.power = PowerAfter(t, target, {}) /\ hw'.vrm = VrmAfter(t, target, {})
      /\ timers'.smuRetry = IF ~SmuDue(t, target) THEN t.smuRetry
                            ELSE IF SmuStatus({}) = "failed" THEN SmuRetry ELSE None
  BY DEF Hardware, NextTimers
<1>2. SmuStatus({}) # "failed"
  BY DEF SmuStatus
<1>3. CASE SmuDue(t, target)
  BY <1>1, <1>2, <1>3 DEF PowerAfter, VrmAfter, LimitsHold, VrmHolds
<1>4. CASE ~SmuDue(t, target)
  BY <1>1, <1>4 DEF SmuDue
<1>5. QED
  BY <1>3, <1>4

Nearer ==
  /\ \/ timers'.reassert < timers.reassert
     \/ timers'.reassert = ReassertInterval /\ (hw.driver = "active" => Settled')
  /\ \/ timers'.drift < timers.drift
     \/ /\ timers'.drift = DriftCheck
        /\ \/ hw.driver = "passive" \/ CpuHolds("policy0")'
           \/ /\ hw.driver # "active"
              /\ timers'.driverReset \in 1..(timers.driverReset - 1)
  /\ timers'.driverReset > timers.driverReset =>
       hw'.driver = "active" /\ \A part \in Cpus : CpuHolds(part)'
  /\ timers.smuRetry # None =>
       \/ timers'.smuRetry # None /\ timers'.smuRetry < timers.smuRetry
       \/ timers'.smuRetry = None /\ LimitsHold' /\ VrmHolds'

LEMMA TickRepairs ==
  ASSUME Inv, NEW power \in PowerFacts, NEW game \in Games, NEW sample \in CpuSamples,
         NEW temp \in Temperatures, NEW slept \in Sleeps, NEW conf \in Configs,
         Tick(TickFacts(power, game, temp), sample, slept, conf, {}), {} \in Refusals
  PROVE  Nearer
<1> DEFINE f == TickFacts(power, game, temp)
           t == IF slept THEN RequestReassert(Elapse(timers), TRUE) ELSE Elapse(timers)
<1>1. override = manual /\ TimersFit(timers) /\ manual \in ProfileNames \cup {None}
  BY DEF Inv, Linked, Tick, Up, TypeOK
<1>2. Handled(f, sample, manual, conf, t, {})
  BY <1>1, TickFactsTyped DEF Tick, Handled
<1>3. MachineTyped /\ SafeProfile(base'.profile, SaverMaxFreq)
  BY <1>2, StepTypeOK DEF Inv, Linked
<1>4. /\ t.reassert \in {0, Sooner(timers.reassert)}
      /\ t.drift = Sooner(timers.drift) /\ t.driverReset = Sooner(timers.driverReset)
      /\ t.smuRetry = Sooner(timers.smuRetry)
  BY <1>1, TickDeadlines
<1> HIDE DEF t, f
<1>5. /\ hw' = Hardware(t, applied', {}) /\ timers' = NextTimers(t, applied', {})
      /\ stock' = stock
  BY <1>2, StepDoes DEF Handled
<1>6. /\ timers.reassert \in 1..ReassertInterval /\ timers.drift \in 1..DriftCheck
      /\ timers.driverReset \in 0..DriverResetInterval
      /\ timers.smuRetry # None => timers.smuRetry \in 1..SmuRetry
  BY <1>2 DEF Inv, DeadlinesKept, Tick, Up
<1>7. {ReassertInterval, DriftCheck, DriverResetInterval, SmuRetry} \subseteq Nat \ {0}
  BY EngineAssumption
<1>8. \/ timers'.reassert < timers.reassert
      \/ timers'.reassert = ReassertInterval /\ (hw.driver = "active" => Settled')
  <2>1. CASE ReassertDue(t)
    <3>1. timers'.reassert = ReassertInterval
      BY <1>5, <2>1 DEF NextTimers
    <3>2. hw.driver = "active" => Settled'
      BY <1>2, <1>3, <2>1, StepSettles DEF Everything
    <3>3. QED
      BY <3>1, <3>2
  <2>2. CASE ~ReassertDue(t)
    <3>1. timers'.reassert = t.reassert /\ t.reassert # 0
      BY <1>5, <2>2 DEF NextTimers, ReassertDue
    <3>2. timers'.reassert = timers.reassert - 1
      BY <1>4, <1>6, <1>7, <3>1, SoonerThan
    <3>3. QED
      BY <1>6, <1>7, <3>2
  <2>3. QED
    BY <2>1, <2>2
<1>9. /\ t.drift = 0 =>
           \/ hw.driver = "passive" \/ CpuHolds("policy0")'
           \/ hw.driver # "active" /\ t.driverReset # 0 /\ timers'.driverReset = t.driverReset
      /\ timers'.driverReset = t.driverReset
         \/ (hw'.driver = "active" /\ \A part \in Cpus : CpuHolds(part)')
  BY <1>5, DriftRepairs DEF CpuHolds
<1>10. \/ timers'.drift < timers.drift
      \/ /\ timers'.drift = DriftCheck
         /\ \/ hw.driver = "passive" \/ CpuHolds("policy0")'
            \/ /\ hw.driver # "active"
               /\ timers'.driverReset \in 1..(timers.driverReset - 1)
  <2>1. timers'.drift = IF t.drift = 0 THEN DriftCheck ELSE t.drift
    BY <1>5 DEF NextTimers
  <2>2. timers.drift \in Nat \ {0} /\ t.drift = timers.drift - 1
    BY <1>4, <1>6, <1>7, SoonerThan
  <2>3. t.driverReset # 0 =>
          timers.driverReset \in Nat /\ t.driverReset \in 1..(timers.driverReset - 1)
    BY <1>4, <1>6, <1>7, SoonerThan
  <2>4. CASE t.drift = 0
    BY <1>9, <2>1, <2>3, <2>4
  <2>5. CASE t.drift # 0
    BY <2>1, <2>2, <2>5
  <2>6. QED
    BY <2>4, <2>5
<1>11. timers'.driverReset > timers.driverReset =>
         hw'.driver = "active" /\ \A part \in Cpus : CpuHolds(part)'
  <2>1. t.driverReset <= timers.driverReset /\ t.driverReset \in Nat
        /\ timers.driverReset \in Nat
    BY <1>4, <1>6, <1>7, SoonerThan
  <2>2. QED
    BY <1>9, <2>1
<1>12. timers.smuRetry # None =>
         \/ timers'.smuRetry # None /\ timers'.smuRetry < timers.smuRetry
         \/ timers'.smuRetry = None /\ LimitsHold' /\ VrmHolds'
  <2>1. SUFFICES ASSUME timers.smuRetry # None,
                        timers'.smuRetry = t.smuRetry, t.smuRetry # 0
                 PROVE  timers'.smuRetry # None /\ timers'.smuRetry < timers.smuRetry
    BY <1>5, SmuRepairs
  <2>2. timers.smuRetry \in Nat \ {0}
    BY <1>6, <1>7, <2>1
  <2>3. t.smuRetry \in Nat /\ t.smuRetry = timers.smuRetry - 1
    BY <1>4, <2>2, SoonerThan
  <2>4. QED
    BY <2>1, <2>2, <2>3, NoneAssumption
<1>13. QED
  BY <1>8, <1>10, <1>11, <1>12 DEF Nearer

LEMMA Answered ==
  ASSUME NEW choice \in ProfileNames \cup {None}, NEW name
  PROVE  Answer(choice, name) # None
<1> DEFINE told == choice = None \/ name = choice
<1>1. told \in BOOLEAN
  OBVIOUS
<1>2. Answer(choice, name) = [wanted |-> choice, ok |-> told]
  BY DEF Answer
<1> HIDE DEF told
<1>3. Answer(choice, name) \in [wanted : ProfileNames \cup {None}, ok : BOOLEAN]
  BY <1>1, <1>2
<1>4. QED
  BY <1>3, NoneIsNoAnswer

LEMMA NextRepairs == Inv /\ [Next]_vars => [QuietTick => Nearer]_vars
<1> SUFFICES ASSUME Inv, Next, QuietTick PROVE Nearer
  BY DEF vars
<1>1. Up /\ Up' /\ reply' = None /\ faults' = faults /\ faults \in Nat
  BY EngineAssumption DEF QuietTick, TickTaken, Inv, TypeOK
<1>2. ASSUME NEW power \in PowerFacts, NEW game \in Games, NEW sample \in CpuSamples,
             NEW temp \in Temperatures, NEW slept \in Sleeps, NEW conf \in Configs,
             NEW refused \in Refusals,
             Tick(TickFacts(power, game, temp), sample, slept, conf, refused)
      PROVE  Nearer
  <2>1. Refuse(refused) /\ faults \in 0..MaxFaults
    BY <1>2, StepDoes DEF Tick, Inv, TypeOK
  <2>2. refused = {}
    BY <1>1, <2>1, RefusalCounts
  <2>3. QED
    BY <1>2, <2>2, TickRepairs
<1>3. ~(\E choice \in ManualChoices \cup {None}, power \in PowerFacts, refused \in Refusals :
          Choose(choice, power, refused))
  <2>1. ManualChoices \cup {None} \subseteq ProfileNames \cup {None}
    BY EngineAssumption
  <2>2. QED
    BY <1>1, <2>1, Answered DEF Choose
<1>4. ~(\E power \in PowerFacts, refused \in Refusals : HandleReassert(power, refused))
  BY <1>1, Answered DEF HandleReassert
<1>5. ~(\E part \in Disturbances : Disturb(part)) /\ ~Crash
  BY <1>1 DEF Disturb, Crash
<1>6. /\ ~Start /\ ~(\E refused \in Refusals : Stop(refused))
      /\ ~(\E power \in PowerFacts, game \in Games, sample \in CpuSamples,
              temp \in Temperatures, refused \in Refusals :
             FirstStep(TickFacts(power, game, temp), sample, refused))
  BY <1>1 DEF Start, Stop, FirstStep, Up
<1>7. AnyTick
  BY <1>3, <1>4, <1>5, <1>6 DEF Next
<1>8. QED
  BY <1>2, <1>7 DEF AnyTick

\* Every tick that nothing is refused to brings the reassert, the drift check, the
\* driver's reset and the SMU retry nearer, or does what it is there for, and leaves what
\* it is for as decided; only a driver left passive is out of reach. (Engine.step)
THEOREM RepairsNear == Spec => RepairsComeNearer
<1>1. Spec => [][QuietTick => Nearer]_vars
  BY Invariant, NextRepairs, PTL DEF Spec
<1>2. QED
  BY <1>1 DEF RepairsComeNearer, Nearer
=============================================================================
