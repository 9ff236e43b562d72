------------------------------ MODULE Profiles ------------------------------
(***************************************************************************)
(* The pure decisions of elitebook_profiles.py: the built-in profiles, the *)
(* overrides of profiles.conf, which profile is in force, and the values   *)
(* the hardware should hold under it.  Nothing here has state.             *)
(*                                                                         *)
(* A parsed profiles.conf is a function from <<profile, field>> to the raw *)
(* value of that key; a key that is absent (or left empty) is outside its  *)
(* domain.  A text that does not parse as the field's type is Garbage.     *)
(***************************************************************************)
EXTENDS Integers

CONSTANTS
  None,      \* Python's None: no manual choice, unknown battery, uncapped, stock
  Garbage    \* a configuration value that is not of its field's type

ASSUME NoneAssumption == None \notin Int /\ None \notin BOOLEAN
ASSUME NoneIsNoText == None \notin STRING

-----------------------------------------------------------------------------
(* Profiles and their fields *)

ValidEpps == {"performance", "balance_performance", "balance_power", "power"}
PcieAspmPolicies == {"default", "performance", "powersave", "powersupersave"}
ProfileNames == {"ac", "performance", "battery", "battery-saver", "gaming", "cool"}

\* The parameters common to every built-in profile's constructor call.
MakeProfile(name, epp, stapm, fast, slow, apu, tctl, boost, max, vrm, tuned, pm, panel) ==
  [name |-> name, epp |-> epp, stapm_mw |-> stapm, fast_mw |-> fast, slow_mw |-> slow,
   apu_mw |-> apu, tctl_c |-> tctl, boost |-> boost, max_freq_khz |-> max,
   vrmmax_ma |-> vrm, tuned_profile |-> tuned, runtime_pm |-> pm,
   panel_power_savings |-> panel, pcie_aspm |-> "default"]

BuiltinProfiles ==
  { MakeProfile("ac", "balance_power", 22000, 30000, 18000, 18000, 90, TRUE,
                None, None, "balanced", "default", 0),
    MakeProfile("performance", "balance_performance", 22000, 30000, 18000, 18000, 90, TRUE,
                None, None, "balanced", "default", 0),
    MakeProfile("battery", "balance_power", 15000, 22000, 15000, 15000, 80, TRUE,
                None, 45000, "balanced", "auto", 1),
    MakeProfile("battery-saver", "power", 10000, 15000, 8000, 8000, 80, FALSE,
                1800000, 30000, "powersave", "auto", 3),
    MakeProfile("gaming", "balance_performance", 30000, 30000, 23000, 23000, 92, TRUE,
                None, None, "balanced", "default", 0),
    MakeProfile("cool", "power", 16000, 22000, 12000, 12000, 85, TRUE,
                None, 40000, "balanced", "default", 0) }

BuiltinProfile(name) == CHOOSE profile \in BuiltinProfiles : profile.name = name

Within(value, minimum, maximum) == value \in Int /\ minimum <= value /\ value <= maximum

\* The values the readers of _Overrides accept for each key of profiles.conf.
\* name and tuned_profile have no key.
Accepted(field, value) ==
  \/ field \in {"stapm_mw", "fast_mw", "slow_mw", "apu_mw"} /\ Within(value, 4000, 45000)
  \/ field = "tctl_c" /\ Within(value, 60, 100)
  \/ field = "vrmmax_ma" /\ Within(value, 15000, 120000)
  \/ field = "panel_power_savings" /\ Within(value, 0, 4)
  \/ field = "max_freq_khz" /\ (value = None \/ Within(value, 1000000, 5000000))
  \/ field = "epp" /\ value \in ValidEpps
  \/ field = "boost" /\ value \in BOOLEAN
  \/ field = "runtime_pm" /\ value \in {"auto", "default"}
  \/ field = "pcie_aspm" /\ value \in PcieAspmPolicies

\* What a raw value reads as: for a frequency cap, 0 is another way to say uncapped.
Read(field, value) == IF field = "max_freq_khz" /\ value = 0 THEN None ELSE value

\* Mutant: the ranges are not checked.
OverrideUnchecked(config, name, field, current) ==
  IF <<name, field>> \in DOMAIN config THEN Read(field, config[<<name, field>>]) ELSE current

\* A refused or absent key keeps the current value.
Override(config, name, field, current) ==
  IF <<name, field>> \in DOMAIN config /\ Accepted(field, Read(field, config[<<name, field>>]))
    THEN Read(field, config[<<name, field>>])
    ELSE current

ResolveProfile(name, config, saverMaxFreq) ==
  LET base == BuiltinProfile(name)
      maxFreq == IF name = "battery-saver" THEN saverMaxFreq ELSE base.max_freq_khz
      Keyed(field) == Override(config, name, field, base[field])
  IN  [name |-> base.name,
       stapm_mw |-> Keyed("stapm_mw"), fast_mw |-> Keyed("fast_mw"),
       slow_mw |-> Keyed("slow_mw"), apu_mw |-> Keyed("apu_mw"), tctl_c |-> Keyed("tctl_c"),
       epp |-> Keyed("epp"), boost |-> Keyed("boost"),
       max_freq_khz |-> Override(config, name, "max_freq_khz", maxFreq),
       vrmmax_ma |-> Keyed("vrmmax_ma"), tuned_profile |-> base.tuned_profile,
       runtime_pm |-> Keyed("runtime_pm"),
       panel_power_savings |-> Keyed("panel_power_savings"),
       pcie_aspm |-> Keyed("pcie_aspm")]

-----------------------------------------------------------------------------
(* Which profile is in force *)

LowBattery(onAc, percent, threshold) ==
  ~onAc /\ threshold > 0 /\ percent # None /\ percent <= threshold

\* Mutant: an unreadable battery names no profile.
AutoProfileUnknown(onAc, percent, threshold) ==
  IF onAc THEN "ac"
  ELSE IF percent = None THEN None
  ELSE IF LowBattery(onAc, percent, threshold) THEN "battery-saver" ELSE "battery"

AutoProfile(onAc, percent, threshold) ==
  IF onAc THEN "ac"
  ELSE IF LowBattery(onAc, percent, threshold) THEN "battery-saver" ELSE "battery"

\* Mutant: a manual choice passes the low battery guard.
ChooseBaseManualFirst(onAc, percent, threshold, manual, game) ==
  LET automatic == AutoProfile(onAc, percent, threshold)
  IN  IF manual # None THEN [name |-> manual, source |-> "manual"]
      ELSE IF game /\ automatic # "battery-saver" THEN [name |-> "gaming", source |-> "game"]
      ELSE [name |-> automatic, source |-> "auto"]

\* The low battery guard, a manual choice, a running game, AC or battery.
ChooseBase(onAc, percent, threshold, manual, game) ==
  LET automatic == AutoProfile(onAc, percent, threshold)
  IN  IF automatic = "battery-saver" THEN [name |-> automatic, source |-> "auto"]
      ELSE IF manual # None THEN [name |-> manual, source |-> "manual"]
      ELSE IF game THEN [name |-> "gaming", source |-> "game"]
      ELSE [name |-> automatic, source |-> "auto"]

-----------------------------------------------------------------------------
(* What the hardware should hold *)

IdleStages == {"none", "soft", "deep"}

\* The defaults of IdleSettings that decide what an idle stage asks for.
DefaultOverlay ==
  [soft_epp |-> "balance_power", soft_disable_boost |-> FALSE, soft_max_freq_khz |-> None,
   deep_epp |-> "power", deep_disable_boost |-> FALSE, deep_max_freq_khz |-> 1800000,
   deep_apply_smu |-> TRUE, deep_stapm_mw |-> 10000, deep_fast_mw |-> 12000,
   deep_slow_mw |-> 6000, deep_apu_mw |-> 6000, deep_tctl_c |-> 75]

Lesser(a, b) == IF a <= b THEN a ELSE b

\* Mutant: the overlay's cap stands.
LowerCapOverlay(a, b) == IF b = None THEN a ELSE b

LowerCap(a, b) ==
  IF a = None THEN b ELSE IF b = None THEN a ELSE Lesser(a, b)

CpuPolicy(profile, stage, overlay) ==
  LET Lowered(epp, noBoost, cap) ==
        [epp |-> epp, boost |-> profile.boost /\ ~noBoost,
         max_freq_khz |-> LowerCap(profile.max_freq_khz, cap)]
  IN  IF stage = "soft"
        THEN Lowered(overlay.soft_epp, overlay.soft_disable_boost, overlay.soft_max_freq_khz)
      ELSE IF stage = "deep"
        THEN Lowered(overlay.deep_epp, overlay.deep_disable_boost, overlay.deep_max_freq_khz)
      ELSE [epp |-> profile.epp, boost |-> profile.boost,
            max_freq_khz |-> profile.max_freq_khz]

PowerLimits(profile, stage, overlay) ==
  IF stage = "deep" /\ overlay.deep_apply_smu
    THEN [stapm_mw |-> Lesser(profile.stapm_mw, overlay.deep_stapm_mw),
          fast_mw  |-> Lesser(profile.fast_mw, overlay.deep_fast_mw),
          slow_mw  |-> Lesser(profile.slow_mw, overlay.deep_slow_mw),
          apu_mw   |-> Lesser(profile.apu_mw, overlay.deep_apu_mw),
          tctl_c   |-> Lesser(profile.tctl_c, overlay.deep_tctl_c)]
    ELSE [stapm_mw |-> profile.stapm_mw, fast_mw |-> profile.fast_mw,
          slow_mw |-> profile.slow_mw, apu_mw |-> profile.apu_mw,
          tctl_c |-> profile.tctl_c]

\* The SMU part of a target: the power limits of one RyzenAdj call and, beside
\* them, the VRM peak current limit, which RyzenAdj leaves alone when not given.
TargetFor(profile, stage, overlay) ==
  [cpu |-> CpuPolicy(profile, stage, overlay),
   power |-> PowerLimits(profile, stage, overlay),
   vrmmax_ma |-> profile.vrmmax_ma,
   devices |-> [runtime_pm |-> profile.runtime_pm, panel |-> profile.panel_power_savings],
   tuned |-> profile.tuned_profile,
   aspm |-> profile.pcie_aspm]

\* Mutant: only a profile without a limit of its own is capped.
CapBatteryCurrentUnset(target, cap) ==
  IF target.vrmmax_ma # None THEN target ELSE [target EXCEPT !.vrmmax_ma = cap]

\* Mutant: only a limit above the cap is lowered, and a stock one is left alone.
CapBatteryCurrentSet(target, cap) ==
  IF target.vrmmax_ma = None \/ target.vrmmax_ma <= cap THEN target
  ELSE [target EXCEPT !.vrmmax_ma = cap]

CapBatteryCurrent(target, cap) ==
  IF cap = None \/ (target.vrmmax_ma # None /\ target.vrmmax_ma <= cap)
    THEN target
    ELSE [target EXCEPT !.vrmmax_ma = cap]
=============================================================================
