------------------------------ MODULE Decisions ------------------------------
(***************************************************************************)
(* What elitebook_profiles.py decides, over every input it may be asked:   *)
(* any facts, manual choice, idle stage, overlay settings and profiles.conf *)
(* may follow any other, so a behaviour walks through all of them.         *)
(***************************************************************************)
EXTENDS Profiles

CONSTANTS
  Configs,       \* parsed contents of profiles.conf
  Overlays,      \* IdleSettings
  Percents,      \* battery percentages, or None
  Thresholds,    \* low battery thresholds
  Manuals,       \* manual choices, or None
  SaverMaxFreq   \* ELITEBOOK_BATTERY_SAVER_MAX_FREQ_KHZ

ASSUME DecisionsAssumption ==
  /\ Percents \subseteq (0..100) \cup {None}
  /\ Thresholds \subseteq Nat
  /\ Manuals \subseteq ProfileNames \cup {None}
  /\ SaverMaxFreq \in Nat
  /\ \A o \in Overlays :
       o \in [soft_epp : ValidEpps, soft_disable_boost : BOOLEAN,
              soft_max_freq_khz : Nat \cup {None}, deep_epp : ValidEpps,
              deep_disable_boost : BOOLEAN, deep_max_freq_khz : Nat \cup {None},
              deep_apply_smu : BOOLEAN, deep_stapm_mw : Nat, deep_fast_mw : Nat,
              deep_slow_mw : Nat, deep_apu_mw : Nat, deep_tctl_c : Nat]

VARIABLES onAc, percent, threshold, manual, game, stage, config, overlay

vars == <<onAc, percent, threshold, manual, game, stage, config, overlay>>

Init ==
  /\ onAc \in BOOLEAN
  /\ percent \in Percents
  /\ threshold \in Thresholds
  /\ manual \in Manuals
  /\ game \in BOOLEAN
  /\ stage \in IdleStages
  /\ config \in Configs
  /\ overlay \in Overlays

\* The facts and the overlay are read afresh for every decision.
NewFacts ==
  /\ onAc' \in BOOLEAN
  /\ percent' \in Percents
  /\ UNCHANGED <<threshold, manual, game, stage, config, overlay>>

NewChoice ==
  /\ manual' \in Manuals
  /\ game' \in BOOLEAN
  /\ UNCHANGED <<onAc, percent, threshold, stage, config, overlay>>

NewSettings ==
  /\ stage' \in IdleStages
  /\ config' \in Configs
  /\ UNCHANGED <<onAc, percent, threshold, manual, game, overlay>>

Next == NewFacts \/ NewChoice \/ NewSettings

Spec == Init /\ [][Next]_vars

-----------------------------------------------------------------------------
(* What the decisions come to *)

Base == ChooseBase(onAc, percent, threshold, manual, game)

InForce == ResolveProfile(Base.name, config, SaverMaxFreq)

BatteryCap == ResolveProfile("battery", config, SaverMaxFreq).vrmmax_ma

Asked ==
  LET target == TargetFor(InForce, stage, overlay)
  IN  IF onAc THEN target ELSE CapBatteryCurrent(target, BatteryCap)

InputsOK ==
  /\ onAc \in BOOLEAN /\ game \in BOOLEAN
  /\ percent \in Percents /\ threshold \in Thresholds /\ manual \in Manuals
  /\ stage \in IdleStages /\ config \in Configs /\ overlay \in Overlays

\* Every decision names a profile there is and a way it was chosen, whatever the
\* power supply answers. (choose_base)
TypeOK ==
  /\ InputsOK
  /\ Base \in [name : ProfileNames, source : {"auto", "manual", "game"}]

\* No content of profiles.conf, however mistyped, asks the SMU for a limit outside
\* the safe ranges: a refused key leaves the built-in value. (_Overrides)
OverridesStaySafe ==
  /\ Within(InForce.stapm_mw, 4000, 45000) /\ Within(InForce.fast_mw, 4000, 45000)
  /\ Within(InForce.slow_mw, 4000, 45000) /\ Within(InForce.apu_mw, 4000, 45000)
  /\ Within(InForce.tctl_c, 60, 100)
  /\ InForce.vrmmax_ma = None \/ Within(InForce.vrmmax_ma, 15000, 120000)
  /\ Within(InForce.panel_power_savings, 0, 4)
  /\ InForce.epp \in ValidEpps /\ InForce.boost \in BOOLEAN
  /\ \/ InForce.max_freq_khz \in {None, SaverMaxFreq}
     \/ Within(InForce.max_freq_khz, 1000000, 5000000)

\* An idle stage, whatever its settings ask for, never lifts a power limit, the
\* temperature target, the frequency cap or the boost switch above the profile.
\* (target_for; IdleSettings: "Neither stage ever raises a value above the base
\* profile's")
IdleNeverRaises ==
  /\ \A limit \in {"stapm_mw", "fast_mw", "slow_mw", "apu_mw", "tctl_c"} :
       Asked.power[limit] <= InForce[limit]
  /\ Asked.cpu.boost => InForce.boost
  /\ InForce.max_freq_khz # None =>
       Asked.cpu.max_freq_khz # None /\ Asked.cpu.max_freq_khz <= InForce.max_freq_khz

\* On battery the VRM current limit is a number at most that of the battery profile
\* as configured, whatever profile is in force and whatever it says of its own
\* limit, and a stricter limit of the profile stands. (cap_battery_current)
BatteryCurrentCapped ==
  ~onAc =>
    /\ Asked.vrmmax_ma # None
    /\ Asked.vrmmax_ma <= BatteryCap
    /\ InForce.vrmmax_ma # None => Asked.vrmmax_ma <= InForce.vrmmax_ma

\* Who may name the profile, strongest first: the low battery guard, a manual
\* choice, a running game, the power source. (choose_base)
Claims ==
  (IF ~onAc /\ percent # None /\ percent <= threshold /\ threshold # 0
     THEN {<<1, "battery-saver", "auto">>} ELSE {})
  \cup (IF manual # None THEN {<<2, manual, "manual">>} ELSE {})
  \cup (IF game THEN {<<3, "gaming", "game">>} ELSE {})
  \cup {<<4, IF onAc THEN "ac" ELSE "battery", "auto">>}

StrongestClaimWins ==
  \E claim \in Claims :
    /\ \A other \in Claims : claim[1] <= other[1]
    /\ Base = [name |-> claim[2], source |-> claim[3]]

\* The energy performance preferences, from the most eager down.
Eagerness(epp) ==
  CASE epp = "performance" -> 4 [] epp = "balance_performance" -> 3
    [] epp = "balance_power" -> 2 [] epp = "power" -> 1

\* elitebook_profiles.py:404, of IdleSettings: "Neither stage ever raises a value
\* above the base profile's."  The CPU's energy preference is such a value.
IdleNeverRaisesEpp == Eagerness(Asked.cpu.epp) <= Eagerness(InForce.epp)
=============================================================================
