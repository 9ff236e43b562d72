--------------------------- MODULE ProfilesProofs ---------------------------
(***************************************************************************)
(* Facts about the decisions of Profiles, for every configuration, every   *)
(* fact and every overlay.                                                 *)
(***************************************************************************)
EXTENDS Profiles, TLAPS

\* A profile whose values are all ones the machine may be asked for, but that its
\* frequency cap may also be maxFreq.
SafeProfile(p, maxFreq) ==
  /\ p.name \in ProfileNames /\ p.epp \in ValidEpps /\ p.boost \in BOOLEAN
  /\ Within(p.stapm_mw, 4000, 45000) /\ Within(p.fast_mw, 4000, 45000)
  /\ Within(p.slow_mw, 4000, 45000) /\ Within(p.apu_mw, 4000, 45000)
  /\ Within(p.tctl_c, 60, 100)
  /\ p.max_freq_khz \in {None, maxFreq} \/ Within(p.max_freq_khz, 1000000, 5000000)
  /\ p.vrmmax_ma = None \/ Within(p.vrmmax_ma, 15000, 120000)
  /\ Within(p.panel_power_savings, 0, 4) /\ p.pcie_aspm \in PcieAspmPolicies

\* A key of profiles.conf changes nothing or sets a value its reader accepts.
LEMMA OverrideAccepted ==
  ASSUME NEW config, NEW name, NEW field, NEW current
  PROVE  \/ Override(config, name, field, current) = current
         \/ Accepted(field, Override(config, name, field, current))
BY DEF Override

LEMMA BuiltinSafe ==
  ASSUME NEW name \in ProfileNames
  PROVE  SafeProfile(BuiltinProfile(name), None) /\ BuiltinProfile(name).name = name
<1>1. \E profile \in BuiltinProfiles : profile.name = name
  BY SMT DEF BuiltinProfiles, MakeProfile, ProfileNames
<1>2. ASSUME NEW profile \in BuiltinProfiles
      PROVE  SafeProfile(profile, None)
  <2> USE DEF MakeProfile, SafeProfile, Within, ProfileNames, ValidEpps, PcieAspmPolicies
  <2>1. CASE profile = MakeProfile("ac", "balance_power", 22000, 30000, 18000, 18000, 90, TRUE,
                                    None, None, "balanced", "default", 0)
    BY SMT, <2>1
  <2>2. CASE profile = MakeProfile("performance", "balance_performance", 22000, 30000, 18000, 18000, 90, TRUE,
                                    None, None, "balanced", "default", 0)
    BY SMT, <2>2
  <2>3. CASE profile = MakeProfile("battery", "balance_power", 15000, 22000, 15000, 15000, 80, TRUE,
                                    None, 45000, "balanced", "auto", 1)
    BY SMT, <2>3
  <2>4. CASE profile = MakeProfile("battery-saver", "power", 10000, 15000, 8000, 8000, 80, FALSE,
                                    1800000, 30000, "powersave", "auto", 3)
    BY SMT, <2>4
  <2>5. CASE profile = MakeProfile("gaming", "balance_performance", 30000, 30000, 23000, 23000, 92, TRUE,
                                    None, None, "balanced", "default", 0)
    BY SMT, <2>5
  <2>6. CASE profile = MakeProfile("cool", "power", 16000, 22000, 12000, 12000, 85, TRUE,
                                    None, 40000, "balanced", "default", 0)
    BY SMT, <2>6
  <2>7. QED
    BY <2>1, <2>2, <2>3, <2>4, <2>5, <2>6 DEF BuiltinProfiles
<1>3. QED
  BY <1>1, <1>2 DEF BuiltinProfile

\* No content of profiles.conf moves a built-in profile out of the safe values.
LEMMA ResolvedSafe ==
  ASSUME NEW name \in ProfileNames, NEW config, NEW maxFreq
  PROVE  /\ SafeProfile(ResolveProfile(name, config, maxFreq), maxFreq)
         /\ ResolveProfile(name, config, maxFreq).name = name
<1>1. SafeProfile(BuiltinProfile(name), None) /\ BuiltinProfile(name).name = name
  BY BuiltinSafe
<1>2. QED
  BY SMT, <1>1, OverrideAccepted DEF Accepted, ResolveProfile, SafeProfile

\* The battery profile always has a VRM limit, whatever profiles.conf says of it.
LEMMA BatteryCapSet ==
  ASSUME NEW config, NEW maxFreq
  PROVE  Within(ResolveProfile("battery", config, maxFreq).vrmmax_ma, 15000, 120000)
<1>1. BuiltinProfile("battery").vrmmax_ma = 45000
  <2>1. \E profile \in BuiltinProfiles : profile.name = "battery"
    BY SMT DEF BuiltinProfiles, MakeProfile
  <2>2. ASSUME NEW profile \in BuiltinProfiles, profile.name = "battery"
        PROVE  profile.vrmmax_ma = 45000
    BY SMT, <2>2 DEF BuiltinProfiles, MakeProfile
  <2>3. QED
    BY <2>1, <2>2 DEF BuiltinProfile
<1>2. QED
  BY SMT, <1>1, OverrideAccepted DEF Accepted, ResolveProfile, Within

-----------------------------------------------------------------------------
(* Overlays and the battery's current limit *)

SafeOverlays ==
  [soft_epp : ValidEpps, soft_disable_boost : BOOLEAN, soft_max_freq_khz : Nat \cup {None},
   deep_epp : ValidEpps, deep_disable_boost : BOOLEAN, deep_max_freq_khz : Nat \cup {None},
   deep_apply_smu : BOOLEAN, deep_stapm_mw : Nat, deep_fast_mw : Nat, deep_slow_mw : Nat,
   deep_apu_mw : Nat, deep_tctl_c : Nat]

\* The lower of two caps, where None is no cap, is neither above the first nor lost.
LEMMA LowerCapLowers ==
  ASSUME NEW a \in Nat \cup {None}, NEW b \in Nat \cup {None}
  PROVE  /\ LowerCap(a, b) \in Nat \cup {None}
         /\ a # None => LowerCap(a, b) # None /\ LowerCap(a, b) <= a
BY NoneAssumption DEF LowerCap, Lesser

\* An overlay never asks for more power, heat, speed or boost than the profile.
LEMMA OverlayLowers ==
  ASSUME NEW profile, NEW maxFreq \in Nat, SafeProfile(profile, maxFreq),
         NEW stage \in IdleStages, NEW overlay \in SafeOverlays
  PROVE  LET target == TargetFor(profile, stage, overlay)
         IN  /\ target.power.stapm_mw <= profile.stapm_mw
             /\ target.power.fast_mw <= profile.fast_mw
             /\ target.power.slow_mw <= profile.slow_mw
             /\ target.power.apu_mw <= profile.apu_mw
             /\ target.power.tctl_c <= profile.tctl_c
             /\ target.cpu.boost => profile.boost
             /\ profile.max_freq_khz # None =>
                  /\ target.cpu.max_freq_khz # None
                  /\ target.cpu.max_freq_khz <= profile.max_freq_khz
<1> DEFINE power == PowerLimits(profile, stage, overlay)
           cpu == CpuPolicy(profile, stage, overlay)
<1>1. /\ power.stapm_mw <= profile.stapm_mw /\ power.fast_mw <= profile.fast_mw
      /\ power.slow_mw <= profile.slow_mw /\ power.apu_mw <= profile.apu_mw
      /\ power.tctl_c <= profile.tctl_c
  <2>1. /\ profile.stapm_mw \in Int /\ profile.fast_mw \in Int /\ profile.slow_mw \in Int
        /\ profile.apu_mw \in Int /\ profile.tctl_c \in Int
    BY DEF SafeProfile, Within
  <2>2. /\ overlay.deep_stapm_mw \in Int /\ overlay.deep_fast_mw \in Int
        /\ overlay.deep_slow_mw \in Int /\ overlay.deep_apu_mw \in Int
        /\ overlay.deep_tctl_c \in Int
    BY SMT DEF SafeOverlays
  <2>3. \A a, b \in Int : Lesser(a, b) <= a
    BY DEF Lesser
  <2>4. CASE stage = "deep" /\ overlay.deep_apply_smu
    BY <2>1, <2>2, <2>3, <2>4 DEF PowerLimits
  <2>5. CASE ~(stage = "deep" /\ overlay.deep_apply_smu)
    BY <2>1, <2>5 DEF PowerLimits
  <2>6. QED
    BY <2>4, <2>5
<1>2. profile.max_freq_khz \in Nat \cup {None}
  <2>1. \/ profile.max_freq_khz \in {None, maxFreq}
        \/ Within(profile.max_freq_khz, 1000000, 5000000)
    BY DEF SafeProfile
  <2>2. \A freq : Within(freq, 1000000, 5000000) => freq \in Nat
    BY SMT DEF Within
  <2>3. QED
    BY <2>1, <2>2
<1>3. overlay.soft_max_freq_khz \in Nat \cup {None}
      /\ overlay.deep_max_freq_khz \in Nat \cup {None}
  BY DEF SafeOverlays
<1>4. cpu.boost => profile.boost
  <2>1. CASE stage = "soft"
    BY <2>1, Zenon DEF CpuPolicy
  <2>2. CASE stage = "deep"
    BY <2>2, Zenon DEF CpuPolicy
  <2>3. CASE stage = "none"
    BY <2>3, Zenon DEF CpuPolicy
  <2>4. QED
    BY <2>1, <2>2, <2>3 DEF IdleStages
<1>5. profile.max_freq_khz # None =>
        cpu.max_freq_khz # None /\ cpu.max_freq_khz <= profile.max_freq_khz
  <2>1. CASE stage = "soft"
    BY <1>2, <1>3, <2>1, LowerCapLowers DEF CpuPolicy
  <2>2. CASE stage = "deep"
    BY <1>2, <1>3, <2>2, LowerCapLowers DEF CpuPolicy
  <2>3. CASE stage = "none"
    BY <1>2, <2>3 DEF CpuPolicy
  <2>4. QED
    BY <2>1, <2>2, <2>3 DEF IdleStages
<1>6. TargetFor(profile, stage, overlay).power = power
      /\ TargetFor(profile, stage, overlay).cpu = cpu
  BY DEF TargetFor
<1>7. QED
  BY <1>1, <1>4, <1>5, <1>6

\* Capping lowers the VRM limit to the cap, or to a stricter one, and nothing else.
LEMMA CapHolds ==
  ASSUME NEW profile, NEW maxFreq, SafeProfile(profile, maxFreq), NEW stage, NEW overlay,
         NEW cap, Within(cap, 15000, 120000)
  PROVE  LET target == TargetFor(profile, stage, overlay)
             capped == CapBatteryCurrent(target, cap)
         IN  /\ capped.power = target.power /\ capped.cpu = target.cpu
             /\ Within(capped.vrmmax_ma, 15000, cap)
             /\ profile.vrmmax_ma # None => capped.vrmmax_ma <= profile.vrmmax_ma
BY SMT, NoneAssumption DEF CapBatteryCurrent, TargetFor, SafeProfile, Within
=============================================================================
