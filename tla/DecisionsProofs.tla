-------------------------- MODULE DecisionsProofs --------------------------
(***************************************************************************)
(* What Decisions.cfg checks for four profiles.conf, three overlays and a  *)
(* few facts holds for every profiles.conf, every overlay and every fact.  *)
(* The inductive invariant is that the inputs have their types; each       *)
(* property then follows from the lemmas of ProfilesProofs.                *)
(***************************************************************************)
EXTENDS Decisions, ProfilesProofs

LEMMA InputsTyped == Spec => []InputsOK
<1>1. Init => InputsOK
  BY DEF Init, InputsOK
<1>2. InputsOK /\ [Next]_vars => InputsOK'
  BY DEF InputsOK, Next, NewFacts, NewChoice, NewSettings, vars
<1>3. QED
  BY <1>1, <1>2, PTL DEF Spec

LEMMA BaseTyped ==
  InputsOK => Base \in [name : ProfileNames, source : {"auto", "manual", "game"}]
BY DecisionsAssumption DEF InputsOK, Base, ChooseBase, AutoProfile, ProfileNames

LEMMA InForceSafe == InputsOK => SafeProfile(InForce, SaverMaxFreq)
<1> SUFFICES ASSUME InputsOK PROVE SafeProfile(InForce, SaverMaxFreq)
  OBVIOUS
<1>1. Base.name \in ProfileNames
  BY BaseTyped
<1>2. QED
  BY <1>1, ResolvedSafe DEF InForce

LEMMA OverlaySafe == InputsOK => overlay \in SafeOverlays
BY DecisionsAssumption DEF InputsOK, SafeOverlays

\* What is asked for under a battery's cap or without one differs in the VRM limit only.
LEMMA AskedLimits ==
  ASSUME InputsOK
  PROVE  LET target == TargetFor(InForce, stage, overlay)
         IN  Asked.power = target.power /\ Asked.cpu = target.cpu
<1>1. Within(BatteryCap, 15000, 120000)
  BY BatteryCapSet DEF BatteryCap
<1>2. SafeProfile(InForce, SaverMaxFreq)
  BY InForceSafe
<1>3. QED
  BY <1>1, <1>2, CapHolds DEF Asked

\* The facts and settings a decision is made from are well typed, and so is the
\* decision. (choose_base)
THEOREM Typed == Spec => []TypeOK
<1>1. InputsOK => TypeOK
  BY BaseTyped DEF TypeOK
<1>2. QED
  BY InputsTyped, <1>1, PTL

\* No profiles.conf whatsoever moves a profile out of the safe ranges. (resolve_profile)
THEOREM Overrides == Spec => []OverridesStaySafe
<1>1. InputsOK => OverridesStaySafe
  BY InForceSafe DEF OverridesStaySafe, SafeProfile
<1>2. QED
  BY InputsTyped, <1>1, PTL

\* No overlay settings whatsoever raise a power limit, the temperature target, the
\* frequency cap or boost above the profile. (target_for)
THEOREM IdleLowers == Spec => []IdleNeverRaises
<1>1. ASSUME InputsOK PROVE IdleNeverRaises
  <2>1. /\ SafeProfile(InForce, SaverMaxFreq) /\ overlay \in SafeOverlays
        /\ stage \in IdleStages /\ SaverMaxFreq \in Nat
    BY <1>1, InForceSafe, OverlaySafe, DecisionsAssumption DEF InputsOK
  <2>2. LET target == TargetFor(InForce, stage, overlay)
        IN  Asked.power = target.power /\ Asked.cpu = target.cpu
    BY <1>1, AskedLimits
  <2>3. QED
    BY <2>1, <2>2, OverlayLowers DEF IdleNeverRaises
<1>2. QED
  BY InputsTyped, <1>1, PTL

\* On battery the VRM limit asked for is never above that of the battery profile,
\* nor above a stricter one of the profile in force. (cap_battery_current)
THEOREM CurrentCapped == Spec => []BatteryCurrentCapped
<1>1. ASSUME InputsOK PROVE BatteryCurrentCapped
  <2>1. SafeProfile(InForce, SaverMaxFreq) /\ Within(BatteryCap, 15000, 120000)
    BY <1>1, InForceSafe, BatteryCapSet DEF BatteryCap
  <2>2. CASE onAc
    BY <2>2 DEF BatteryCurrentCapped
  <2>3. CASE ~onAc
    <3>1. /\ Within(Asked.vrmmax_ma, 15000, BatteryCap)
          /\ InForce.vrmmax_ma # None => Asked.vrmmax_ma <= InForce.vrmmax_ma
      BY <2>1, <2>3, CapHolds DEF Asked
    <3>2. QED
      BY <3>1, NoneAssumption DEF BatteryCurrentCapped, Within
  <2>4. QED
    BY <1>1, <2>2, <2>3 DEF InputsOK
<1>2. QED
  BY InputsTyped, <1>1, PTL

\* Among the low battery guard, a manual choice, a running game and the power
\* source, the strongest that has a say names the profile. (choose_base)
THEOREM StrongestWins == Spec => []StrongestClaimWins
<1>1. ASSUME InputsOK PROVE StrongestClaimWins
  <2> DEFINE low == ~onAc /\ percent # None /\ percent <= threshold /\ threshold # 0
             source == IF onAc THEN "ac" ELSE "battery"
  <2>1. LowBattery(onAc, percent, threshold) = low
    BY <1>1, DecisionsAssumption DEF LowBattery, InputsOK
  <2>2. CASE low
    <3>1. Base = [name |-> "battery-saver", source |-> "auto"]
      BY <2>1, <2>2 DEF Base, ChooseBase, AutoProfile
    <3>2. <<1, "battery-saver", "auto">> \in Claims /\ \A other \in Claims : 1 <= other[1]
      BY <2>2 DEF Claims
    <3>3. QED
      BY <3>1, <3>2 DEF StrongestClaimWins
  <2>3. CASE ~low /\ manual # None
    <3>1. Base = [name |-> manual, source |-> "manual"]
      BY <2>1, <2>3 DEF Base, ChooseBase, AutoProfile
    <3>2. <<2, manual, "manual">> \in Claims /\ \A other \in Claims : 2 <= other[1]
      BY <2>3 DEF Claims
    <3>3. QED
      BY <3>1, <3>2 DEF StrongestClaimWins
  <2>4. CASE ~low /\ manual = None /\ game
    <3>1. Base = [name |-> "gaming", source |-> "game"]
      BY <2>1, <2>4 DEF Base, ChooseBase, AutoProfile
    <3>2. <<3, "gaming", "game">> \in Claims /\ \A other \in Claims : 3 <= other[1]
      BY <2>4 DEF Claims
    <3>3. QED
      BY <3>1, <3>2 DEF StrongestClaimWins
  <2>5. CASE ~low /\ manual = None /\ ~game
    <3>1. Base = [name |-> source, source |-> "auto"]
      BY <2>1, <2>5 DEF Base, ChooseBase, AutoProfile
    <3>2. <<4, source, "auto">> \in Claims /\ \A other \in Claims : 4 <= other[1]
      BY <2>5 DEF Claims
    <3>3. QED
      BY <3>1, <3>2 DEF StrongestClaimWins
  <2>6. QED
    BY <1>1, <2>2, <2>3, <2>4, <2>5 DEF InputsOK
<1>2. QED
  BY InputsTyped, <1>1, PTL
=============================================================================
