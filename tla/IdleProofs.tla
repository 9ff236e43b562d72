----------------------------- MODULE IdleProofs -----------------------------
(***************************************************************************)
(* The idle detector's hysteresis, for every pair of sample counts.        *)
(*                                                                         *)
(* OverlayEarned is not inductive: quiet <= streak survives a step outside *)
(* an overlay only because quiet is below the soft threshold there, and    *)
(* that a quiet machine does reach deep idle needs quiet to be exactly the *)
(* run so far.  Inv adds both, and that a run of quiet samples is a lull.  *)
(***************************************************************************)
EXTENDS IdleHysteresis, TLAPS

Inv ==
  /\ TypeOK
  /\ OverlayEarned
  /\ idle.stage = "none" =>
       /\ idle.quiet < SoftEnterSamples
       /\ IdleEnabled => idle.quiet = streak
  /\ streak <= lull
  /\ idle.stage = "soft" => idle.quiet = AtMost(streak, DeepEnterSamples)

LEMMA InitInv == Init => Inv
BY IdleAssumption DEF Init, Inv, TypeOK, IdleTypeOK, OverlayEarned, IdleReset, Enough

LEMMA UpdateInv ==
  ASSUME Inv, NEW sample \in Samples, NEW allowed \in BOOLEAN, Update(sample, allowed)
  PROVE  Inv'
<1> USE IdleAssumption DEF Inv, TypeOK, IdleTypeOK, OverlayEarned, IdleReset, Enough,
                           Update, IdleUpdate, AtMost, Samples
<1>1. CASE ~(allowed /\ IdleEnabled)
  BY <1>1
<1>2. CASE allowed /\ IdleEnabled /\ idle.stage = "none"
  BY <1>2 DEF UpdateAwake
<1>3. CASE allowed /\ IdleEnabled /\ idle.stage \in {"soft", "deep"}
  BY <1>3 DEF UpdateOverlay
<1>4. QED
  BY <1>1, <1>2, <1>3

LEMMA NextInv == Inv /\ [Next]_vars => Inv'
<1> SUFFICES ASSUME Inv, [Next]_vars PROVE Inv'
  OBVIOUS
<1>1. CASE Reset
  BY <1>1, IdleAssumption
     DEF Inv, TypeOK, IdleTypeOK, OverlayEarned, IdleReset, Enough, Reset, AtMost
<1>2. CASE UNCHANGED vars
  BY <1>2 DEF vars, Inv, TypeOK, IdleTypeOK, OverlayEarned, Enough, AtMost
<1>3. QED
  BY <1>1, <1>2, UpdateInv DEF Next

\* An overlay is in force only while it is earned. (IdleDetector.update)
THEOREM Earned == Spec => []OverlayEarned
<1>1. Inv => OverlayEarned
  BY DEF Inv
<1>2. QED
  BY InitInv, NextInv, <1>1, PTL DEF Spec

\* The detector holds its types, and counts no further than both thresholds. (update)
THEOREM Types == Spec => []TypeOK
<1>1. Inv => TypeOK
  BY DEF Inv
<1>2. QED
  BY InitInv, NextInv, <1>1, PTL DEF Spec

-----------------------------------------------------------------------------
(* What one sample may change *)

Decided ==
  /\ idle.stage = "none" /\ idle'.stage # "none" => streak' >= SoftEnterSamples
  /\ idle.stage # "deep" /\ idle'.stage = "deep" => streak' >= DeepEnterSamples
  /\ lull' = 0 => idle'.stage = "none"
  /\ IdleEnabled /\ streak' = Enough => idle'.stage = "deep"

LEMMA UpdateDecides ==
  ASSUME Inv, NEW sample \in Samples, NEW allowed \in BOOLEAN, Update(sample, allowed)
  PROVE  Decided
<1> USE IdleAssumption DEF Inv, TypeOK, IdleTypeOK, OverlayEarned, IdleReset, Enough,
                           Update, IdleUpdate, AtMost, Samples, Decided
<1>1. CASE ~(allowed /\ IdleEnabled)
  BY <1>1
<1>2. CASE allowed /\ IdleEnabled /\ idle.stage = "none"
  BY <1>2 DEF UpdateAwake
<1>3. CASE allowed /\ IdleEnabled /\ idle.stage \in {"soft", "deep"}
  BY <1>3 DEF UpdateOverlay
<1>4. QED
  BY <1>1, <1>2, <1>3

\* Caps come on only at the end of a long enough quiet run, go with the first busy
\* sample, and come on once the run is long enough. (IdleDetector.update)
THEOREM Decides == Spec => RunDecides
<1>1. Inv /\ [Next]_vars => [Decided]_vars
  <2> SUFFICES ASSUME Inv, Next PROVE Decided
    BY DEF vars
  <2>1. CASE Reset
    BY <2>1, IdleAssumption DEF Reset, IdleReset, Decided, Enough
  <2>2. QED
    BY <2>1, UpdateDecides DEF Next
<1>2. QED
  BY InitInv, NextInv, <1>1, PTL DEF Spec, RunDecides, Decided
=============================================================================
