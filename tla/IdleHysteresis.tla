--------------------------- MODULE IdleHysteresis ---------------------------
(***************************************************************************)
(* The idle detector on its own, under any sequence of CPU samples and of  *)
(* profiles that allow an overlay or do not.  streak and lull are history: *)
(* they see the samples, the detector does not see them.                   *)
(***************************************************************************)
EXTENDS IdleDetector

VARIABLES
  streak,   \* quiet samples in a row, up to now, since an overlay was last refused
  lull      \* samples in a row that were not busy, counted likewise

vars == <<idle, streak, lull>>

\* Bound: the history counters stop where no threshold can tell them apart.
Enough == SoftEnterSamples + DeepEnterSamples

Init ==
  /\ idle = IdleReset
  /\ streak = 0
  /\ lull = 0

\* IdleDetector.update, with one more sample.
Update(sample, allowed) ==
  /\ idle' = IdleUpdate(idle, sample, allowed)
  /\ streak' = IF sample = "quiet" /\ allowed THEN AtMost(streak + 1, Enough) ELSE 0
  /\ lull' = IF sample # "busy" /\ allowed THEN AtMost(lull + 1, Enough) ELSE 0

\* IdleDetector.reset: a control request selected gaming.
Reset ==
  /\ idle' = IdleReset
  /\ streak' = 0
  /\ lull' = 0

Next == (\E sample \in Samples, allowed \in BOOLEAN : Update(sample, allowed)) \/ Reset

Spec == Init /\ [][Next]_vars

-----------------------------------------------------------------------------
(* What must hold *)

TypeOK ==
  /\ IdleTypeOK
  /\ idle.quiet \in 0..(SoftEnterSamples + DeepEnterSamples)
  /\ streak \in 0..Enough /\ lull \in 0..Enough

\* An overlay is in force only if it was earned and not broken since: soft idle by
\* an unbroken run of quiet samples and no busy one after it, deep idle by the
\* longer run; the detector off, there is none. (IdleDetector.update)
OverlayEarned ==
  /\ idle.stage # "none" => IdleEnabled /\ lull >= SoftEnterSamples
  /\ idle.stage = "deep" => lull >= DeepEnterSamples
  /\ idle.quiet <= streak

\* The caps come on only at the end of a long enough run of quiet samples, one
\* busy sample lifts them at once, and a machine that stays quiet gets them no
\* later than its run is long enough for. (IdleDetector.update)
RunDecides ==
  [][/\ idle.stage = "none" /\ idle'.stage # "none" => streak' >= SoftEnterSamples
     /\ idle.stage # "deep" /\ idle'.stage = "deep" => streak' >= DeepEnterSamples
     /\ lull' = 0 => idle'.stage = "none"
     /\ IdleEnabled /\ streak' = Enough => idle'.stage = "deep"]_vars
=============================================================================
