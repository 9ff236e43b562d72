---------------------------- MODULE IdleDetector ----------------------------
(***************************************************************************)
(* The IdleDetector class of elitebook_profiles.py: hysteresis between     *)
(* busy, soft idle and deep idle, fed one CPU sample per tick.             *)
(*                                                                         *)
(* A sample is what the two threshold comparisons of update() make of the  *)
(* busy share and the load: "quiet" (both at or below the enter            *)
(* thresholds), "busy" (one at or above its exit threshold) or "between".  *)
(* The enter thresholds are below the exit ones, as in the defaults.       *)
(***************************************************************************)
EXTENDS Integers

CONSTANTS
  IdleEnabled,        \* ELITEBOOK_IDLE_OVERLAY
  SoftEnterSamples,   \* quiet samples before soft idle
  DeepEnterSamples    \* quiet samples before deep idle

ASSUME IdleAssumption ==
  /\ IdleEnabled \in BOOLEAN
  /\ SoftEnterSamples \in Nat \ {0}
  /\ DeepEnterSamples \in Nat \ {0}

VARIABLE idle   \* [stage, quiet]: the detector's stage and quiet_samples

Samples == {"quiet", "between", "busy"}

IdleReset == [stage |-> "none", quiet |-> 0]

AtMost(n, bound) == IF n <= bound THEN n ELSE bound

\* Mutant: a sample that is not quiet does not restart the count.
UpdateAwakeLenient(d, sample) ==
  LET quiet == IF sample = "quiet" THEN d.quiet + 1 ELSE d.quiet
  IN  IF quiet >= SoftEnterSamples
        THEN [stage |-> "soft", quiet |-> AtMost(quiet, DeepEnterSamples)]
        ELSE [stage |-> "none", quiet |-> quiet]

\* Outside an overlay: only an unbroken run of quiet samples enters soft idle.
UpdateAwake(d, sample) ==
  LET quiet == IF sample = "quiet" THEN d.quiet + 1 ELSE 0
  IN  IF quiet >= SoftEnterSamples
        THEN [stage |-> "soft", quiet |-> AtMost(quiet, DeepEnterSamples)]
        ELSE [stage |-> "none", quiet |-> quiet]

\* Mutant: the count is not stopped at the deep threshold.
UpdateOverlayUnbounded(d, sample) ==
  IF sample = "busy" THEN IdleReset
  ELSE [stage |-> IF sample = "quiet" /\ d.quiet + 1 >= DeepEnterSamples THEN "deep" ELSE d.stage,
        quiet |-> IF sample = "quiet" THEN d.quiet + 1 ELSE 0]

\* Mutant: a busy sample leaves deep idle for soft idle.
UpdateOverlayByStages(d, sample) ==
  IF sample = "busy"
    THEN [stage |-> IF d.stage = "deep" THEN "soft" ELSE "none", quiet |-> 0]
    ELSE [stage |-> IF sample = "quiet" /\ d.quiet + 1 >= DeepEnterSamples THEN "deep"
                    ELSE d.stage,
          quiet |-> IF sample = "quiet" THEN AtMost(d.quiet + 1, DeepEnterSamples) ELSE 0]

\* Inside one: a busy sample leaves it, a lull only restarts the count.
UpdateOverlay(d, sample) ==
  LET quiet == IF sample = "quiet" THEN AtMost(d.quiet + 1, DeepEnterSamples) ELSE 0
  IN  IF sample = "busy" THEN IdleReset
      ELSE [stage |-> IF quiet >= DeepEnterSamples THEN "deep" ELSE d.stage,
            quiet |-> quiet]

IdleUpdate(d, sample, allowed) ==
  IF ~(allowed /\ IdleEnabled) THEN IdleReset
  ELSE IF d.stage = "none" THEN UpdateAwake(d, sample) ELSE UpdateOverlay(d, sample)

IdleTypeOK ==
  idle \in [stage : {"none", "soft", "deep"}, quiet : Nat]
=============================================================================
