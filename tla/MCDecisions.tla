----------------------------- MODULE MCDecisions -----------------------------
(* Values for TLC: each kind of key of profiles.conf, good, bad and absent. *)
EXTENDS Decisions

\* Nothing set; limits at the edges of their ranges; the same just outside them
\* or not of their type; and caps, switches and the battery's current limit.
MCConfigs ==
  { [key \in {} |-> None],
    [key \in {"battery", "performance", "gaming", "ac"} \X {"fast_mw", "tctl_c"} |->
       IF key[2] = "fast_mw" THEN 4000 ELSE 100],
    [key \in {"battery", "performance", "gaming", "battery-saver"}
             \X {"slow_mw", "tctl_c", "vrmmax_ma", "epp", "panel_power_savings"} |->
       CASE key[2] = "slow_mw" -> 45001
         [] key[2] = "tctl_c" -> 59
         [] key[2] = "vrmmax_ma" -> 14999
         [] OTHER -> Garbage],
    [key \in {"battery", "battery-saver"} \X {"vrmmax_ma", "max_freq_khz", "boost"} |->
       CASE key[2] = "vrmmax_ma" -> IF key[1] = "battery" THEN 20000 ELSE 50000
         [] key[2] = "max_freq_khz" -> IF key[1] = "battery" THEN 1000000 ELSE 0
         [] key[2] = "boost" -> TRUE] }

\* The defaults, and settings that ask for more than most profiles give.
MCOverlays ==
  { DefaultOverlay,
    [DefaultOverlay EXCEPT !.soft_max_freq_khz = 4000000, !.deep_max_freq_khz = None,
                           !.deep_fast_mw = 60000, !.deep_tctl_c = 99,
                           !.soft_disable_boost = TRUE, !.deep_apply_smu = TRUE],
    [DefaultOverlay EXCEPT !.deep_apply_smu = FALSE, !.deep_disable_boost = TRUE] }

DefaultSettings == { DefaultOverlay }

MCPercents == {0, 19, 20, 21, None}
MCManuals == {None, "performance", "cool", "battery-saver", "battery"}
=============================================================================
