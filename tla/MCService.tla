----------------------------- MODULE MCService -----------------------------
(* Values for TLC: three devices, one of them on auto at boot, and four targets. *)
EXTENDS Service

CONSTANTS d1, d2, d3

MCBootControl == [d \in {d1, d2, d3} |-> IF d = d3 THEN "auto" ELSE "on"]

Wanted(pm, policy, limit) == [runtime_pm |-> pm, pcie_aspm |-> policy, vrmmax |-> limit]

\* The defaults, a battery profile, and the same with ASPM configured, twice.
MCTargets ==
  { Wanted("default", "default", None), Wanted("auto", "default", 45000),
    Wanted("auto", "powersave", 45000), Wanted("default", "performance", None) }
=============================================================================
