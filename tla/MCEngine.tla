------------------------------ MODULE MCEngine ------------------------------
(* Values for TLC: two contents of profiles.conf, the real profiles. *)
EXTENDS Engine

\* No overrides, and a file that lowers the battery cap, mistypes a key and asks for
\* an ASPM policy of its own.
NoOverrides == [key \in {} |-> None]

MCConfigs ==
  { NoOverrides,
    [key \in {<<"battery", "vrmmax_ma">>, <<"battery", "pcie_aspm">>,
              <<"performance", "slow_mw">>} |->
       CASE key[2] = "vrmmax_ma" -> 40000
         [] key[2] = "pcie_aspm" -> "powersave"
         [] key[2] = "slow_mw" -> Garbage] }

OneConfig == {NoOverrides}

\* With a low battery an ASPM policy, otherwise the boot one.
SaverSetsAspm == { [key \in {<<"battery-saver", "pcie_aspm">>} |-> "powersave"] }

MCOverlay == DefaultOverlay

\* On mains, and on battery at the threshold, inside the hysteresis and above it.
OnBattery(percent) == [on_ac |-> FALSE, battery |-> percent]
OnMains == [on_ac |-> TRUE, battery |-> 22]
MCPower == {OnMains, OnBattery(20), OnBattery(22), OnBattery(23)}

MCPowerTwo == {OnMains, OnBattery(22)}

\* ac and battery-saver: no two profiles have less in common.
MCPowerFar == {OnMains, OnBattery(20)}

\* One device the kernel lets sleep at boot, one it does not.
MCDevices == {"nvme", "wifi"}
MCBootControl == [d \in MCDevices |-> IF d = "wifi" THEN "auto" ELSE "on"]
MCOneControl == [d \in {"nvme"} |-> "on"]
MCBootAspm == "performance"

NothingRefused == {{}}
\* Operations on different parts of the machine are refused together, each as a whole and
\* some in part; a VRM limit alone; one CPU policy or all, and a reset refused with them.
MCRefusals == {{}, {"tuned", "power", "vrm"}, {"tuned", "power", "policy0", "partly"},
               {"policy0", "nvme", "panel", "aspm"}, {"others", "vrm", "records"},
               {"policy0", "others", "reset"}, {"policy0", "passive"}}

\* What something else may change; a panel or an ASPM policy fares as a device does.
MCDisturbances == {"tuned", "policy0", "others", "power", "devices", "stuck"}

NoTemperature == {None}
MCTemperatures == {None, 70, 95}
=============================================================================
