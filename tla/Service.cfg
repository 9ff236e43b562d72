SPECIFICATION FairSpec
CONSTANTS
  None = None
  d1 = d1
  d2 = d2
  d3 = d3
  Devices = {d1, d2, d3}
  BootControl <- MCBootControl
  AspmPolicies = {"default", "performance", "powersave"}
  BootAspm = "default"
  VrmLimits = {45000}
  FirmwareVrm = 60000
  Targets <- MCTargets
  MaxFaults = 2
INVARIANTS
  TypeOK
  AspmBootKept
  DevicesComeBack
  StockIsFirmware
PROPERTIES
  ComesBack
  OwnerPrevails
