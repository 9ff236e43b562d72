SPECIFICATION FairSpec
CONSTANTS
  None = None
  Garbage = Garbage
  Other = Other
  IdleEnabled = FALSE
  SoftEnterSamples = 1
  DeepEnterSamples = 2
  Overlay <- MCOverlay
  Configs <- SaverSetsAspm
  ManualChoices = {}
  PowerFacts <- MCPowerFar
  Games = {FALSE}
  CpuSamples = {"busy"}
  Sleeps = {TRUE, FALSE}
  Temperatures <- NoTemperature
  LowThreshold = 20
  SaverMaxFreq = 1800000
  FirmwareVrm = 60000
  HasRyzenAdj = TRUE
  Devices = {"nvme"}
  BootControl <- MCOneControl
  BootAspm <- MCBootAspm
  ReassertInterval = 3
  ResumeFollowup = 1
  SmuRetry = 2
  DriftCheck = 2
  DriverResetInterval = 3
  WriteSamples = 2
  MaxSamples = 1
  Refusals <- MCRefusals
  Disturbances <- MCDisturbances
  MaxFaults = 2
INVARIANT DeadlinesKept
PROPERTIES
  NothingLeftBehind
  RepairsComeNearer
  Repaired
