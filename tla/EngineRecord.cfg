SPECIFICATION Spec
CONSTANTS
  None = None
  Garbage = Garbage
  Other = Other
  IdleEnabled = FALSE
  SoftEnterSamples = 1
  DeepEnterSamples = 2
  Overlay <- MCOverlay
  Configs <- OneConfig
  ManualChoices = {"performance", "battery"}
  PowerFacts <- MCPowerTwo
  Games = {FALSE}
  CpuSamples = {"busy"}
  Sleeps = {FALSE}
  Temperatures <- MCTemperatures
  LowThreshold = 20
  SaverMaxFreq = 1800000
  FirmwareVrm = 60000
  HasRyzenAdj = TRUE
  Devices <- MCDevices
  BootControl <- MCBootControl
  BootAspm <- MCBootAspm
  ReassertInterval = 2
  ResumeFollowup = 1
  SmuRetry = 2
  DriftCheck = 1
  DriverResetInterval = 3
  WriteSamples = 3
  MaxSamples = 5
  Refusals <- NothingRefused
  Disturbances = {}
  MaxFaults = 1
PROPERTY RecordKeepsBuilding
