SPECIFICATION Spec
CONSTANTS
  None = None
  Supplies <- MCSupplies
  Hwmons <- MCHwmons
  ProcessTables <- MCProcessTables
  Mtimes = {1, 2}
  QueueSize = 1
  Detection = TRUE
  PowerPoll = 3
  ConfigCheck = 2
  SensorSearch = 2
  IntervalActive = 1
  IntervalAc = 2
  IntervalBattery = 3
  MaxChanges = 2
INVARIANTS
  TypeOK
  PowerNoted
  GameNoticed
  SensorFound
  ConfigPickedUp
