SPECIFICATION Spec
CONSTANTS
  None = None
  Garbage = Garbage
  Configs <- MCConfigs
  Overlays <- MCOverlays
  Percents <- MCPercents
  Thresholds = {0, 20}
  Manuals <- MCManuals
  SaverMaxFreq = 1800000
INVARIANTS
  TypeOK
  OverridesStaySafe
  IdleNeverRaises
  BatteryCurrentCapped
  StrongestClaimWins
