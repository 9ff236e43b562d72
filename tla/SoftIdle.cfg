SPECIFICATION Spec
CONSTANTS
  None = None
  Garbage = Garbage
  Configs <- MCConfigs
  Overlays <- DefaultSettings
  Percents <- MCPercents
  Thresholds = {20}
  Manuals <- MCManuals
  SaverMaxFreq = 1800000
INVARIANT IdleNeverRaisesEpp
