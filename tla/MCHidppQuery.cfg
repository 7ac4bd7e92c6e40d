SPECIFICATION Spec
CONSTANTS
  Features <- FeatureTable
  Entities <- EntityTable
  Interfaces <- ReportLayouts
  MaxEntities = 8
  Effects = {0, 6}
  MaxFaults = 2
INVARIANT LossCostsOneEntry
CHECK_DEADLOCK FALSE
