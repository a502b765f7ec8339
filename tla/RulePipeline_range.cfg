CONSTANTS
  Rules <- RangeRules
  Packets <- MCPackets
SPECIFICATION Spec
CHECK_DEADLOCK FALSE
PROPERTY ReloadMeansRule
