CONSTANTS
  Rules <- MCRules
  Packets <- MCPackets
SPECIFICATION Spec
CHECK_DEADLOCK FALSE
PROPERTY OnlyContradictionsRefused
PROPERTY ProgramMeansRule
PROPERTY RegistersBalanced
PROPERTY ListingAccepted
PROPERTY ReloadMeansRule
