\* nft_cache_evaluate() over inputs of at most MaxCmds commands.
CONSTANTS
  Command <- MCCommand
  MaxCmds = 3
  Overlong <- MCOverlong
  Echo = FALSE
  Terse = FALSE
SPECIFICATION Spec
INVARIANTS TypeOK NeedsCovered PartialNeverReused
CHECK_DEADLOCK FALSE
