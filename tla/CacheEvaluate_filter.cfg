\* nft_cache_evaluate() over inputs of at most MaxCmds commands.
CONSTANTS
  Command <- ListCommands
  MaxCmds = 2
  Overlong <- MCOverlong
  Echo = FALSE
  Terse = FALSE
SPECIFICATION Spec
INVARIANTS FilterAdmits
CHECK_DEADLOCK FALSE
