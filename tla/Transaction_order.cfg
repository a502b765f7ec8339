SPECIFICATION Spec
CONSTANTS
  Input <- OrderInput
  Script <- OutOfOrder
  MaxErrors = 2
  MaxHandle = 3
PROPERTY EveryInputInOrder
