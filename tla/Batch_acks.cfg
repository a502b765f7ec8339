CONSTANTS
  Inputs <- MCInputs
  Size <- MCSize
  NestMax = 4
  OffsetMod = 5
  MaxInputs = 3
SPECIFICATION Spec
INVARIANT AnswersAreOwn
