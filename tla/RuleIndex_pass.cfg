CONSTANTS
  Input <- MCInput
  Script <- MCScript
  Initial = 2
  MaxRule = 5
  MaxGen = 4
SPECIFICATION Spec
INVARIANTS TypeOK IndexMeansThatRule ChainAsDescribed
