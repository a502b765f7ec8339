SPECIFICATION Spec
CONSTANTS
  MaxKey = 4
  Input <- MCInput
  Script <- MCScript
  AutoMerge = {TRUE, FALSE}
INVARIANTS TypeOK AddsInOrder FullyMerged CacheFollowsSet KernelAgrees
PROPERTIES SetAsDescribed RejectsRightly
