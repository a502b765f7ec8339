SPECIFICATION Spec
CONSTANTS
  Input <- MCInput
  Script <- MCScript
  MaxErrors = 2
  MaxHandle = 2
INVARIANTS TypeOK CacheFollowsCommit
PROPERTIES CommitsInOrder RejectsInOrder
