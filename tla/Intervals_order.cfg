SPECIFICATION Spec
CONSTANTS
  MaxKey = 5
  Input = {}
  Script <- DeleteThenAdd
  AutoMerge = {TRUE}
PROPERTIES SetAsDescribed
