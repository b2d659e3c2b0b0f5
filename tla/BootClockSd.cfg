SPECIFICATION Spec
CONSTANTS
  Start = 2
  MaxTime = 6
  MaxBoots = 2
  NoTime = NoTime
INVARIANT SdTimeUsed
