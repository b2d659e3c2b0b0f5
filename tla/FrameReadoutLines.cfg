SPECIFICATION Spec
CONSTANTS
  PhysicalLines = 48
  Capacity = 1536
  Resolutions <- ScaledResolutions
  Means = {0, 30, 255}
INVARIANT EachLineOnce
CHECK_DEADLOCK FALSE
