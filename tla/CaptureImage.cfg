SPECIFICATION ImageSpec
CONSTANTS
  PhysicalLines = 480
  Capacity = 153600
  Resolutions <- BothResolutions
  Means = {0, 255}
  SensorExposures <- AnExposure
  SensorGains <- AGain
  SensorReds = {96, 128}
  Unknown = Unknown
  BufferAddresses = {4096, 4101}
  RowBytes <- OutputRows
  Samples <- BlockSamples
  Shots <- AllShots
INVARIANTS ImageTypeOK BufferFits FileComplete OneFrameExact MeanOfImage
INVARIANTS OneExposure ManualAsConfigured DateIsGregorian
INVARIANTS RowsInBand ScratchHeld JpegFileExact BlockDecodes
CHECK_DEADLOCK FALSE
