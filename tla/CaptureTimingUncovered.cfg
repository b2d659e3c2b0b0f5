SPECIFICATION TimedSpec
CONSTANTS
  TimeInterval = 6
  NetInterval = 2
  Decimation = 1
  Holdout = 1
  PollTime = {8}
  CaptureTime = {17}
  NewCounts = {FALSE}
  WatchdogTimeout = 1440
INVARIANTS WatchdogFed
