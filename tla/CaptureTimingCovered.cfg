SPECIFICATION TimedSpec
CONSTANTS
  TimeInterval = 6
  NetInterval = 3
  Decimation = 1
  Holdout = 1
  PollTime = {0, 1}
  CaptureTime = {1, 2, 3}
  NewCounts = {TRUE, FALSE}
  WatchdogTimeout = 12
INVARIANT WatchdogFed
