CONSTANTS
  Parts <- OneBuffer
  DataWaits = 2
  KeepaliveWaits = 1
  MaxFaults = 0
SPECIFICATION Spec
INVARIANTS UploadedInTime
CHECK_DEADLOCK FALSE
