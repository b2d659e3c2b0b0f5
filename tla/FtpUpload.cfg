CONSTANTS
  Parts <- ImageAndStatus
  DataWaits = 2
  KeepaliveWaits = 1
  MaxFaults = 1
SPECIFICATION Spec
INVARIANTS TypeOK NoForeignData ClosedAfterUpload UploadedWhenServed ZeroMeansUploaded
PROPERTIES UploadEnds FilesAsPromised
CHECK_DEADLOCK FALSE
