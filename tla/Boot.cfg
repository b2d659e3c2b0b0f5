SPECIFICATION BootSpec
CONSTANTS
  Start = 2
  MaxTime = 5
  MaxBoots = 1
  NoTime = NoTime
  IntMax = 1073741823
  Null = Null
  Files <- AllFiles
  BootFiles <- FilesGoneOnWith
INVARIANTS BootTypeOK NeverHalts NetworkLabelHonest OverwritesOnlyOffline ConfigAsWritten
CHECK_DEADLOCK FALSE
