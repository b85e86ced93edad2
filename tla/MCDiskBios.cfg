SPECIFICATION BiosSpec
CONSTANTS
  ByteBase = 4
  PosBase = 16
  SectorSize = 2
  Slots = {0, 1, 2}
  Present = {0, 1}
  Tracks <- MCTracks
  Spt <- MCSpt
  Byte <- MCByte
  InitialMemory <- MCMemory
  InitialStore <- MCStore
  DriveBytes = {0, 1}
  TrackBytes = {1}
  SectorBytes = {1, 2}
  DmaLowBytes = {2}
  DmaHighBytes = {3}
  Stores <- MCStores
  MaxTransfers = 2
INVARIANTS BiosNeverAborts OnlyCurrentDriveBusy OutsideMemoryUntouched
PROPERTY ImplementsSectorStore
CHECK_DEADLOCK FALSE
