SPECIFICATION BusSpec
CONSTANTS
  ByteBase = 8
  PosBase = 64
  SectorSize = 8
  Slots = {0, 1, 2}
  Present = {0, 1}
  Tracks <- MCTracks
  Spt <- MCSpt
  Byte = {0, 1, 2, 3, 4, 5, 6, 7}
  InitialMemory <- MCMemory
  InitialStore <- MCStore
  DriveBytes = {1, 2}
  TrackBytes = {1}
  SectorBytes = {3}
  DmaLowBytes = {6}
  DmaHighBytes = {7}
  Stores <- MCStores
  MaxTransfers = 1
  TCP_CONNECT = 1
  TCP_CLOSE = 2
  TCP_SEND = 3
  TCP_RECV = 4
  MaxSockets = 3
  FirstSlot = 1
  Descriptors = {3, 4}
  MaxUnread = 2
  MaxSpace = 1
  Errno <- MCErrno
  Stream <- MCStream
  Blocks <- MCBlocks
  StrayData = {7}
  MaxCommands = 3
  HalfBase = 4
  StartTicks = {15}
  MaxTicks = 16
CONSTRAINT Together
INVARIANTS BusTypeOK StreamInOrder ReadingNeverAhead
PROPERTIES StoreConfined CommandConfined BlockTellsOutcome KilledByStrayOnly
CHECK_DEADLOCK FALSE
