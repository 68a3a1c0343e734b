\* One failed read of stage 2.
SPECIFICATION Spec
CONSTANTS
  Parts = {"floppy"}
  Block = 2
  TableStart = 2
  TableSectors = 2
  MaxFiles = 6
  Sectors = 14
  BootSizes = {1, 3, 4}
  MaxFaults = 0
  FileLists <- MCFileLists
  Attempts = 2
  Wrap = 20
  TrackSectors = 7
  ByteValues = 8
  Room = 4
  LowZeros <- MCLowZeros
  MAXBUF = 3
  Sizes = {0, 1, 3, 4, 7}
  MaxErrors = 1
INVARIANT ReadIsRetried
\* The machine stops in the end.
CHECK_DEADLOCK FALSE
