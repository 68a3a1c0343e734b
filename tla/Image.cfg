\* A floppy of sectors of two cells, built from nine lists of files with one lost
\* write, and started; or an image of up to seven bytes copied in chunks of two.
SPECIFICATION Spec
CONSTANTS
  Parts = {"floppy", "copy"}
  Block = 2
  TableStart = 2
  TableSectors = 2
  MaxFiles = 6
  Sectors = 14
  BootSizes = {1, 3, 4}
  MaxFaults = 1
  FileLists <- MCFileLists
  Attempts = 2
  Wrap = 20
  TrackSectors = 7
  ByteValues = 8
  Room = 4
  LowZeros <- MCLowZeros
  MAXBUF = 3
  Sizes = {0, 1, 3, 4, 7}
  MaxErrors = 1
INVARIANTS TableTellsTruth RunsWhatWasBuilt SuccessMeansCopied
PROPERTIES BootEnds CopyDone
\* Both end.
CHECK_DEADLOCK FALSE
