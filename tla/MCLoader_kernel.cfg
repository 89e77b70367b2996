SPECIFICATION FairLoader
CONSTANTS
  MaxRanges = 2
  MaxMemLength = 3
  BytesStored = {20, 24}
  FirstIds = {0, 1, 2}
  FirstCounts = {0, 1}
  Files <- AllFiles
  KernelCells = 5
  Start = 11
  Sectors = 3
  SectorWords = 2
  Byte = 2
  MaxRetries = 1
INVARIANTS
  BufferIsFile
  ImagePlaced
 
CHECK_DEADLOCK FALSE
