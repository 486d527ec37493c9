\* every function that imports a map, every way to cut it into chunks
CONSTANTS
  Objects <- MCObjects
  Type <- MCType
  Capacity <- MCCapacity
  Writable <- MCWritable
  RecordItems <- MCRecordItems
  InitData <- MCInitData
  MaxId = 8
  Subset = 7
  Maps <- ProperMaps
  Entries = {"data", "report", "record", "progressively"}
  Lost = {0}
  MinChunk = 1
  MaxChunk = 5
  CallerCountsCells = TRUE
SPECIFICATION FairSpec
INVARIANTS
  TypeOK
  ResumesAtAnItem
  FailsOnlyIfCut
PROPERTIES
  ImportsTheItems
  ImportEnds
