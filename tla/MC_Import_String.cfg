\* a string too long for its object
CONSTANTS
  Objects <- MCObjects
  Type <- MCType
  Capacity <- MCCapacity
  Writable <- MCWritable
  RecordItems <- MCRecordItems
  InitData <- MCInitData
  MaxId = 8
  Subset = 7
  Maps <- LongString
  Entries = {"data"}
  Lost = {0}
  MinChunk = 1
  MaxChunk = 5
  CallerCountsCells = TRUE
SPECIFICATION Spec
PROPERTIES
  ImportsTheItems
