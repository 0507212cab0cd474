\* One request for a file of three blocks, with every kind of Range header, a
\* reader of the file system beside it, and the scan that demotes idle readers.
CONSTANTS
  Requests = {r1}
  Mounts = {m1}
  FileSize = 3
  Suffix <- NoFirst
  Headers <- RangeHeaders
  parseRange <- PartsOfHeaders
  Shapes <- AllShapes
  WarmupMaxOffset = 1
  WarmupMaxBlocks = 2
SPECIFICATION FairSpec
INVARIANTS ServesRequest ActiveExact
PROPERTIES ReadsEnd
