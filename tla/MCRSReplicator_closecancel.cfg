CONSTANTS
  r1 = r1
  r2 = r2
  c1 = c1
  c2 = c2
  NoReq = NoReq
  Req <- MCReq
  ChunkOf <- MCChunkOf
  OpVersion <- MCOpVersion
  TargetVersion <- MCTargetVersion
  DataSizes <- MCDataSizes
  MaxThreadsValues <- MCMainLoop
  ThreadCount = 2
  BLK = 2
  ReadSize = 4
  CHUNKSIZE = 8
  MaxRecover = 8
  BufSlots = 1
  CloseAsync = TRUE

SPECIFICATION Spec

PROPERTY EveryOpAnswered

CHECK_DEADLOCK FALSE
