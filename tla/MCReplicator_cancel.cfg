CONSTANTS
  r1 = r1
  r2 = r2
  c1 = c1
  NoReq = NoReq
  Req <- MCReq
  Chunks <- MCChunks
  ChunkOf <- MCChunkOf
  OpVersion <- MCOpVersion
  TargetVersion <- MCTargetVersion
  Versions <- MCVersions
  Sizes <- MCSizes
  BLK = 2
  ReadTarget = 3
  CHUNKSIZE = 5
  ReadSkipDiskVerify = TRUE
  BufSlots = 1

SPECIFICATION Spec

INVARIANT CancelledNeverSucceeds

CHECK_DEADLOCK FALSE
