SPECIFICATION FairSpec
CONSTANTS
  Null = Null
  Values = {1, 2, 3}
  MaxLen = 6
  MaxSize = 4
  MaxIters = 7
  Unroll = 3
  RandMax = 2
  Groups = 4
  Room = 3
  Den = 6
  MaxRows = 3
  MaxFlow = 4
  NumFlows = 1
  Threads = {t1, t2}
  MaxCalls = 2
  Users = {u1, u2}
  MaxLoads = 2
  Client = h1
  Server = h2
  MTU = 17
  IpHdr = 2
  TcpHdr = 2
  Radix = 6
  SynOptions <- MCSynOptions
  DefaultMss = 5
  ChunkSize = 2
  MaxBody = 7
  PageSize = 3
  ZipSize <- MCZipSize
  Iters = 4
  MsgSize = 8
  SizeBytes = 4
  BufSize = 3
  Window = 5
INVARIANTS SearchCorrect WalkIsInside ReleasedOnce PrintedIsCaptured SizesFollowFile ReachesLibrary AnsweredOnce FitsMtu SegmentsIntact AnswerIsFile Framed MessageConserved
PROPERTIES ProgramsEnd
CHECK_DEADLOCK FALSE
