SPECIFICATION FairSpec
CONSTANTS
  p1 = p1
  p2 = p2
  p3 = p3
  Free = Free
  Peers = {p1, p2, p3}
  Rude = {p3}
  Backlog = 2
  MaxBytes <- MCMaxBytes
  SndBuf = 1
  OpenMax = 3
  BaseFds = 1
  BufSize = 2
INVARIANTS TableMatchesSockets EchoIntact
PROPERTIES EchoedEventually
CHECK_DEADLOCK FALSE
