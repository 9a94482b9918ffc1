SPECIFICATION FairSpec
CONSTANTS
  p1 = p1
  p2 = p2
  p3 = p3
  Free = Free
  Peers = {p1, p2, p3}
  Rude = {p3}
  Backlog = 2
  MaxBytes <- MCMaxBytes
  SndBuf = 1
  FdSetSize = 4
  FdLimit = 4
  ListenFd = 1
  BufSize = 2
INVARIANTS SetsMatchSockets EchoIntact
PROPERTIES EchoedEventually
CHECK_DEADLOCK FALSE
