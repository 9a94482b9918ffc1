SPECIFICATION SessionFairSpec
CONSTANTS
  p1 = p1
  p2 = p2
  Nobody = Nobody
  Peers = {p1, p2}
  Rude = {p2}
  Backlog = 1
  MaxBytes <- MCMaxBytes
  Texts <- MCTexts
  SndBuf = 2
  BufSize = 3
  Pids = {k1, k2}
  AcceptFaults = TRUE
INVARIANTS SocketsHeld EchoIntact LinesReturn
PROPERTIES ClientsServed
CHECK_DEADLOCK FALSE
