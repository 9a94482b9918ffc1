SPECIFICATION Spec
CONSTANTS
  NULL = NULL
  Poison = Poison
  NoCpu = NoCpu
  c1 = c1
  c2 = c2
  f1 = f1
  f2 = f2
  f3 = f3
  eth0 = eth0
  eth1 = eth1
  Cpus = {c1, c2}
  Packets <- MCPackets
  PortsOf <- MCPorts
  ParamDev = eth0
  ParamPort = 5001
  CrcBytes = {{}, {0}, {7}, {0, 2, 5, 7}, {0, 1, 2, 3, 4, 5, 6, 7}}
  MaxLen = 3
  Wrap = 3
  Flows = {f1}
  Buckets <- MCBuckets
  Nodes = {n1, n2}
  Bits = 0
  Tuples <- MCTuples
  BucketOf <- MCBucketOf
  RegisterFails = FALSE
PROPERTIES DeletedFlowIsGone
CHECK_DEADLOCK FALSE
