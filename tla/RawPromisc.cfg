SPECIFICATION Spec
CONSTANTS
  ClientsChecked = {"raw_socket"}
  RcvBuf = 2
  MaxFrames = 1
  IpIds = 3
  StartSeqs = {0}
  Traffic <- MCTraffic
  MaxLost = 0
INVARIANT
  PromiscuousInLoop
