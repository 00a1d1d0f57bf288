SPECIFICATION Spec
CONSTANTS
  ClientsChecked = {"udp_socket"}
  RcvBuf = 2
  MaxFrames = 2
  IpIds = 3
  StartSeqs = {0}
  Traffic <- MCTraffic
  MaxLost = 0
INVARIANT
  AbnormalNotDecoded
