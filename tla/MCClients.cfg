SPECIFICATION Spec
CONSTANTS
  ClientsChecked = {"raw_socket", "udp_socket", "exanic", "efvi", "subscriber"}
  RcvBuf = 2
  MaxFrames = 4
  IpIds = 3
  StartSeqs = {0}
  Traffic <- MCTraffic
  MaxLost = 1
INVARIANTS
  TypeOK
  ForeignOnlyBeforeBind
  GapReporting
PROPERTY
  ImplementsSubscriber
