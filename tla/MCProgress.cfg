SPECIFICATION FairSpec
CONSTANTS
  Threads = {t1, t2, t3}
  WqThreads = {t1, t2}
  NoThread = nothread
  Null = null
  UnlockFlags = {poll, wake}
  RxCapacity = 7
  MaxFrames = 4
  RcvBuf = 2
PROPERTIES
  EveryFrameHandled
  InitTerminates
  QueueServed
  CatchesUp
  NobodyWaitsForEver
