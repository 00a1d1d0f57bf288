SPECIFICATION Spec
CONSTANTS
  RxCapacity = 7
  FillSlack = 1
  REFILL_BATCH_SIZE = 2
  EV_POLL_BATCH_SIZE = 2
  PushGranule = 2
  MaxFrames = 8
  MaxOther = 1
INVARIANTS
  TypeOK
  BuffersConserved
  FramesIntact
  HandledInOrder
  RefillTestsAgree
  RingStaysFull
PROPERTY
  DropsOnlyUnderBacklog
