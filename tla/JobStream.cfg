\* A ring that holds two small chunks, and chunks too large for it; consumers
\* share nothing with each other, so one of them is enough.
SPECIFICATION FairSpec
CONSTANTS
  Consumers = {c1}
  Sizes = {1, 3}
  Cap = 2
  OutCap = 2
  MaxSeq = 3
INVARIANTS
  RingExact
  GaplessDelivery
  ResultBeforeFrame
PROPERTIES
  ImplementsReplayLog
  AttachedCloses
CHECK_DEADLOCK FALSE
