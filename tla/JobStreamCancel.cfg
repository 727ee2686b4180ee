SPECIFICATION FairSpec
CONSTANTS
  Consumers = {c1}
  Sizes = {1, 3}
  Cap = 2
  OutCap = 1
  MaxSeq = 2
PROPERTY CancelCloses
CHECK_DEADLOCK FALSE
