\* One run() whose runner may exit by itself.
SPECIFICATION FairSpec
CONSTANTS
  Forever = FALSE
  Buffer = 2
INVARIANTS
  NoLostUp
PROPERTIES
  NothingAfterReturn
  RunReturnsWhenCancelled
CHECK_DEADLOCK FALSE
