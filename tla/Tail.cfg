\* A tail over a log with a uid served twice, two deaths, one uid that lapses.
SPECIFICATION FairSpec
CONSTANTS
  N = 5
  Uid <- RepeatedUid
  Bucket <- RepeatedBucket
  Limit = 2
  MaxBuffered = 3
  Bounded = FALSE
  Late = {}
  PageEnds = {}
  Lapsable = {"a"}
  MaxEnds = 2
  None = None
INVARIANTS LoopInvariant NoLoss AckedStaysDurable CaughtUpHonest CopiesBounded KeysBounded
PROPERTIES CursorAdvances SettledObjectsFrozen ImplementsDelivery EventuallyDelivered
