\* A finished range is walked again after a delayed record was indexed.
SPECIFICATION RerunSpec
CONSTANTS
  N = 3
  Uid <- WindowUid
  Bucket <- WindowBucket
  Limit = 2
  MaxBuffered = 3
  Bounded = TRUE
  Late = {2}
  PageEnds = {1, 2, 3}
  Lapsable = {}
  MaxEnds = 0
  None = None
INVARIANT RerunKeepsDelivered
CHECK_DEADLOCK FALSE
