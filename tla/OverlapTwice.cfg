\* A tail and a backfill of the same window; no process ends.
SPECIFICATION Spec
CONSTANTS
  N = 3
  Uid <- WindowUid
  Bucket <- WindowBucket
  Limit = 2
  MaxBuffered = 3
  PageEnds = {1, 2, 3}
  Lapsable = {}
  MaxEnds = 0
  None = None
  Event <- WindowEvent
  Blank = ""
INVARIANT OverlapDoesNotDuplicate
