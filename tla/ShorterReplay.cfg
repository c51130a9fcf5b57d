\* No uid repeats and no seen row lapses: one death, then a shorter batch.
SPECIFICATION Spec
CONSTANTS
  N = 4
  Uid <- DistinctUid
  Bucket <- DistinctBucket
  Limit = 1
  MaxBuffered = 3
  Bounded = FALSE
  Late = {}
  PageEnds = {}
  Lapsable = {}
  MaxEnds = 1
  None = None
INVARIANT EffectivelyOnce
CHECK_DEADLOCK FALSE
