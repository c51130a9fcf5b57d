\* No process ends: a uid served on two pages of one open batch.
SPECIFICATION Spec
CONSTANTS
  N = 3
  Uid <- EchoUid
  Bucket <- EchoBucket
  Limit = 1
  MaxBuffered = 3
  Bounded = FALSE
  Late = {}
  PageEnds = {}
  Lapsable = {}
  MaxEnds = 0
  None = None
INVARIANT EffectivelyOnce
CHECK_DEADLOCK FALSE
