\* A tail and a backfill of the same window, either of which may die once, and
\* an operator who reconciles it when one of them is past it.
SPECIFICATION AuditSpec
CONSTANTS
  N = 3
  Uid <- LogUid
  Bucket <- LogBucket
  Limit = 2
  MaxBuffered = 3
  PageEnds = {1}
  Lapsable = {}
  MaxEnds = 1
  None = None
  Event <- LogEvent
  Blank = ""
  Dated = {1, 3}
  Windows <- Closed
  Unasked = Unasked
  Tables <- Sources
INVARIANTS NoLossAcross StampsHonestAcross CleanIsTrue MissingIsTrue
PROPERTY OverlapKeepsPromises
