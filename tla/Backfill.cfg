\* A bounded range whose pages are each flushed on their own, to two custom
\* sources with provider roles; ends when finished.
SPECIFICATION PipelineSpec
CONSTANTS
  N = 6
  Uid <- RangeUid
  Bucket <- RangeBucket
  Limit = 2
  MaxBuffered = 1
  Bounded = TRUE
  Late = {}
  PageEnds = {2, 3, 5, 6}
  Lapsable = {}
  MaxEnds = 2
  None = None
  Length <- PrefixLength
  Malformed = Malformed
  Empty = ""
  Layers <- FileAndEnvironment
  Default <- Builtin
  Prefix = "okta"
  Lifetime = 5
  Transit = 1
  Skews = {0, 2}
INVARIANTS PipelineTypeOK EffectivelyOnce NeverUnregistered CredentialsLive
PROPERTIES RangeShrinks ImplementsDelivery EventuallyDelivered
CHECK_DEADLOCK FALSE
