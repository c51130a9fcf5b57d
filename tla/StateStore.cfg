\* Two processes, a TTL of two units, three instants.
SPECIFICATION Spec
CONSTANTS
  Streams <- TwoStreams
  Batches <- TwoBatches
  Ttl = 2
  MaxNow = 2
  None = None
INVARIANTS TypeOK AckedSurvives StampNeedsCommit SeenOnlyCommitted NoAbandonedLock
PROPERTIES TtlHonoured ImplementsAtomicStore
