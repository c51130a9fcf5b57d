\* A DPoP app, three requests a window of which one is reserved, three attempts.
SPECIFICATION Spec
CONSTANTS
  Dpop = TRUE
  Life = 10
  Window = 2
  Budget = 3
  Reserve = 1
  MaxAttempts = 3
  MaxOthers = 2
  TokenFlaky = FALSE
INVARIANTS TypeOK TokenLive ReserveKept NonceNeverFatal
PROPERTIES FetchEnds FetchShrinks
