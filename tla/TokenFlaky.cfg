\* The same with a token endpoint that may answer 429 or 5xx.
SPECIFICATION Spec
CONSTANTS
  Dpop = TRUE
  Life = 10
  Window = 2
  Budget = 3
  Reserve = 1
  MaxAttempts = 3
  MaxOthers = 2
  TokenFlaky = TRUE
INVARIANT TransientAbsorbed
