SPECIFICATION Spec
CONSTANTS
  Invoices = {i1}
  NoInvoice = none
  Workers = {w1, w2}
  HasSageApi = TRUE
  MaxAttempts = 2
  MaxTaskRetries = 0
  AppTries = 2
  MaxSends = 2
  MaxQueued = 1
SYMMETRY Symmetry
INVARIANTS
  TypeOK
  ClearedHasIRN
  IRNIsAudited
  InFlightIsHeld
  SecondIRNNeedsMishap
  ClearedStaysCleared
  SageAgrees
  WrittenBackReachedSage
PROPERTIES
  AttemptsFallOnlyOnOverlap
  ImplementsClearance
