CONSTANTS
  Uploads = {u1}
  NoUpload = none
  Workers = {w1, w2}
  NRows = 2
  HeaderRow = 1
  MaxAttempts = 1
  MaxTaskRetries = 1
  AppTries = 1
SPECIFICATION Spec
CHECK_DEADLOCK FALSE
SYMMETRY Symmetry
INVARIANTS
  TypeOK
  CompleteIsCleared
  NeverOverstated
  RowClearedOnce
  ClearedStaysCleared
  UploadIsHeld
  SendsWithinLimit
PROPERTIES
  ImplementsClearance
