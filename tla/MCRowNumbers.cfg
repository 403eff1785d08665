CONSTANTS
  Uploads = {u1}
  NoUpload = none
  Workers = {w1}
  NRows = 2
  HeaderRow = 1
  MaxAttempts = 1
  MaxTaskRetries = 1
  AppTries = 1
SPECIFICATION Spec
CHECK_DEADLOCK FALSE
INVARIANT EveryValidRowIsTried
