CONSTANTS
  Uploads = {u1, u2}
  NoUpload = none
  Workers = {w1, w2}
  NRows = 1
  HeaderRow = 0
  MaxAttempts = 1
  MaxTaskRetries = 0
  AppTries = 1
SPECIFICATION Spec
CHECK_DEADLOCK FALSE
SYMMETRY Symmetry
INVARIANT FileClearedOnce
