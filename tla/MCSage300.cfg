SPECIFICATION FairSpec
CONSTANTS
  Invoices = {i1}
  NoInvoice = NoInvoice
  Workers = {w1, w2}
  HasWebApi = TRUE
  Limit = 1
  MaxAttempts = 2
  AppTries = 1
  MaxSends = 3
INVARIANTS TypeOK SecondIRNNeedsMishap
PROPERTIES ImplementsClearance 
CHECK_DEADLOCK FALSE
