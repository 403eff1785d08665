SPECIFICATION FairUnattendedSpec
CONSTANTS
  Invoices = {i1}
  NoInvoice = none
  Workers = {w1}
  HasSageApi = TRUE
  MaxAttempts = 1
  MaxTaskRetries = 0
  AppTries = 1
  MaxSends = 1
  MaxQueued = 1
PROPERTY WriteBackIsRetried
