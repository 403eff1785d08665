SPECIFICATION FairSpec
CONSTANTS
  Writers = {w1, w2}
  Beat = beat
  MaxRefreshes = 2
  Rows = {r1, r2}
  Private = {r1}
  Syncs = {s1, s2}
  PageSize = 1
  MaxIds <- MCMaxIds
  Documents <- MCDocuments
  Tries = 2
  Books <- MCBooks
INVARIANT BlankVATIsCalculated
CHECK_DEADLOCK FALSE
