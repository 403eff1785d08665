SPECIFICATION FairSpec
CONSTANTS
  Files = {f1}
  Mailed = {f1}
  NoFile = none
  Checkers = {c1, c2}
  Setups <- MCSetups
  HasDirs = TRUE
  MaxMails = 2
INVARIANTS
  
  NotPassedOver
  RepeatIsNewest
PROPERTY FileIsTaken
CHECK_DEADLOCK FALSE
