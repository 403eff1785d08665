SPECIFICATION PollSpec
CONSTANTS
  MaxId = 2
  Old = {}
  Pullers = {p1}
  Counts = {2}
  Afters = {}
  PollLimit = 1
  None = none
PROPERTY PostedIsPolled
