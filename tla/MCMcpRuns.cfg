SPECIFICATION McpSpec
CONSTANTS
  a = a
  b = b
  c = c
  d = d
  Jobs <- MCJobs
  Plans <- McpPlans
  MaxPar = 2
  Listings <- MCListings
  LogName <- MCLogName
INVARIANTS
  StatusHonest
  LogsOwn
PROPERTIES
  OverIsOver
  CancelEnds
