SPECIFICATION McpSpec
CONSTANTS
  a = a
  b = b
  c = c
  d = d
  Jobs <- MCJobs
  Plans <- UnvalidatedOnly
  MaxPar = 2
  Listings <- MCListings
  LogName <- MCLogName
INVARIANTS
  PassedIsComplete
