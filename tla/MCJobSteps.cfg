SPECIFICATION FairSpec
CONSTANTS
  a = a
  b = b
  c = c
  h = h
  k = k
  Job = Job
  None = None
  MaxRetries = 2
  Steps <- MCSteps
  Plans <- MCPlans
INVARIANTS
  OutputsCaptured
  HandlersChangeNothing
  TimeoutsNamed
  RetriesStop
PROPERTIES
  Drains
  TimeoutsBound
  ImplementsDagExecution
