SPECIFICATION FairSpec
CONSTANTS
  a = a
  b = b
  c = c
  d = d
  Jobs <- MCJobs
  Plans <- MCPlans
  MaxPar = 2
INVARIANTS
  TypeOK
  NeedsSatisfied
  NoLostWakeup
  SlotsAccounted
  FailFast
  ObserverAgrees
  AllSettled
PROPERTIES
  OutcomesFinal
  UpstreamFrozen
  Termination
  ImplementsDagExecution
