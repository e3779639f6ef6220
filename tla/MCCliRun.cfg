SPECIFICATION Spec
CONSTANTS
  None = None
  Jobs <- MCJobs
  Cases <- MCCases
  Probes <- MCProbes
INVARIANTS
  AcceptedRuns
  SelectionCovers
  EvalAgrees
  OutcomeReported
