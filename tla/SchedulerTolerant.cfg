SPECIFICATION Spec
CONSTANTS
  a = a
  b = b
  c = c
  d = d
  Jobs <- MCJobs
  Plans <- SetupFailuresOnly
  MaxPar = 2
INVARIANT
  TolerantNeverFatal
