SPECIFICATION Spec
CONSTANTS
  build = build
  test = test
  None = None
  Steps = {build, test}
  Scripts <- MCScripts
  Background = {test}
  FdSize = 1
  MaxLine = 3
  MaxTail = 2
  FileFills = TRUE
INVARIANTS
  OutputComplete
  TailHonest
PROPERTIES
  CanceledReturns
