SPECIFICATION Spec
CONSTANTS
  build = build
  test = test
  None = None
  Steps = {build, test}
  Scripts <- LongLine
  Background = {test}
  FdSize = 1
  MaxLine = 3
  MaxTail = 2
  FileFills = FALSE
PROPERTIES
  CanceledReturns
