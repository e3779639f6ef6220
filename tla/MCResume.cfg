SPECIFICATION Spec
CONSTANTS
  lib = lib
  app = app
  check = check
  src = src
  main = main
  obj = obj
  bin = bin
  exe = exe
  None = None
  Jobs = {lib, app, check}
  Files = {src, main, obj, bin, exe}
  Plans <- MCPlans
  MaxRuns = 3
  MaxEdits = 2
INVARIANTS
  IncrementalIsClean
  ArchivesExact
  RecordedNotRepeated
