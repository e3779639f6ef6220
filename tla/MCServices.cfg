SPECIFICATION Spec
CONSTANTS
  a = a
  b = b
  first = first
  second = second
  n = n
  m = m
  db = db
  web = web
  None = None
  Users = {a, b}
  Runs = {first, second}
  RunOf <- MCRunOf
  Networks = {n, m}
  Namings <- MCNamings
  Sidecars = {db, web}
  Specs <- MCSpecs
  Checked = {db}
  Mortal <- MCMortal
INVARIANTS
  UpIntact
  OnlyOrphansLeft
  NetworkRemoved
PROPERTIES
  CancelEnds
