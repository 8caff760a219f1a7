CONSTANTS
  j1 = j1
  j2 = j2
  j3 = j3
  t1 = t1
  t2 = t2
  d1 = d1
  d2 = d2
  d3 = d3
  lib = lib
  bin = bin
  doc = doc
  Jobs = {j1, j2, j3}
  Contents = {lib, bin, doc}
  Tarballs = {t1, t2}
  FilesOf <- TwoTarballs
  Dests = {d1, d2, d3}
  Plans <- HomePlans
  i1 = i1
  i2 = i2
  i3 = i3
  c1 = c1
  c2 = c2
  main = main
  dev = dev
  NoRef = NoRef
  NoLock = NoLock
  NoCommit = NoCommit
  Installs = {i1, i2, i3}
  Commits = {c1, c2}
  Branches = {main, dev}
  Main = main
  Fetches <- SomeFetches
  MaxMoves = 1
  Process = {p1, p2}
  Registries <- SomeRegistries
  Missing = Missing
  Torn = Torn
  MaxPublished = 2
  MaxClock = 2
  MaxCalls = 3
  MaxAttempts = 2
SPECIFICATION HomeSpec
INVARIANTS IndexIsWhole StoreIntact RerunSucceeds DoneIsComplete CacheIsGood CopiesWhatIsPinned
           AnswersAreCurrent TimesWhenRequired
SYMMETRY AnyProcess
CHECK_DEADLOCK FALSE
