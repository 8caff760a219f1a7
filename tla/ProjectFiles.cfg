CONSTANTS
  p1 = p1
  p2 = p2
  Procs = {p1, p2}
  Pkgs <- Three
  Manifests <- Some
  Adds <- SomeAdds
  Removes = {"test"}
  Flags <- SomeFlags
  Vulnerable = {"util"}
  Fails = TRUE
  Kills = TRUE
  MaxRuns = 3
  MaxEdits = 2
  a = a
  b = b
  c = c
  x = x
  Resolutions <- SmallResolutions
  Extras = {none, overrides}
  Foreigns = {none, catalogs}
  NoExtra = none
  Orders <- SmallOrders
  PeerSuffixes <- PeerContext
SPECIFICATION FilesSpec
INVARIANTS UpToDateIsTrue RepeatIsNoop DoneIsConsistent LockReproduces RewriteIsStable EdgesAreKeys
SYMMETRY Interchangeable
CHECK_DEADLOCK FALSE
