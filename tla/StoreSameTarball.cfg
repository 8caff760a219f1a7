CONSTANTS
  j1 = j1
  j2 = j2
  j3 = j3
  t1 = t1
  t2 = t2
  d1 = d1
  d2 = d2
  d3 = d3
  lib = lib
  bin = bin
  doc = doc
  Jobs = {j1, j2, j3}
  Contents = {lib, bin, doc}
  Tarballs = {t1, t2}
  FilesOf <- TwoTarballs
  Dests = {d1, d2, d3}
  Plans <- SameTarball
SPECIFICATION Spec
INVARIANTS ConcurrentIngestIsSafe
CHECK_DEADLOCK FALSE
