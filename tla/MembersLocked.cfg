CONSTANTS
  Packages = {"a", "b", "c", "d"}
  Paths <- Tree
  Releases = {1, 2}
  Layouts <- Upgrades
  Targets = {"packages/d", "vendor/d"}
  Limit = 2
  Clones = TRUE
  Fails = TRUE
  MaxInstalls = 3
SPECIFICATION LinkSpec
INVARIANT MembersAreLinked
CHECK_DEADLOCK FALSE
