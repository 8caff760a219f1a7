CONSTANTS
  a = a
  b = b
  c = c
  Names = {a, b, c}
  OtherPlatform = {b}
  Workers = {w1, w2}
  Resolver = resolver
  NoKey = NoKey
  Cap = 1
  MaxPlacements = 3
  MaxFlights = 2
  RootDeps <- CycleRoot
  Deps <- Cycle
  SemSlots = 1
  WarmDepth = 2
SPECIFICATION Spec
INVARIANTS SliceAtHand Complete NoLeak SingleFlight
PROPERTIES Returns
CHECK_DEADLOCK FALSE
