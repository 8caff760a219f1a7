CONSTANTS
  Keys = {a, b, c}
  OtherPlatform = {c}
  Workers = {w1, w2}
  NoKey = NoKey
  Cap = 1
  MaxPlacements = 4
SPECIFICATION Spec
INVARIANTS NoLostFetch FetchedOnce RootCause
PROPERTIES ImplementsContract
CHECK_DEADLOCK FALSE
