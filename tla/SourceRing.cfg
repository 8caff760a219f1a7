CONSTANTS
  Names = {"g", "h"}
  Versions = {1}
  Published <- RingEmpty
  Young <- RingEmpty
  TextRank <- RingText
  Policies <- SmallPolicies
  MaxWalks = 1
  Edits <- RingEdits
  Latest <- RingLatest
  Sources <- RingSources
  SourceVersion <- RingVersion
  RootDeps <- RingRoots
  DepChoices <- RingDeps
  Overrides <- Nothing
  NestedOverrides <- Nothing
  BlockExotic = FALSE
  Trusted = {}
  CanFail = FALSE
  MaxNodes = 8
  AliasOf <- Nothing
SPECIFICATION TrustSpec
INVARIANT SourcesAreReused
CHECK_DEADLOCK FALSE
