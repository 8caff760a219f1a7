CONSTANTS
  Names <- Small
  Versions = {1, 2}
  Published <- SmallPublished
  Young <- SmallYoung
  TextRank <- SmallText
  Policies <- SmallPolicies
  MaxWalks = 3
  Edits <- SmallEdits
  Latest <- SmallLatest
  Sources <- SmallSources
  SourceVersion <- SmallSourceVersion
  RootDeps <- SmallRoots
  DepChoices <- SmallDeps
  Overrides <- SmallOverrides
  NestedOverrides <- SmallNested
  BlockExotic = TRUE
  Trusted <- SmallTrusted
  CanFail = TRUE
  MaxNodes = 20
  AliasOf <- TwoAliases
SPECIFICATION TrustSpec
INVARIANTS EdgesResolve EdgesLeadToChoice NoDowngrade ResolvesAgain
PROPERTIES Ends
CHECK_DEADLOCK FALSE
