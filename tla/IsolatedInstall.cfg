CONSTANTS
  Ids <- Some
  Plans <- SomePlans
  Limit = 2
  Clones = TRUE
  Fails = TRUE
  MaxInstalls = 2
  ScriptsOf <- SomeScripts
  Policies <- SomePolicies
SPECIFICATION InstallSpec
INVARIANTS LinksLead EdgesWired DepsBuiltFirst
CHECK_DEADLOCK FALSE
