SPECIFICATION RSpec
CONSTANTS
  Version <- SmallVersion
  Zero <- ZeroVersion
  Compare <- Precedence
  IsPrerelease <- HasPre
  Triple <- TripleOf
  Texts <- SmallTexts
  Partners <- SmallPartners
  Probes <- SmallProbes
  MaxSteps = 2
INVARIANTS ReadsAsWritten PrereleaseIsNamed SubsetIsExact
CHECK_DEADLOCK FALSE
