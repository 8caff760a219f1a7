SPECIFICATION Spec
CONSTANTS
  Packages = {1, 2, 3, 4, 5}
  Version <- SmallVersion
  Zero = 0
  Compare <- CompareNumbers
  IsPrerelease <- Never
  Triple <- Itself
  MaxTurns = 12
  Requests <- SmallRequests
INVARIANTS
  SolvedIsSolution
  LockedSolutionIsKept
PROPERTIES
  SolverEnds
