SPECIFICATION FairSpec
CONSTANTS
  root1 = root1
  root2 = root2
  NoVars = NoVars
  Absent = Absent
  Garbage = Garbage
  Wanted <- TwoRoots
  Runs = {"sync", "apply", "destroy"}
  AllowFaults = TRUE
  MaxCalls = 3
INVARIANT TypeOK
PROPERTY ImplementsRunner
PROPERTY StoresItsOwn
PROPERTY CallEnds
CHECK_DEADLOCK FALSE
