SPECIFICATION Spec
CONSTANTS
  root1 = root1
  root2 = root2
  NoVars = NoVars
  Absent = Absent
  Garbage = Garbage
  Wanted <- TwoRoots
  Runs = {"apply"}
  AllowFaults = FALSE
  MaxCalls = 4
PROPERTY OutputReadsItsPod
CHECK_DEADLOCK FALSE
