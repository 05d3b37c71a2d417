SPECIFICATION Spec
CONSTANTS
  pair1 = pair1
  pair2 = pair2
  conf = conf
  fresh = fresh
  NotStored = NotStored
  Configs <- TwoConfigs
  InitStored <- OneStored
  Pairs <- OnePair
  ChanCap = 1
  MaxVer = 3
  Sessions <- EditingOrSaving
INVARIANTS TypeOK AtRestPriced FetchingEnds OneSaveAtATime DeployUsesForm
CHECK_DEADLOCK FALSE
