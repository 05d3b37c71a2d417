SPECIFICATION FairSpec
CONSTANTS
  pair1 = pair1
  pair2 = pair2
  conf = conf
  fresh = fresh
  NotStored = NotStored
  Configs <- TwoConfigs
  InitStored <- OneStored
  Pairs <- TwoPairs
  ChanCap = 1
  MaxVer = 2
  Sessions <- Pricing
PROPERTY EditsGetPriced
CHECK_DEADLOCK FALSE
