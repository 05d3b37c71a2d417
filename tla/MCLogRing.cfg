SPECIFICATION Spec
CONSTANTS
  a = a
  b = b
  w1 = w1
  w2 = w2
  ch1 = ch1
  ch2 = ch2
  NoLine = NoLine
  None = None
  Line <- TwoLines
  Writer <- TwoWriters
  Batch <- Batches
  Chan <- TwoChans
  Cap = 3
INVARIANT TypeOK
INVARIANT LogCaughtUp
PROPERTY ImplementsBoundedLog
