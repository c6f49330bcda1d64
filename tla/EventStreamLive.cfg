SPECIFICATION Spec
CONSTANTS
  MaxSeq = 2
  MaxEpoch = 1
  MaxLosses = 1
  MaxBeats = 1
  MirrorWindow = 0
  Durable = {1}
  None = None
PROPERTY EveryEventArrives
