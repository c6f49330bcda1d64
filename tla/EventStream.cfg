SPECIFICATION Spec
CONSTANTS
  MaxSeq = 3
  MaxEpoch = 1
  MaxLosses = 2
  MaxBeats = 1
  MirrorWindow = 2
  Durable = {1}
  None = None
INVARIANTS TypeOK NoSilentLoss AppliedInOrder ServableIsRetained IdsNeverDecrease
PROPERTY ResyncOnlyForLoss
