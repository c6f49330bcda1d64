SPECIFICATION Spec
CONSTANTS
  Local = Local
  Peers = {p}
  LocalEvents = 1
  PeerEvents = 0
  MaxEpoch = 1
  MaxBreaks = 0
  MaxQueue = 4
  MaxControls = 1
  BufferBound = 2
  LeaveStalled = FALSE
  RestartHeld = TRUE
  None = None
INVARIANT NoSilentLoss
PROPERTY EveryLocalEventArrives
