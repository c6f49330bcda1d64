SPECIFICATION Spec
CONSTANTS
  Local = Local
  Peers = {p}
  LocalEvents = 2
  PeerEvents = 1
  MaxEpoch = 0
  MaxBreaks = 1
  MaxQueue = 3
  MaxControls = 1
  BufferBound = 2
  LeaveStalled = FALSE
  RestartHeld = FALSE
  None = None
INVARIANTS TypeOK NoSilentLoss AppliedInOrder ResumeIsCovered
