SPECIFICATION Spec
CONSTANTS
  Absent = Absent
  Verifies = {v}
  Overlap = FALSE
  PreSplit = FALSE
  MaxWrites = 2
  Proposals = {p, q, s}
  Surfaces = {s}
  StaleVerbs = {q}
  maxRetries = 2
  MaxWorld = 2
  MaxDrains = 2
INVARIANTS NeverInterleaves HoldCoversCommit AppliedOncePerAnswer NotForThisQueue
PROPERTIES ModeMovesOnlyByCommit QueueComesToRest
