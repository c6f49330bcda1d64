SPECIFICATION Spec
CONSTANTS
  None = None
  Windows = {w1, w2}
  Engines = {e1, e2}
  MaxMishaps = 1
INVARIANTS TurnsSurvive ServedIsRecorded
PROPERTY AbandonedExits
