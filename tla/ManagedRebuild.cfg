SPECIFICATION Spec
CONSTANTS
  Absent = Absent
  MaxEdits = 1
  MaxStarts = 4
  MaxMishaps = 2
CHECK_DEADLOCK FALSE
INVARIANT KeptServerIsNew
