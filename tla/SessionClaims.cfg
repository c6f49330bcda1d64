SPECIFICATION Spec
CONSTANTS
  None = None
  a = a
  b = b
  t1 = t1
  t2 = t2
  d1 = d1
  Owners = {a, b}
  Turns = {t1, t2}
  Shells = {t2}
  Drains = {d1}
  OwnerOf <- MCOwnerOf
  MaxMishaps = 1
INVARIANTS DoubleOwnershipFlagged ExecutingImpliesOwning NothingLeaks
PROPERTY GhostsFade
