SPECIFICATION Spec
CONSTANTS
  None = None
  a = a
  Procs = {a, b}
  Home <- AskedByA
  SessionOf <- OneSession
  PatternOf <- OnePattern
  Questions = {}
  Permissions = {m1, m2}
  Calls = {c1, c2}
  Answers = {}
  MaxMishaps = 1
SYMMETRY Symmetry
INVARIANTS TypeOK GrantHasCause ListedWhileOpen
PROPERTY WriteOnce
