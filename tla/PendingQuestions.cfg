SPECIFICATION Spec
CONSTANTS
  None = None
  a = a
  Procs = {a, b}
  Home <- AskedByA
  SessionOf <- OneSession
  PatternOf <- OnePattern
  Questions = {q}
  Permissions = {}
  Calls = {c1, c2}
  Answers = {"A", "B"}
  MaxMishaps = 2
INVARIANTS AnsweredOnce SettledBeforeCleanup RecordedIsReturned
PROPERTY AnswerArrives
