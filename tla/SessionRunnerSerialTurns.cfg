CONSTANTS
    None = None
    Prompts = {p1, p2}
    Shells = {s1}
    Cancels = {c1}
    MaxRunners = 3
SPECIFICATION Spec
INVARIANTS
    SerialTurns
