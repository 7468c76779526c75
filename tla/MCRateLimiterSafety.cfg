SPECIFICATION Spec
CONSTANTS
  c1 = c1  c2 = c2
  Callers = {c1, c2}
  MaxCalls = 2
  Window = 3
  MaxStall = 1
  MaxTime = 9
INVARIANTS TypeOK WindowHolds RefusalHasCause
SYMMETRY CallerSymmetry
