SPECIFICATION Spec
CONSTANTS
  q1 = q1  q2 = q2
  Requests = {q1, q2}
  Ids = {1, 2}
  MaxTime = 1
INVARIANTS TypeOK VerifiedProvesIntact MismatchProvesChange
SYMMETRY RequestSymmetry
