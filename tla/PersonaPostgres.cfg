SPECIFICATION PersonaSpec
CONSTANTS
  t1 = t1
  t2 = t2
  q1 = q1
  f1 = f1
  f2 = f2
  old = old
  Turns <- TwoTurns
  Requests <- Nobody
  Facts <- TwoFacts
  MaxItems <- One
  Keep = 2
  Pending = old
INVARIANTS AcceptedIsApplied
CHECK_DEADLOCK FALSE
SYMMETRY Symmetric
