SPECIFICATION PersonaSpec
CONSTANTS
  t1 = t1
  t2 = t2
  q1 = q1
  f1 = f1
  f2 = f2
  old = old
  Turns <- TwoTurns
  Requests <- OneRequest
  Facts <- TwoFacts
  MaxItems <- TwoAndOne
  Keep = 2
  Pending = old
INVARIANTS PersonaTypeOK AcceptedIsAppliedInMemory AppliedIsAudited
CHECK_DEADLOCK FALSE
SYMMETRY Symmetric
