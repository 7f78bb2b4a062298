SPECIFICATION Spec
CONSTANTS
  a1 = a1
  a2 = a2
  u1 = u1
  NProviders = 3
  Users <- OneUser
  Uses <- SomeUses
  Admins <- TwoAdmins
  MaxPriority = 1
  MaxOps = 3
INVARIANTS TypeOK DefaultIsActive 
SYMMETRY Twins
CHECK_DEADLOCK FALSE
