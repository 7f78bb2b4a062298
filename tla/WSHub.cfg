SPECIFICATION Spec
CONSTANTS
  n1 = n1
  n2 = n2
  u1 = u1
  u2 = u2
  a = a
  b = b
  c = c
  p1 = p1
  Nodes <- TwoNodes
  Users <- TwoUsers
  Sessions <- ThreeSessions
  Publishers <- OnePublisher
  Home <- Apart
  UserOf <- SameUser
  MaxEvents = 2
  MaxDrops = 1
INVARIANTS TypeOK NoLeak  
SYMMETRY Twins
CHECK_DEADLOCK FALSE
