SPECIFICATION Spec
CONSTANTS
  c1 = c1
  c2 = c2
  Clients <- TwoClients
  Cooldown = 2
  TTLs <- OneOrTwo
  DefaultTTL = 2
  MaxClock = 3
  MaxOps = 5
INVARIANTS TypeOK CooldownHolds 
SYMMETRY Twins
CHECK_DEADLOCK FALSE
