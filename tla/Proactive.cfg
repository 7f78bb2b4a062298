SPECIFICATION Spec
CONSTANTS
  s1 = s1
  t1 = t1
  nudge = nudge
  care = care
  Schedulers <- One
  Testers <- OneTester
  Nudges <- NudgeOnly
  Others <- CareOnly
  Cooldown = 2
  Inactivity = 1
  Quiet <- QuietEarly
  LogWindow = 3
  MsgWindow = 3
  MaxTime = 4
  MaxMsgs = 3
  MaxCrashes = 1
  TriggerCooldown <- Cooldowns
INVARIANTS TypeOK  
CHECK_DEADLOCK FALSE
