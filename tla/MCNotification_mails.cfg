SPECIFICATION LiveSpec
CONSTANTS
  s1 = s1
  b1 = b1
  b2 = b2
  a1 = a1
  a2 = a2
  NoUser = NoUser
  Backlogs <- SomeBacklogs
  MaxRetries = 1
  MaxFaults = 2
CHECK_DEADLOCK FALSE
INVARIANTS
  NobodyMailedTwice
  OnlyCrashesLoseMail

  
