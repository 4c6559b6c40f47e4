SPECIFICATION LinkFairSpec
CONSTANTS
  Connects = 3
  Processes = 2
  HealthTTL = 2
  NoHealth = NoHealth
INVARIANTS
  LinkTypeOK
  NotDeafUnlessMissed
PROPERTIES
  BootSubscribes
  DeadIsForgotten
CHECK_DEADLOCK FALSE
