CONSTANTS
  InputScript <- SleepAndWake
  AfterWake <- QuitLater
  Phone = TRUE
  MaxQueue = 2
SPECIFICATION FairSpec
INVARIANT CarriedOverOnce
PROPERTY QuitEnds
PROPERTY ButtonKeyWakes
CHECK_DEADLOCK FALSE
