CONSTANTS
  up = up
  power = power
  Button <- Two
  StripButtons <- Two
  KeyboardButtons <- OnlyPower
  ScriptButtons <- OnlyPower
  Power = power
  SleepKey = TRUE
  MaxQueue = 3
SPECIFICATION FairSpec
INVARIANT FingerAccounted
INVARIANT PressSpansFrame
INVARIANT EdgesTellLevel
PROPERTY EveryReleaseSeen
