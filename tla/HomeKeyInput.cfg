CONSTANTS
  LongPress = 2
  \* the strip alone, and every source at once
  Sources = {{}, {"keyboard", "script"}}
  MaxQueue = 3
SPECIFICATION FairSpec
PROPERTY OneReportPerPress
PROPERTY HoldBecomesLongPress
