CONSTANTS
  f1 = f1
  f2 = f2
  none = none
  Finger <- Two
  NoFinger = none
  Points <- Drift
  Width = 800
  TapSlop = 28
  ReleaseSlop = 59
  SwipeMin = 60
  LongPress = 2
  SwipeMax = 3
  Sources <- Each
  MaxNow = 2
  Bounds <- Session
SPECIFICATION FairSpec
INVARIANT ContactsWhole
INVARIANT TapOrSwipe
INVARIANT StripPressIsNotTouch
PROPERTY ContactEnds
