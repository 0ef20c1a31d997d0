CONSTANTS
  task = task
  Render <- OneTask
  Main = main
  NoThread = nobody
  Combined = TRUE
  MaxFrame = 2
  MaxShots = 2
SPECIFICATION FairSpec
INVARIANT NeverTorn
INVARIANT PlanesMatchBase
PROPERTY LastFrameShown
