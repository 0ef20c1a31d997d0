CONSTANTS
  t1 = t1
  t2 = t2
  t3 = t3
  NoTask = NoTask
  Tasks <- ThreeTasks
  MaxDepth = 2
  MaxNotify = 1
SPECIFICATION FairSpec
PROPERTY ImplementsSyncObjects
