\* A folder beside Documents, which can be picked as well; the app is started twice,
\* the picker answers twice in all, and a second scene may come for the first.
SPECIFICATION Spec
CONSTANTS
  Folders = {drive}
  Documents = Documents
  Scenes = {first, second}
  None = None
  MaxLaunches = 2
  MaxPicks = 2
  MaxBlocks = 2
INVARIANT CardKept
PROPERTY KeysAppear
