SPECIFICATION Spec
CONSTANTS
  Order <- MCOrder
  Dotted <- MCDotted
  Blocks <- MCBlocks
  MaxDepth = 2
  Protected <- MCProtected
  InitialCards <- MCCards
  Named <- MCNamed
  Bodies <- MCBodies
  WalkDir <- MCWalkDir
  Hidden <- MCHidden
  MaxRequests = 1
  MaxFaults = 1
  MaxCalls = 1
  NoName = NoName
  Nul = Nul
INVARIANT MoveKeepsSource
INVARIANT CopyWhole
INVARIANT ReadsRealBytes
INVARIANT WalkAccounts
PROPERTY ProtectedKept
PROPERTY StopReturns
