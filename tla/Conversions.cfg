SPECIFICATION Spec
CONSTANTS
  Reserved <- MCReserved
  Boundary = Boundary
  Slashed <- MCSlashed
  MaxPayload = 268435456
  MaxOffset = 9
  Width = 16
  Height = 4
  KeyArea = 96
  Samples = 3
  NoField = NoField
  Inputs <- MCInputs
INVARIANTS FormsRoundTrip FramesRoundTrip TouchFindsPixel ScheduleLetsGo WindowIsAFile PlatformAgrees
\* an input is converted once
CHECK_DEADLOCK FALSE
