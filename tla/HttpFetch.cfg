SPECIFICATION Spec
CONSTANTS
  Resources = {r1, r2}
  Size = 2
  NoResource = none
  MaxAttempts = 3
  Uses = {"download", "HTTPClient", "esp"}
INVARIANTS BodiesExact
CHECK_DEADLOCK FALSE
