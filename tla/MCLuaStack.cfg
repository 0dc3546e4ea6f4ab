SPECIFICATION Spec
CONSTANTS
  MaxStack = 60
  ErrorExtra = 20
  Frames = {2, 15}
INVARIANT PushesChecked
