SPECIFICATION Spec
CONSTANTS
  NumChannels = 1
  NumPrograms = 2
  Data = {0, 1}
  Version = 42
  Blank = 255
  MaxLines = 2
  Patience = 14
  MaxCrashes = 0
INVARIANT
  ResetDone
