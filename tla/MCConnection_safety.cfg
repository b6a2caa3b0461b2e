CONSTANTS
  Stream = {s1, s2}
  MaxConcurrent = 2
  File = {home}
  Home = home
  Gone = Gone
  ErrorLen = 1
  MaxFileLen = 2
  MaxEdits = 0
  MaxChunk = 1
  MaxWindow = 2
  MaxFrames = 12
  MaxControl = 0
SPECIFICATION SafeSpec
INVARIANTS
  ReadUntilFailure
  AnsweredBeforeDestroyed
PROPERTIES
  ImplementsExchange
SYMMETRY StreamSymmetry
CHECK_DEADLOCK FALSE
