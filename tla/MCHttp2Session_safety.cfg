CONSTANTS
  Stream = {s1, s2, s3}
  MaxConcurrent = 2
  File = {home}
  Home = home
  Gone = Gone
  ErrorLen = 2
  MaxFileLen = 3
  MaxEdits = 1
  MaxChunk = 2
  MaxWindow = 3
SPECIFICATION SafeSpec
INVARIANTS
  TypeOK
  TableMatchesLibrary
  NoRequestForgotten
  ReadCallbackFindsStream
  BodyContiguous
  BodyComplete
SYMMETRY StreamSymmetry
CHECK_DEADLOCK FALSE
