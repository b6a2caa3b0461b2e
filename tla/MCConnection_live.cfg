CONSTANTS
  Stream = {s1}
  MaxConcurrent = 2
  File = {home}
  Home = home
  Gone = Gone
  ErrorLen = 1
  MaxFileLen = 1
  MaxEdits = 1
  MaxChunk = 1
  MaxWindow = 1
  MaxFrames = 12
  MaxControl = 1
SPECIFICATION Spec
PROPERTIES
  AnswerReachesPeer
  GoawayReachesPeer
CHECK_DEADLOCK FALSE
