CONSTANTS
  Stream = {s1, s2}
  MaxConcurrent = 2
  File = {home}
  Home = home
  Gone = Gone
  ErrorLen = 1
  MaxFileLen = 2
  MaxEdits = 1
  MaxChunk = 2
  MaxWindow = 2
SPECIFICATION Spec
PROPERTIES
  EventuallyAnswered
CHECK_DEADLOCK FALSE
