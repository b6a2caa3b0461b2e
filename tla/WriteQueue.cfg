\* Six frames: enough for a first write of one frame, a second write of
\* several, and frames staged behind that one.
CONSTANT MaxFrames = 6
SPECIFICATION Spec
INVARIANTS
  TypeOK
  WireInOrder
  OneWriteInFlight
  BuffersOwned
  NoStrandedFrame
PROPERTIES
  EventuallySent
  ImplementsChannel
\* A connection with nothing left to write rests.
CHECK_DEADLOCK FALSE
