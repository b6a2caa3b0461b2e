CONSTANT MaxFrames = 4
SPECIFICATION Spec
INVARIANTS
  TypeOK
  SingleChain
  FramesAfterHandshake
  DrainedWhenDestroyed
PROPERTIES
  NoCallAfterFailure
  Released
CHECK_DEADLOCK FALSE
