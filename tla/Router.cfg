CONSTANTS
  Byte = {37, 46, 47, 50, 63, 69, 70}
  TargetByte = {47, 50, 72}
  MaxLen = 7
  Beyond = {92}
  InlineSize = 4
  PeekSize = 9
SPECIFICATION Spec
INVARIANTS
  TypeOK
  DecodesPath
  StaysBelowRoot
  SplitRecomposes
  RedirectKeepsTarget
CHECK_DEADLOCK FALSE
