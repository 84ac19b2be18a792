CONSTANTS
  None = None
  Tag <- MCTwoTags
  Index <- MCIndex
  Way <- MCOneWay
  Device <- MCNone
  Op <- MCOpFew
  WalkAddr <- MCWalkTwo
  Fences = TRUE
  Flushes = FALSE
  BusErrors = {}
SPECIFICATION Spec
PROPERTY FlushKeepsMemory
