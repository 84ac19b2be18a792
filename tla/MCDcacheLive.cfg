CONSTANTS
  None = None
  Tag <- MCTwoTags
  Index <- MCIndex
  Way <- MCOneWay
  Device <- MCNone
  Op <- MCOpFew
  WalkAddr <- MCWalk
  Fences = TRUE
  Flushes = TRUE
  BusErrors = {"lsu", "scan"}
SPECIFICATION FairSpec
PROPERTIES ImplementsMemory LsuServed WalkServed FenceEnds
