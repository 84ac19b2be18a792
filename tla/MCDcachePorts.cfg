CONSTANTS
  None = None
  Tag <- MCThreeTags
  Index <- MCIndex
  Way <- MCTwoWays
  Device <- MCDevice
  Op <- MCOp
  WalkAddr <- MCWalk
  Fences = TRUE
  Flushes = TRUE
  BusErrors = {"lsu", "scan"}
SPECIFICATION Spec
INVARIANTS TypeOK CachedOnce AnswerAwaited
PROPERTIES ImplementsMemory FenceCleans
