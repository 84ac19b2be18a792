CONSTANTS
  None = None
  Lines = 4
  Wide <- MCWide
  Target <- MCTarget
  Unmapped = {3}
  BusBad = {1}
  Version = {0, 1}
  Patched = {0}
  Index = {0}
  Way = {0}
  Uncached = {}
  Builds <- MCBoth
  FenceBuilds = {TRUE}
SPECIFICATION FairSpec
INVARIANTS TypeOK CountersAgree BurstOwned
PROPERTIES ImplementsStream FetchProceeds
