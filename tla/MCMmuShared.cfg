CONSTANTS
  NoAddr = NoAddr
  NonCanonical = NonCanonical
  NoPte = NoPte
  Asid = {1}
  Vpn2 <- MCVpn2
  Vpn1 <- MCVpn1Two
  Vpn0 <- MCVpn0One
  Leaf = {"A"}
  IndexSize = 1
  IWay4K = {1}
  IWaySp = {2}
  DWaySp = {2}
  L2Way = {1}
  InitTable <- MCTableMix
  Patch <- MCNoRequest
  IRequest <- MCIRequestProt
  DRequest <- MCRequestOne
  Satp <- MCSatpBare
  Priv = {"S"}
  BareSwitch = TRUE
  StrayAnswers = {}
  MaxAhead = 1
SPECIFICATION FairSpec
INVARIANT WaiterIsServed
PROPERTIES DataServed FetchServed
