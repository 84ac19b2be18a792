CONSTANTS
  NoAddr = NoAddr
  NonCanonical = NonCanonical
  NoPte = NoPte
  Asid = {1}
  Vpn2 <- MCVpn2
  Vpn1 <- MCVpn1
  Vpn0 <- MCVpn0
  Leaf = {"A", "B"}
  IndexSize = 2
  IWay4K = {1}
  IWaySp = {2}
  DWaySp = {2}
  L2Way = {1}
  InitTable <- MCTable
  Patch <- MCPatch
  IRequest <- Page
  DRequest <- MCRequestAll
  Satp <- MCSatp
  Priv = {"S"}
  BareSwitch = FALSE
  StrayAnswers = {}
  MaxAhead = 2
SPECIFICATION Spec
INVARIANTS TypeOK DataFrameLive
