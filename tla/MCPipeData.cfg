CONSTANTS
  None = None
  Reg = {0, 1, 2}
  Value <- MCValue
  PC <- MCPC
  Reset = 0
  Insts <- MCDataInsts
  Misaligned = {}
  Delegated = {}
  EbreakHalts = {}
  Result <- MCResult
  Quotient <- MCQuotient
  Atomic <- MCAtomic
  Taken <- MCTaken
  Target <- MCTarget
  Succ <- MCSucc
  Link <- MCLink
  Vec <- MCVec
  HaltReq = "never"
  Faults = FALSE
  IllegalCsr = TRUE
SPECIFICATION FairSpec
INVARIANTS TypeOK CsrAlone
PROPERTIES ImplementsIsa Progress
