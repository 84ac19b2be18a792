CONSTANTS
  None = None
  Reg = {0}
  Value <- MCValue
  PC <- MCPC
  Reset = 0
  Insts <- MCTrapInsts
  Misaligned = {}
  Delegated = {}
  EbreakHalts = {"M"}
  Result <- MCResult
  Quotient <- MCQuotient
  Atomic <- MCAtomic
  Taken <- MCTaken
  Target <- MCTarget
  Succ <- MCSucc
  Link <- MCLink
  Vec <- MCVec
  HaltReq = "not_in_step"
  Faults = TRUE
  IllegalCsr = FALSE
SPECIFICATION Spec
INVARIANTS AccessCommits RestFlushed
PROPERTIES ImplementsIsa
