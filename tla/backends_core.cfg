CONSTANTS
  Protos <- MC_Protos
  ExtOutcomes <- MC_ExtWellFormed
  InitPws <- MC_InitPwStale
  SecretLines <- MC_SecretLines
  MaxLines <- MC_MaxLines
  MaxConfCmds = 1
SPECIFICATION Spec
CHECK_DEADLOCK FALSE
INVARIANT TypeOK
INVARIANT ChainFollowsPrecedence
INVARIANT NoAcceptWithoutSecret
