CONSTANTS
  Protos <- MC_Protos
  ExtOutcomes <- MC_ExtAll
  InitPws <- MC_InitPwAll
  SecretLines <- MC_SecretLines
  MaxLines <- MC_MaxLines
  MaxConfCmds = 1
SPECIFICATION Spec
CHECK_DEADLOCK FALSE
INVARIANT NoAcceptWithoutSecret
