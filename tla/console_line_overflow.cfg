CONSTANTS
  Bytes <- MC_BytesTab
  MaxLine = 4
  InitUsers <- MC_InitUsers
  UserCmds <- MC_UserCmds
  Completions <- MC_Completions
  MaxConns = 2
  MaxCmds = 2
SPECIFICATION Spec
CHECK_DEADLOCK FALSE
INVARIANT LineKeepsTerminator
