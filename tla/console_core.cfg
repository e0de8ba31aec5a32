CONSTANTS
  Bytes <- MC_Bytes
  MaxLine = 3
  InitUsers <- MC_InitUsers
  UserCmds <- MC_UserCmds
  Completions <- MC_Completions
  MaxConns = 2
  MaxCmds = 2
SPECIFICATION Spec
CHECK_DEADLOCK FALSE
INVARIANT TypeOK
INVARIANT UsernameFreedOnce
