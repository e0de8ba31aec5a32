CONSTANTS
  MaxSessions <- MC_MaxSessions
  MaxAcctEvents <- MC_MaxAcctEvents
  AcctUpdateSet <- MC_AcctUpdateSet
SPECIFICATION Spec
CHECK_DEADLOCK FALSE
INVARIANT TypeOK
INVARIANT StopAlwaysDispatched
INVARIANT NoStaleCopyBack
INVARIANT NoUpdateAfterStop
