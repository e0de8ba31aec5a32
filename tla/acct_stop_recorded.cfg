CONSTANTS
  MaxSessions <- MC_MaxSessions
  MaxAcctEvents <- MC_MaxAcctEvents
  AcctUpdateSet <- MC_AcctUpdateSet
SPECIFICATION Spec
CHECK_DEADLOCK FALSE
PROPERTY StopEventuallyRecorded
