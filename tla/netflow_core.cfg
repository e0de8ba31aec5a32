CONSTANTS
  MaxInits <- MC_MaxInits
  MaxIfaces <- MC_MaxIfaces
SPECIFICATION Spec
CHECK_DEADLOCK FALSE
INVARIANT TypeOK
INVARIANT NoOrphanOwnNode
INVARIANT NodeIdNamesLiveNode
INVARIANT TempHookRemoved
INVARIANT IfaceSuccessNamed
