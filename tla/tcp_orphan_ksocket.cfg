CONSTANTS
  Slots <- MC_Slots
  Addrs <- MC_Addrs
  Peers <- MC_Peers
  MaxIfs <- MC_MaxIfs
  MaxCmds <- MC_MaxCmds
SPECIFICATION Spec
INVARIANT NoOrphanKsocket
