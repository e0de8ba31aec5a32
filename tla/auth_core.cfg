CONSTANTS
  AUTH_RETRIES <- MC_AUTH_RETRIES
  MaxEpisodes <- MC_MaxEpisodes
  MaxLogins <- MC_MaxLogins
  OpenLogins <- MC_OpenLogins
  SelfToPeerChoices <- MC_SelfToPeer
  PeerToSelfChoices <- MC_PeerToSelf
SPECIFICATION Spec
CHECK_DEADLOCK FALSE
INVARIANT TypeOK
INVARIANT NoStaleResultApplied
PROPERTY NoRequestAfterReport
PROPERTY NoAcceptAfterFailure
PROPERTY AuthPhaseEnds
PROPERTY EpisodeRefined
