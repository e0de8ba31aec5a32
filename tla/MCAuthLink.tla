----------------------------- MODULE MCAuthLink -----------------------------
(* Model-checking instance of AuthLink: two episodes, three PAP tries, a  *)
(* login cap of one with no bundle open, every protocol choice.           *)
EXTENDS AuthLink

MC_AUTH_RETRIES == 3
MC_MaxEpisodes == 2
MC_MaxLogins == 1
MC_OpenLogins == 0
MC_SelfToPeer == {"none", "PAP"}
MC_PeerToSelf == {"none", "PAP", "CHAP"}
=============================================================================
