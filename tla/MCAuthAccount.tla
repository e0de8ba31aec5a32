---------------------------- MODULE MCAuthAccount ----------------------------
(* Model-checking instance of AuthAccount: two sessions, updates on.      *)
EXTENDS AuthAccount

MC_MaxSessions == 2
MC_MaxAcctEvents == 6
MC_AcctUpdateSet == TRUE
=============================================================================
