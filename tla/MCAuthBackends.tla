--------------------------- MODULE MCAuthBackends ---------------------------
(* Model-checking instances of AuthBackends.  The core run takes external *)
(* scripts that answer with a password line; the others add the script's *)
(* fatal errors and a left-over password in the link's params.           *)
EXTENDS AuthBackends

MC_Protos == {"PAP", "CHAP", "MSCHAP", "EAP"}
MC_ExtWellFormed == {"pw", "pw_fail"}
MC_ExtAll == {"popen_fail", "no_output", "pw", "pw_fail"}
MC_InitPwStale == {"stale"}
MC_InitPwAll == {"empty", "stale"}

(* Lines for the user, for another user ("v": never matched, so one kind  *)
(* stands for all) and the wildcard; files of up to two lines put a line  *)
(* of each kind before and after every other.                             *)
MC_SecretLines ==
  [name : {"u", "*"}, pw : {"plain", "ext_ok", "ext_fail"}]
    \cup {[name |-> "v", pw |-> "plain"]}
MC_MaxLines == 2
=============================================================================
