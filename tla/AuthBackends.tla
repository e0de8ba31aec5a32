---------------------------- MODULE AuthBackends ----------------------------
(***************************************************************************)
(* The backend chain that an authentication worker runs (auth.c: AuthAsync *)
(* and the backends it calls: AuthExternal, RADIUS, AuthSystem, AuthOpie,  *)
(* AuthInternal with AuthGetData), one action per backend tried, in the   *)
(* order of the code.  What the outside world answers (the script's       *)
(* output, the RADIUS verdict, the password database, the OPIE keys, the  *)
(* secrets file) is a record env chosen in Init.                           *)
(*                                                                         *)
(* The result is the AuthData fields the finisher uses: status, why_fail, *)
(* params.authentic and the password the CHAP continuation compares       *)
(* against ("user": the user's secret, "empty", or "stale": whatever the  *)
(* link's params held when AuthDataNew copied them).                     *)
(***************************************************************************)
EXTENDS Naturals, Sequences, FiniteSets

CONSTANTS
  Protos,        \* auth->proto values to try
  ExtOutcomes,   \* what the external script can produce
  InitPws,       \* what params.password holds when the worker starts
  SecretLines,   \* the lines a secrets file may hold
  MaxLines,      \* bound: lines of the secrets file
  MaxConfCmds    \* bound: `set auth` commands typed while the worker runs

Backends == {"EXTERNAL", "RADIUS", "SYSTEM", "OPIE", "INTERNAL"}
WhyFail  == {"InvalidLogin", "InvalidPacket", "NotExpected", "Script"}

(* The password column of secrets line i, or what its external program   *)
(* printed; only which line it came from matters.                         *)
LineSecret(i) == <<"secret1", "secret2", "secret3">>[i]
Pws      == {"user", "empty", "stale"} \cup {LineSecret(i) : i \in 1 .. MaxLines}

ASSUME Protos \subseteq {"PAP", "CHAP", "MSCHAP", "EAP"}
ASSUME ExtOutcomes \subseteq {"popen_fail", "no_output", "pw", "pw_fail"}
ASSUME InitPws \subseteq {"empty", "stale"}

(* A secrets line as ParseLine splits it (ac >= 2): the name column and   *)
(* the password column, a plain secret or "!cmd" whose program prints a   *)
(* password ("ext_ok") or fails: popen fails, or it prints nothing or an  *)
(* empty line ("ext_fail").  The worker authenticates AuthName.           *)
AuthName == "u"
Lines == [name : {AuthName, "v", "*"}, pw : {"plain", "ext_ok", "ext_fail"}]
ASSUME SecretLines \subseteq Lines /\ MaxLines \in 0 .. 3
Files == UNION {[1 .. n -> SecretLines] : n \in 0 .. MaxLines}

(* popen_fail: popen returns NULL; no_output: the script prints nothing;  *)
(* pw: a password line and no failure line; pw_fail: both.                *)
Envs ==
  [opts : SUBSET Backends, proto : Protos, eapRadius : BOOLEAN,
   ext : ExtOutcomes, radius : {"SUCCESS", "FAIL"},
   sys : {"nouser", "match", "nomatch", "nthash"},
   opie : {"nouser", "error", "ok", "bad"},
   initPw : InitPws]

Steps == {"external", "radius", "system", "opie", "internal", "ranout", "done"}

VARIABLES env, pc, status, why, authentic, pw,
  secrets,      \* the secrets file, as the first lookup of the worker read it
  secretsRead,  \* a lookup has read it
  linkOpts,     \* l->lcp.auth.conf.options, which the console may change
  confCmds      \* `set auth` commands so far

vars == <<env, pc, status, why, authentic, pw, secrets, secretsRead,
          linkOpts, confCmds>>

TypeOK ==
  /\ env \in Envs
  /\ pc \in Steps
  /\ status \in {"UNDEF", "SUCCESS", "FAIL"}
  /\ why \in WhyFail \cup {"none"}
  /\ authentic \in Backends \cup {"none"}
  /\ pw \in Pws
  /\ secrets \in Files /\ secretsRead \in BOOLEAN
  /\ linkOpts \subseteq Backends /\ confCmds \in 0 .. MaxConfCmds
  /\ status = "FAIL" => why \in WhyFail

(* Set status and why_fail (why is left as it was unless given).          *)
Fail(w) == status' = "FAIL" /\ why' = w
Undef   == status' = "UNDEF" /\ UNCHANGED why
Success == status' = "SUCCESS" /\ UNCHANGED why

-----------------------------------------------------------------------------
(* AuthExternal, and AuthAsync returning whatever it left.  A popen       *)
(* failure returns at once; an empty stdout makes every fgets return NULL *)
(* and leaves the password buffer as it was; a third line is a failure.  *)
AuthExternal ==
  /\ pc = "external"
  /\ "EXTERNAL" \in env.opts
  /\ pc' = "done"
  /\ \/ env.ext \in {"popen_fail", "no_output"} /\ Undef /\ UNCHANGED pw
     \/ env.ext = "pw" /\ Undef /\ pw' = "user"
     \/ env.ext = "pw_fail" /\ Fail("Script") /\ pw' = "user"
  /\ UNCHANGED <<env, secrets, secretsRead, linkOpts, confCmds, authentic>>

(* A backend that is not enabled is passed over.                           *)
SkipBackend_readsLink(step, next, opt) ==
  /\ pc = step /\ opt \notin linkOpts
  /\ pc' = next
  /\ UNCHANGED <<env, secrets, secretsRead, linkOpts, confCmds, status, why, authentic, pw>>

SkipBackend(step, next, opt) ==
  /\ pc = step /\ opt \notin env.opts
  /\ pc' = next
  /\ UNCHANGED <<env, secrets, secretsRead, linkOpts, confCmds, status, why, authentic, pw>>

AuthRadius_returnAlways ==
  /\ pc = "radius"
  /\ \/ /\ env.proto = "EAP" /\ env.eapRadius
        /\ pc' = "done"
        /\ IF env.radius = "SUCCESS" THEN Success ELSE Fail("InvalidLogin")
     \/ /\ ~(env.proto = "EAP" /\ env.eapRadius) /\ "RADIUS" \in env.opts
        /\ pc' = "done"
        /\ IF env.radius = "SUCCESS" THEN Success ELSE Fail("InvalidLogin")
  /\ authentic' = IF env.radius = "SUCCESS" THEN "RADIUS" ELSE authentic
  /\ UNCHANGED <<env, secrets, secretsRead, linkOpts, confCmds, pw>>

(* EAP with eap_radius goes to RadiusEapProxy and returns; otherwise      *)
(* RadiusAuthenticate returns on success and falls through on anything    *)
(* else.  (radius.c is not in the sources.)                               *)
AuthRadius ==
  /\ pc = "radius"
  /\ \/ /\ env.proto = "EAP" /\ env.eapRadius
        /\ pc' = "done"
        /\ IF env.radius = "SUCCESS" THEN Success ELSE Fail("InvalidLogin")
     \/ /\ ~(env.proto = "EAP" /\ env.eapRadius) /\ "RADIUS" \in env.opts
        /\ pc' = IF env.radius = "SUCCESS" THEN "done" ELSE "system"
        /\ IF env.radius = "SUCCESS" THEN Success ELSE Fail("InvalidLogin")
  /\ authentic' = IF env.radius = "SUCCESS" THEN "RADIUS" ELSE authentic
  /\ UNCHANGED <<env, secrets, secretsRead, linkOpts, confCmds, pw>>

(* The chain's test after a backend: return on SUCCESS or UNDEF.          *)
NextAfter(st, next) == IF st \in {"SUCCESS", "UNDEF"} THEN "done" ELSE next

(* AuthSystem: getpwnam; PAP compares crypt(); MS-CHAP needs a "$3$$" NT  *)
(* hash and leaves the compare to the protocol (UNDEF); other protocols   *)
(* fail.  Note params.authentic is set to AUTH_CONF_OPIE.                 *)
AuthSystem ==
  LET st == CASE env.sys = "nouser" -> "FAIL"
              [] env.proto = "PAP" -> IF env.sys = "match" THEN "SUCCESS" ELSE "FAIL"
              [] env.proto = "MSCHAP" -> IF env.sys = "nthash" THEN "UNDEF" ELSE "FAIL"
              [] OTHER -> "FAIL"
  IN /\ pc = "system"
     /\ "SYSTEM" \in env.opts
     /\ pc' = NextAfter(st, "opie")
     /\ status' = st
     /\ why' = CASE st # "FAIL" -> why
                 [] env.sys # "nouser" /\ env.proto \in {"CHAP", "EAP"} -> "NotExpected"
                 [] OTHER -> "InvalidLogin"
     /\ authentic' = IF st # "FAIL" THEN "OPIE" ELSE authentic
     /\ pw' = IF st = "UNDEF" THEN "user" ELSE pw
     /\ UNCHANGED <<env, secrets, secretsRead, linkOpts, confCmds>>

(* AuthGetData's test of a line: its name is authname, or it is the       *)
(* wildcard "*" with an external program.                                  *)
LineMatches_anyWildcard(l) == l.name = AuthName \/ l.name = "*"

LineMatches(l) ==
  \/ l.name = AuthName
  \/ l.name = "*" /\ l.pw \in {"ext_ok", "ext_fail"}

(* AuthGetData's loop over the lines of the secrets file from line i: the  *)
(* first matching line ends the scan, with its secret (its index), or -1   *)
(* (0 here) when its external program fails; the end of the file is -1.   *)
RECURSIVE ScanSecrets(_, _)
ScanSecrets(f, i) ==
  IF i > Len(f) THEN 0
  ELSE IF LineMatches(f[i])
       THEN IF f[i].pw = "ext_fail" THEN 0 ELSE i
       ELSE ScanSecrets(f, i + 1)

AuthGetData(f) == ScanSecrets(f, 1)

(* The file a lookup reads: the one the worker's first lookup read.        *)
SecretsFile == IF secretsRead THEN {secrets} ELSE Files

ReadFile(f) == secrets' = f /\ secretsRead' = TRUE

(* AuthOpie: opiechallenge (1: no such user, other: system error), then   *)
(* PAP verifies the one-time password; other protocols get the current   *)
(* OTP computed from the secret AuthGetData finds (status UNDEF), or     *)
(* fail when it finds none.                                                *)
AuthOpie ==
  /\ pc = "opie"
  /\ "OPIE" \in env.opts
  /\ \E f \in SecretsFile :
       LET looksUp == env.opie \in {"ok", "bad"} /\ env.proto # "PAP"
           i == AuthGetData(f)
           st == CASE env.opie \in {"nouser", "error"} -> "FAIL"
                   [] env.proto = "PAP" -> IF env.opie = "ok" THEN "SUCCESS" ELSE "FAIL"
                   [] OTHER -> IF i # 0 THEN "UNDEF" ELSE "FAIL"
       IN /\ pc' = NextAfter(st, "internal")
          /\ status' = st
          /\ why' = CASE st # "FAIL" -> why
                      [] env.opie = "error" -> "NotExpected"
                      [] OTHER -> "InvalidLogin"
          /\ authentic' = IF st # "FAIL" THEN "OPIE" ELSE authentic
          /\ pw' = IF st = "UNDEF" THEN LineSecret(i) ELSE pw
          /\ IF looksUp THEN ReadFile(f) ELSE UNCHANGED <<secrets, secretsRead>>
  /\ UNCHANGED <<env, linkOpts, confCmds>>

(* AuthAsync sets params.authentic = AUTH_CONF_INTERNAL, then             *)
(* AuthInternal: AuthGetData copies the secret into params.password       *)
(* (UNDEF), or fails and the chain runs out.                               *)
AuthInternal ==
  /\ pc = "internal"
  /\ "INTERNAL" \in env.opts
  /\ authentic' = "INTERNAL"
  /\ \E f \in SecretsFile :
       LET i == AuthGetData(f)
       IN /\ ReadFile(f)
          /\ \/ i # 0 /\ Undef /\ pw' = LineSecret(i) /\ pc' = "done"
             \/ i = 0 /\ Fail("InvalidLogin") /\ pc' = "ranout" /\ UNCHANGED pw
  /\ UNCHANGED <<env, linkOpts, confCmds>>

(* AuthSetCommand, "set auth enable|disable|yes|no" of a backend option  *)
(* (EnableCommand and the like on l->lcp.auth.conf.options), typed at the *)
(* console on the main thread while the worker thread runs.               *)
SetAuthOption(o, on) ==
  /\ pc # "done"
  /\ confCmds < MaxConfCmds /\ confCmds' = confCmds + 1
  /\ linkOpts' = IF on THEN linkOpts \cup {o} ELSE linkOpts \ {o}
  /\ UNCHANGED <<env, pc, status, why, authentic, pw, secrets, secretsRead>>

(* "ran out of backends": FAIL with AUTH_FAIL_INVALID_LOGIN.              *)
RanOut_noWhy ==
  /\ pc = "ranout"
  /\ pc' = "done"
  /\ status' = "FAIL"
  /\ UNCHANGED <<env, secrets, secretsRead, linkOpts, confCmds, why, authentic, pw>>

RanOut ==
  /\ pc = "ranout"
  /\ pc' = "done"
  /\ Fail("InvalidLogin")
  /\ UNCHANGED <<env, secrets, secretsRead, linkOpts, confCmds, authentic, pw>>

-----------------------------------------------------------------------------
(* A worker starts with the AuthData AuthDataNew made: status UNDEF, no   *)
(* why_fail, the params and the conf (auth->conf = l->lcp.auth.conf)      *)
(* copied from the link.                                                   *)
Init ==
  /\ env \in Envs
  /\ pc = "external"
  /\ status = "UNDEF"
  /\ why = "none"
  /\ authentic = "none"
  /\ pw = env.initPw
  /\ secrets = <<>> /\ secretsRead = FALSE
  /\ linkOpts = env.opts /\ confCmds = 0

Next ==
  \/ AuthExternal
  \/ SkipBackend("external", "radius", "EXTERNAL")
  \/ AuthRadius
  \/ /\ ~(env.proto = "EAP" /\ env.eapRadius)
     /\ SkipBackend("radius", "system", "RADIUS")
  \/ AuthSystem
  \/ SkipBackend("system", "opie", "SYSTEM")
  \/ AuthOpie
  \/ SkipBackend("opie", "internal", "OPIE")
  \/ AuthInternal
  \/ SkipBackend("internal", "ranout", "INTERNAL")
  \/ RanOut
  \/ \E o \in Backends, on \in BOOLEAN : SetAuthOption(o, on)

Spec == Init /\ [][Next]_vars

-----------------------------------------------------------------------------
(* The chain as spec 4.5 states it, for reference: the backends in order  *)
(* of precedence, each with the result it produces and whether that      *)
(* result is decisive; the first decisive result of an applicable backend *)
(* wins, and a chain without one fails with InvalidLogin.                 *)
Precedence == <<"EXTERNAL", "EAPPROXY", "RADIUS", "SYSTEM", "OPIE", "INTERNAL">>

(* The lookup as spec 4.6 states it: the first line whose name is the    *)
(* user's, or "*" with a "!" password, gives the password; an external   *)
(* program that prints none gives no password.  0: not found.            *)
SpecLookup(f) ==
  LET hits == {i \in DOMAIN f : \/ f[i].name = AuthName
                                \/ f[i].name = "*" /\ f[i].pw # "plain"}
      first == CHOOSE i \in hits : \A j \in hits : i <= j
  IN IF hits = {} \/ f[first].pw = "ext_fail" THEN 0 ELSE first

Applicable(b, e) ==
  CASE b = "EAPPROXY" -> e.proto = "EAP" /\ e.eapRadius
    [] b = "RADIUS"   -> "RADIUS" \in e.opts /\ ~(e.proto = "EAP" /\ e.eapRadius)
    [] OTHER          -> b \in e.opts

SpecResult(b, e, f) ==
  CASE b = "EXTERNAL" ->
         [status |-> IF e.ext = "pw_fail" THEN "FAIL" ELSE "UNDEF",
          pw |-> "user", decisive |-> e.ext \in {"pw", "pw_fail"}]
    [] b \in {"EAPPROXY", "RADIUS"} ->
         [status |-> e.radius, pw |-> e.initPw,
          decisive |-> b = "EAPPROXY" \/ e.radius = "SUCCESS"]
    [] b = "SYSTEM" ->
         LET st == IF e.sys = "nouser" THEN "FAIL"
                   ELSE IF e.proto = "PAP" /\ e.sys = "match" THEN "SUCCESS"
                   ELSE IF e.proto = "MSCHAP" /\ e.sys = "nthash" THEN "UNDEF"
                   ELSE "FAIL"
         IN [status |-> st, pw |-> "user", decisive |-> st # "FAIL"]
    [] b = "OPIE" ->
         LET st == IF e.opie \in {"nouser", "error"} THEN "FAIL"
                   ELSE IF e.proto = "PAP"
                        THEN (IF e.opie = "ok" THEN "SUCCESS" ELSE "FAIL")
                   ELSE IF SpecLookup(f) # 0 THEN "UNDEF" ELSE "FAIL"
         IN [status |-> st, decisive |-> st # "FAIL",
             pw |-> IF st = "UNDEF" THEN LineSecret(SpecLookup(f)) ELSE "user"]
    [] b = "INTERNAL" ->
         [status |-> IF SpecLookup(f) # 0 THEN "UNDEF" ELSE "FAIL",
          decisive |-> SpecLookup(f) # 0,
          pw |-> IF SpecLookup(f) # 0 THEN LineSecret(SpecLookup(f)) ELSE "user"]

RECURSIVE FirstDecisive(_, _, _)
FirstDecisive(order, e, f) ==
  IF order = <<>>
  THEN [status |-> "FAIL", pw |-> e.initPw]
  ELSE LET b == Head(order)
           r == SpecResult(b, e, f)
       IN IF Applicable(b, e) /\ r.decisive
          THEN [status |-> r.status, pw |-> r.pw]
          ELSE FirstDecisive(Tail(order), e, f)

SpecChain(e, f) == FirstDecisive(Precedence, e, f)

(* What the CHAP continuation acts on: the status, and for UNDEF the      *)
(* password it compares the peer's response with.                        *)
Verdict(st, p) == IF st = "UNDEF" THEN <<st, p>> ELSE <<st>>

-----------------------------------------------------------------------------
(* Properties.                                                             *)

(* AuthAsync's chain of returns and fall-throughs gives, for every        *)
(* configuration, every answer of RADIUS, System and OPIE, every secrets   *)
(* file and every well-formed answer of the external script (a password  *)
(* or a failure line), the verdict of spec 4.5: the first decisive        *)
(* backend in precedence order wins.  It is checked only over those        *)
(* script answers: on a popen failure or empty output AuthExternal        *)
(* returns UNDEF and AuthAsync returns (auth.c:944-948) where spec 4.5     *)
(* would fall through, which this property would report.                  *)
ChainFollowsPrecedence ==
  pc = "done" =>
    Verdict(status, pw) = Verdict(SpecChain(env, secrets).status,
                                  SpecChain(env, secrets).pw)

(* The user's own secrets: the external script's answer, the system's NT *)
(* hash, and the password of a secrets line for the user or what the      *)
(* program of a "*" line prints for the user.                            *)
UsersSecrets ==
  {"user"} \cup {LineSecret(i) : i \in {j \in DOMAIN secrets :
                   \/ secrets[j].name = AuthName
                   \/ secrets[j].name = "*" /\ secrets[j].pw # "plain"}}

(* A worker that leaves status UNDEF hands the CHAP continuation a        *)
(* password to compare the response with; it is always a secret of the   *)
(* user's own (AuthGetData never takes a plain "*" line), never an empty  *)
(* or left-over buffer, so no peer is accepted without knowing it.        *)
NoAcceptWithoutSecret == (pc = "done" /\ status = "UNDEF") => pw \in UsersSecrets

=============================================================================
