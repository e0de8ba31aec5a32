---------------------------- MODULE AuthAccount ----------------------------
(***************************************************************************)
(* Session accounting of one link in mpd (auth.c: AuthAccountStart,       *)
(* AuthAccountTimeout, AuthAccount, AuthAccountFinish, AuthCleanup).       *)
(*                                                                         *)
(* Each START, UPDATE or STOP is a paction on a->acct_thread whose body   *)
(* writes one accounting record (RADIUS Accounting-Request, utmp/wtmp).   *)
(* paction_cancel marks the action canceled and clears the handle; the    *)
(* body thread is cancelled at its next cancellation point, so it may or  *)
(* may not still write its record, and it runs outside gGiantMutex.  The  *)
(* finisher runs under the mutex and sees was_canceled.                   *)
(*                                                                         *)
(* The link comes up and goes down under the control of LCP and the       *)
(* bundle (not in the sources): after authentication succeeds the session *)
(* accountant is started, on link-down STOP is sent and AuthCleanup runs. *)
(***************************************************************************)
EXTENDS Naturals, Sequences, FiniteSets

CONSTANTS
  MaxSessions,     \* bound: number of times the link comes up
  MaxAcctEvents,   \* bound: accounting actions started, over all sessions
  AcctUpdateSet    \* acct_update > 0 (from params or conf): periodic updates

ASSUME MaxSessions \in Nat \ {0}
ASSUME MaxAcctEvents \in Nat \ {0}
ASSUME AcctUpdateSet \in BOOLEAN

AcctTypes == {"START", "UPDATE", "STOP"}

VARIABLES
  linkUp,       \* the link is up (between session start and link-down)
  session,      \* number of the current (or last) session
  acctTimer,    \* a->acct_timer running
  acctThread,   \* a->acct_thread: id of the paction it refers to, 0 = NULL
  acctWorkers,  \* pactions alive: body running or finisher pending
  nextId,       \* id of the next paction
  paramsFrom,   \* session whose AuthData last wrote a->params, 0 = cleared
  dispatched,   \* history: <<type, session>> of every paction started
  records       \* history: <<type, session>> written by the backends

vars == <<linkUp, session, acctTimer, acctThread, acctWorkers, nextId,
          paramsFrom, dispatched, records>>

AcctWorker == [id : Nat \ {0}, type : AcctTypes, sess : Nat,
               canceled : BOOLEAN, done : BOOLEAN]

TypeOK ==
  /\ linkUp \in BOOLEAN
  /\ session \in 0..MaxSessions
  /\ acctTimer \in BOOLEAN
  /\ acctThread \in {0} \cup {w.id : w \in acctWorkers}
  /\ acctWorkers \subseteq AcctWorker
  /\ nextId \in Nat \ {0}
  /\ paramsFrom \in 0..MaxSessions
  /\ dispatched \in Seq(AcctTypes \X Nat)
  /\ records \in Seq(AcctTypes \X Nat)

-----------------------------------------------------------------------------
(* paction_cancel(&a->acct_thread).                                        *)
CancelAcct(ws, th) ==
  { IF w.id = th THEN [w EXCEPT !.canceled = TRUE] ELSE w : w \in ws }

(* AuthAccountStart(l, type) with the link's session number sess: START   *)
(* and STOP cancel an outstanding action; START arms the update timer     *)
(* (set by the caller, see AcctTimerAfterStart); then a new AuthData is   *)
(* handed to paction_start, which fails with EBUSY while acct_thread is   *)
(* still set, and the AuthData is destroyed.                              *)
AuthAccountStart_cancelOnStartOnly(type, sess) ==
  LET cancel == type = "START"
      ws == IF cancel THEN CancelAcct(acctWorkers, acctThread) ELSE acctWorkers
      th == IF cancel THEN 0 ELSE acctThread
  IN IF th # 0
     THEN /\ acctWorkers' = ws /\ acctThread' = th
          /\ UNCHANGED <<nextId, dispatched>>
     ELSE /\ acctWorkers' = ws \cup {[id |-> nextId, type |-> type, sess |-> sess,
                                      canceled |-> FALSE, done |-> FALSE]}
          /\ acctThread' = nextId
          /\ nextId' = nextId + 1
          /\ dispatched' = Append(dispatched, <<type, sess>>)

AuthAccountStart(type, sess) ==
  LET cancel == type \in {"START", "STOP"}
      ws == IF cancel THEN CancelAcct(acctWorkers, acctThread) ELSE acctWorkers
      th == IF cancel THEN 0 ELSE acctThread
  IN IF th # 0
     THEN /\ acctWorkers' = ws /\ acctThread' = th
          /\ UNCHANGED <<nextId, dispatched>>
     ELSE /\ acctWorkers' = ws \cup {[id |-> nextId, type |-> type, sess |-> sess,
                                      canceled |-> FALSE, done |-> FALSE]}
          /\ acctThread' = nextId
          /\ nextId' = nextId + 1
          /\ dispatched' = Append(dispatched, <<type, sess>>)

(* The update timer after AuthAccountStart(type): START starts it when an *)
(* update interval is configured; otherwise it is as the caller left it.  *)
AcctTimerAfterStart(type, tm) ==
  IF type = "START" /\ AcctUpdateSet THEN TRUE ELSE tm

(* AuthCleanup on link-down: stop the accounting timer, free a->params.   *)
AuthCleanup_keepTimer ==
  /\ acctTimer' = acctTimer
  /\ paramsFrom' = 0

AuthCleanup ==
  /\ acctTimer' = FALSE
  /\ paramsFrom' = 0

-----------------------------------------------------------------------------
(* The link comes up after successful authentication: a->params hold that *)
(* session's authentication results and the accountant is started.       *)
LinkUp ==
  /\ ~linkUp
  /\ session < MaxSessions
  /\ Len(dispatched) < MaxAcctEvents
  /\ linkUp' = TRUE
  /\ session' = session + 1
  /\ paramsFrom' = session + 1
  /\ acctTimer' = AcctTimerAfterStart("START", acctTimer)
  /\ AuthAccountStart("START", session + 1)
  /\ UNCHANGED records

(* Link-down: AuthAccountStart(STOP), then AuthCleanup.                   *)
LinkDown ==
  /\ linkUp
  /\ linkUp' = FALSE
  /\ AuthAccountStart("STOP", session)
  /\ AuthCleanup
  /\ UNCHANGED <<session, records>>

(* AuthAccountTimeout: stop the timer, AuthAccountStart(UPDATE), restart  *)
(* the timer.                                                              *)
AuthAccountTimeout ==
  /\ acctTimer
  /\ Len(dispatched) < MaxAcctEvents
  /\ acctTimer' = AcctTimerAfterStart("UPDATE", TRUE)
  /\ AuthAccountStart("UPDATE", session)
  /\ UNCHANGED <<linkUp, session, paramsFrom, records>>

(* AuthAccount, the body: RadiusAccount and the utmp/wtmp login/logout    *)
(* write the record.  A canceled body may instead be stopped at a         *)
(* cancellation point before it writes anything.                           *)
AuthAccount(w) ==
  /\ w \in acctWorkers /\ ~w.done
  /\ acctWorkers' = (acctWorkers \ {w}) \cup {[w EXCEPT !.done = TRUE]}
  /\ \/ records' = Append(records, <<w.type, w.sess>>)
     \/ w.canceled /\ UNCHANGED records
  /\ UNCHANGED <<linkUp, session, acctTimer, acctThread, nextId, paramsFrom,
                 dispatched>>

(* AuthAccountFinish: a canceled action's AuthData is destroyed; otherwise *)
(* the link is looked up and, unless this was STOP, the AuthData's params  *)
(* are copied back over a->params.  paction clears acct_thread first.     *)
AuthAccountFinish_keepHandle(w) ==
  /\ w \in acctWorkers /\ w.done
  /\ acctWorkers' = acctWorkers \ {w}
  /\ acctThread' = acctThread
  /\ paramsFrom' = IF ~w.canceled /\ w.type # "STOP" THEN w.sess ELSE paramsFrom
  /\ UNCHANGED <<linkUp, session, acctTimer, nextId, dispatched, records>>

AuthAccountFinish_noCancelCheck(w) ==
  /\ w \in acctWorkers /\ w.done
  /\ acctWorkers' = acctWorkers \ {w}
  /\ acctThread' = IF acctThread = w.id THEN 0 ELSE acctThread
  /\ paramsFrom' = IF w.type # "STOP" THEN w.sess ELSE paramsFrom
  /\ UNCHANGED <<linkUp, session, acctTimer, nextId, dispatched, records>>

AuthAccountFinish(w) ==
  /\ w \in acctWorkers /\ w.done
  /\ acctWorkers' = acctWorkers \ {w}
  /\ acctThread' = IF acctThread = w.id THEN 0 ELSE acctThread
  /\ paramsFrom' = IF ~w.canceled /\ w.type # "STOP" THEN w.sess ELSE paramsFrom
  /\ UNCHANGED <<linkUp, session, acctTimer, nextId, dispatched, records>>

-----------------------------------------------------------------------------
Init ==
  /\ linkUp = FALSE
  /\ session = 0
  /\ acctTimer = FALSE
  /\ acctThread = 0
  /\ acctWorkers = {}
  /\ nextId = 1
  /\ paramsFrom = 0
  /\ dispatched = <<>>
  /\ records = <<>>

Next ==
  \/ LinkUp
  \/ LinkDown
  \/ AuthAccountTimeout
  \/ \E w \in acctWorkers : AuthAccount(w)
  \/ \E w \in acctWorkers : AuthAccountFinish(w)

(* The event loop fires the update timer, and every paction's body runs   *)
(* and its finisher is called; the link is not assumed to go up or down. *)
Spec ==
  /\ Init /\ [][Next]_vars
  /\ WF_vars(AuthAccountTimeout)
  /\ WF_vars(\E w \in acctWorkers : AuthAccount(w))
  /\ WF_vars(\E w \in acctWorkers : AuthAccountFinish(w))

-----------------------------------------------------------------------------
(* Properties.                                                             *)

Dispatched == {dispatched[i] : i \in DOMAIN dispatched}
Recorded == {records[i] : i \in DOMAIN records}

(* Every session that has gone down has had its STOP handed to a paction:  *)
(* link-down must cancel whatever START or UPDATE still holds acct_thread, *)
(* or paction_start refuses the STOP.                                      *)
StopAlwaysDispatched ==
  \A s \in 1..session : (s < session \/ ~linkUp) => <<"STOP", s>> \in Dispatched

(* a->params only ever hold the current session's data: a START or UPDATE *)
(* of an earlier session, canceled by link-down, never copies its params  *)
(* back when its finisher runs after the link has come up again.          *)
NoStaleCopyBack ==
  /\ paramsFrom \in {0, session}
  /\ linkUp => paramsFrom = session

(* After a session's STOP has been started, no UPDATE for that session is *)
(* started: AuthCleanup stops the timer that AuthAccountStart(START)      *)
(* armed.                                                                  *)
NoUpdateAfterStop ==
  \A i, j \in DOMAIN dispatched :
    (i < j /\ dispatched[i][1] = "STOP")
      => dispatched[j] # <<"UPDATE", dispatched[i][2]>>

(* Spec 4.7: the STOP dispatch is not suppressed: every STOP started is   *)
(* eventually written by the backends.                                     *)
StopEventuallyRecorded ==
  \A s \in 1..MaxSessions :
    (<<"STOP", s>> \in Dispatched) ~> (<<"STOP", s>> \in Recorded)

=============================================================================
