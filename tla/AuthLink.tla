------------------------------ MODULE AuthLink ------------------------------
(***************************************************************************)
(* One link's authentication phase in mpd: the controller of auth.c       *)
(* (AuthStart, AuthInput, AuthFinish, AuthStop, AuthTimeout), the PAP      *)
(* state machine of pap.c (PapStart, PapInput, PapTimeout), the worker     *)
(* runner of auth.c (AuthAsyncStart, AuthAsync, AuthAsyncFinish) and, as   *)
(* its caller, the CHAP verifier (chap.c is not part of the sources; its   *)
(* steps follow the spec, section 4.2).                                   *)
(*                                                                         *)
(* The environment is LCP, which opens and closes authentication episodes *)
(* and reacts to LcpAuthResult, and the peer, which may send any PAP or   *)
(* CHAP frame at any time: that covers lost, duplicated, late and         *)
(* reordered frames.  Credentials are abstracted to "good"/"bad" and a     *)
(* user name to "" or "u".                                                 *)
(***************************************************************************)
EXTENDS Naturals, Sequences, FiniteSets

CONSTANTS
  AUTH_RETRIES,        \* PAP request retransmissions (AUTH_RETRIES)
  MaxEpisodes,         \* bound: number of times LCP enters authentication
  MaxLogins,           \* gMaxLogins, 0 = unlimited
  OpenLogins,          \* bundles already open with the peer's authname
  SelfToPeerChoices,   \* what LCP may negotiate for self-to-peer
  PeerToSelfChoices    \* what LCP may negotiate for peer-to-self

ASSUME AUTH_RETRIES \in Nat \ {0}
ASSUME MaxEpisodes \in Nat \ {0}
ASSUME MaxLogins \in Nat /\ OpenLogins \in Nat
ASSUME SelfToPeerChoices \subseteq {"none", "PAP"}
ASSUME PeerToSelfChoices \subseteq {"none", "PAP", "CHAP"}

Phases  == {"DEAD", "AUTHENTICATE", "NETWORK", "TERMINATE"}
Names   == {"", "u"}
Creds   == {"good", "bad", "malformed"}
Status  == {"running", "SUCCESS", "FAIL", "UNDEF"}
Frames  == {"PAP_REQUEST", "PAP_ACK", "PAP_NAK",
            "CHAP_CHALLENGE", "CHAP_SUCCESS", "CHAP_FAILURE"}

(* What the peer can put on the wire.  EMPTY is a bare 4-byte header;     *)
(* "malformed" fails pap.c's length check.  A runt (< 4 bytes) is dropped  *)
(* by AuthInput without a state change, so it is a stuttering step.        *)
PeerPackets ==
     [proto : {"PAP"}, code : {"REQUEST"}, name : Names, cred : Creds]
  \cup [proto : {"PAP"}, code : {"ACK", "NAK", "EMPTY"},
        name : {""}, cred : {"good"}]
  \cup [proto : {"CHAP"}, code : {"RESPONSE"}, name : Names, cred : {"good", "bad"}]

VARIABLES
  phase,       \* l->lcp.phase (owned by LCP)
  selfToPeer,  \* a->self_to_peer
  peerToSelf,  \* a->peer_to_self
  authTimer,   \* a->timer running
  papTimer,    \* a->pap.timer running
  papRetry,    \* a->pap.retry
  papNextId,   \* a->pap.next_id
  thread,      \* a->thread: id of the worker it refers to, 0 = NULL
  workers,     \* paction objects alive (running or awaiting their finisher)
  nextWorker,  \* id for the next worker
  episode,     \* number of AuthStart calls so far
  reports,     \* history: LcpAuthResult arguments in this episode
  dirResult,   \* history: outcome of each direction in this episode
  sent,        \* history: frames written to the peer in this episode
  papReqIds,   \* history: ids carried by PAP requests in this episode
  applied      \* history: <<issued, applied>> episodes of applied results

vars == <<phase, selfToPeer, peerToSelf, authTimer, papTimer, papRetry,
          papNextId, thread, workers, nextWorker, episode, reports,
          dirResult, sent, papReqIds, applied>>

Worker == [id : Nat \ {0}, ep : Nat, canceled : BOOLEAN,
           status : Status, cred : Creds]

TypeOK ==
  /\ phase \in Phases
  /\ selfToPeer \in {"none", "PAP"}
  /\ peerToSelf \in {"none", "PAP", "CHAP"}
  /\ authTimer \in BOOLEAN /\ papTimer \in BOOLEAN
  /\ papRetry \in 0..AUTH_RETRIES
  /\ papNextId \in Nat \ {0}
  /\ thread \in Nat
  /\ workers \subseteq Worker
  /\ nextWorker \in Nat \ {0}
  /\ episode \in 0..MaxEpisodes
  /\ reports \in Seq(BOOLEAN)
  /\ dirResult \in [{"self", "peer"} -> {"none", "pending", "ok", "fail"}]
  /\ sent \in Seq(Frames)
  /\ papReqIds \subseteq Nat
  /\ applied \subseteq (Nat \X Nat)

-----------------------------------------------------------------------------
(* Helpers.                                                                *)

(* AuthPreChecks: non-empty name and the per-user login cap.              *)
AuthPreChecks(name) ==
  /\ name # ""
  /\ MaxLogins = 0 \/ OpenLogins < MaxLogins

(* paction_cancel(&a->thread): mark the worker canceled, clear the handle.*)
(* The worker body is not interrupted; its finisher still runs.           *)
CancelThread(ws, th) ==
  { IF w.id = th THEN [w EXCEPT !.canceled = TRUE] ELSE w : w \in ws }

(* LcpAuthResult (lcp.c, not in the sources): success moves LCP to the    *)
(* network phase, failure closes the link.                                *)
LcpAuthResult(ok) ==
  /\ reports' = Append(reports, ok)
  /\ phase' = IF ok THEN (IF phase = "AUTHENTICATE" THEN "NETWORK" ELSE phase)
                    ELSE "TERMINATE"

(* AuthStop: stop the auth timer and PapStop's timer, cancel the thread.  *)
(* ws, th and pt are workers, thread and the PAP timer as the caller has *)
(* left them.                                                              *)
AuthStop_noPapStop(ws, th, pt) ==
  /\ authTimer' = FALSE
  /\ papTimer' = pt
  /\ workers' = CancelThread(ws, th)
  /\ thread' = 0

AuthStop_noCancel(ws, th, pt) ==
  /\ authTimer' = FALSE
  /\ papTimer' = FALSE
  /\ workers' = ws
  /\ thread' = 0

(* PapStop: TimerStop(&pap->timer).                                      *)
PapStop == papTimer' = FALSE

AuthStop(ws, th, pt) ==
  /\ authTimer' = FALSE
  /\ PapStop
  /\ workers' = CancelThread(ws, th)
  /\ thread' = 0

Resolved(which, old) == IF which THEN "none" ELSE old

(* AuthFinish: clear the direction; on failure stop and report failure,   *)
(* on success of both directions stop and report success.                 *)
AuthFinish_earlySuccess(which, ok, ws, th, pt) ==
  LET s2p == Resolved(which = "self", selfToPeer)
      p2s == Resolved(which = "peer", peerToSelf)
  IN /\ selfToPeer' = s2p
     /\ peerToSelf' = p2s
     /\ dirResult' = [dirResult EXCEPT ![which] = IF ok THEN "ok" ELSE "fail"]
     /\ AuthStop(ws, th, pt) /\ LcpAuthResult(ok)

AuthFinish(which, ok, ws, th, pt) ==
  LET s2p == Resolved(which = "self", selfToPeer)
      p2s == Resolved(which = "peer", peerToSelf)
  IN /\ selfToPeer' = s2p
     /\ peerToSelf' = p2s
     /\ dirResult' = [dirResult EXCEPT ![which] = IF ok THEN "ok" ELSE "fail"]
     /\ \/ ~ok /\ AuthStop(ws, th, pt) /\ LcpAuthResult(FALSE)
        \/ ok /\ s2p = "none" /\ p2s = "none"
           /\ AuthStop(ws, th, pt) /\ LcpAuthResult(TRUE)
        \/ ok /\ ~(s2p = "none" /\ p2s = "none")
           /\ workers' = ws /\ thread' = th /\ papTimer' = pt
           /\ UNCHANGED <<authTimer, reports, phase>>

(* PapSendRequest: the request carries pap->next_id++.                    *)
PapSendRequest ==
  /\ papNextId' = papNextId + 1
  /\ papReqIds' = papReqIds \cup {papNextId}

(* CHAP's continuation (chap.c, spec 4.2): SUCCESS, or UNDEF with a       *)
(* response matching the fetched secret, accepts; anything else rejects.  *)
ChapVerdict(status, cred) == status = "SUCCESS" \/ (status = "UNDEF" /\ cred = "good")

ChapInputFinish(status, cred, ws, th) ==
  LET pt == papTimer IN
  /\ sent' = Append(sent, IF ChapVerdict(status, cred) THEN "CHAP_SUCCESS"
                                                       ELSE "CHAP_FAILURE")
  /\ AuthFinish("peer", ChapVerdict(status, cred), ws, th, pt)

-----------------------------------------------------------------------------
(* PapStart(AUTH_SELF_TO_PEER): next_id = 1, retry = AUTH_RETRIES, arm   *)
(* the retransmit timer and send the first request, which takes id 1      *)
(* (the request itself is appended to sent by AuthStart).                 *)
PapStart ==
  /\ papRetry' = AUTH_RETRIES
  /\ papTimer' = TRUE
  /\ papNextId' = 2
  /\ papReqIds' = {1}

(* LCP opens an authentication episode: LcpNewPhase calls AuthStart.      *)
(* AuthStart records the negotiated protocols; with nothing to do it      *)
(* reports success at once, otherwise it arms the global timer, runs      *)
(* PapStart(SELF_TO_PEER) (next_id = 1, retry = AUTH_RETRIES, timer,      *)
(* first request) and ChapStart(PEER_TO_SELF) (first challenge).          *)
AuthStart ==
  /\ phase = "DEAD"
  /\ episode < MaxEpisodes
  /\ episode' = episode + 1
  /\ \E s2p \in SelfToPeerChoices, p2s \in PeerToSelfChoices :
       /\ selfToPeer' = s2p
       /\ peerToSelf' = p2s
       /\ dirResult' = [self |-> IF s2p = "none" THEN "none" ELSE "pending",
                        peer |-> IF p2s = "none" THEN "none" ELSE "pending"]
       /\ applied' = applied
       /\ UNCHANGED <<thread, workers, nextWorker>>
       /\ IF s2p = "none" /\ p2s = "none"
          THEN /\ reports' = <<TRUE>>
               /\ phase' = "NETWORK"
               /\ sent' = <<>>
               /\ papReqIds' = {}
               /\ UNCHANGED <<authTimer, papTimer, papRetry, papNextId>>
          ELSE /\ phase' = "AUTHENTICATE"
               /\ reports' = <<>>
               /\ authTimer' = TRUE
               /\ IF s2p = "PAP"
                  THEN PapStart
                  ELSE /\ papReqIds' = {}
                       /\ UNCHANGED <<papRetry, papTimer, papNextId>>
               /\ sent' = (IF s2p = "PAP" THEN <<"PAP_REQUEST">> ELSE <<>>)
                          \o (IF p2s = "CHAP" THEN <<"CHAP_CHALLENGE">> ELSE <<>>)

(* LCP leaves the link (peer terminate, carrier loss, or the close that   *)
(* followed a failed report): LcpStopActivity runs AuthStop, then         *)
(* AuthCleanup on link-down.                                               *)
LcpDown ==
  /\ phase # "DEAD"
  /\ phase' = "DEAD"
  /\ AuthStop(workers, thread, papTimer)
  /\ UNCHANGED <<selfToPeer, peerToSelf, papRetry, papNextId, nextWorker,
                 episode, reports, dirResult, sent, papReqIds, applied>>

(* Global authorization timer expired: AuthStop and report failure.       *)
AuthTimeout_noReport ==
  /\ authTimer
  /\ AuthStop(workers, thread, papTimer)
  /\ UNCHANGED <<reports, phase>>
  /\ UNCHANGED <<selfToPeer, peerToSelf, papRetry, papNextId, nextWorker,
                 episode, dirResult, sent, papReqIds, applied>>

AuthTimeout ==
  /\ authTimer
  /\ AuthStop(workers, thread, papTimer)
  /\ LcpAuthResult(FALSE)
  /\ UNCHANGED <<selfToPeer, peerToSelf, papRetry, papNextId, nextWorker,
                 episode, dirResult, sent, papReqIds, applied>>

(* PAP retransmit timer: stop it; if --retry > 0 restart it and resend.   *)
PapTimeout_retryGE ==
  /\ papTimer
  /\ papRetry' = papRetry - 1
  /\ IF papRetry - 1 >= 0
     THEN /\ papTimer' = TRUE
          /\ PapSendRequest
          /\ sent' = Append(sent, "PAP_REQUEST")
     ELSE /\ papTimer' = FALSE
          /\ UNCHANGED <<papNextId, papReqIds, sent>>
  /\ UNCHANGED <<phase, selfToPeer, peerToSelf, authTimer, thread, workers,
                 nextWorker, episode, reports, dirResult, applied>>

PapTimeout ==
  /\ papTimer
  /\ papRetry' = papRetry - 1
  /\ IF papRetry - 1 > 0
     THEN /\ papTimer' = TRUE
          /\ PapSendRequest
          /\ sent' = Append(sent, "PAP_REQUEST")
     ELSE /\ papTimer' = FALSE
          /\ UNCHANGED <<papNextId, papReqIds, sent>>
  /\ UNCHANGED <<phase, selfToPeer, peerToSelf, authTimer, thread, workers,
                 nextWorker, episode, reports, dirResult, applied>>
-----------------------------------------------------------------------------
(* AuthInput: a frame is handled only in the authenticate or network      *)
(* phase and only while no worker handle is set.  Otherwise, and for a    *)
(* runt, the frame is freed and nothing changes (a stuttering step).       *)
AuthInputPermits == phase \in {"AUTHENTICATE", "NETWORK"} /\ thread = 0

(* Frames that neither touch the PAP counters nor start a worker.         *)
InputKeeps == UNCHANGED <<papRetry, papNextId, nextWorker, episode, papReqIds, applied>>

(* A PAP frame that is only a header: NAK it and fail peer-to-self,       *)
(* whatever was negotiated and in either phase.                            *)
AuthInputBadPacket(pkt) ==
  /\ AuthInputPermits
  /\ pkt.proto = "PAP" /\ pkt.code = "EMPTY"
  /\ sent' = Append(sent, "PAP_NAK")
  /\ AuthFinish("peer", FALSE, workers, thread, papTimer)
  /\ InputKeeps

(* PapInput(PAP_REQUEST): not expected, bad length, AuthPreChecks, or a   *)
(* secret mismatch all go to badRequest (NAK, finish FALSE); otherwise    *)
(* ACK and finish TRUE.  The check is synchronous in pap.c.               *)
PapInputRequest(pkt) ==
  LET ok == /\ peerToSelf = "PAP"
            /\ pkt.cred # "malformed"
            /\ AuthPreChecks(pkt.name)
            /\ pkt.cred = "good"
  IN /\ AuthInputPermits
     /\ pkt.proto = "PAP" /\ pkt.code = "REQUEST"
     /\ sent' = Append(sent, IF ok THEN "PAP_ACK" ELSE "PAP_NAK")
     /\ AuthFinish("peer", ok, workers, thread, papTimer)
     /\ InputKeeps

(* PapInput(PAP_ACK/PAP_NAK): ignored unless self-to-peer is PAP (a       *)
(* stutter); otherwise stop the resend timer and finish self-to-peer.     *)
PapInputReply(pkt) ==
  /\ AuthInputPermits
  /\ pkt.proto = "PAP" /\ pkt.code \in {"ACK", "NAK"}
  /\ selfToPeer = "PAP"
  /\ AuthFinish("self", pkt.code = "ACK", workers, thread, FALSE)
  /\ UNCHANGED sent
  /\ InputKeeps

(* AuthAsyncStart: AuthPreChecks failure or a paction_start failure runs  *)
(* the finisher at once with FAIL; otherwise the worker is started and    *)
(* a->thread refers to it.                                                 *)
AuthAsyncStart(pkt) ==
  \/ /\ ~AuthPreChecks(pkt.name)
     /\ ChapInputFinish("FAIL", pkt.cred, workers, thread)
     /\ InputKeeps
  \/ /\ AuthPreChecks(pkt.name)
     /\ ChapInputFinish("FAIL", pkt.cred, workers, thread)
     /\ InputKeeps
  \/ /\ AuthPreChecks(pkt.name)
     /\ workers' = workers \cup {[id |-> nextWorker, ep |-> episode,
                                  canceled |-> FALSE, status |-> "running",
                                  cred |-> pkt.cred]}
     /\ thread' = nextWorker
     /\ nextWorker' = nextWorker + 1
     /\ UNCHANGED <<phase, selfToPeer, peerToSelf, authTimer, papTimer,
                    papRetry, papNextId, episode, reports, dirResult, sent,
                    papReqIds, applied>>

(* ChapInput(CHAP_RESPONSE) (spec 4.2): a response nobody asked for is    *)
(* answered with FAILURE; otherwise it goes to the worker runner.         *)
ChapInputResponse(pkt) ==
  /\ AuthInputPermits
  /\ pkt.proto = "CHAP"
  /\ \/ peerToSelf # "CHAP" /\ ChapInputFinish("FAIL", pkt.cred, workers, thread)
                            /\ InputKeeps
     \/ peerToSelf = "CHAP" /\ AuthAsyncStart(pkt)

(* AuthAsync: the backend chain runs off the main thread and ends with a  *)
(* status.  paction_cancel does not interrupt it.                          *)
AuthAsync(w) ==
  /\ w \in workers /\ w.status = "running"
  /\ \E st \in Status \ {"running"} :
       workers' = (workers \ {w}) \cup {[w EXCEPT !.status = st]}
  /\ UNCHANGED <<phase, selfToPeer, peerToSelf, authTimer, papTimer, papRetry,
                 papNextId, thread, nextWorker, episode, reports, dirResult,
                 sent, papReqIds, applied>>

(* AuthAsyncFinish, run under gGiantMutex once the body returns: a        *)
(* canceled worker's data is destroyed; otherwise the link is looked up   *)
(* (it always exists here), the params are copied back and the finish    *)
(* continuation (ChapInputFinish) runs.  paction clears a->thread first.  *)
AuthAsyncFinish_noCancelCheck(w) ==
  /\ w \in workers /\ w.status # "running"
  /\ LET ws == workers \ {w}
         th == IF thread = w.id THEN 0 ELSE thread
     IN /\ applied' = applied \cup {<<w.ep, episode>>}
        /\ ChapInputFinish(w.status, w.cred, ws, th)
        /\ UNCHANGED <<papRetry, papNextId, nextWorker, episode, papReqIds>>

AuthAsyncFinish(w) ==
  /\ w \in workers /\ w.status # "running"
  /\ LET ws == workers \ {w}
         th == IF thread = w.id THEN 0 ELSE thread
     IN IF w.canceled
        THEN /\ workers' = ws /\ thread' = th
             /\ UNCHANGED <<phase, selfToPeer, peerToSelf, authTimer, papTimer,
                            papRetry, papNextId, nextWorker, episode, reports,
                            dirResult, sent, papReqIds, applied>>
        ELSE /\ applied' = applied \cup {<<w.ep, episode>>}
             /\ ChapInputFinish(w.status, w.cred, ws, th)
             /\ UNCHANGED <<papRetry, papNextId, nextWorker, episode, papReqIds>>

-----------------------------------------------------------------------------
Init ==
  /\ phase = "DEAD"
  /\ selfToPeer = "none" /\ peerToSelf = "none"
  /\ authTimer = FALSE /\ papTimer = FALSE
  /\ papRetry = 0 /\ papNextId = 1
  /\ thread = 0 /\ workers = {} /\ nextWorker = 1
  /\ episode = 0
  /\ reports = <<>>
  /\ dirResult = [d \in {"self", "peer"} |-> "none"]
  /\ sent = <<>> /\ papReqIds = {} /\ applied = {}

PeerInput ==
  \/ \E pkt \in PeerPackets : AuthInputBadPacket(pkt)
  \/ \E pkt \in PeerPackets : PapInputRequest(pkt)
  \/ \E pkt \in PeerPackets : PapInputReply(pkt)
  \/ \E pkt \in PeerPackets : ChapInputResponse(pkt)

Next ==
  \/ AuthStart
  \/ LcpDown
  \/ AuthTimeout
  \/ PapTimeout
  \/ PeerInput
  \/ \E w \in workers : AuthAsync(w)
  \/ \E w \in workers : AuthAsyncFinish(w)

(* Timers fire and a started worker runs to completion and has its        *)
(* finisher called; the peer and LCP are not assumed to do anything.      *)
Spec ==
  /\ Init /\ [][Next]_vars
  /\ WF_vars(AuthTimeout)
  /\ WF_vars(PapTimeout)
  /\ WF_vars(\E w \in workers : AuthAsync(w))
  /\ WF_vars(\E w \in workers : AuthAsyncFinish(w))

-----------------------------------------------------------------------------
(* Properties.                                                             *)

(* Frames this step writes to the peer within the same episode.           *)
NewFrames ==
  IF episode' = episode /\ Len(sent') >= Len(sent)
  THEN {sent'[i] : i \in Len(sent) + 1 .. Len(sent')}
  ELSE {}

(* A CHAP verdict computed by a worker is applied (AuthAsyncFinish runs   *)
(* the finisher) only in the episode that started the worker: AuthStop    *)
(* cancels it on link-down or timeout, and its late result is dropped.    *)
NoStaleResultApplied == \A p \in applied : p[1] = p[2]

(* Once an episode has reported to LCP, the PAP resend timer no longer    *)
(* sends requests: AuthStop's PapStop silences self-to-peer PAP.          *)
NoRequestAfterReport ==
  [][(episode' = episode /\ reports # <<>>) => papReqIds' = papReqIds]_vars

(* After LCP was told that authentication failed, the link never sends    *)
(* the peer a PAP ACK or CHAP SUCCESS in that episode: a worker still     *)
(* running when the timer expired must not accept the peer afterwards.    *)
NoAcceptAfterFailure ==
  [][(\E i \in DOMAIN reports : ~reports[i])
       => NewFrames \cap {"PAP_ACK", "CHAP_SUCCESS"} = {}]_vars

(* Every authentication phase ends: with the global timer armed by        *)
(* AuthStart, LCP eventually leaves PHASE_AUTHENTICATE.                    *)
AuthPhaseEnds == (phase = "AUTHENTICATE") ~> (phase # "AUTHENTICATE")

(* Spec 5 (invariant 2) and 6: LCP's report is made exactly once per      *)
(* episode, so at most once.                                              *)
ReportedAtMostOnce == Len(reports) <= 1


-----------------------------------------------------------------------------
(* Refinement: AuthLink implements the abstract episode of AuthEpisode up  *)
(* to its first report.  The episode is pending while LCP is in the       *)
(* authenticate phase and nothing was reported, reported once reports is  *)
(* non-empty (until the next AuthStart), idle otherwise.  The directions  *)
(* are dirResult while pending; the outcome is the first report.          *)
EpisodeState ==
  IF reports # <<>> THEN "reported"
  ELSE IF phase = "AUTHENTICATE" THEN "pending" ELSE "idle"

Episode == INSTANCE AuthEpisode WITH
  DirChoices <- {[self |-> IF s2p = "none" THEN "none" ELSE "pending",
                  peer |-> IF p2s = "none" THEN "none" ELSE "pending"] :
                   s2p \in SelfToPeerChoices, p2s \in PeerToSelfChoices},
  epState <- EpisodeState,
  epDirs <- IF EpisodeState = "pending" THEN dirResult
            ELSE [d \in {"self", "peer"} |-> "none"],
  epOutcome <- IF reports # <<>> THEN reports[1] ELSE FALSE

(* The controller keeps the abstract promise: each episode's first report *)
(* is success exactly when every negotiated direction ended ok, failure  *)
(* comes with the first failed direction, the timer or a bad frame, and a *)
(* pending episode is always reported or abandoned (AuthStart, AuthFinish, *)
(* AuthTimeout and LcpDown together).                                      *)
EpisodeRefined == Episode!Spec

=============================================================================
