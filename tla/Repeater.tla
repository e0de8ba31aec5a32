----------------------------- MODULE Repeater -----------------------------
(***************************************************************************)
(* A repeater of mpd (rep.c): two physical links joined through a netgraph *)
(* tee node.  An incoming call on links[0] (RepIncoming) creates the       *)
(* outgoing link links[1] from the template (PhysGetRep), a control socket *)
(* r->csock and a tee node hooked to it, reads the tee's id (r->node_id)   *)
(* and opens links[1].  RepUp answers the caller once links[1] is up and,  *)
(* with both ends up, shuts the tee down (splicing the two ends) and      *)
(* closes the socket.  RepDown closes the other end, releases the tee and *)
(* shuts a non-static repeater down when the other end is gone.           *)
(*                                                                         *)
(* The physical layer (phys.c, not in the tree) is the environment: an    *)
(* opening link connects or fails, a ringing or up link may hang up, and   *)
(* a close requested by PhysClose completes.  It calls RepUp and RepDown.  *)
(* links[0] is a configured (static) link, links[1] an instance of the    *)
(* link template.                                                          *)
(***************************************************************************)
EXTENDS Naturals, FiniteSets

CONSTANTS
  MaxCalls   \* bound: incoming calls

ASSUME MaxCalls \in Nat \ {0}

Ends == {0, 1}
(* "none": r->links[n] is NULL; "ringing": an incoming call not answered. *)
LinkStates == {"none", "down", "ringing", "opening", "up", "closing"}

VARIABLES
  alive,    \* the repeater is in gReps[] and not dead
  stay,     \* r->stay (`create repeater static` or template)
  link,     \* state of r->links[n]
  pUp,      \* r->p_up as the set of its bits
  csock,    \* r->csock: "none" (-1), "open", or "stale" (> 0 but closed)
  nodeId,   \* r->node_id != 0
  teeHook,  \* the control socket holds the "tee" hook of a tee node
  calls     \* incoming calls so far

vars == <<alive, stay, link, pUp, csock, nodeId, teeHook, calls>>

TypeOK ==
  /\ alive \in BOOLEAN /\ stay \in BOOLEAN
  /\ link \in [Ends -> LinkStates]
  /\ pUp \subseteq Ends
  /\ csock \in {"none", "open", "stale"}
  /\ nodeId \in BOOLEAN /\ teeHook \in BOOLEAN
  /\ calls \in 0..MaxCalls

-----------------------------------------------------------------------------
(* PhysOpen: answer a ringing call or dial a link that is down.            *)
PhysOpen(s) == IF s \in {"ringing", "down"} THEN "opening" ELSE s

(* PhysClose: a link that is ringing, opening or up starts closing.        *)
PhysClose(s) == IF s \in {"ringing", "opening", "up"} THEN "closing" ELSE s

(* `if (r->csock > 0 && r->node_id)`: NgFuncShutdownNode of the tee,       *)
(* node_id = 0, close(csock), csock = -1.  A stale descriptor passes the *)
(* test; the shutdown message then goes nowhere.                           *)
ReleaseTee_keepId ==
  IF csock # "none" /\ nodeId
  THEN /\ csock' = "none" /\ teeHook' = FALSE
       /\ UNCHANGED nodeId
  ELSE UNCHANGED <<nodeId, csock, teeHook>>

ReleaseTee ==
  IF csock # "none" /\ nodeId
  THEN /\ nodeId' = FALSE /\ csock' = "none"
       /\ teeHook' = FALSE
  ELSE UNCHANGED <<nodeId, csock, teeHook>>

(* RepIncoming, the steps after PhysGetRep: NgMkSockNode when csock <= 0,  *)
(* NGM_MKPEER of the tee (fails on a closed socket or while the old tee    *)
(* hook is still there), NGM_NODEINFO, PhysOpen(links[1]).  sockOk,        *)
(* peerOk and infoOk are the kernel's answers.  A failure closes l.       *)
IncomingAttach_noAnswerWait(l1, sockOk, peerOk, infoOk) ==
  LET sock == IF csock = "none" /\ sockOk THEN "open" ELSE csock
  IN IF csock = "none" /\ ~sockOk
     THEN /\ link' = [link EXCEPT ![0] = "closing", ![1] = l1]
          /\ UNCHANGED <<csock, nodeId, teeHook>>
     ELSE IF ~(sock = "open" /\ ~teeHook /\ peerOk)
     THEN /\ link' = [link EXCEPT ![0] = "closing", ![1] = l1]
          /\ csock' = "stale" /\ teeHook' = FALSE
          /\ UNCHANGED nodeId
     ELSE /\ link' = [n \in Ends |-> "opening"]
          /\ csock' = sock /\ teeHook' = TRUE
          /\ nodeId' = infoOk

IncomingAttach(l1, sockOk, peerOk, infoOk) ==
  LET sock == IF csock = "none" /\ sockOk THEN "open" ELSE csock
  IN IF csock = "none" /\ ~sockOk
     THEN /\ link' = [link EXCEPT ![0] = "closing", ![1] = l1]
          /\ UNCHANGED <<csock, nodeId, teeHook>>
     ELSE IF ~(sock = "open" /\ ~teeHook /\ peerOk)
     THEN /\ link' = [link EXCEPT ![0] = "closing", ![1] = l1]
          /\ csock' = "stale" /\ teeHook' = FALSE
          /\ UNCHANGED nodeId
     ELSE /\ link' = [link EXCEPT ![0] = "ringing", ![1] = PhysOpen(l1)]
          /\ csock' = sock /\ teeHook' = TRUE
          /\ nodeId' = infoOk

(* RepIncoming: a call rings on links[0].  PhysGetRep creates links[1]     *)
(* from the template if there is none (it may fail: the call is closed).  *)
RepIncoming ==
  /\ alive /\ link[0] = "down"
  /\ calls < MaxCalls /\ calls' = calls + 1
  /\ \E got, sockOk, peerOk, infoOk \in BOOLEAN :
       LET l1 == IF link[1] = "none" /\ got THEN "down" ELSE link[1]
       IN IF l1 = "none"
          THEN /\ link' = [link EXCEPT ![0] = "closing"]
               /\ UNCHANGED <<csock, nodeId, teeHook>>
          ELSE IncomingAttach(l1, sockOk, peerOk, infoOk)
  /\ UNCHANGED <<alive, stay, pUp>>

(* RepUp: set bit n of p_up; when links[1] is up answer the caller         *)
(* (PhysOpen(links[0])); with both ends up shut the tee down, splicing    *)
(* the ends, and close the control socket.                                 *)
RepUp_bitShift(n) ==
  LET up == pUp \cup {n + 1}
  IN /\ pUp' = up
     /\ link' = [link EXCEPT ![n] = "up",
                             ![1 - n] = IF n = 1 THEN PhysOpen(@) ELSE @]
     /\ IF up = Ends THEN ReleaseTee ELSE UNCHANGED <<nodeId, csock, teeHook>>

RepUp(n) ==
  LET up == pUp \cup {n}
  IN /\ pUp' = up
     /\ link' = [link EXCEPT ![n] = "up",
                             ![1 - n] = IF n = 1 THEN PhysOpen(@) ELSE @]
     /\ IF up = Ends THEN ReleaseTee ELSE UNCHANGED <<nodeId, csock, teeHook>>

(* RepShutdown: gReps[id] = NULL, LinkShutdown of the links that are not  *)
(* static (links[1]), release of the tee, dead = 1; links[n], whose down  *)
(* event led here, is down.                                               *)
RepShutdown(n) ==
  /\ alive' = FALSE
  /\ link' = [k \in Ends |-> IF k = 1 THEN "none"
                             ELSE IF k = n THEN "down" ELSE link[k]]

(* RepDown: clear bit n of p_up, PhysClose the other end if there is one, *)
(* release the tee; with no other end, a repeater that is not static is   *)
(* shut down.                                                              *)
RepDown_keepOther(n) ==
  /\ pUp' = pUp \ {n}
  /\ ReleaseTee
  /\ IF link[1 - n] = "none" /\ ~stay
     THEN RepShutdown(n)
     ELSE /\ link' = [link EXCEPT ![n] = "down"]
          /\ UNCHANGED alive

RepDown(n) ==
  /\ pUp' = pUp \ {n}
  /\ ReleaseTee
  /\ IF link[1 - n] = "none" /\ ~stay
     THEN RepShutdown(n)
     ELSE /\ link' = [link EXCEPT ![n] = "down", ![1 - n] = PhysClose(@)]
          /\ UNCHANGED alive

-----------------------------------------------------------------------------
(* The physical layer.                                                     *)

(* An opening link connects: PhysUp calls RepUp.                           *)
Connected(n) ==
  /\ alive /\ link[n] = "opening"
  /\ RepUp(n)
  /\ UNCHANGED <<alive, stay, calls>>

(* A ringing, opening or up link fails or the remote hangs up: PhysDown    *)
(* calls RepDown.                                                          *)
HangUp(n) ==
  /\ alive /\ link[n] \in {"ringing", "opening", "up"}
  /\ RepDown(n)
  /\ UNCHANGED <<stay, calls>>

(* A close asked for by PhysClose completes: PhysDown calls RepDown.       *)
CloseDone(n) ==
  /\ alive /\ link[n] = "closing"
  /\ RepDown(n)
  /\ UNCHANGED <<stay, calls>>

(* RepCreate/RepInst: a repeater, static or not, with no outgoing link     *)
(* yet, p_up = 0, csock = -1 and node_id = 0; links[0] configured.         *)
Init ==
  /\ alive = TRUE /\ stay \in BOOLEAN
  /\ link = [n \in Ends |-> IF n = 0 THEN "down" ELSE "none"]
  /\ pUp = {} /\ csock = "none" /\ nodeId = FALSE /\ teeHook = FALSE
  /\ calls = 0

Next ==
  \/ RepIncoming
  \/ \E n \in Ends : Connected(n) \/ HangUp(n) \/ CloseDone(n)

(* phys.c completes every close it starts; nothing forces a remote end to  *)
(* answer or to hang up.                                                   *)
Spec == Init /\ [][Next]_vars /\ \A n \in Ends : WF_vars(CloseDone(n))

-----------------------------------------------------------------------------
(* The caller on links[0] is answered (PhysOpen in RepUp) only while the   *)
(* outgoing leg links[1] is up: a call is never answered that the          *)
(* repeater cannot carry.                                                  *)
AnsweredOnlyWhenBridged ==
  link[0] \in {"opening", "up"} => link[1] = "up"

(* r->node_id is non-zero only while r->csock is an open socket that      *)
(* still holds the tee it names: RepUp, RepDown and RepShutdown shut the  *)
(* node down through csock and clear node_id with it, and a failed         *)
(* NODEINFO leaves the id of no other node behind.                         *)
NodeIdNamesLiveTee ==
  nodeId => csock = "open" /\ teeHook

(* When one end of the repeater goes down (RepDown), the other end is      *)
(* eventually down too: RepDown's PhysClose of links[1-n] is never lost.   *)
OtherEndFollows ==
  \A n \in Ends : link[n] = "down" ~> link[1 - n] \in {"down", "none"}
=============================================================================
