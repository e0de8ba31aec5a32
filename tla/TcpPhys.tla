------------------------------ MODULE TcpPhys ------------------------------
(***************************************************************************)
(* The TCP link adapter of mpd (tcp.c): the configuration of every TCP    *)
(* link (TcpSetCommand), the listeners shared by links with the same self *)
(* address (TcpNodeUpdate, TcpListenUpdate, ListenTcpNode), outgoing calls *)
(* (TcpOpen, TcpConnectEvent), incoming calls accepted by a listener and  *)
(* handed to the first free matching link (TcpAcceptEvent), and teardown  *)
(* (TcpClose, TcpDoClose).                                                 *)
(*                                                                         *)
(* gLinks[] is the sequence Slots: a slot holds a TCP link, a link of      *)
(* another type, or NULL.  The link layer above (phys.c, link.c, not in    *)
(* the sources) opens a link that is down or that an incoming call made   *)
(* READY, and closes any link at any time.  PhysDown stamps lastClose;     *)
(* "recent" means fewer than TCP_REOPEN_PAUSE seconds have passed since.   *)
(* A listener (struct TcpIf) is named by its self address and port.       *)
(*                                                                         *)
(* conn is what hangs on the link's async hook: nothing, a ksocket still  *)
(* connecting, a connected outgoing ksocket, or an accepted one.          *)
(***************************************************************************)
EXTENDS Naturals, Sequences, SequencesExt

CONSTANTS
  Slots,     \* gLinks[]: "tcp", "other" (another phys type) or "null"
  Addrs,     \* self addresses (with port) a link can be given
  Peers,     \* peer addresses that may call in
  MaxIfs,    \* TCP_MAXPARENTIFS: room in TcpIfs[]
  MaxCmds    \* bound: "set tcp" commands the operator types

TcpLinks == {k \in DOMAIN Slots : Slots[k] = "tcp"}

ASSUME \A k \in DOMAIN Slots : Slots[k] \in {"tcp", "other", "null"}
ASSUME MaxIfs \in Nat \ {0}
ASSUME MaxCmds \in Nat

States == {"DOWN", "CONNECTING", "READY", "UP"}
Conns  == {"none", "ksock", "out", "in"}
Opts   == {"originate", "incoming"}

(* The descriptor NgMkSockNode returns (its value does not matter, only   *)
(* that it is a valid one); -1 stands for none.                           *)
SockFd == 7

VARIABLES
  self,       \* pi->self_addr/self_port, "unset" while the port is 0
  peer,       \* pi->peer_addr/peer_port, "any" while empty
  opts,       \* pi->options
  ifOf,       \* pi->If: the listener the link accepts on, "none" = NULL
  ifs,        \* TcpIfs[0 .. TcpIfCount-1]
  scheduled,  \* TcpListenUpdateSheduled: the update timer is pending
  cmds,       \* number of "set tcp" commands so far (bounded by MaxCmds)
  state,      \* ph->state
  incoming,   \* pi->incoming
  csock,      \* pi->csock: -1, or the control socket's descriptor
  evConnect,  \* pi->ev_connect registered
  conn,       \* what is attached to the async hook
  recent,     \* now - ph->lastClose < TCP_REOPEN_PAUSE
  reported,   \* last PhysUp / PhysDown told to the link layer
  armed,      \* If->ctrlEvent registered: the listener takes the next call
  shutdown,   \* gShutdownInProgress
  orphaned,   \* an accepted ksocket node was neither attached nor shut down
  crashed     \* the daemon dereferenced a NULL gLinks[] slot

confVars == <<self, peer, opts, ifOf, ifs, scheduled, cmds>>
linkVars == <<state, incoming, csock, evConnect, conn, recent, reported>>
vars == <<confVars, linkVars, armed, shutdown, orphaned, crashed>>

TypeOK ==
  /\ self \in [TcpLinks -> Addrs \cup {"unset"}]
  /\ peer \in [TcpLinks -> Peers \cup {"any"}]
  /\ opts \in [TcpLinks -> SUBSET Opts]
  /\ ifOf \in [TcpLinks -> ifs \cup {"none"}]
  /\ ifs \subseteq Addrs
  /\ scheduled \in BOOLEAN
  /\ cmds \in 0..MaxCmds
  /\ state \in [TcpLinks -> States]
  /\ incoming \in [TcpLinks -> BOOLEAN]
  /\ csock \in [TcpLinks -> {-1, SockFd}]
  /\ evConnect \in [TcpLinks -> BOOLEAN]
  /\ conn \in [TcpLinks -> Conns]
  /\ recent \in [TcpLinks -> BOOLEAN]
  /\ reported \in [TcpLinks -> {"up", "down"}]
  /\ armed \in [Addrs -> BOOLEAN]
  /\ shutdown \in BOOLEAN
  /\ orphaned \in BOOLEAN
  /\ crashed \in BOOLEAN

NonLinkVars == <<confVars, armed, shutdown, orphaned, crashed>>

-----------------------------------------------------------------------------
(* TcpSetCommand: "set tcp self", "set tcp peer", "set tcp enable" (which  *)
(* calls TcpNodeUpdate: schedule TcpListenUpdate when incoming is enabled *)
(* and no update is pending) and "set tcp disable".                       *)
SetSelf(k, a) ==
  /\ ~crashed /\ cmds < MaxCmds
  /\ cmds' = cmds + 1
  /\ self' = [self EXCEPT ![k] = a]
  /\ UNCHANGED <<peer, opts, ifOf, ifs, scheduled, linkVars, armed, shutdown, orphaned, crashed>>

SetPeer(k, p) ==
  /\ ~crashed /\ cmds < MaxCmds
  /\ cmds' = cmds + 1
  /\ peer' = [peer EXCEPT ![k] = p]
  /\ UNCHANGED <<self, opts, ifOf, ifs, scheduled, linkVars, armed, shutdown, orphaned, crashed>>

TcpNodeUpdate(o) ==
  IF "incoming" \in o /\ ~scheduled THEN scheduled' = TRUE ELSE UNCHANGED scheduled

SetEnable(k, o) ==
  /\ ~crashed /\ cmds < MaxCmds
  /\ cmds' = cmds + 1
  /\ opts' = [opts EXCEPT ![k] = opts[k] \cup {o}]
  /\ TcpNodeUpdate(opts'[k])
  /\ UNCHANGED <<self, peer, ifOf, ifs, linkVars, armed, shutdown, orphaned, crashed>>

SetDisable(k, o) ==
  /\ ~crashed /\ cmds < MaxCmds
  /\ cmds' = cmds + 1
  /\ opts' = [opts EXCEPT ![k] = opts[k] \ {o}]
  /\ UNCHANGED <<self, peer, ifOf, ifs, scheduled, linkVars, armed, shutdown, orphaned, crashed>>

(* One link of the TcpListenUpdate loop, on the listeners and pi->If so   *)
(* far (r.ifs, r.ifOf).  A NULL, non-TCP, non-incoming or port-less link  *)
(* is skipped; a link whose address has a listener takes it; otherwise,   *)
(* if TcpIfs[] has room, ListenTcpNode creates one, which may fail (then  *)
(* pi->If stays as it was and the slot is reused).                        *)
ListenStep(r, k, failAt) ==
  IF Slots[k] # "tcp" \/ "incoming" \notin opts[k] \/ self[k] = "unset"
  THEN r
  ELSE IF self[k] \in r.ifs
  THEN [r EXCEPT !.ifOf[k] = self[k]]
  ELSE IF Cardinality(r.ifs) >= MaxIfs \/ k \in failAt
  THEN r
  ELSE [ifs |-> r.ifs \cup {self[k]}, ifOf |-> [r.ifOf EXCEPT ![k] = self[k]]]

(* TcpListenUpdate, the timer callback: one pass over gLinks[].  The      *)
(* links whose ListenTcpNode fails this pass are chosen up front.  A new  *)
(* listener is armed for its first call.                                  *)
TcpListenUpdate ==
  /\ ~crashed
  /\ scheduled
  /\ \E failAt \in SUBSET TcpLinks :
       LET r == FoldLeft(LAMBDA acc, k : ListenStep(acc, k, failAt),
                         [ifs |-> ifs, ifOf |-> ifOf],
                         [j \in DOMAIN Slots |-> j])
       IN /\ ifs' = r.ifs
          /\ ifOf' = r.ifOf
          /\ armed' = [a \in Addrs |-> armed[a] \/ a \in r.ifs \ ifs]
  /\ scheduled' = FALSE
  /\ UNCHANGED <<self, peer, opts, cmds, linkVars, shutdown, orphaned, crashed>>

-----------------------------------------------------------------------------
(* TcpDoClose: close the control socket, disconnect the async hook (an    *)
(* attached ksocket shuts itself down), unregister the connect event.     *)
TcpDoClose_zeroSock(k) ==
  /\ csock' = [csock EXCEPT ![k] = 0]
  /\ conn' = [conn EXCEPT ![k] = "none"]
  /\ evConnect' = [evConnect EXCEPT ![k] = FALSE]

TcpDoClose(k) ==
  /\ csock' = [csock EXCEPT ![k] = -1]
  /\ conn' = [conn EXCEPT ![k] = "none"]
  /\ evConnect' = [evConnect EXCEPT ![k] = FALSE]

(* PhysDown / PhysUp (phys.c): tell the link layer; PhysDown stamps      *)
(* lastClose.                                                             *)
PhysDown(k) ==
  /\ reported' = [reported EXCEPT ![k] = "down"]
  /\ recent' = [recent EXCEPT ![k] = TRUE]

PhysUp(k) ==
  /\ reported' = [reported EXCEPT ![k] = "up"]
  /\ UNCHANGED recent

(* The failure exit shared by TcpOpen and TcpConnectEvent.                *)
FailDown(k) ==
  /\ state' = [state EXCEPT ![k] = "DOWN"]
  /\ TcpDoClose(k)
  /\ PhysDown(k)

-----------------------------------------------------------------------------
(* The connect is in progress: wait for the ksocket's answer on the      *)
(* control socket (EventRegister of TcpConnectEvent).                     *)
ConnectInProgress_noRegister(k) ==
  /\ state' = [state EXCEPT ![k] = "CONNECTING"]
  /\ csock' = [csock EXCEPT ![k] = SockFd]
  /\ conn' = [conn EXCEPT ![k] = "ksock"]
  /\ UNCHANGED <<evConnect, reported, recent>>

ConnectInProgress(k) ==
  /\ state' = [state EXCEPT ![k] = "CONNECTING"]
  /\ csock' = [csock EXCEPT ![k] = SockFd]
  /\ conn' = [conn EXCEPT ![k] = "ksock"]
  /\ evConnect' = [evConnect EXCEPT ![k] = TRUE]
  /\ UNCHANGED <<reported, recent>>

(* TcpOpen.  An incoming call is already connected: go UP.  Without the   *)
(* originate option, fail.  Otherwise create the control socket, attach a *)
(* ksocket and connect it: any of the three failing ("fail") closes down; *)
(* a connect that completes at once runs TcpConnectEvent in place; one in *)
(* progress registers the connect event.                                  *)
TcpOpen(k) ==
  /\ ~crashed
  /\ state[k] \in {"DOWN", "READY"}
  /\ \/ /\ incoming[k]
        /\ state' = [state EXCEPT ![k] = "UP"]
        /\ PhysUp(k)
        /\ UNCHANGED <<csock, evConnect, conn>>
     \/ /\ ~incoming[k] /\ "originate" \notin opts[k]
        /\ FailDown(k)
     \/ /\ ~incoming[k] /\ "originate" \in opts[k]
        /\ \E outcome \in {"fail", "connected", "inprogress"} :
             CASE outcome = "fail" -> FailDown(k)
               [] outcome = "connected" ->
                    /\ state' = [state EXCEPT ![k] = "UP"]
                    /\ csock' = [csock EXCEPT ![k] = SockFd]
                    /\ conn' = [conn EXCEPT ![k] = "out"]
                    /\ PhysUp(k)
                    /\ UNCHANGED evConnect
               [] outcome = "inprogress" -> ConnectInProgress(k)
  /\ UNCHANGED <<incoming, NonLinkVars>>

(* TcpConnectEvent: the ksocket's answer to NGM_KSOCKET_CONNECT (or a     *)
(* failure to read it).  The event is one-shot.                           *)
TcpConnectEvent(k) ==
  /\ ~crashed
  /\ evConnect[k]
  /\ \/ /\ state' = [state EXCEPT ![k] = "UP"]
        /\ conn' = [conn EXCEPT ![k] = "out"]
        /\ evConnect' = [evConnect EXCEPT ![k] = FALSE]
        /\ PhysUp(k)
        /\ UNCHANGED csock
     \/ FailDown(k)
  /\ UNCHANGED <<incoming, NonLinkVars>>

(* TcpClose: TcpDoClose, and unless already down, reset and tell the      *)
(* link layer.                                                             *)
TcpClose_keepIncoming(k) ==
  /\ ~crashed
  /\ TcpDoClose(k)
  /\ IF state[k] # "DOWN"
     THEN /\ state' = [state EXCEPT ![k] = "DOWN"]
          /\ PhysDown(k)
     ELSE UNCHANGED <<state, reported, recent>>
  /\ UNCHANGED <<incoming, NonLinkVars>>

TcpClose_noPhysDown(k) ==
  /\ ~crashed
  /\ TcpDoClose(k)
  /\ IF state[k] # "DOWN"
     THEN /\ incoming' = [incoming EXCEPT ![k] = FALSE]
          /\ state' = [state EXCEPT ![k] = "DOWN"]
     ELSE UNCHANGED <<incoming, state>>
  /\ UNCHANGED <<reported, recent, NonLinkVars>>

TcpClose(k) ==
  /\ ~crashed
  /\ TcpDoClose(k)
  /\ IF state[k] # "DOWN"
     THEN /\ incoming' = [incoming EXCEPT ![k] = FALSE]
          /\ state' = [state EXCEPT ![k] = "DOWN"]
          /\ PhysDown(k)
     ELSE UNCHANGED <<incoming, state, reported, recent>>
  /\ UNCHANGED NonLinkVars

-----------------------------------------------------------------------------
(* TcpAcceptEvent on listener i for a call from peer p.  The scan walks   *)
(* gLinks[] in order: a slot that is not NULL and not TCP is skipped; a   *)
(* NULL slot passes the type test and is dereferenced; a TCP link is      *)
(* taken if it listens on i, is DOWN, was closed long enough ago, allows *)
(* incoming calls and its peer address matches.                           *)
Accepts(k, i, p) ==
  /\ ifOf[k] = i
  /\ state[k] = "DOWN"
  /\ ~recent[k]
  /\ "incoming" \in opts[k]
  /\ peer[k] \in {"any", p}

ScanStop(i, p) ==
  SelectInSeq([k \in DOMAIN Slots |-> k],
              LAMBDA k : Slots[k] = "null" \/ (Slots[k] = "tcp" /\ Accepts(k, i, p)))

(* Connecting the new ksocket to the link's hook either succeeds (the     *)
(* link is READY for BundOpenLink) or jumps to "failed", which re-arms   *)
(* the listener without shutting the new node down.  No link found: the  *)
(* node is shut down.  During shutdown the handler returns without        *)
(* re-arming.                                                              *)
(* NgSendMsg(NGM_CONNECT) of the new ksocket to the link's hook fails:   *)
(* "goto failed" re-arms the listener and leaves the new node as it is.   *)
AcceptConnectFailed_noRearm(i) ==
  /\ orphaned' = TRUE
  /\ armed' = [armed EXCEPT ![i] = FALSE]

AcceptConnectFailed(i) ==
  /\ orphaned' = TRUE
  /\ UNCHANGED armed

TcpAcceptEvent(i, p) ==
  LET k == ScanStop(i, p) IN
  /\ ~crashed
  /\ armed[i]
  /\ \/ /\ shutdown
        /\ armed' = [armed EXCEPT ![i] = FALSE]
        /\ UNCHANGED <<state, incoming, conn, orphaned, crashed>>
     \/ /\ ~shutdown /\ k # 0 /\ Slots[k] = "null"
        /\ crashed' = TRUE
        /\ UNCHANGED <<state, incoming, conn, armed, orphaned>>
     \/ /\ ~shutdown /\ k # 0 /\ Slots[k] = "tcp"
        /\ \/ /\ incoming' = [incoming EXCEPT ![k] = TRUE]
              /\ state' = [state EXCEPT ![k] = "READY"]
              /\ conn' = [conn EXCEPT ![k] = "in"]
              /\ UNCHANGED <<orphaned, armed>>
           \/ /\ AcceptConnectFailed(i)
              /\ UNCHANGED <<incoming, state, conn>>
        /\ UNCHANGED crashed
  /\ UNCHANGED <<confVars, csock, evConnect, recent, reported, shutdown>>

(* No matching link: the new node is shut down and the listener re-armed; *)
(* nothing of the model changes, so this outcome is a stuttering step,   *)
(* as is a failure to read the accept message.                            *)

(* TCP_REOPEN_PAUSE seconds pass since the link's last close.             *)
ReopenPauseElapses(k) ==
  /\ ~crashed
  /\ recent[k]
  /\ recent' = [recent EXCEPT ![k] = FALSE]
  /\ UNCHANGED <<state, incoming, csock, evConnect, conn, reported, NonLinkVars>>

(* The daemon begins its shutdown sequence.                               *)
BeginShutdown ==
  /\ ~crashed /\ ~shutdown
  /\ shutdown' = TRUE
  /\ UNCHANGED <<confVars, linkVars, armed, orphaned, crashed>>

-----------------------------------------------------------------------------
Init ==
  /\ self = [k \in TcpLinks |-> "unset"]
  /\ peer = [k \in TcpLinks |-> "any"]
  /\ opts = [k \in TcpLinks |-> {}]
  /\ ifOf = [k \in TcpLinks |-> "none"]
  /\ ifs = {}
  /\ scheduled = FALSE
  /\ cmds = 0
  /\ state = [k \in TcpLinks |-> "DOWN"]
  /\ incoming = [k \in TcpLinks |-> FALSE]
  /\ csock = [k \in TcpLinks |-> -1]
  /\ evConnect = [k \in TcpLinks |-> FALSE]
  /\ conn = [k \in TcpLinks |-> "none"]
  /\ recent = [k \in TcpLinks |-> FALSE]
  /\ reported = [k \in TcpLinks |-> "down"]
  /\ armed = [a \in Addrs |-> FALSE]
  /\ shutdown = FALSE
  /\ orphaned = FALSE
  /\ crashed = FALSE

Next ==
  \/ \E k \in TcpLinks : TcpOpen(k)
  \/ \E k \in TcpLinks : TcpConnectEvent(k)
  \/ \E k \in TcpLinks : TcpClose(k)
  \/ \E i \in ifs, p \in Peers : TcpAcceptEvent(i, p)
  \/ \E k \in TcpLinks : ReopenPauseElapses(k)
  \/ BeginShutdown
  \/ \E k \in TcpLinks, a \in Addrs : SetSelf(k, a)
  \/ \E k \in TcpLinks, p \in Peers \cup {"any"} : SetPeer(k, p)
  \/ \E k \in TcpLinks, o \in Opts : SetEnable(k, o)
  \/ \E k \in TcpLinks, o \in Opts : SetDisable(k, o)
  \/ TcpListenUpdate

(* The event loop delivers the ksocket's connect answer and runs the     *)
(* listen-update timer, and time passes; neither the peers, the operator  *)
(* nor the link layer are assumed to do anything.                         *)
Spec ==
  /\ Init /\ [][Next]_vars
  /\ \A k \in TcpLinks : WF_vars(TcpConnectEvent(k))
  /\ \A k \in TcpLinks : WF_vars(ReopenPauseElapses(k))
  /\ WF_vars(TcpListenUpdate)

-----------------------------------------------------------------------------
(* Properties.                                                             *)

(* What hangs off a link matches its state: a DOWN link holds no control  *)
(* socket, no ksocket and no connect event and is not marked incoming; a  *)
(* CONNECTING link waits on a registered connect event; a READY link     *)
(* carries the call it accepted; an UP link carries exactly the connection *)
(* its incoming flag says.  Broken by a close that leaves a flag or a    *)
(* resource behind, which the next TcpOpen then trusts.                   *)
LinkResourcesMatchState ==
  \A k \in TcpLinks :
    /\ state[k] = "DOWN" => conn[k] = "none" /\ csock[k] = -1 /\ ~evConnect[k] /\ ~incoming[k]
    /\ state[k] = "CONNECTING" => conn[k] = "ksock" /\ csock[k] # -1 /\ evConnect[k]
    /\ state[k] = "READY" => conn[k] = "in" /\ incoming[k] /\ csock[k] = -1 /\ ~evConnect[k]
    /\ state[k] = "UP" => conn[k] \in {"out", "in"} /\ (incoming[k] <=> conn[k] = "in")

(* The link layer's view follows the adapter: it has been told PhysUp     *)
(* exactly while the link is UP, so every path out of UP calls PhysDown.   *)
LinkLayerInSync ==
  \A k \in TcpLinks : reported[k] = "up" <=> state[k] = "UP"

(* An outgoing call never hangs: a link CONNECTING eventually is UP or    *)
(* DOWN, because TcpOpen registers the connect event it waits on.         *)
ConnectingResolves ==
  \A k \in TcpLinks : state[k] = "CONNECTING" ~> state[k] # "CONNECTING"

(* The listener keeps taking calls: every accept event, whichever way it *)
(* ends (a link found, none found, a failed connect), re-registers the    *)
(* listen event, until the shutdown sequence begins.                       *)
ListenerKeepsAccepting == \A i \in ifs : ~shutdown => armed[i]

(* Every ksocket node the listener accepts is attached to a link or shut  *)
(* down (the shutdown sequence, which tears everything down, aside).      *)
NoOrphanKsocket == ~orphaned

=============================================================================
