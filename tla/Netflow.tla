----------------------------- MODULE Netflow -----------------------------
(***************************************************************************)
(* The global NetFlow node of mpd (ngfunc.c).  NgFuncInitGlobalNetflow     *)
(* either looks up the node named by `set netflow node` or builds its own: *)
(* NGM_MKPEER of a netflow node on a temporary hook of a control socket,   *)
(* NgGetNodeID, NGM_NAME "mpd%d-nf", NGM_MKPEER of the export ksocket,    *)
(* then the configuration messages and the removal of the temporary hook. *)
(* A failure before the ksocket exists jumps to "fail" (close the socket: *)
(* the node loses its only hook and the kernel removes it); a later one   *)
(* jumps to "fail2" (NgFuncShutdownNode first).  NgFuncShutdownGlobal     *)
(* removes the node at exit when mpd built it.                             *)
(* NgFuncCreateIface, the other builder of ngfunc.c, makes a bundle's      *)
(* iface node as a peer of TEMPHOOK on the shared gLinksCsock, asks its    *)
(* name with NGM_NODEINFO and removes TEMPHOOK at "done" on every path    *)
(* after the NGM_MKPEER.                                                   *)
(*                                                                         *)
(* The caller (iface.c, not in the tree) calls the init while              *)
(* gNetflowNodeID is 0.  Each init is one step of the event loop.  The     *)
(* kernel is observed through ghost variables: the nodes mpd built that   *)
(* still exist, which of them holds the name, and those whose             *)
(* NGM_SHUTDOWN was refused.                                               *)
(***************************************************************************)
EXTENDS Naturals

CONSTANTS
  MaxInits,  \* bound: calls of NgFuncInitGlobalNetflow
  MaxIfaces  \* bound: calls of NgFuncCreateIface

ASSUME MaxInits \in Nat \ {0} /\ MaxIfaces \in Nat \ {0}

OwnIds   == 1 .. MaxInits   \* node k is built by the k-th init
UserNode == MaxInits + 1    \* the node named by `set netflow node`
NoNode   == 0

VARIABLES
  gNetflowNode,          \* a node to use is known (built, or set by name)
  gNetflowNodeShutdown,  \* NgFuncShutdownGlobal removes it at exit
  gNetflowNodeName,      \* "default" ("mpd-nf"), "own" ("mpd%d-nf") or "user"
  gNetflowNodeID,        \* the node id in use, NoNode when 0
  userNode,              \* the node named by the administrator exists
  ownNodes,              \* ghost: nodes mpd built that exist in the kernel
  ownNamed,              \* ghost: the built node holding "mpd%d-nf", or NoNode
  refused,               \* ghost: built nodes whose NGM_SHUTDOWN failed
  inits,                 \* init calls so far
  exited,                \* NgFuncShutdownGlobal ran
  tempHook,              \* ghost: TEMPHOOK is a hook of gLinksCsock
  ifaceNodes,            \* ghost: iface nodes built; node i by the i-th call
  ifaceNamed,            \* ghost: nodes whose name was copied into buf
  rmRefused,             \* ghost: some NGM_RMHOOK of TEMPHOOK was refused
  ifaceCalls,            \* NgFuncCreateIface calls so far
  ifaceOk                \* the last call returned 0

vars == <<gNetflowNode, gNetflowNodeShutdown, gNetflowNodeName, gNetflowNodeID,
          userNode, ownNodes, ownNamed, refused, inits, exited,
          tempHook, ifaceNodes, ifaceNamed, rmRefused, ifaceCalls, ifaceOk>>

ifaceVars == <<tempHook, ifaceNodes, ifaceNamed, rmRefused, ifaceCalls, ifaceOk>>

TypeOK ==
  /\ gNetflowNode \in BOOLEAN /\ gNetflowNodeShutdown \in BOOLEAN
  /\ gNetflowNodeName \in {"default", "own", "user"}
  /\ gNetflowNodeID \in {NoNode, UserNode} \cup OwnIds
  /\ userNode \in BOOLEAN
  /\ ownNodes \subseteq OwnIds /\ refused \subseteq OwnIds
  /\ ownNamed \in {NoNode} \cup OwnIds
  /\ inits \in 0 .. MaxInits /\ exited \in BOOLEAN
  /\ tempHook \in BOOLEAN /\ rmRefused \in BOOLEAN /\ ifaceOk \in BOOLEAN
  /\ ifaceNamed \subseteq ifaceNodes /\ ifaceNodes \subseteq 1 .. MaxIfaces
  /\ ifaceCalls \in 0 .. MaxIfaces

-----------------------------------------------------------------------------
(* NgGetNodeID of the node named gNetflowNodeName: 0 when NGM_NODEINFO or  *)
(* its reply fails, or when no node has that name.                         *)
NgGetNodeIDByName_noRecvCheck(ok) ==
  CASE ~ok                                                 -> UserNode + 1
    [] gNetflowNodeName = "user" /\ userNode               -> UserNode
    [] gNetflowNodeName = "own" /\ ownNamed \in ownNodes   -> ownNamed
    [] OTHER                                               -> NoNode

NgGetNodeIDByName(ok) ==
  CASE ~ok                                                 -> NoNode
    [] gNetflowNodeName = "user" /\ userNode               -> UserNode
    [] gNetflowNodeName = "own" /\ ownNamed \in ownNodes   -> ownNamed
    [] OTHER                                               -> NoNode

(* The steps of the build, in order; "configure" is any of the messages    *)
(* from NGM_NETFLOW_SETTIMEOUTS to the NGM_RMHOOK of the temporary hook.   *)
BuildSteps == <<"mkpeer", "nodeid", "name", "ksocket", "configure">>

(* NGM_NAME fails while an earlier node of ours still holds the name.     *)
NameTaken == ownNamed \in ownNodes

(* The failing step: the kernel's choice, or NGM_NAME when the name is     *)
(* taken and nothing failed before it.                                     *)
FailingStep(failAt) ==
  IF NameTaken /\ failAt \in {"ksocket", "configure", "none"} THEN "name" ELSE failAt

(* Build of node k that fails at step f.  Up to NGM_MKPEER of the ksocket  *)
(* ("fail"): gNetflowNodeID = 0, close(csock), the node has lost its only *)
(* hook.  Afterwards ("fail2"): NgFuncShutdownNode first; when it is       *)
(* refused the node lives on through its export hook, named.               *)
BuildFails_noShutdown(k, f, shutOk) ==
  /\ gNetflowNodeID' = NoNode
  /\ IF f = "configure"
     THEN /\ ownNodes' = ownNodes \cup {k}
          /\ ownNamed' = k
          /\ UNCHANGED refused
     ELSE UNCHANGED <<ownNodes, ownNamed, refused>>

BuildFails_keepId(k, f, shutOk) ==
  /\ gNetflowNodeID' = IF f \in {"name", "ksocket", "configure"} THEN k ELSE NoNode
  /\ IF f = "configure" /\ ~shutOk
     THEN /\ ownNodes' = ownNodes \cup {k}
          /\ ownNamed' = k
          /\ refused' = refused \cup {k}
     ELSE UNCHANGED <<ownNodes, ownNamed, refused>>

BuildFails(k, f, shutOk) ==
  /\ gNetflowNodeID' = NoNode
  /\ IF f = "configure" /\ ~shutOk
     THEN /\ ownNodes' = ownNodes \cup {k}
          /\ ownNamed' = k
          /\ refused' = refused \cup {k}
     ELSE UNCHANGED <<ownNodes, ownNamed, refused>>

(* The build completes: the temporary hook is removed, gNetflowNode = TRUE *)
(* and gNetflowNodeID names the new node.                                  *)
BuildSucceeds(k) ==
  /\ gNetflowNode' = TRUE
  /\ gNetflowNodeID' = k
  /\ ownNodes' = ownNodes \cup {k}
  /\ ownNamed' = k
  /\ UNCHANGED refused

(* NgFuncInitGlobalNetflow: a control socket (NgMkSockNode may fail, and   *)
(* nothing else happens); with gNetflowNode set, only the lookup by name;  *)
(* otherwise the name becomes "mpd%d-nf" and node k is built.              *)
NgFuncInitGlobalNetflow ==
  /\ ~exited /\ gNetflowNodeID = NoNode
  /\ inits < MaxInits /\ inits' = inits + 1
  /\ \E sockOk, lookupOk, shutOk \in BOOLEAN,
        failAt \in {BuildSteps[i] : i \in DOMAIN BuildSteps} \cup {"none"} :
       LET k == inits + 1
           f == FailingStep(failAt)
       IN IF ~sockOk
          THEN UNCHANGED <<gNetflowNode, gNetflowNodeName, gNetflowNodeID,
                           ownNodes, ownNamed, refused>>
          ELSE IF gNetflowNode
          THEN /\ gNetflowNodeID' = NgGetNodeIDByName(lookupOk)
               /\ UNCHANGED <<gNetflowNode, gNetflowNodeName, ownNodes,
                              ownNamed, refused>>
          ELSE /\ gNetflowNodeName' = "own"
               /\ IF f = "none"
                  THEN BuildSucceeds(k)
                  ELSE BuildFails(k, f, shutOk) /\ UNCHANGED gNetflowNode
  /\ UNCHANGED <<gNetflowNodeShutdown, userNode, exited>>
  /\ UNCHANGED ifaceVars

(* NetflowSetCommand SET_NODE (`set netflow node {name}`): the name is     *)
(* copied, gNetflowNode = TRUE and gNetflowNodeShutdown = FALSE; the node *)
(* id in use is left as it is.  A bad name is refused by Error().          *)
SetNode ==
  /\ ~exited
  /\ gNetflowNodeName' = "user"
  /\ gNetflowNode' = TRUE
  /\ gNetflowNodeShutdown' = FALSE
  /\ UNCHANGED <<gNetflowNodeID, userNode, ownNodes, ownNamed, refused, inits, exited>>
  /\ UNCHANGED ifaceVars

(* NgFuncShutdownGlobal at exit: when gNetflowNode and                     *)
(* gNetflowNodeShutdown are set, a control socket (it may fail) and        *)
(* NgFuncShutdownNode of gNetflowNodeID, which retries ENOBUFS ten times  *)
(* and may still be refused.                                               *)
NgFuncShutdownGlobal ==
  /\ ~exited /\ exited' = TRUE
  /\ \E sockOk, shutOk \in BOOLEAN :
       IF gNetflowNode /\ gNetflowNodeShutdown /\ sockOk
       THEN IF shutOk
            THEN ownNodes' = ownNodes \ {gNetflowNodeID} /\ UNCHANGED refused
            ELSE /\ refused' = refused \cup ({gNetflowNodeID} \cap OwnIds)
                 /\ UNCHANGED ownNodes
       ELSE UNCHANGED <<ownNodes, refused>>
  /\ UNCHANGED <<gNetflowNode, gNetflowNodeShutdown, gNetflowNodeName,
                 gNetflowNodeID, userNode, ownNamed, inits>>
  /\ UNCHANGED ifaceVars

(* NgFuncCreateIface: NGM_MKPEER of an iface node on TEMPHOOK, refused    *)
(* (return -1 at once) when the kernel says no or TEMPHOOK is still a     *)
(* hook of gLinksCsock.  Then NGM_NODEINFO and its reply; strlcpy of the  *)
(* name into buf only when both succeed, rtn = -1 otherwise.  At "done"   *)
(* NGM_RMHOOK of TEMPHOOK, rtn = -1 when it is refused.  The iface node    *)
(* outlives the removal of its only hook.                                  *)
CreateIfaceBody_skipDone(n, infoOk, recvOk, rmOk) ==
  /\ ifaceNamed' = IF infoOk /\ recvOk THEN ifaceNamed \cup {n} ELSE ifaceNamed
  /\ tempHook' = IF infoOk THEN ~rmOk ELSE TRUE
  /\ rmRefused' = (rmRefused \/ (infoOk /\ ~rmOk))
  /\ ifaceOk' = (infoOk /\ recvOk /\ rmOk)

CreateIfaceBody_keepRtnOnRmhook(n, infoOk, recvOk, rmOk) ==
  /\ ifaceNamed' = IF infoOk /\ recvOk THEN ifaceNamed \cup {n} ELSE ifaceNamed
  /\ tempHook' = ~rmOk
  /\ rmRefused' = (rmRefused \/ ~rmOk)
  /\ ifaceOk' = (infoOk /\ recvOk)

CreateIfaceBody(n, infoOk, recvOk, rmOk) ==
  /\ ifaceNamed' = IF infoOk /\ recvOk THEN ifaceNamed \cup {n} ELSE ifaceNamed
  /\ tempHook' = ~rmOk
  /\ rmRefused' = (rmRefused \/ ~rmOk)
  /\ ifaceOk' = (infoOk /\ recvOk /\ rmOk)

NgFuncCreateIface ==
  /\ ~exited
  /\ ifaceCalls < MaxIfaces
  /\ ifaceCalls' = ifaceCalls + 1
  /\ \E mkOk, infoOk, recvOk, rmOk \in BOOLEAN :
       IF tempHook \/ ~mkOk
       THEN /\ ifaceOk' = FALSE
            /\ UNCHANGED <<tempHook, ifaceNodes, ifaceNamed, rmRefused>>
       ELSE /\ ifaceNodes' = ifaceNodes \cup {ifaceCalls + 1}
            /\ CreateIfaceBody(ifaceCalls + 1, infoOk, recvOk, rmOk)
  /\ UNCHANGED <<gNetflowNode, gNetflowNodeShutdown, gNetflowNodeName,
                 gNetflowNodeID, userNode, ownNodes, ownNamed, refused,
                 inits, exited>>

(* The globals' initial values (ngfunc.c); the administrator's node may or *)
(* may not exist.                                                          *)
Init ==
  /\ gNetflowNode = FALSE /\ gNetflowNodeShutdown = TRUE
  /\ gNetflowNodeName = "default" /\ gNetflowNodeID = NoNode
  /\ userNode \in BOOLEAN
  /\ ownNodes = {} /\ ownNamed = NoNode /\ refused = {}
  /\ inits = 0 /\ exited = FALSE
  /\ tempHook = FALSE /\ ifaceNodes = {} /\ ifaceNamed = {}
  /\ rmRefused = FALSE /\ ifaceCalls = 0 /\ ifaceOk = FALSE

Next == NgFuncInitGlobalNetflow \/ SetNode \/ NgFuncShutdownGlobal
          \/ NgFuncCreateIface

Spec == Init /\ [][Next]_vars

-----------------------------------------------------------------------------
(* Every node mpd built that still exists is the one gNetflowNodeID names, *)
(* unless its NGM_SHUTDOWN was refused: a failed init, at any of its       *)
(* steps, leaves no half-built node behind (the "fail" and "fail2" paths   *)
(* of NgFuncInitGlobalNetflow).                                            *)
NoOrphanOwnNode ==
  \A k \in ownNodes : k = gNetflowNodeID \/ k \in refused

(* While mpd runs, a non-zero gNetflowNodeID names a node that exists:     *)
(* the id NgGetNodeID stored half-way through a failed build is reset.    *)
NodeIdNamesLiveNode ==
  ~exited =>
    /\ gNetflowNodeID \in OwnIds => gNetflowNodeID \in ownNodes
    /\ gNetflowNodeID = UserNode => userNode

(* TEMPHOOK stays a hook of gLinksCsock only after a refused NGM_RMHOOK:   *)
(* every path of NgFuncCreateIface past the NGM_MKPEER goes through       *)
(* "done", or every later call's NGM_MKPEER would fail on the name.       *)
TempHookRemoved == tempHook => rmRefused

(* A call of NgFuncCreateIface that returned 0 built a node, gave its name *)
(* to the caller and left no TEMPHOOK behind for the next call.            *)
IfaceSuccessNamed ==
  ifaceOk => /\ ifaceCalls \in ifaceNamed
             /\ ~tempHook
=============================================================================
