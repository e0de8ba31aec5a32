------------------------------ MODULE MCTcpPhys ------------------------------
(* Model-checking instances of TcpPhys.  Three slots: a link of another   *)
(* type and two TCP links, two self addresses, two calling peers, and     *)
(* room for one listener fewer than the addresses so that TcpIfs[] fills. *)
EXTENDS TcpPhys

MC_Slots == <<"other", "tcp", "tcp">>
MC_Addrs == {"a1", "a2"}
MC_Peers == {"p1", "p2"}
MC_MaxIfs == 1
MC_MaxCmds == 4
=============================================================================
