-------------------------- MODULE MCRemoteForward ---------------------------
(* A small instance of RemoteForward for TLC. *)
EXTENDS RemoteForward

CONSTANTS t1, t2, t3, t4

(* Two starts for one port, one that leaves the port to the server, and    *)
(* one for a path.                                                         *)
PortsAndPath == [t \in Tunnels |-> CASE t \in {t1, t2} -> 1 [] t = t3 -> 0 [] t = t4 -> 3]
=============================================================================
