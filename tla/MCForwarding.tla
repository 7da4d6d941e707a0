---------------------------- MODULE MCForwarding ----------------------------
(* A small instance of Forwarding for TLC. *)
EXTENDS Forwarding

CONSTANTS c1, c2

(* An accepted connection or a channel of the server beside a direct open. *)
Pairs == {[c \in Conns |-> IF c = c1 THEN o ELSE "direct"] : o \in Incoming \cup {"local"}}
=============================================================================
