---------------------------- MODULE MCSftpClient ----------------------------
(* Small instances of SftpClient for TLC. *)
EXTENDS SftpClient, TLC

CONSTANTS c1, c2, c3

(* Every call of the same family: the calls can be exchanged.              *)
AllStatus == [c \in Calls |-> "status"]
Mixed == [c \in Calls |-> IF c = c1 THEN "batch" ELSE "status"]

Symmetry == Permutations(Calls)
=============================================================================
