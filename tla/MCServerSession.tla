-------------------------- MODULE MCServerSession ---------------------------
(* Small instances of ServerSession for TLC. *)
EXTENDS ServerSession, TLC

CONSTANTS a, b, c

(* A server built with every callback.                                     *)
All == Callbacks

Symmetry == Permutations(Chans)
=============================================================================
