-------------------------- MODULE MCClientSession ---------------------------
(* A small instance of ClientSession for TLC. *)
EXTENDS ClientSession, TLC

CONSTANTS c1, c2, c3, c4

(* Every kind of credential, first, in the middle and last.                *)
Lists == {<<>>, <<"key", "password", "cert">>, <<"agent", "kbd">>,
          <<"kbd", "none">>, <<"badkey", "password">>, <<"badcert">>}

(* A command, a shell with a pty and an environment, a subsystem,          *)
(* and the end of the session under them.                                  *)
Mixed == (c1 :> [op |-> "command", pty |-> FALSE, env |-> 0])
      @@ (c2 :> [op |-> "shell", pty |-> TRUE, env |-> 1])
      @@ (c3 :> [op |-> "subsystem", pty |-> FALSE, env |-> 0])
      @@ (c4 :> [op |-> "disconnect", pty |-> FALSE, env |-> 0])
=============================================================================
