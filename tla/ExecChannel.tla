---------------------------- MODULE ExecChannel -----------------------------
(***************************************************************************)
(* What a streaming exec promises its two ends, whatever happens between   *)
(* them: the client sees what the handler wrote, in order and up to the    *)
(* handler's exit, then one exit message, then EOF, then Close.  For a     *)
(* handler that says nothing about its exit one is made up once all it     *)
(* wrote is through; which one is left open here.  A client that leaves    *)
(* sees a prefix of that.                                                  *)
(***************************************************************************)
EXTENDS Naturals, Sequences

CONSTANTS ExitStatus   \* every exit message that can be sent

VARIABLES
    written,   \* what the handler's calls were told is on its way
    out,       \* what the channel has carried to the client
    connected  \* is the client's end of the channel still open?

vars == <<written, out, connected>>

Stdout == [t |-> "stdout", v |-> "none"]
Stderr == [t |-> "stderr", v |-> "none"]
Exit(s) == [t |-> "exit", v |-> s]
Eof == [t |-> "eof", v |-> "none"]
Close == [t |-> "close", v |-> "none"]

Last(s) == s[Len(s)]
Exited == out # << >> /\ Last(out).t \in {"exit", "eof", "close"}

Init ==
    /\ written = << >>
    /\ out = << >>
    /\ connected = TRUE

Write(m) ==
    /\ written' = Append(written, m)
    /\ UNCHANGED <<out, connected>>

(* The next thing written reaches the client.                              *)
Deliver ==
    /\ connected /\ ~Exited
    /\ Len(out) < Len(written)
    /\ out' = Append(out, written[Len(out) + 1])
    /\ UNCHANGED <<written, connected>>

(* The handler is gone without a word.                                     *)
Conclude(s) ==
    /\ connected /\ ~Exited
    /\ Len(out) = Len(written)
    /\ out' = Append(out, Exit(s))
    /\ UNCHANGED <<written, connected>>

Finish ==
    /\ connected /\ Exited
    /\ \/ Last(out).t = "exit" /\ out' = Append(out, Eof)
       \/ Last(out).t = "eof" /\ out' = Append(out, Close)
    /\ UNCHANGED <<written, connected>>

Cut ==
    /\ connected' = FALSE
    /\ UNCHANGED <<written, out>>

Next ==
    \/ \E m \in {Stdout, Stderr} \cup {Exit(s) : s \in ExitStatus} : Write(m)
    \/ Deliver
    \/ \E s \in ExitStatus : Conclude(s)
    \/ Finish
    \/ Cut

Spec == Init /\ [][Next]_vars

=============================================================================
