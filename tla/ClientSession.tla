--------------------------- MODULE ClientSession ----------------------------
(***************************************************************************)
(* A connected Session of crates/russh-extra/src/client.rs and the calls   *)
(* that open a session channel on it: Session::command, Shell::open and    *)
(* Subsystem::open of shell.rs, and Session::disconnect.                   *)
(*                                                                         *)
(* All calls share one russh handle behind a tokio mutex.  Each holds the  *)
(* lock from before it opens its channel until it returns, so a call that  *)
(* waits for the server keeps every other call out.  The server and the    *)
(* transport are modelled from the messages the code handles.              *)
(***************************************************************************)
EXTENDS ClientAuth, FiniteSets, FiniteSetsExt

CONSTANTS
    Calls,        \* the calls made on the session
    Nobody,       \* no call
    Config,       \* what each call is: its op, and of a shell its pty and env
    Limit,        \* CommandLimits: stdout and stderr
    MaxMsgs       \* messages the server sends on a channel, replies aside

Ops == {"command", "shell", "subsystem", "disconnect"}

ASSUME SessionAssumption ==
    /\ Nobody \notin Calls
    /\ Config \in [Calls -> [op : Ops, pty : BOOLEAN, env : Nat]]
    /\ Limit \in Nat /\ MaxMsgs \in Nat

VARIABLES
    pc,         \* where each call is
    result,     \* what it returned
    handle,     \* who holds the lock of the russh handle
    connected,  \* is the connection up?
    inbox,      \* messages of the channel that wait() has not returned
    got,        \* messages wait() has returned, oldest first
    sent,       \* what the call has sent on its channel
    open,       \* has the server yet to close the channel?
    env,        \* environment variables still to be sent
    cmd         \* the locals of Session::command

sessionVars == <<pc, result, handle, connected, inbox, got, sent, open, env, cmd>>
vars == <<authVars, sessionVars>>

Locals == [stdout |-> 0, stderr |-> 0, exit |-> "missing",
           confirmed |-> FALSE, stdin_sent |-> FALSE]

Init ==
    /\ AuthInit
    /\ pc = [c \in Calls |-> "idle"]
    /\ result = [c \in Calls |-> "none"]
    /\ handle = Nobody
    /\ connected = TRUE
    /\ inbox = [c \in Calls |-> <<>>]
    /\ got = [c \in Calls |-> <<>>]
    /\ sent = [c \in Calls |-> <<>>]
    /\ open = [c \in Calls |-> FALSE]
    /\ env = [c \in Calls |-> Config[c].env]
    /\ cmd = [c \in Calls |-> Locals]

(* Channel messages: replies to requests, output of n bytes, the rest,     *)
(* among it a success that answers no request.                             *)
Replies == {"success", "failure"}
Msg(t, n) == [t |-> t, n |-> n]
Outputs == {Msg(t, n) : t \in {"data", "extended"}, n \in 1 .. 2}
Exits == {Msg(t, 0) : t \in {"status", "signal"}}
Others == {Msg(t, 0) : t \in {"eof", "adjust"}} \cup {Msg("success", 1)}

(* The errors of russh calls and what each operation makes of them.        *)
OpenErrors == {"ChannelOpenFailure", "RequestDenied", "NotAuthenticated",
               "ConnectionTimeout", "Disconnect", "IO", "Other"}
SendErrors == {"SendError", "Disconnect"}

MapChannelOpenError == [e \in OpenErrors |->
    CASE e \in {"ChannelOpenFailure", "Other"} -> "Open"
      [] e = "RequestDenied" -> "Request"
      [] e = "NotAuthenticated" -> "Unavailable"
      [] e = "ConnectionTimeout" -> "Timeout"
      [] e = "Disconnect" -> "Disconnected"
      [] e = "IO" -> "Transport"]

MapCommandError == [e \in SendErrors |-> IF e = "SendError" THEN "Write" ELSE "Disconnected"]
MapShellError == [e \in SendErrors |-> IF e = "SendError" THEN "Write" ELSE "Disconnected"]

Goto(c, where) == pc' = [pc EXCEPT ![c] = where]

(* The call returns; the guard of the handle is dropped.                   *)
Finish(c, r) ==
    /\ Goto(c, "done")
    /\ result' = [result EXCEPT ![c] = r]
    /\ handle' = Nobody

Continue(c, where) == Goto(c, where) /\ UNCHANGED <<result, handle>>

(* A send reaches the channel unless the connection is gone.               *)
Send(c, what) ==
    sent' = [sent EXCEPT ![c] = IF connected THEN @ \o what ELSE @]

Close(c) == Send(c, <<"close">>)

-----------------------------------------------------------------------------
(* Every call: the lock, then the channel under the channel_open timeout.  *)
(* By then the calls that have returned are forgotten with their channels. *)
Call(c) ==
    /\ apc = "session"
    /\ pc[c] = "idle"
    /\ Continue(c, "lock")
    /\ UNCHANGED <<connected, inbox, got, sent, open, env, cmd>>

Lock(c) ==
    /\ pc[c] = "lock" /\ handle = Nobody
    /\ handle' = c
    /\ pc' = [d \in Calls |-> IF d = c THEN "open" ELSE IF pc[d] = "done" THEN "gone" ELSE pc[d]]
    /\ LET Kept(f, init) == [d \in Calls |-> IF pc[d] = "done" THEN init ELSE f[d]] IN
       /\ result' = Kept(result, "none")
       /\ inbox' = Kept(inbox, <<>>) /\ got' = Kept(got, <<>>) /\ sent' = Kept(sent, <<>>)
       /\ open' = Kept(open, FALSE) /\ env' = Kept(env, 0) /\ cmd' = Kept(cmd, Locals)
    /\ UNCHANGED connected

(* No channel, or one on which the first request cannot be sent.           *)
OpenFails(c) ==
    /\ pc[c] = "open" /\ Config[c].op # "disconnect"
    /\ \/ \E e \in OpenErrors : Finish(c, MapChannelOpenError[e])
       \/ /\ ~connected
          /\ \E e \in SendErrors :
                Finish(c, IF Config[c].op = "command" THEN MapCommandError[e] ELSE MapShellError[e])
    /\ UNCHANGED <<connected, inbox, got, sent, open, env, cmd>>

(* The request that makes the channel what the call wants; the x11 and     *)
(* agent requests before it ask for no reply.                              *)
StartRequest(c) ==
    IF Config[c].op = "command" THEN "exec" ELSE Config[c].op

Waiting(c) == IF Config[c].op = "command" THEN "loop" ELSE "start"

(* The channel is open and the first request sent: a pty for a shell that  *)
(* has one, or else the start request.                                     *)
Opened(c) ==
    /\ pc[c] = "open" /\ Config[c].op # "disconnect" /\ connected
    /\ open' = [open EXCEPT ![c] = TRUE]
    /\ LET pty == Config[c].op = "shell" /\ Config[c].pty IN
       /\ Send(c, <<IF pty THEN "pty" ELSE StartRequest(c)>>)
       /\ Continue(c, IF pty THEN "pty" ELSE Waiting(c))
    /\ UNCHANGED <<connected, inbox, got, env, cmd>>

Disconnect(c) ==
    /\ pc[c] = "open" /\ Config[c].op = "disconnect"
    /\ Finish(c, IF connected THEN "ok" ELSE "Ssh")
    /\ connected' = FALSE
    /\ UNCHANGED <<inbox, got, sent, open, env, cmd>>

-----------------------------------------------------------------------------
(* channel.wait(): the next message, or None once the channel has ended.   *)
Next_(c) == Head(inbox[c])

Take(c) ==
    /\ inbox[c] # <<>>
    /\ inbox' = [inbox EXCEPT ![c] = Tail(@)]
    /\ got' = [got EXCEPT ![c] = Append(@, Next_(c))]
    /\ UNCHANGED <<connected, open>>

Ended(c) ==
    /\ inbox[c] = <<>> /\ (~connected \/ ~open[c])
    /\ UNCHANGED <<inbox, got, connected, open>>

-----------------------------------------------------------------------------
(* The loop of Session::command.                                           *)

(* A send of the loop that fails ends the command.                         *)
SendFails(c) ==
    /\ ~connected
    /\ \E e \in SendErrors : Finish(c, MapCommandError[e])
    /\ UNCHANGED sent

CmdSkip(c) == Continue(c, "loop") /\ UNCHANGED sent

(* Mutant: stdin is sent again with every success.                         *)
Bug_StdinTwice(c) ==
    /\ cmd' = [cmd EXCEPT ![c].confirmed = TRUE]
    /\ \/ connected /\ Send(c, <<"stdin">>) /\ Continue(c, "eof")
       \/ SendFails(c)

(* The exec request is granted: stdin is sent once, then EOF (a command    *)
(* without stdin sends the EOF alone, here one after nothing).             *)
CmdSuccess(c) ==
    /\ cmd' = [cmd EXCEPT ![c].confirmed = TRUE]
    /\ \/ cmd[c].stdin_sent /\ CmdSkip(c)
       \/ ~cmd[c].stdin_sent /\ connected /\ Send(c, <<"stdin">>) /\ Continue(c, "eof")
       \/ ~cmd[c].stdin_sent /\ SendFails(c)

(* channel.eof() after the data.                                           *)
CmdEof(c) ==
    /\ pc[c] = "eof"
    /\ \/ /\ connected /\ Send(c, <<"eof">>) /\ Continue(c, "loop")
          /\ cmd' = [cmd EXCEPT ![c].stdin_sent = TRUE]
       \/ SendFails(c) /\ UNCHANGED cmd
    /\ UNCHANGED <<connected, inbox, got, open, env>>

CmdFailure(c) == Finish(c, "Request") /\ Close(c) /\ UNCHANGED cmd

(* Mutant: output over the limit is cut off there.                         *)
Bug_Truncate(c, stream, n) ==
    /\ cmd' = [cmd EXCEPT ![c][stream] = IF @ + n > Limit THEN Limit ELSE @ + n]
    /\ Continue(c, "loop") /\ UNCHANGED sent

(* append_limited: too much output ends the command.                       *)
AppendLimited(c, stream, n) ==
    IF cmd[c][stream] + n > Limit
    THEN Finish(c, "Read") /\ Close(c) /\ UNCHANGED cmd
    ELSE /\ cmd' = [cmd EXCEPT ![c][stream] = @ + n]
         /\ Continue(c, "loop") /\ UNCHANGED sent

(* The first exit status or signal counts.                                 *)
CmdExit(c, how) ==
    /\ cmd' = [cmd EXCEPT ![c].exit = IF @ = "missing" THEN how ELSE @]
    /\ Continue(c, "loop") /\ UNCHANGED sent

(* The channel is closed: no success without the server's confirmation.    *)
CmdClosed(c) ==
    /\ IF cmd[c].confirmed THEN Finish(c, "ok") /\ Close(c)
       ELSE Finish(c, "Protocol") /\ UNCHANGED sent
    /\ UNCHANGED cmd

CommandMessage(c) ==
    /\ pc[c] = "loop"
    /\ Take(c)
    /\ LET m == Next_(c) IN
       \/ m.t = "success" /\ CmdSuccess(c)
       \/ m.t = "failure" /\ CmdFailure(c)
       \/ m.t = "data" /\ AppendLimited(c, "stdout", m.n)
       \/ m.t = "extended" /\ AppendLimited(c, "stderr", m.n)
       \/ m.t \in {"status", "signal"} /\ CmdExit(c, m.t)
       \/ m.t \in {"eof", "adjust"} /\ CmdSkip(c) /\ UNCHANGED cmd
       \/ m.t = "close" /\ CmdClosed(c)
    /\ UNCHANGED env

(* wait() returned None: the command was cut off if the handle is closed,  *)
(* and has come to its end if the handle is not, or is not closed yet.     *)
CommandLost(c) ==
    /\ pc[c] = "loop" /\ Ended(c)
    /\ \/ Finish(c, "Disconnected") /\ UNCHANGED <<sent, cmd>>
       \/ CmdClosed(c)
    /\ UNCHANGED env

-----------------------------------------------------------------------------
(* Shell::open and Subsystem::open.                                        *)

(* request_shell or request_subsystem.                                     *)
SendStart(c) ==
    \/ connected /\ Send(c, <<StartRequest(c)>>) /\ Continue(c, "start")
    \/ ~connected /\ (\E e \in SendErrors : Finish(c, MapShellError[e])) /\ UNCHANGED sent

(* Mutant: one variable too many.                                          *)
Bug_EnvOffByOne(c) ==
    IF env[c] >= 0
    THEN /\ env' = [env EXCEPT ![c] = @ - 1]
         /\ Send(c, <<"env">>) /\ Continue(c, "env")
    ELSE SendStart(c) /\ UNCHANGED env

(* The next environment variable, or the start request.                    *)
NextEnv(c) ==
    IF env[c] > 0
    THEN /\ env' = [env EXCEPT ![c] = @ - 1]
         /\ Send(c, <<"env">>) /\ Continue(c, "env")
    ELSE SendStart(c) /\ UNCHANGED env

Refuse(c) == Finish(c, "Request") /\ Close(c) /\ UNCHANGED env

(* The wait after request_pty: what is no refusal is taken for consent.    *)
PtyReply(c) ==
    /\ pc[c] = "pty"
    /\ \/ Take(c) /\ IF Next_(c).t = "failure" THEN Refuse(c) ELSE NextEnv(c)
       \/ Ended(c) /\ Refuse(c)
    /\ UNCHANGED cmd

(* The wait after set_env: whatever comes is ignored.                      *)
EnvReply(c) ==
    /\ pc[c] = "env"
    /\ Take(c) \/ Ended(c)
    /\ NextEnv(c)
    /\ UNCHANGED cmd

(* Mutant: a refused shell is returned as a handle.                        *)
Bug_RefusedShell(c) ==
    /\ pc[c] = "start"
    /\ \/ Take(c) /\ Finish(c, "ok") /\ UNCHANGED <<sent, env>>
       \/ Ended(c) /\ Refuse(c)
    /\ UNCHANGED cmd

(* The wait after the start request.                                       *)
StartReply(c) ==
    /\ pc[c] = "start"
    /\ \/ /\ Take(c)
          /\ IF Next_(c).t = "failure" THEN Refuse(c)
             ELSE Finish(c, "ok") /\ UNCHANGED <<sent, env>>
       \/ Ended(c) /\ Refuse(c)
    /\ UNCHANGED cmd

-----------------------------------------------------------------------------
(* The server.  It answers the requests of a channel in order, and sends   *)
(* output, exits and the rest when it likes until it closes the channel.   *)
Requests(c) == Cardinality({i \in DOMAIN sent[c] :
                   sent[c][i] \in {"exec", "pty", "env", "shell", "subsystem"}})
All(c) == got[c] \o inbox[c]
Count(c, S) == Cardinality({i \in DOMAIN All(c) : All(c)[i].t \in S /\ All(c)[i].n = 0})

(* To Shell::open every message that is no reply is the same.              *)
Chatter(c) ==
    IF Config[c].op = "command" THEN Outputs \cup Exits \cup Others
    ELSE {Msg("adjust", 0)}

Deliver(c, m) ==
    /\ connected /\ open[c]
    /\ pc[c] # "done"
    /\ inbox' = [inbox EXCEPT ![c] = Append(@, m)]
    /\ UNCHANGED <<pc, result, handle, connected, got, sent, env, cmd>>

ServerReply(c) ==
    /\ Count(c, Replies) < Requests(c)
    /\ \E t \in Replies : Deliver(c, Msg(t, 0))
    /\ UNCHANGED open

ServerSend(c) ==
    /\ Len(All(c)) - Count(c, Replies) < MaxMsgs
    /\ \E m \in Chatter(c) : Deliver(c, m)
    /\ UNCHANGED open

ServerClose(c) ==
    /\ Deliver(c, Msg("close", 0))
    /\ open' = [open EXCEPT ![c] = FALSE]

ConnectionLost ==
    /\ apc = "session"
    /\ connected
    /\ connected' = FALSE
    /\ UNCHANGED <<pc, result, handle, inbox, got, sent, open, env, cmd>>

-----------------------------------------------------------------------------
Step(c) ==
    \/ Lock(c) \/ OpenFails(c) \/ Opened(c) \/ Disconnect(c)
    \/ CommandMessage(c) \/ CmdEof(c) \/ CommandLost(c)
    \/ PtyReply(c) \/ EnvReply(c) \/ StartReply(c)

SessionNext ==
    \/ \E c \in Calls : Call(c) \/ Step(c)
    \/ \E c \in Calls : ServerReply(c) \/ ServerSend(c) \/ ServerClose(c)
    \/ ConnectionLost

Next ==
    \/ AuthNext /\ UNCHANGED sessionVars
    \/ SessionNext /\ UNCHANGED authVars

Spec == Init /\ [][Next]_vars

(* The tasks of the client run, and timers fire.  The code has no timeout  *)
(* on the replies of a channel, so it relies on the server to close a      *)
(* channel, if it does nothing else, or on the connection to break.        *)
Fairness ==
    /\ WF_vars(AuthStep /\ UNCHANGED sessionVars)
    /\ \A c \in Calls :
          /\ WF_vars(Step(c) /\ UNCHANGED authVars)
          /\ WF_vars(ServerClose(c) /\ UNCHANGED authVars)

FairSpec == Spec /\ Fairness

-----------------------------------------------------------------------------
Results == {"none", "ok", "Read", "Protocol", "Write", "Ssh"}
           \cup {MapChannelOpenError[e] : e \in OpenErrors}
MessageTypes == {"success", "failure", "data", "extended", "status", "signal",
                 "eof", "adjust", "close"}
Messages == [t : MessageTypes, n : 0 .. 2]

TypeOK ==
    /\ AuthTypeOK
    /\ pc \in [Calls -> {"idle", "lock", "open", "loop", "eof", "pty", "env", "start", "done", "gone"}]
    /\ result \in [Calls -> Results]
    /\ handle \in Calls \cup {Nobody}
    /\ connected \in BOOLEAN /\ open \in [Calls -> BOOLEAN]
    /\ \A c \in Calls : inbox[c] \in Seq(Messages)
    /\ \A c \in Calls : got[c] \in Seq(Messages)
    /\ env \in [Calls -> Nat]
    /\ cmd \in [Calls -> [stdout : 0 .. Limit, stderr : 0 .. Limit,
                          exit : {"missing", "status", "signal"},
                          confirmed : BOOLEAN, stdin_sent : BOOLEAN]]

Weight(m, t) == IF m.t = t THEN m.n ELSE 0
Bytes(c, t) ==
    LET tot[i \in 0 .. Len(got[c])] == IF i = 0 THEN 0 ELSE tot[i - 1] + Weight(got[c][i], t)
    IN  tot[Len(got[c])]
Received(c, t) == \E i \in DOMAIN got[c] : got[c][i].t = t
IsExit(m) == m.t \in {"status", "signal"}
FirstExit(c) ==
    LET exits == {i \in DOMAIN got[c] : IsExit(got[c][i])} IN
    IF exits = {} THEN "missing" ELSE got[c][Min(exits)].t

(* A CommandOutput is what the server produced: the command was confirmed  *)
(* and not refused, its channel was closed by the server or its connection *)
(* had gone ("`Close` or `None` from `russh::Channel::wait()` ends         *)
(* collection"), stdout and stderr hold every byte that came before, and   *)
(* exit is the first exit reported; and it fails with Read exactly when    *)
(* the server sent more than the limit allows on one of the streams:       *)
(* output is neither cut off there nor refused when it fits.               *)
OutputIsComplete ==
    /\ \A c \in Calls : Config[c].op = "command" /\ result[c] = "ok" =>
        /\ Received(c, "success") /\ ~Received(c, "failure")
        /\ ~connected \/ got[c][Len(got[c])].t = "close"
        /\ cmd[c].stdout = Bytes(c, "data") /\ cmd[c].stderr = Bytes(c, "extended")
        /\ cmd[c].exit = FirstExit(c)
    /\ \A c \in Calls : Config[c].op = "command" /\ pc[c] = "done" =>
        (result[c] = "Read" <=> Bytes(c, "data") > Limit \/ Bytes(c, "extended") > Limit)

(* stdin reaches the server once, after the exec it belongs to was         *)
(* confirmed, and EOF follows it before anything else is sent, whatever    *)
(* the server sends; only a command whose connection broke in between, or  *)
(* that is about to send it, has sent stdin without it.                    *)
StdinOnce ==
    \A c \in Calls : Config[c].op = "command" =>
        \/ sent[c] \in {<<>>, <<"exec">>, <<"exec", "close">>}
        \/ /\ sent[c] \in {<<"exec", "stdin", "eof">>, <<"exec", "stdin", "eof", "close">>}
           /\ Received(c, "success")
        \/ /\ sent[c] = <<"exec", "stdin">>
           /\ Received(c, "success") /\ (pc[c] = "eof" \/ ~connected)

(* A shell or subsystem handle is given out only when neither the pty nor  *)
(* the start request was refused, as long as the server sends nothing but  *)
(* replies before it has started the shell.                                *)
ShellIsGranted ==
    \A c \in Calls :
        /\ Config[c].op \in {"shell", "subsystem"} /\ result[c] = "ok"
        /\ \A i \in DOMAIN got[c] : got[c][i].t \in Replies
        => /\ Len(got[c]) = Requests(c)
           /\ got[c][Len(got[c])].t = "success"
           /\ Config[c].op = "shell" /\ Config[c].pty => got[c][1].t = "success"

(* connect returns, unless it waits for an agent that never answers: the   *)
(* wait for the agent's identities is the only one without a timeout.  And *)
(* so does every call that waits for the handle: no call returns with the  *)
(* lock held, and none is left waiting when its connection is lost.        *)
CallsReturn ==
    /\ <>(outcome # "none") \/ <>[](apc = "agent")
    /\ \A c \in Calls : pc[c] = "lock" ~> pc[c] \in {"done", "gone"}
=============================================================================
