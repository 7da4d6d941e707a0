---------------------------- MODULE Forwarding ------------------------------
(***************************************************************************)
(* Forwarded connections of crates/russh-extra/src/tunnel.rs and           *)
(* client.rs.  A local tunnel listens on a TCP port or a Unix socket; each *)
(* connection it accepts gets a task that opens a channel through the      *)
(* session's handle.  Channels that the server opens (forwarded ports and  *)
(* sockets, X11, agent) get a task that connects to a local target.        *)
(* DirectTcpBuilder::open and its Unix variant open a channel for the      *)
(* caller.  In the first two cases the task then copies between the socket *)
(* and the channel, each direction on its own.                             *)
(*                                                                         *)
(* RemoteForward models how targets are registered and found.              *)
(***************************************************************************)
EXTENDS Naturals, FiniteSets

CONSTANTS
    Conns,      \* connections
    Nobody,     \* no connection
    Origins,    \* where the connections may come from
    MaxBytes    \* bytes sent each way on a connection

(* Channels that the server opens, by the kind of channel.                 *)
Incoming == {"forwarded", "x11", "agent"}

ASSUME ForwardingAssumption ==
    /\ Nobody \notin Conns
    /\ Origins \subseteq [Conns -> Incoming \cup {"local", "direct"}]
    /\ MaxBytes \in Nat

VARIABLES
    origin,    \* where each connection comes from
    kind,      \* the tunnel's listener: "tcp" or "unix"
    tunnel,    \* the accept loop: "none", "running", "closing", "stopped", "failed"
    caller,    \* who started the tunnel: "holds" it, "closing", "closed", "dropped"
    sockfile,  \* the tunnel's Unix socket: "none", "bound", "left" (not removed)
    conn,      \* where the task of each connection is
    handle,    \* who holds the lock of the russh handle
    closed,    \* has the client sent CHANNEL_CLOSE itself?
    broken,    \* connections whose socket or channel failed
    up,        \* socket to channel: t2c
    down       \* channel to socket: c2t

vars == <<origin, kind, tunnel, caller, sockfile, conn, handle, closed, broken, up, down>>
copyVars == <<broken, up, down>>
tunnelVars == <<origin, kind, tunnel, caller, sockfile>>

(* One direction: bytes and EOF the source has sent, bytes and EOF the     *)
(* destination has been given, and whether the copying has ended.          *)
Idle == [src |-> 0, eof |-> FALSE, dst |-> 0, dstEof |-> FALSE, done |-> FALSE]

Init ==
    /\ origin \in Origins
    /\ kind \in {"tcp", "unix"}
    /\ tunnel = "none" /\ caller = "holds" /\ sockfile = "none"
    /\ conn = [c \in Conns |-> "none"]
    /\ handle = Nobody
    /\ closed = {} /\ broken = {}
    /\ up = [c \in Conns |-> Idle] /\ down = [c \in Conns |-> Idle]

Goto(c, where) == conn' = [conn EXCEPT ![c] = where]

-----------------------------------------------------------------------------
(* The tunnel.                                                             *)

(* start_local_forward: the listener is bound, and the loop spawned.       *)
StartTcp ==
    /\ tunnel = "none" /\ kind = "tcp"
    /\ tunnel' \in {"running", "failed"}
    /\ UNCHANGED <<origin, kind, caller, sockfile, conn, handle, closed, copyVars>>

(* start_local_streamlocal_forward: binding creates the socket file.       *)
StartUnix ==
    /\ tunnel = "none" /\ kind = "unix"
    /\ tunnel' \in {"running", "failed"}
    /\ sockfile' = IF tunnel' = "running" THEN "bound" ELSE "none"
    /\ UNCHANGED <<origin, kind, caller, conn, handle, closed, copyVars>>

(* TunnelBuilder::start, as the ForwardSpec says.                          *)
Start == StartTcp \/ StartUnix

(* Tunnel::close sends the signal and waits for the task.                  *)
CloseTunnel ==
    /\ tunnel = "running" /\ caller = "holds"
    /\ tunnel' = "closing" /\ caller' = "closing"
    /\ UNCHANGED <<origin, kind, sockfile, conn, handle, closed, copyVars>>

(* Mutant: close comes back as soon as the signal is sent.                 *)
Bug_NoJoin ==
    /\ caller = "closing" /\ tunnel \in {"closing", "stopped"}
    /\ caller' = "closed"
    /\ UNCHANGED <<origin, kind, tunnel, sockfile, conn, handle, closed, copyVars>>

CloseReturns ==
    /\ caller = "closing" /\ tunnel = "stopped"
    /\ caller' = "closed"
    /\ UNCHANGED <<origin, kind, tunnel, sockfile, conn, handle, closed, copyVars>>

(* Tunnel::abort and Drop send the signal only.                            *)
AbandonTunnel ==
    /\ tunnel = "running" /\ caller = "holds"
    /\ tunnel' = "closing" /\ caller' = "dropped"
    /\ UNCHANGED <<origin, kind, sockfile, conn, handle, closed, copyVars>>

(* The accept loop.  tokio::select! takes either source when both are      *)
(* ready, so a connection may still be accepted after the signal.          *)
Accept(c) ==
    /\ tunnel \in {"running", "closing"}
    /\ origin[c] = "local" /\ conn[c] = "none"
    /\ Goto(c, "lock")
    /\ UNCHANGED <<tunnelVars, handle, closed, copyVars>>

(* run_local_accept_loop leaves; the listener is dropped.                  *)
StopTcp ==
    /\ tunnel = "closing" /\ kind = "tcp"
    /\ tunnel' = "stopped"
    /\ UNCHANGED <<origin, kind, caller, sockfile, conn, handle, closed, copyVars>>

(* run_local_streamlocal_accept_loop also removes the socket file; if that *)
(* fails it is only logged and the file is left behind.                    *)
StopUnix ==
    /\ tunnel = "closing" /\ kind = "unix"
    /\ tunnel' = "stopped" /\ sockfile' \in {"none", "left"}
    /\ UNCHANGED <<origin, kind, caller, conn, handle, closed, copyVars>>

-----------------------------------------------------------------------------
(* The task of an accepted connection, and of a direct open.               *)

DirectOpen(c) ==
    /\ origin[c] = "direct" /\ conn[c] = "none"
    /\ Goto(c, "lock")
    /\ UNCHANGED <<tunnelVars, handle, closed, copyVars>>

Lock(c) ==
    /\ conn[c] = "lock" /\ handle = Nobody
    /\ handle' = c
    /\ Goto(c, "opening")
    /\ UNCHANGED <<tunnelVars, closed, copyVars>>

(* The server refuses the channel: the socket is dropped.                  *)
OpenRefused(c) ==
    /\ conn[c] = "opening" /\ origin[c] = "local"
    /\ Goto(c, "done")
    /\ handle' = Nobody
    /\ UNCHANGED <<tunnelVars, closed, copyVars>>

(* Mutant: the guard lives as long as the task, not only for the open.     *)
Bug_KeepGuard(c) ==
    /\ conn[c] = "opening" /\ origin[c] = "local"
    /\ Goto(c, "copy")
    /\ UNCHANGED <<tunnelVars, handle, closed, copyVars>>

ChannelOpened(c) ==
    /\ conn[c] = "opening" /\ origin[c] = "local"
    /\ Goto(c, "copy")
    /\ handle' = Nobody
    /\ UNCHANGED <<tunnelVars, closed, copyVars>>

(* forward_direct_tcpip_connection, forward_direct_streamlocal_connection. *)
ForwardTcp(c) == kind = "tcp" /\ ChannelOpened(c)
ForwardStreamlocal(c) == kind = "unix" /\ ChannelOpened(c)

(* DirectTcpBuilder::open: under the channel_open timeout; the stream it   *)
(* returns is the subject of ChannelBridge.                                *)
DirectTcpOpened(c) ==
    /\ conn[c] = "opening" /\ origin[c] = "direct" /\ kind = "tcp"
    /\ \E r \in {"stream", "done"} : Goto(c, r)
    /\ handle' = Nobody
    /\ UNCHANGED <<tunnelVars, closed, copyVars>>

(* DirectStreamLocalBuilder::open.                                         *)
DirectStreamLocalOpened(c) ==
    /\ conn[c] = "opening" /\ origin[c] = "direct" /\ kind = "unix"
    /\ \E r \in {"stream", "done"} : Goto(c, r)
    /\ handle' = Nobody
    /\ UNCHANGED <<tunnelVars, closed, copyVars>>

-----------------------------------------------------------------------------
(* A channel that the server opens: the callback spawns the task that      *)
(* connects to the target.                                                 *)
ServerOpens(c) ==
    /\ origin[c] \in Incoming /\ conn[c] = "none"
    /\ Goto(c, "connect")
    /\ UNCHANGED <<tunnelVars, handle, closed, copyVars>>

CloseChannel(c) == Goto(c, "done") /\ closed' = closed \cup {c}

(* No target is registered, no display set or no agent socket known, or    *)
(* the channel is a direct-tcpip one, which the client never serves.       *)
NoTarget(c) ==
    /\ origin[c] \in Incoming /\ conn[c] = "none"
    /\ CloseChannel(c)
    /\ UNCHANGED <<tunnelVars, handle, copyVars>>

(* The target is reached and copying starts, or else the channel closed.   *)
Connect(c) ==
    /\ conn[c] = "connect"
    /\ \/ Goto(c, "copy") /\ UNCHANGED closed
       \/ CloseChannel(c)
    /\ UNCHANGED <<tunnelVars, handle, copyVars>>

(* copy_bidirectional_with_addr and copy_bidirectional_with_unix_path give *)
(* the target 30 s; forward_x11_channel and the agent's task leave it to   *)
(* the operating system to give up.                                        *)
ConnectTcp(c) == origin[c] = "forwarded" /\ kind = "tcp" /\ Connect(c)
ConnectUnix(c) == origin[c] = "forwarded" /\ kind = "unix" /\ Connect(c)
ConnectX11(c) == origin[c] = "x11" /\ Connect(c)
ConnectAgent(c) == origin[c] = "agent" /\ Connect(c)

-----------------------------------------------------------------------------
(* copy_bidirectional and copy_bidirectional_unix: two loops, one spawned, *)
(* joined at the end.                                                      *)

Pending(d) == d.dst < d.src
Transfer(d) == [d EXCEPT !.dst = @ + 1]

(* The source is at its end: EOF is passed on.                             *)
Shut(d) == [d EXCEPT !.dstEof = TRUE, !.done = TRUE]

(* Mutant: the loop ends with the EOF although bytes are waiting.          *)
Bug_EarlyEof(d) == ~d.done /\ d.eof

AtEnd(d) == ~d.done /\ d.eof /\ ~Pending(d)

(* tcp_read to channel_write.data, then eof.                               *)
CopyUp(c) ==
    /\ conn[c] = "copy" /\ ~up[c].done
    /\ \/ c \notin broken /\ Pending(up[c]) /\ up' = [up EXCEPT ![c] = Transfer(@)]
       \/ AtEnd(up[c]) /\ up' = [up EXCEPT ![c] = Shut(@)]
       \/ c \in broken /\ up' = [up EXCEPT ![c] = Shut(@)]
    /\ UNCHANGED <<tunnelVars, conn, handle, closed, broken, down>>

(* make_reader to tcp_write, then shutdown; the write half of a Unix       *)
(* socket is shut down when it is dropped.                                 *)
CopyDown(c) ==
    /\ conn[c] = "copy" /\ ~down[c].done
    /\ \/ c \notin broken /\ Pending(down[c]) /\ down' = [down EXCEPT ![c] = Transfer(@)]
       \/ AtEnd(down[c]) /\ down' = [down EXCEPT ![c] = Shut(@)]
       \/ c \in broken /\ down' = [down EXCEPT ![c] = Shut(@)]
    /\ UNCHANGED <<tunnelVars, conn, handle, closed, broken, up>>

(* Mutant: the first direction to end takes the other with it.             *)
Bug_SelectCopy(c) ==
    /\ conn[c] = "copy" /\ (up[c].done \/ down[c].done)
    /\ Goto(c, "done")
    /\ UNCHANGED <<tunnelVars, handle, closed, copyVars>>

(* tokio::join!: the task ends when both directions have.                  *)
CopyDone(c) ==
    /\ conn[c] = "copy" /\ up[c].done /\ down[c].done
    /\ Goto(c, "done")
    /\ UNCHANGED <<tunnelVars, handle, closed, copyVars>>

-----------------------------------------------------------------------------
(* The two ends: each sends bytes and at last an EOF; either may fail.     *)
SourceSends(c) ==
    /\ conn[c] = "copy"
    /\ \/ /\ ~up[c].eof /\ up[c].src < MaxBytes
          /\ up' = [up EXCEPT ![c].src = @ + 1] /\ UNCHANGED down
       \/ ~up[c].eof /\ up' = [up EXCEPT ![c].eof = TRUE] /\ UNCHANGED down
       \/ /\ ~down[c].eof /\ down[c].src < MaxBytes
          /\ down' = [down EXCEPT ![c].src = @ + 1] /\ UNCHANGED up
       \/ ~down[c].eof /\ down' = [down EXCEPT ![c].eof = TRUE] /\ UNCHANGED up
    /\ UNCHANGED <<tunnelVars, conn, handle, closed, broken>>

Break(c) ==
    /\ conn[c] = "copy" /\ c \notin broken
    /\ broken' = broken \cup {c}
    /\ UNCHANGED <<tunnelVars, conn, handle, closed, up, down>>

-----------------------------------------------------------------------------
Loop == Start \/ StopTcp \/ StopUnix \/ CloseReturns
Task(c) ==
    \/ Lock(c) \/ OpenRefused(c) \/ ForwardTcp(c) \/ ForwardStreamlocal(c)
    \/ DirectTcpOpened(c) \/ DirectStreamLocalOpened(c)
    \/ ConnectTcp(c) \/ ConnectUnix(c) \/ ConnectX11(c) \/ ConnectAgent(c)
Copy(c) == CopyUp(c) \/ CopyDown(c) \/ CopyDone(c)

Next ==
    \/ Loop \/ CloseTunnel \/ AbandonTunnel
    \/ \E c \in Conns :
          \/ Accept(c) \/ DirectOpen(c) \/ ServerOpens(c) \/ NoTarget(c)
          \/ Task(c) \/ Copy(c)
          \/ SourceSends(c) \/ Break(c)

Spec == Init /\ [][Next]_vars

(* Every task and both copy loops run; the server answers channel opens,   *)
(* for which only a direct open has a timeout.                             *)
Fairness ==
    /\ WF_vars(Loop)
    /\ \A c \in Conns :
          /\ WF_vars(Task(c))
          /\ WF_vars(CopyUp(c)) /\ WF_vars(CopyDown(c)) /\ WF_vars(CopyDone(c))

FairSpec == Spec /\ Fairness

-----------------------------------------------------------------------------
(* An EOF is passed on only after every byte sent before it, and a task    *)
(* ends only when both directions have: unless the connection broke,       *)
(* nothing that either end sent is cut off.                                *)
CopyIsComplete ==
    \A c \in Conns \ broken :
        /\ \A d \in {up[c], down[c]} :
              d.dstEof => d.eof /\ d.dst = d.src
        /\ conn[c] = "done" /\ up[c].src + down[c].src > 0
              => up[c].dst = up[c].src /\ down[c].dst = down[c].src

(* When Tunnel::close returns the listener is gone and the removal of its  *)
(* socket file is over (a failure of it is not reported: the file may be   *)
(* left); from then on no connection is accepted.                          *)
CloseIsFinal ==
    /\ [](caller = "closed" => tunnel = "stopped" /\ sockfile \in {"none", "left"})
    /\ [][caller = "closed" =>
             \A c \in Conns : origin[c] = "local" /\ conn[c] = "none" => conn'[c] = "none"]_vars

(* A channel whose target cannot be reached is closed, and a connection    *)
(* that was accepted gets its channel or ends: none waits for the handle   *)
(* for ever.                                                               *)
ConnectionsSettle ==
    /\ \A c \in Conns : conn[c] \in {"lock", "connect"} ~> conn[c] \in {"copy", "stream", "done"}
    /\ [](\A c \in Conns :
             origin[c] \in Incoming /\ conn[c] = "done" /\ ~up[c].done => c \in closed)

(* Half-close: what one end sends reaches the other although the other has *)
(* sent its EOF long ago.                                                  *)
BytesArrive ==
    \A c \in Conns : \A n \in 1 .. MaxBytes :
        /\ up[c].src = n ~> up[c].dst >= n \/ c \in broken
        /\ down[c].src = n ~> down[c].dst >= n \/ c \in broken
=============================================================================
