-------------------------- MODULE ForwardingProofs --------------------------
(***************************************************************************)
(* Proofs about Forwarding for any set of connections, wherever they come  *)
(* from, and any number of bytes.                                          *)
(***************************************************************************)
EXTENDS Forwarding, TLAPS

Tasks == {"none", "lock", "opening", "connect", "copy", "stream", "done"}
Directions == [src : Nat, eof : BOOLEAN, dst : Nat, dstEof : BOOLEAN, done : BOOLEAN]

(* The tasks, the handle's lock and the two directions of a connection.    *)
TypeInv ==
    /\ origin \in [Conns -> Incoming \cup {"local", "direct"}]
    /\ conn \in [Conns -> Tasks]
    /\ handle \in Conns \cup {Nobody}
    /\ closed \subseteq Conns /\ broken \subseteq Conns
    /\ up \in [Conns -> Directions] /\ down \in [Conns -> Directions]

(* One direction has passed on what it was given: never more, an EOF only  *)
(* behind the last byte, and it ends only with an EOF.                     *)
InStep(d) ==
    /\ d.dst <= d.src
    /\ d.dstEof => d.eof /\ d.dst = d.src
    /\ d.done => d.dstEof

CopyInStep == \A c \in Conns \ broken : InStep(up[c]) /\ InStep(down[c])

(* Nothing is copied before there are two ends, and a task that has begun  *)
(* to copy ends with both directions.                                      *)
CopyPhases ==
    \A c \in Conns :
       /\ conn[c] \notin {"copy", "done"} => up[c] = Idle /\ down[c] = Idle
       /\ conn[c] = "done" => \/ up[c] = Idle /\ down[c] = Idle
                              \/ up[c].done /\ down[c].done

(* A task for an incoming channel that ended without copying has closed    *)
(* the channel.                                                            *)
NoTargetIsClosed ==
    \A c \in Conns :
       /\ conn[c] \in {"lock", "opening", "stream"} => origin[c] \notin Incoming
       /\ (origin[c] \in Incoming /\ conn[c] = "done" /\ ~up[c].done) => c \in closed

(* Close joins the accept loop, which tries to remove the socket file.     *)
TunnelPhases ==
    /\ kind \in {"tcp", "unix"}
    /\ kind = "tcp" => sockfile = "none"
    /\ tunnel = "stopped" => sockfile \in {"none", "left"}
    /\ tunnel = "none" => caller = "holds"
    /\ caller = "closing" => tunnel \in {"closing", "stopped"}
    /\ caller = "closed" => tunnel = "stopped"

(* The lock of the handle is held by the task that opens a channel, and by *)
(* nobody else.                                                            *)
LockHeld == \A c \in Conns : conn[c] = "opening" <=> handle = c

IndInv == TypeInv /\ CopyInStep /\ CopyPhases /\ NoTargetIsClosed /\ TunnelPhases
          /\ LockHeld

-----------------------------------------------------------------------------
LEMMA InitIndInv == Init => IndInv
  <1> SUFFICES ASSUME Init PROVE IndInv
    OBVIOUS
  <1>0. Idle \in Directions
    BY DEF Idle, Directions
  <1>1. TypeInv
    BY <1>0, ForwardingAssumption DEF Init, TypeInv, Tasks
  <1>2. CopyInStep /\ CopyPhases
    BY DEF Init, CopyInStep, CopyPhases, InStep, Idle
  <1>3. NoTargetIsClosed /\ TunnelPhases
    BY DEF Init, NoTargetIsClosed, TunnelPhases, Incoming
  <1>4. LockHeld
    BY ForwardingAssumption DEF Init, LockHeld
  <1> QED
    BY <1>1, <1>2, <1>3, <1>4 DEF IndInv

(* The steps of the tunnel and its caller leave the connections alone.     *)
LEMMA TunnelStep ==
    ASSUME IndInv, Loop \/ CloseTunnel \/ AbandonTunnel
    PROVE  IndInv'
  <1>1. TunnelPhases'
    BY DEF IndInv, TunnelPhases, Loop, Start, StartTcp, StartUnix, StopTcp,
       StopUnix, CloseReturns, CloseTunnel, AbandonTunnel
  <1>2. UNCHANGED <<origin, conn, handle, closed, copyVars>>
    BY DEF Loop, Start, StartTcp, StartUnix, StopTcp, StopUnix, CloseReturns,
       CloseTunnel, AbandonTunnel
  <1>3. TypeInv'
    BY <1>2 DEF IndInv, TypeInv, copyVars
  <1>4. (CopyInStep /\ CopyPhases)'
    BY <1>2 DEF IndInv, CopyInStep, CopyPhases, copyVars
  <1>5. NoTargetIsClosed'
    BY <1>2 DEF IndInv, NoTargetIsClosed, copyVars
  <1>6. LockHeld'
    BY <1>2 DEF IndInv, LockHeld
  <1> QED
    BY <1>1, <1>3, <1>4, <1>5, <1>6 DEF IndInv

(* The steps of a task before it copies.                                   *)
LEMMA TaskStep ==
    ASSUME IndInv, NEW c \in Conns,
           \/ Accept(c) \/ DirectOpen(c) \/ ServerOpens(c) \/ NoTarget(c) \/ Task(c)
    PROVE  IndInv'
  <1>1. UNCHANGED <<tunnelVars, copyVars>>
    BY DEF Accept, DirectOpen, ServerOpens, NoTarget, Task, Lock, OpenRefused,
       ForwardTcp, ForwardStreamlocal, ChannelOpened, DirectTcpOpened,
       DirectStreamLocalOpened, ConnectTcp, ConnectUnix, ConnectX11, ConnectAgent,
       Connect
  <1>2. PICK where \in Tasks :
           /\ conn' = [conn EXCEPT ![c] = where]
           /\ conn[c] \notin {"copy", "done"}
           /\ closed' \in {closed, closed \cup {c}}
           /\ handle' \in {handle, c, Nobody}
           /\ where \in {"lock", "opening", "stream"} => origin[c] \notin Incoming
           /\ origin[c] \in Incoming /\ where = "done" => c \in closed'
    <2> DEFINE Moved(where) ==
           /\ conn' = [conn EXCEPT ![c] = where]
           /\ conn[c] \notin {"copy", "done"}
           /\ closed' \in {closed, closed \cup {c}}
           /\ handle' \in {handle, c, Nobody}
           /\ where \in {"lock", "opening", "stream"} => origin[c] \notin Incoming
           /\ origin[c] \in Incoming /\ where = "done" => c \in closed'
    <2> SUFFICES \E where \in Tasks : Moved(where)
      OBVIOUS
    <2> USE DEF Goto, Tasks, Incoming
    <2>1. CASE Accept(c) \/ DirectOpen(c)
      <3>1. Moved("lock")
        BY <2>1 DEF Accept, DirectOpen
      <3> QED BY <3>1
    <2>2. CASE ServerOpens(c)
      <3>1. Moved("connect")
        BY <2>2 DEF ServerOpens
      <3> QED BY <3>1
    <2>3. CASE NoTarget(c)
      <3>1. Moved("done")
        BY <2>3 DEF NoTarget, CloseChannel
      <3> QED BY <3>1
    <2>4. CASE Lock(c)
      <3>1. Moved("opening")
        BY <2>4 DEF Lock, IndInv, NoTargetIsClosed
      <3> QED BY <3>1
    <2>5. CASE OpenRefused(c)
      <3>1. Moved("done")
        BY <2>5 DEF OpenRefused
      <3> QED BY <3>1
    <2>6. CASE ForwardTcp(c) \/ ForwardStreamlocal(c)
      <3>1. Moved("copy")
        BY <2>6 DEF ForwardTcp, ForwardStreamlocal, ChannelOpened
      <3> QED BY <3>1
    <2>7. CASE DirectTcpOpened(c) \/ DirectStreamLocalOpened(c)
      <3>1. Moved("stream") \/ Moved("done")
        BY <2>7 DEF DirectTcpOpened, DirectStreamLocalOpened
      <3> QED BY <3>1
    <2>8. CASE ConnectTcp(c) \/ ConnectUnix(c) \/ ConnectX11(c) \/ ConnectAgent(c)
      <3>1. Moved("copy") \/ Moved("done")
        BY <2>8 DEF ConnectTcp, ConnectUnix, ConnectX11, ConnectAgent, Connect,
           CloseChannel
      <3> QED BY <3>1
    <2> QED
      BY <2>1, <2>2, <2>3, <2>4, <2>5, <2>6, <2>7, <2>8 DEF Task
  <1>3. TypeInv'
    BY <1>1, <1>2 DEF IndInv, TypeInv, tunnelVars, copyVars
  <1>4. CopyInStep'
    BY <1>1 DEF IndInv, CopyInStep, copyVars
  <1>5. CopyPhases'
    BY <1>1, <1>2 DEF IndInv, TypeInv, CopyPhases, copyVars
  <1>6. NoTargetIsClosed'
    BY <1>1, <1>2 DEF IndInv, TypeInv, NoTargetIsClosed, copyVars, tunnelVars
  <1>7. TunnelPhases'
    BY <1>1 DEF IndInv, TunnelPhases, tunnelVars
  <1>8. LockHeld'
    <2> USE ForwardingAssumption DEF IndInv, TypeInv, LockHeld, Goto
    <2>1. CASE Accept(c) \/ DirectOpen(c) \/ ServerOpens(c) \/ NoTarget(c)
      BY <2>1 DEF Accept, DirectOpen, ServerOpens, NoTarget, CloseChannel
    <2>2. CASE Lock(c)
      BY <2>2 DEF Lock
    <2>3. CASE OpenRefused(c) \/ ChannelOpened(c)
      BY <2>3 DEF OpenRefused, ChannelOpened
    <2>4. CASE DirectTcpOpened(c) \/ DirectStreamLocalOpened(c)
      BY <2>4 DEF DirectTcpOpened, DirectStreamLocalOpened
    <2>5. CASE Connect(c)
      BY <2>5 DEF Connect, CloseChannel
    <2> QED
      BY <2>1, <2>2, <2>3, <2>4, <2>5 DEF Task, ForwardTcp, ForwardStreamlocal,
         ConnectTcp, ConnectUnix, ConnectX11, ConnectAgent
  <1> QED
    BY <1>3, <1>4, <1>5, <1>6, <1>7, <1>8 DEF IndInv

(* What a copy loop or a source does to one direction keeps it in step.    *)
LEMMA DirectionSteps ==
    ASSUME NEW d \in Directions
    PROVE  /\ Transfer(d) \in Directions /\ Shut(d) \in Directions
           /\ [d EXCEPT !.src = @ + 1] \in Directions
           /\ [d EXCEPT !.eof = TRUE] \in Directions
           /\ InStep(d) /\ ~d.done /\ Pending(d) => InStep(Transfer(d))
           /\ InStep(d) /\ AtEnd(d) => InStep(Shut(d))
           /\ InStep(d) /\ ~d.eof => InStep([d EXCEPT !.src = @ + 1])
           /\ InStep(d) => InStep([d EXCEPT !.eof = TRUE])
           /\ Shut(d).done
           /\ [d EXCEPT !.src = @ + 1].done = d.done
           /\ [d EXCEPT !.eof = TRUE].done = d.done
  <1> DEFINE More == [d EXCEPT !.src = @ + 1]
             Last == [d EXCEPT !.eof = TRUE]
  <1>0. d = [src |-> d.src, eof |-> d.eof, dst |-> d.dst, dstEof |-> d.dstEof,
             done |-> d.done]
    BY DEF Directions
  <1>1. Transfer(d) \in Directions
    BY <1>0 DEF Directions, Transfer
  <1>2. Shut(d) \in Directions /\ Last \in Directions
    BY <1>0 DEF Directions, Shut
  <1>8. More \in Directions
    BY <1>0 DEF Directions
  <1>3. InStep(d) /\ ~d.done /\ Pending(d) => InStep(Transfer(d))
    BY DEF Directions, Transfer, InStep, Pending
  <1>4. InStep(d) /\ AtEnd(d) => InStep(Shut(d))
    BY DEF Directions, Shut, InStep, Pending, AtEnd
  <1>5. InStep(d) /\ ~d.eof => InStep(More)
    BY DEF Directions, InStep
  <1>6. InStep(d) => InStep(Last)
    BY DEF Directions, InStep
  <1>7. Shut(d).done /\ More.done = d.done /\ Last.done = d.done
    BY DEF Directions, Shut
  <1> QED
    BY <1>1, <1>2, <1>3, <1>4, <1>5, <1>6, <1>7, <1>8

(* The steps of a connection that copies.                                  *)
LEMMA CopyStep ==
    ASSUME IndInv, NEW c \in Conns, Copy(c) \/ SourceSends(c) \/ Break(c)
    PROVE  IndInv'
  <1>1. UNCHANGED <<tunnelVars, handle, closed>> /\ conn[c] = "copy"
    BY DEF Copy, CopyUp, CopyDown, CopyDone, SourceSends, Break
  <1>2. TunnelPhases'
    BY <1>1 DEF IndInv, TunnelPhases, tunnelVars
  <1>l. conn' = conn \/ conn' = [conn EXCEPT ![c] = "done"]
    BY DEF Copy, CopyUp, CopyDown, CopyDone, SourceSends, Break, Goto
  <1>h. LockHeld'
    BY <1>1, <1>l DEF IndInv, TypeInv, LockHeld
  <1>u. up[c] \in Directions /\ down[c] \in Directions
    BY DEF IndInv, TypeInv
  <1>i. c \notin broken => InStep(up[c]) /\ InStep(down[c])
    BY DEF IndInv, CopyInStep
  <1>s. ASSUME NEW e \in Directions, c \notin broken => InStep(e),
               UNCHANGED <<conn, broken>>,
               \/ up' = [up EXCEPT ![c] = e] /\ UNCHANGED down
               \/ down' = [down EXCEPT ![c] = e] /\ UNCHANGED up
        PROVE  IndInv'
    <2>1. TypeInv'
      BY <1>s, <1>1 DEF IndInv, TypeInv, tunnelVars
    <2>2. CopyInStep'
      BY <1>s DEF IndInv, TypeInv, CopyInStep
    <2>3. CopyPhases'
      BY <1>s, <1>1 DEF IndInv, TypeInv, CopyPhases
    <2>4. NoTargetIsClosed'
      BY <1>s, <1>1 DEF IndInv, TypeInv, NoTargetIsClosed, tunnelVars
    <2> QED
      BY <1>2, <1>h, <2>1, <2>2, <2>3, <2>4 DEF IndInv
  <1>3. CASE CopyUp(c)
    <2>1. PICK e \in {Transfer(up[c]), Shut(up[c])} :
             up' = [up EXCEPT ![c] = e] /\ (c \notin broken => InStep(e))
      BY <1>3, <1>u, <1>i, DirectionSteps DEF CopyUp
    <2>2. e \in Directions
      BY <1>u, DirectionSteps
    <2> QED
      BY <1>3, <2>1, <2>2, <1>s DEF CopyUp
  <1>4. CASE CopyDown(c)
    <2>1. PICK e \in {Transfer(down[c]), Shut(down[c])} :
             down' = [down EXCEPT ![c] = e] /\ (c \notin broken => InStep(e))
      BY <1>4, <1>u, <1>i, DirectionSteps DEF CopyDown
    <2>2. e \in Directions
      BY <1>u, DirectionSteps
    <2> QED
      BY <1>4, <2>1, <2>2, <1>s DEF CopyDown
  <1>5. CASE SourceSends(c)
    <2>1. CASE UNCHANGED down
      <3>1. PICK e \in {[up[c] EXCEPT !.src = @ + 1], [up[c] EXCEPT !.eof = TRUE],
                        up[c]} :
               up' = [up EXCEPT ![c] = e] /\ (c \notin broken => InStep(e))
        BY <1>5, <1>u, <1>i, <2>1, DirectionSteps DEF SourceSends, IndInv, TypeInv
      <3>2. e \in Directions
        BY <1>u, DirectionSteps
      <3> QED
        BY <1>5, <2>1, <3>1, <3>2, <1>s DEF SourceSends
    <2>2. CASE UNCHANGED up
      <3>1. PICK e \in {[down[c] EXCEPT !.src = @ + 1], [down[c] EXCEPT !.eof = TRUE],
                        down[c]} :
               down' = [down EXCEPT ![c] = e] /\ (c \notin broken => InStep(e))
        BY <1>5, <1>u, <1>i, <2>2, DirectionSteps DEF SourceSends, IndInv, TypeInv
      <3>2. e \in Directions
        BY <1>u, DirectionSteps
      <3> QED
        BY <1>5, <2>2, <3>1, <3>2, <1>s DEF SourceSends
    <2> QED
      BY <1>5, <2>1, <2>2 DEF SourceSends
  <1>6. CASE CopyDone(c)
    <2>1. conn' = [conn EXCEPT ![c] = "done"] /\ up[c].done /\ down[c].done
          /\ UNCHANGED copyVars
      BY <1>6 DEF CopyDone, Goto
    <2>2. TypeInv'
      BY <1>1, <2>1 DEF IndInv, TypeInv, tunnelVars, copyVars, Tasks
    <2>3. (CopyInStep /\ CopyPhases)'
      BY <2>1 DEF IndInv, TypeInv, CopyInStep, CopyPhases, copyVars
    <2>4. NoTargetIsClosed'
      BY <1>1, <2>1 DEF IndInv, TypeInv, NoTargetIsClosed, tunnelVars, copyVars
    <2> QED
      BY <1>2, <1>h, <2>2, <2>3, <2>4 DEF IndInv
  <1>7. CASE Break(c)
    <2>1. TypeInv'
      BY <1>1, <1>7 DEF Break, IndInv, TypeInv, tunnelVars
    <2>2. (CopyInStep /\ CopyPhases)'
      BY <1>7 DEF Break, IndInv, CopyInStep, CopyPhases
    <2>3. NoTargetIsClosed'
      BY <1>1, <1>7 DEF Break, IndInv, NoTargetIsClosed, tunnelVars
    <2> QED
      BY <1>2, <1>h, <2>1, <2>2, <2>3 DEF IndInv
  <1> QED
    BY <1>3, <1>4, <1>5, <1>6, <1>7 DEF Copy

LEMMA NextIndInv == IndInv /\ [Next]_vars => IndInv'
  <1> SUFFICES ASSUME IndInv, [Next]_vars PROVE IndInv'
    OBVIOUS
  <1>1. CASE UNCHANGED vars
    <2>1. (TypeInv /\ TunnelPhases)'
      BY <1>1 DEF vars, IndInv, TypeInv, TunnelPhases
    <2>2. (CopyInStep /\ CopyPhases /\ NoTargetIsClosed /\ LockHeld)'
      BY <1>1 DEF vars, IndInv, CopyInStep, CopyPhases, NoTargetIsClosed, LockHeld
    <2> QED
      BY <2>1, <2>2 DEF IndInv
  <1> QED
    BY <1>1, TunnelStep, TaskStep, CopyStep DEF Next

LEMMA IndInvAlways == Spec => []IndInv
  BY InitIndInv, NextIndInv, PTL DEF Spec

-----------------------------------------------------------------------------
(* Unless its socket or channel fails, a connection passes everything on   *)
(* in both directions, EOF behind the last byte, however the two copy      *)
(* loops and the two ends take turns (copy_bidirectional,                  *)
(* copy_bidirectional_unix).                                               *)
THEOREM CopiesAreComplete == Spec => []CopyIsComplete
  <1>1. IndInv => CopyIsComplete
    <2> SUFFICES ASSUME IndInv, NEW c \in Conns \ broken
                 PROVE  /\ \A d \in {up[c], down[c]} : d.dstEof => d.eof /\ d.dst = d.src
                        /\ conn[c] = "done" /\ up[c].src + down[c].src > 0
                              => up[c].dst = up[c].src /\ down[c].dst = down[c].src
      BY DEF CopyIsComplete
    <2>1. InStep(up[c]) /\ InStep(down[c])
      BY DEF IndInv, CopyInStep
    <2>2. conn[c] = "done" => \/ up[c] = Idle /\ down[c] = Idle
                              \/ up[c].done /\ down[c].done
      BY DEF IndInv, CopyPhases
    <2> QED
      BY <2>1, <2>2 DEF InStep, Idle
  <1> QED
    BY <1>1, IndInvAlways, PTL

(* When Tunnel::close has returned, the listener is gone, its socket file  *)
(* removed or left by a removal that failed, and nothing more is accepted  *)
(* (Tunnel::close, run_local_accept_loop,                                  *)
(* run_local_streamlocal_accept_loop).                                     *)
THEOREM CloseEndsTheTunnel == Spec => CloseIsFinal
  <1>1. IndInv => (caller = "closed" => tunnel = "stopped" /\ sockfile \in {"none", "left"})
    BY DEF IndInv, TunnelPhases
  <1> DEFINE NoneAccepted == caller = "closed" =>
                \A c \in Conns : origin[c] = "local" /\ conn[c] = "none" => conn'[c] = "none"
  <1>2. IndInv /\ [Next]_vars => [NoneAccepted]_vars
    <2> SUFFICES ASSUME IndInv, Next, caller = "closed", NEW c \in Conns,
                        origin[c] = "local", conn[c] = "none"
                 PROVE  conn'[c] = "none"
      OBVIOUS
    <2>0. tunnel = "stopped"
      BY DEF IndInv, TunnelPhases
    <2>t. conn \in [Conns -> Tasks]
      BY DEF IndInv, TypeInv
    <2>1. CASE Loop \/ CloseTunnel \/ AbandonTunnel
      BY <2>1 DEF Loop, Start, StartTcp, StartUnix, StopTcp, StopUnix, CloseReturns,
         CloseTunnel, AbandonTunnel
    <2>2. ASSUME NEW d \in Conns, Accept(d) \/ DirectOpen(d) \/ ServerOpens(d) \/ NoTarget(d)
          PROVE  conn'[c] = "none"
      BY <2>0, <2>2, <2>t DEF Accept, DirectOpen, ServerOpens, NoTarget, CloseChannel, Goto,
         Incoming
    <2>3. ASSUME NEW d \in Conns, Task(d) PROVE conn'[c] = "none"
      BY <2>3, <2>t DEF Task, Lock, OpenRefused, ForwardTcp, ForwardStreamlocal,
         ChannelOpened, DirectTcpOpened, DirectStreamLocalOpened, ConnectTcp,
         ConnectUnix, ConnectX11, ConnectAgent, Connect, CloseChannel, Goto
    <2>4. ASSUME NEW d \in Conns, Copy(d) \/ SourceSends(d) \/ Break(d)
          PROVE  conn'[c] = "none"
      BY <2>4, <2>t DEF Copy, CopyUp, CopyDown, CopyDone, SourceSends, Break, Goto
    <2> QED
      BY <2>1, <2>2, <2>3, <2>4 DEF Next
  <1> QED
    BY <1>1, <1>2, IndInvAlways, PTL DEF Spec, CloseIsFinal

(* An incoming channel whose task ended before it copied has been closed   *)
(* by the client: the server is not left with an open channel that nobody  *)
(* serves (the server_channel_open callbacks, forward_x11_channel).        *)
THEOREM UnservedChannelsAreClosed ==
    Spec => [](\A c \in Conns :
                  origin[c] \in Incoming /\ conn[c] = "done" /\ ~up[c].done => c \in closed)
  <1>1. IndInv => \A c \in Conns :
            origin[c] \in Incoming /\ conn[c] = "done" /\ ~up[c].done => c \in closed
    BY DEF IndInv, NoTargetIsClosed
  <1> QED
    BY <1>1, IndInvAlways, PTL

(* The lock of the russh handle is held only by a task that opens a        *)
(* channel, by one at a time: no refusal, timeout or close of the tunnel   *)
(* leaves it locked (the forward_direct_* functions,                       *)
(* DirectTcpBuilder::open, DirectStreamLocalBuilder::open).                *)
THEOREM HandleIsHeldToOpen ==
    Spec => [](\A c \in Conns : conn[c] = "opening" <=> handle = c)
  <1>1. IndInv => \A c \in Conns : conn[c] = "opening" <=> handle = c
    BY DEF IndInv, LockHeld
  <1> QED
    BY <1>1, IndInvAlways, PTL
=============================================================================
