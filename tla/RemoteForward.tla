--------------------------- MODULE RemoteForward ----------------------------
(***************************************************************************)
(* Remote forwarding: start_remote_forward and                             *)
(* start_remote_streamlocal_forward of crates/russh-extra/src/tunnel.rs,   *)
(* the task behind each remote Tunnel, and the callbacks of client.rs that *)
(* route forwarded channels.  Ports and socket paths have a map each;      *)
(* they never meet, so one function over both stands for the two.          *)
(*                                                                         *)
(* All tunnels of a session share the map of registered targets and the    *)
(* session's russh handle.  Both are behind tokio mutexes: the map is      *)
(* locked for one access at a time, the handle for a whole request and its *)
(* reply.  The server is modelled from the replies the code expects.       *)
(***************************************************************************)
EXTENDS Naturals, FiniteSets

CONSTANTS
    Tunnels,     \* the calls of TunnelBuilder::start
    Nobody,      \* no tunnel
    Other,       \* any other user of the session handle (a command, ...)
    Ports,       \* the ports a server can bind; 0 is not one of them
    Paths,       \* socket paths
    Bind,        \* what each call asks for; port 0 lets the server choose
    MayTimeOut   \* may the reply to a request take too long?

Keys == Ports \cup Paths \cup {0}

ASSUME ConstantsAssumption ==
    /\ Nobody \notin Tunnels /\ Other \notin Tunnels /\ Nobody # Other
    /\ Ports \subseteq Nat \ {0} /\ Paths \subseteq Nat \ ({0} \cup Ports)
    /\ Bind \in [Tunnels -> Keys]
    /\ MayTimeOut \in BOOLEAN

VARIABLES
    fwds,      \* RemoteForwardMap: key -> the tunnel whose target is registered
    pc,        \* where each start call, and then its task, is
    alloc,     \* the port the server reported, or the path it bound
    handle,    \* who holds the lock of the russh handle
    cleanup,   \* spawned tasks that will remove a key after a refused request
    asked,     \* forward requests the server has not answered
    listening, \* the server's listeners: key -> the tunnel that asked for it
    kept       \* history: tunnels whose cancel the server has refused

serverVars == <<asked, listening, kept>>
vars == <<fwds, pc, alloc, handle, cleanup, serverVars>>

Init ==
    /\ fwds = [k \in Keys |-> Nobody]
    /\ pc = [t \in Tunnels |-> "idle"]
    /\ alloc = [t \in Tunnels |-> 0]
    /\ handle = Nobody
    /\ cleanup = {}
    /\ asked = {}
    /\ listening = [p \in Ports \cup Paths |-> Nobody]
    /\ kept = {}

Goto(t, where) == pc' = [pc EXCEPT ![t] = where]

-----------------------------------------------------------------------------
(* start_remote_forward, and start_remote_streamlocal_forward.             *)
Tcp(t) == Bind[t] \notin Paths
Streamlocal(t) == Bind[t] \in Paths

(* Mutant: a placeholder is registered until the server answers.           *)
Bug_Placeholder(t) ==
    /\ pc[t] = "idle" /\ Tcp(t)
    /\ IF fwds[Bind[t]] # Nobody
       THEN Goto(t, "conflict") /\ UNCHANGED fwds
       ELSE Goto(t, "lock") /\ fwds' = [fwds EXCEPT ![Bind[t]] = Other]
    /\ UNCHANGED <<alloc, handle, cleanup, serverVars>>

(* Mutant: a registered port is registered again.                          *)
Bug_Overwrite(t) ==
    /\ pc[t] = "idle" /\ Tcp(t)
    /\ Goto(t, "lock") /\ fwds' = [fwds EXCEPT ![Bind[t]] = t]
    /\ UNCHANGED <<alloc, handle, cleanup, serverVars>>

(* The key is registered before the server is asked; one that is           *)
(* registered already is refused without asking.                           *)
Reserve(t) ==
    /\ pc[t] = "idle"
    /\ IF fwds[Bind[t]] # Nobody
       THEN Goto(t, "conflict") /\ UNCHANGED fwds
       ELSE Goto(t, "lock") /\ fwds' = [fwds EXCEPT ![Bind[t]] = t]
    /\ UNCHANGED <<alloc, handle, cleanup, serverVars>>

Register(t) == Tcp(t) /\ Reserve(t)
RegisterPath(t) == Streamlocal(t) /\ Reserve(t)

SendRequest(t) ==
    /\ pc[t] = "lock" /\ handle = Nobody
    /\ handle' = t
    /\ Goto(t, "request")
    /\ asked' = asked \cup {t}
    /\ UNCHANGED <<fwds, alloc, cleanup, listening, kept>>

Request(t) == Tcp(t) /\ SendRequest(t)
RequestPath(t) == Streamlocal(t) /\ SendRequest(t)

(* The server agreed: the task that waits for close() is spawned and the   *)
(* Tunnel returned.                                                        *)
Run(t) ==
    /\ pc[t] = "accepted"
    /\ Goto(t, "active")
    /\ handle' = Nobody
    /\ UNCHANGED <<fwds, alloc, cleanup, serverVars>>

Started(t) == Tcp(t) /\ Run(t)
StartedPath(t) == Streamlocal(t) /\ Run(t)

(* Mutant: the server's refusal is taken for success.                      *)
Bug_IgnoreDenial(t) ==
    /\ pc[t] = "refused" /\ Tcp(t)
    /\ Goto(t, "active")
    /\ handle' = Nobody
    /\ UNCHANGED <<fwds, alloc, cleanup, serverVars>>

(* Mutant: a refused request keeps its registration.                       *)
Bug_NoCleanup(t) ==
    /\ pc[t] = "refused" /\ Tcp(t)
    /\ Goto(t, "failed")
    /\ handle' = Nobody
    /\ UNCHANGED <<fwds, alloc, cleanup, serverVars>>

(* Request denied: the error is returned, and a task of its own will take  *)
(* the key out of the map.                                                 *)
Refused(t) ==
    /\ pc[t] = "refused"
    /\ Goto(t, "failed")
    /\ handle' = Nobody
    /\ cleanup' = cleanup \cup {Bind[t]}
    /\ UNCHANGED <<fwds, alloc, serverVars>>

Denied(t) == Tcp(t) /\ Refused(t)
DeniedPath(t) == Streamlocal(t) /\ Refused(t)

(* time::timeout drops the request; its `?` leaves before the cleanup.     *)
TimedOut(t) ==
    /\ MayTimeOut
    /\ pc[t] = "request"
    /\ Goto(t, "timed out")
    /\ handle' = Nobody
    /\ UNCHANGED <<fwds, alloc, cleanup, serverVars>>

Cleanup(k) ==
    /\ k \in cleanup
    /\ cleanup' = cleanup \ {k}
    /\ fwds' = [fwds EXCEPT ![k] = Nobody]
    /\ UNCHANGED <<pc, alloc, handle, serverVars>>

-----------------------------------------------------------------------------
(* The Tunnel: close(), abort() and Drop send the same signal.             *)

Close(t) ==
    /\ pc[t] = "active"
    /\ Goto(t, "closing")
    /\ UNCHANGED <<fwds, alloc, handle, cleanup, serverVars>>

(* Mutant: the tunnel is unregistered and the server never told.           *)
Bug_NoCancel(t) ==
    /\ pc[t] = "closing" /\ Tcp(t)
    /\ Goto(t, "closed")
    /\ fwds' = [fwds EXCEPT ![alloc[t]] = Nobody]
    /\ UNCHANGED <<alloc, handle, cleanup, serverVars>>

(* The task removes the port the server reported, or the path ...          *)
Forget(t, key) ==
    /\ pc[t] = "closing"
    /\ Goto(t, "cancel")
    /\ fwds' = [fwds EXCEPT ![key] = Nobody]
    /\ UNCHANGED <<alloc, handle, cleanup, serverVars>>

Unregister(t) == Tcp(t) /\ Forget(t, alloc[t])
UnregisterPath(t) == Streamlocal(t) /\ Forget(t, Bind[t])

(* ... then waits for the handle and for the server, without a limit.      *)
SendCancel(t) ==
    /\ pc[t] = "cancel" /\ handle = Nobody
    /\ handle' = t
    /\ Goto(t, "cancelling")
    /\ UNCHANGED <<fwds, alloc, cleanup, serverVars>>

Cancel(t) == Tcp(t) /\ SendCancel(t)
CancelPath(t) == Streamlocal(t) /\ SendCancel(t)

(* The task ends with the reply; a failure is only logged, and close() is  *)
(* Ok in both cases.                                                       *)
Cancelled(t) ==
    /\ pc[t] = "cancelled"
    /\ handle' = Nobody
    /\ Goto(t, "closed")
    /\ UNCHANGED <<fwds, alloc, cleanup, serverVars>>

-----------------------------------------------------------------------------
(* The rest of the session, and the server.                                *)

OtherLocks ==
    /\ \/ handle = Nobody /\ handle' = Other
       \/ handle = Other /\ handle' = Nobody
    /\ UNCHANGED <<fwds, pc, alloc, cleanup, serverVars>>

(* A request that its caller has given up on is answered all the same: the *)
(* reply reaches nobody, the listener exists.  A bound key is refused.     *)
ServerAccepts(t) ==
    /\ t \in asked
    /\ asked' = asked \ {t}
    /\ \E p \in Ports \cup Paths :
          /\ p \in IF Bind[t] = 0 THEN Ports ELSE {Bind[t]}
          /\ listening[p] = Nobody
          /\ listening' = [listening EXCEPT ![p] = t]
          /\ alloc' = IF pc[t] = "request" THEN [alloc EXCEPT ![t] = p] ELSE alloc
    /\ pc' = IF pc[t] = "request" THEN [pc EXCEPT ![t] = "accepted"] ELSE pc
    /\ UNCHANGED <<fwds, handle, cleanup, kept>>

ServerDenies(t) ==
    /\ t \in asked
    /\ asked' = asked \ {t}
    /\ pc' = IF pc[t] = "request" THEN [pc EXCEPT ![t] = "refused"] ELSE pc
    /\ UNCHANGED <<fwds, alloc, handle, cleanup, listening, kept>>

(* The cancel is honoured, or it fails and the server goes on listening.   *)
ServerCancels(t) ==
    /\ pc[t] = "cancelling"
    /\ Goto(t, "cancelled")
    /\ \/ listening' = [listening EXCEPT ![alloc[t]] = Nobody] /\ UNCHANGED kept
       \/ kept' = kept \cup {t} /\ UNCHANGED listening
    /\ UNCHANGED <<fwds, alloc, handle, cleanup, asked>>

Task(t) ==
    \/ Register(t) \/ Request(t) \/ Started(t) \/ Denied(t)
    \/ RegisterPath(t) \/ RequestPath(t) \/ StartedPath(t) \/ DeniedPath(t)
    \/ TimedOut(t) \/ Close(t)
    \/ Unregister(t) \/ Cancel(t) \/ UnregisterPath(t) \/ CancelPath(t)
    \/ Cancelled(t)

(* The steps that need neither the handle nor a decision of the caller.    *)
Proceed(t) ==
    \/ Started(t) \/ Denied(t) \/ Unregister(t) \/ Cancelled(t)
    \/ StartedPath(t) \/ DeniedPath(t) \/ UnregisterPath(t)

Server(t) == ServerAccepts(t) \/ ServerDenies(t) \/ ServerCancels(t)

Next ==
    \/ \E t \in Tunnels : Task(t) \/ Server(t)
    \/ \E k \in Keys : Cleanup(k)
    \/ OtherLocks

Spec == Init /\ [][Next]_vars

(* tokio polls every task and its mutex hands the handle to waiters in     *)
(* turn; other users give the handle back; the server answers.             *)
Fairness ==
    /\ \A t \in Tunnels :
          /\ SF_vars(Request(t) \/ RequestPath(t) \/ Cancel(t) \/ CancelPath(t))
          /\ WF_vars(Proceed(t) \/ Server(t))
    /\ \A k \in Keys : WF_vars(Cleanup(k))
    /\ WF_vars(handle = Other /\ OtherLocks)

FairSpec == Spec /\ Fairness

(* server_channel_open_forwarded_tcpip and _streamlocal: a connection to a *)
(* port or path of the server goes to the target registered under it, or   *)
(* is closed.                                                              *)
Target(p) == fwds[p]

-----------------------------------------------------------------------------
(* Properties.                                                             *)

Places == {"idle", "conflict", "lock", "request", "accepted", "refused", "failed",
           "timed out", "active", "closing", "cancel", "cancelling", "cancelled",
           "closed"}

TypeOK ==
    /\ fwds \in [Keys -> Tunnels \cup {Nobody}]
    /\ pc \in [Tunnels -> Places]
    /\ alloc \in [Tunnels -> Keys]
    /\ handle \in Tunnels \cup {Nobody, Other}
    /\ cleanup \subseteq Keys
    /\ asked \subseteq Tunnels
    /\ listening \in [Ports \cup Paths -> Tunnels \cup {Nobody}]
    /\ kept \subseteq Tunnels

(* Has the server chosen this port for a start that asked for port 0? Such *)
(* a tunnel is registered under 0, and its close removes whatever target   *)
(* is registered under the port it was given.                              *)
Chosen(k) == k # 0 /\ \E u \in Tunnels : Bind[u] = 0 /\ alloc[u] = k

(* A running tunnel works: the server listens for it, and a connection     *)
(* that arrives there reaches this tunnel's own target, whatever the other *)
(* tunnels of the session start, fail or close meanwhile. The target is    *)
(* claimed for named ports and paths; a tunnel on port 0 has its listener  *)
(* but is registered under 0, so what arrives there finds no target or     *)
(* that of whoever has named the port.                                     *)
ActiveTunnelWorks ==
    \A t \in Tunnels : pc[t] = "active" =>
       /\ alloc[t] \in Ports \cup Paths
       /\ listening[alloc[t]] = t
       /\ ~Chosen(alloc[t]) => Target(alloc[t]) = t

(* A registration goes away only when its own tunnel has failed or is      *)
(* closing: neither the cleanup task of a refused request nor a closing    *)
(* tunnel takes away the registration of a later one, but for a tunnel on  *)
(* port 0, which takes the one under the port it was given.                *)
RemovalIsOwn ==
    [][\A k \in Keys : (fwds[k] # Nobody /\ fwds'[k] # fwds[k])
                       => pc[fwds[k]] \in {"failed", "closing"} \/ Chosen(k)]_vars

(* Neither a start that failed nor a tunnel that was closed leaves a       *)
(* listener at the server, except when the answer came after the start had *)
(* timed out and when the server refused the cancel: of the first nobody   *)
(* takes notice, the second is only logged and close() returns Ok.         *)
NoStrayListener ==
    \A p \in Ports \cup Paths : listening[p] # Nobody =>
       \/ pc[listening[p]] \in {"accepted", "active", "closing", "cancel",
                                "cancelling", "timed out"}
       \/ listening[p] \in kept

(* A start that the server refuses frees its port for another try, and a   *)
(* tunnel that is closed gets to its end, although both need the handle    *)
(* or the map that others are using.                                       *)
StartsAndClosesEnd ==
    \A t \in Tunnels : /\ (pc[t] = "refused") ~> (\A k \in Keys : fwds[k] # t)
                       /\ (pc[t] = "closing") ~> (pc[t] = "closed")

=============================================================================
