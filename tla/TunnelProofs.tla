---------------------------- MODULE TunnelProofs ----------------------------
(***************************************************************************)
(* Proofs about remote tunnels and about the streams a tunnel or a shell   *)
(* is read and written through: RemoteForward, for any set of tunnels,     *)
(* ports and paths, with and without timeouts, and ChannelBridge, for any  *)
(* number of bytes and writes.                                             *)
(***************************************************************************)
EXTENDS RemoteForward, ChannelBridge, TLAPS

(* From its registration until its own task removes it, or for ever after  *)
(* a timeout, the map holds a tunnel's target under what it asked for.     *)
Registered ==
    \A t \in Tunnels :
       pc[t] \in {"lock", "request", "accepted", "refused", "active", "closing"}
       => fwds[Bind[t]] = t \/ Chosen(Bind[t])

(* A cleanup task is there only for a registration of a failed start, and  *)
(* nobody registers the key before it has run.                             *)
CleanupOfFailed ==
    \A k \in cleanup :
       Chosen(k) \/ (fwds[k] \in Tunnels /\ pc[fwds[k]] = "failed")

(* From the server's answer until it has answered the cancel.              *)
Live == {"accepted", "active", "closing", "cancel", "cancelling"}

(* The server listens for a tunnel until it has answered the cancel.       *)
Listened ==
    \A t \in Tunnels :
       pc[t] \in Live
       => /\ alloc[t] \in Ports \cup Paths
          /\ Bind[t] \in {0, alloc[t]}
          /\ listening[alloc[t]] = t

(* A tunnel has no listener but the one it was told of, unless it had      *)
(* given up by then, and in the end none but one whose cancel failed.      *)
ListenersOwn ==
    \A p \in Ports \cup Paths :
       listening[p] # Nobody
       => /\ pc[listening[p]] = "timed out" \/ alloc[listening[p]] = p
          /\ \/ pc[listening[p]] \in Live \cup {"timed out"}
             \/ listening[p] \in kept

(* A start that got no answer has no port, and an answer that is still to  *)
(* come belongs to a start that waits for it or has timed out.             *)
AskedIsPending ==
    /\ \A t \in asked : pc[t] \in {"request", "timed out"}
    /\ \A t \in kept : pc[t] \in {"cancelled", "closed"}
    /\ \A t \in Tunnels :
          pc[t] \in {"idle", "conflict", "lock", "request", "refused", "failed",
                    "timed out"}
          => alloc[t] = 0

(* The inductive invariant is the types and the agreement of the map, the  *)
(* server and the tunnels.                                                 *)
Agreement ==
    /\ Registered /\ CleanupOfFailed
    /\ Listened /\ ListenersOwn /\ AskedIsPending

IndInv == TypeOK /\ Agreement

-----------------------------------------------------------------------------
(* Nothing is registered, bound or asked for at first.                     *)
LEMMA InitIndInv == Init => IndInv
  <1> SUFFICES ASSUME Init PROVE IndInv
    OBVIOUS
  <1>1. TypeOK
    BY ConstantsAssumption DEF Init, TypeOK, Keys, Places
  <1>2. Agreement
    BY DEF Init, Agreement, Registered, CleanupOfFailed, Listened, ListenersOwn,
       AskedIsPending, Live
  <1> QED
    BY <1>1, <1>2 DEF IndInv

(* Every step of the tunnels, of the cleanup tasks and of the server keeps *)
(* the types, whatever the starts ask for.                                 *)
LEMMA StepTypeOK == TypeOK /\ [Next]_vars => TypeOK'
  <1> SUFFICES ASSUME TypeOK, [Next]_vars PROVE TypeOK'
    OBVIOUS
  <1> USE ConstantsAssumption DEF TypeOK, Keys, Goto, serverVars, Places
  <1>1. ASSUME NEW t \in Tunnels, Reserve(t) PROVE TypeOK'
    <2>1. pc' \in [Tunnels -> Places]
      BY <1>1 DEF Reserve
    <2>2. fwds' = fwds \/ fwds' = [fwds EXCEPT ![Bind[t]] = t]
      BY <1>1 DEF Reserve
    <2>3. fwds' \in [Keys -> Tunnels \cup {Nobody}]
      <3> HIDE DEF Keys
      <3>1. fwds \in [Keys -> Tunnels \cup {Nobody}] /\ Bind[t] \in Keys
        BY DEF TypeOK
      <3> QED
        BY <2>2, <3>1
    <2> QED
      BY <1>1, <2>1, <2>3 DEF Reserve
  <1>2. ASSUME NEW t \in Tunnels, SendRequest(t) \/ Run(t) \/ Refused(t)
        PROVE  TypeOK'
    <2>1. pc' \in [Tunnels -> Places]
      BY <1>2 DEF SendRequest, Run, Refused
    <2>2. CASE SendRequest(t)
      BY <2>1, <2>2 DEF SendRequest
    <2>3. CASE Run(t)
      BY <2>1, <2>3 DEF Run
    <2>4. CASE Refused(t)
      BY <2>1, <2>4 DEF Refused
    <2> QED
      BY <1>2, <2>2, <2>3, <2>4
  <1>3. ASSUME NEW t \in Tunnels, TimedOut(t) \/ Close(t) \/ SendCancel(t) \/ Cancelled(t)
        PROVE  TypeOK'
    BY <1>3 DEF TimedOut, Close, SendCancel, Cancelled
  <1>4. ASSUME NEW t \in Tunnels, Forget(t, alloc[t]) \/ Forget(t, Bind[t])
        PROVE  TypeOK'
    BY <1>4 DEF Forget
  <1>5. ASSUME NEW t \in Tunnels, ServerAccepts(t) PROVE TypeOK'
    <2>1. pc' \in [Tunnels -> Places]
      BY <1>5 DEF ServerAccepts
    <2>2. listening' \in [Ports \cup Paths -> Tunnels \cup {Nobody}]
      BY <1>5 DEF ServerAccepts
    <2>3. alloc' \in [Tunnels -> Keys]
      <3>1. alloc' = alloc \/ \E p \in Keys : alloc' = [alloc EXCEPT ![t] = p]
        BY <1>5 DEF ServerAccepts
      <3> QED
        BY <3>1
    <2> QED
      BY <1>5, <2>1, <2>2, <2>3 DEF ServerAccepts
  <1>6. ASSUME NEW t \in Tunnels, ServerDenies(t) PROVE TypeOK'
    BY <1>6 DEF ServerDenies
  <1>7. ASSUME NEW t \in Tunnels, ServerCancels(t) PROVE TypeOK'
    <2>1. listening' \in [Ports \cup Paths -> Tunnels \cup {Nobody}]
      BY <1>7 DEF ServerCancels
    <2> QED
      BY <1>7, <2>1 DEF ServerCancels
  <1>8. ASSUME NEW k \in Keys, Cleanup(k) PROVE TypeOK'
    BY <1>8 DEF Cleanup
  <1>9. CASE OtherLocks \/ UNCHANGED vars
    BY <1>9 DEF OtherLocks, vars
  <1> QED
    BY <1>1, <1>2, <1>3, <1>4, <1>5, <1>6, <1>7, <1>8, <1>9
       DEF Next, Task, Register, RegisterPath, Request, RequestPath, Started,
       StartedPath, Denied, DeniedPath, Unregister, UnregisterPath, Cancel,
       CancelPath, Server

-----------------------------------------------------------------------------
(* One lemma for each kind of step.                                        *)

(* A port stays chosen: a start gets its port once.                        *)
LEMMA ChosenStays ==
    ASSUME IndInv, Next, NEW k \in Keys, Chosen(k)
    PROVE  Chosen(k)'
  <1>1. PICK u \in Tunnels : k # 0 /\ Bind[u] = 0 /\ alloc[u] = k
    BY DEF Chosen
  <1>2. alloc'[u] = k
    <2>1. ASSUME NEW t \in Tunnels, ServerAccepts(t) PROVE alloc'[u] = k
      BY <1>1, <2>1 DEF IndInv, Agreement, TypeOK, AskedIsPending, ServerAccepts
    <2>2. CASE alloc' = alloc
      BY <1>1, <2>2
    <2> QED
      BY <2>1, <2>2
         DEF Next, Task, Server, Register, RegisterPath, Reserve, Request, RequestPath,
         SendRequest, Started, StartedPath, Run, Denied, DeniedPath, Refused,
         TimedOut, Close, Unregister, UnregisterPath, Forget, Cancel, CancelPath,
         SendCancel, Cancelled, ServerDenies, ServerCancels, OtherLocks, Cleanup
  <1> QED
    BY <1>1, <1>2 DEF Chosen

(* A step of a tunnel that neither gets nor gives up its listener.         *)
LEMMA ListenersStay ==
    ASSUME IndInv, NEW t \in Tunnels, NEW where,
           pc' = [pc EXCEPT ![t] = where],
           UNCHANGED <<alloc, listening, kept>>,
           where \in Live <=> pc[t] \in Live,
           pc[t] # "timed out"
    PROVE  (Listened /\ ListenersOwn)'
  <1> USE DEF IndInv, Agreement
  <1>1. /\ pc \in [Tunnels -> Places]
        /\ listening \in [Ports \cup Paths -> Tunnels \cup {Nobody}]
    BY DEF TypeOK
  <1>2. pc'[t] = where /\ \A u \in Tunnels \ {t} : pc'[u] = pc[u]
    BY <1>1
  <1>3. Listened'
    <2> SUFFICES ASSUME NEW u \in Tunnels, pc'[u] \in Live
                 PROVE  /\ alloc[u] \in Ports \cup Paths
                        /\ Bind[u] \in {0, alloc[u]}
                        /\ listening[alloc[u]] = u
      BY DEF Listened
    <2>1. pc[u] \in Live
      BY <1>2
    <2> QED
      BY <2>1 DEF Listened
  <1>4. ListenersOwn'
    <2> SUFFICES ASSUME NEW p \in Ports \cup Paths, listening[p] # Nobody
                 PROVE  /\ pc'[listening[p]] = "timed out" \/ alloc[listening[p]] = p
                        /\ \/ pc'[listening[p]] \in Live \cup {"timed out"}
                           \/ listening[p] \in kept
      BY DEF ListenersOwn
    <2>1. listening[p] \in Tunnels
      BY <1>1
    <2>2. CASE listening[p] = t
      BY <1>2, <2>2 DEF ListenersOwn
    <2>3. CASE listening[p] # t
      BY <1>2, <2>1, <2>3 DEF ListenersOwn
    <2> QED
      BY <2>2, <2>3
  <1> QED
    BY <1>3, <1>4

(* A start registers its key, or finds it taken.                           *)
LEMMA ReserveStep ==
    ASSUME IndInv, NEW t \in Tunnels, Reserve(t)
    PROVE  Agreement'
  <1> USE ConstantsAssumption DEF IndInv, Agreement, serverVars
  <1>0. \A q \in Keys : Chosen(q) => Chosen(q)'
    BY ChosenStays DEF Next, Task, Register, RegisterPath, Tcp, Streamlocal
  <1>1. Registered'
    <2>1. CASE fwds[Bind[t]] # Nobody
      BY <1>0, <2>1 DEF TypeOK, Registered, Reserve, Goto
    <2>2. CASE fwds[Bind[t]] = Nobody
      <3>1. \A u \in Tunnels \ {t} : pc'[u] = pc[u]
        BY <2>2 DEF TypeOK, Reserve, Goto
      <3>2. fwds' = [fwds EXCEPT ![Bind[t]] = t] /\ Bind[t] \in Keys
        BY <2>2 DEF Reserve
      <3> QED
        BY <1>0, <2>2, <3>1, <3>2 DEF TypeOK, Registered
    <2> QED
      BY <2>1, <2>2
  <1>2. CleanupOfFailed'
    BY <1>0 DEF TypeOK, Keys, Registered, CleanupOfFailed, Reserve, Goto
  <1>3. (Listened /\ ListenersOwn)'
    BY ListenersStay DEF Live, Reserve, Goto
  <1>4. AskedIsPending'
    BY DEF TypeOK, AskedIsPending, Reserve, Goto
  <1> QED
    BY <1>1, <1>2, <1>3, <1>4

(* The request is sent under the lock of the handle.                       *)
LEMMA SendRequestStep ==
    ASSUME IndInv, NEW t \in Tunnels, SendRequest(t)
    PROVE  Agreement'
  <1> USE ConstantsAssumption DEF IndInv, Agreement, serverVars
  <1>0. \A q \in Keys : Chosen(q) => Chosen(q)'
    BY ChosenStays DEF Next, Task, Request, RequestPath, Tcp, Streamlocal
  <1>1. Registered'
    BY <1>0 DEF TypeOK, Keys, Registered, SendRequest, Goto
  <1>2. CleanupOfFailed'
    BY <1>0 DEF TypeOK, Keys, Registered, CleanupOfFailed, SendRequest, Goto
  <1>3. (Listened /\ ListenersOwn)'
    BY ListenersStay DEF Live, SendRequest, Goto
  <1>4. AskedIsPending'
    <2>1. \A u \in Tunnels \ {t} : pc'[u] = pc[u]
      BY DEF TypeOK, SendRequest, Goto
    <2>2. pc[t] = "lock" /\ pc'[t] = "request"
      BY DEF TypeOK, SendRequest, Goto
    <2>3. asked' = asked \cup {t} /\ UNCHANGED <<alloc, kept>>
      BY DEF SendRequest
    <2>4. asked \subseteq Tunnels /\ kept \subseteq Tunnels
      BY DEF TypeOK
    <2> QED
      BY <2>1, <2>2, <2>3, <2>4 DEF AskedIsPending
  <1> QED
    BY <1>1, <1>2, <1>3, <1>4

(* The tunnel is running.                                                  *)
LEMMA RunStep ==
    ASSUME IndInv, NEW t \in Tunnels, Run(t)
    PROVE  Agreement'
  <1> USE ConstantsAssumption DEF IndInv, Agreement, serverVars
  <1>0. \A q \in Keys : Chosen(q) => Chosen(q)'
    BY ChosenStays DEF Next, Task, Started, StartedPath, Tcp, Streamlocal
  <1>1. Registered'
    BY <1>0 DEF TypeOK, Keys, Registered, Run, Goto
  <1>2. CleanupOfFailed'
    BY <1>0 DEF TypeOK, Keys, Registered, CleanupOfFailed, Run, Goto
  <1>3. (Listened /\ ListenersOwn)'
    BY ListenersStay DEF Live, Run, Goto
  <1>4. AskedIsPending'
    BY DEF TypeOK, AskedIsPending, Run, Goto
  <1> QED
    BY <1>1, <1>2, <1>3, <1>4

(* A refused start leaves a cleanup task behind.                           *)
LEMMA RefusedStep ==
    ASSUME IndInv, NEW t \in Tunnels, Refused(t)
    PROVE  Agreement'
  <1> USE ConstantsAssumption DEF IndInv, Agreement, serverVars
  <1>0. \A q \in Keys : Chosen(q) => Chosen(q)'
    BY ChosenStays DEF Next, Task, Denied, DeniedPath, Tcp, Streamlocal
  <1>1. Registered'
    BY <1>0 DEF TypeOK, Keys, Registered, Refused, Goto
  <1>2. CleanupOfFailed'
    BY <1>0 DEF TypeOK, Keys, Registered, CleanupOfFailed, Refused, Goto
  <1>3. (Listened /\ ListenersOwn)'
    BY ListenersStay DEF Live, Refused, Goto
  <1>4. AskedIsPending'
    BY DEF TypeOK, AskedIsPending, Refused, Goto
  <1> QED
    BY <1>1, <1>2, <1>3, <1>4

(* A start that gives up leaves its registration behind.                   *)
LEMMA TimedOutStep ==
    ASSUME IndInv, NEW t \in Tunnels, TimedOut(t)
    PROVE  Agreement'
  <1> USE ConstantsAssumption DEF IndInv, Agreement, serverVars
  <1>0. \A q \in Keys : Chosen(q) => Chosen(q)'
    BY ChosenStays DEF Next, Task, Server
  <1>1. Registered'
    BY <1>0 DEF TypeOK, Keys, Registered, TimedOut, Goto
  <1>2. CleanupOfFailed'
    BY <1>0 DEF TypeOK, Keys, Registered, CleanupOfFailed, TimedOut, Goto
  <1>3. (Listened /\ ListenersOwn)'
    BY ListenersStay DEF Live, TimedOut, Goto
  <1>4. AskedIsPending'
    BY DEF TypeOK, AskedIsPending, TimedOut, Goto
  <1> QED
    BY <1>1, <1>2, <1>3, <1>4

(* The tunnel is closed.                                                   *)
LEMMA CloseStep ==
    ASSUME IndInv, NEW t \in Tunnels, Close(t)
    PROVE  Agreement'
  <1> USE ConstantsAssumption DEF IndInv, Agreement, serverVars
  <1>0. \A q \in Keys : Chosen(q) => Chosen(q)'
    BY ChosenStays DEF Next, Task, Server
  <1>1. Registered'
    BY <1>0 DEF TypeOK, Keys, Registered, Close, Goto
  <1>2. CleanupOfFailed'
    BY <1>0 DEF TypeOK, Keys, Registered, CleanupOfFailed, Close, Goto
  <1>3. (Listened /\ ListenersOwn)'
    BY ListenersStay DEF Live, Close, Goto
  <1>4. AskedIsPending'
    BY DEF TypeOK, AskedIsPending, Close, Goto
  <1> QED
    BY <1>1, <1>2, <1>3, <1>4

(* The key a closing tunnel takes out of the map is the one it was given;  *)
(* its own target is there unless the server has chosen that port.         *)
LEMMA KeyOfClosing ==
    ASSUME IndInv, NEW t \in Tunnels, Unregister(t) \/ UnregisterPath(t)
    PROVE  /\ pc[t] = "closing" /\ Forget(t, alloc[t])
           /\ alloc[t] \in Ports \cup Paths
           /\ fwds[alloc[t]] = t \/ Chosen(alloc[t])
  <1> USE ConstantsAssumption DEF IndInv, Agreement
  <1>1. /\ pc[t] = "closing"
        /\ alloc[t] \in Ports \cup Paths
        /\ Bind[t] = 0 \/ Bind[t] = alloc[t]
    BY DEF Listened, Live, Unregister, UnregisterPath, Forget
  <1>2. Forget(t, alloc[t])
    BY <1>1 DEF Unregister, UnregisterPath, Streamlocal
  <1>3. Bind[t] = alloc[t] \/ Chosen(alloc[t])
    BY <1>1 DEF Chosen
  <1>4. fwds[alloc[t]] = t \/ Chosen(alloc[t])
    BY <1>1, <1>3 DEF Registered
  <1> QED
    BY <1>1, <1>2, <1>4

(* The task of a closed tunnel takes the key it was given out of the map.  *)
LEMMA ForgetStep ==
    ASSUME IndInv, NEW t \in Tunnels, Unregister(t) \/ UnregisterPath(t)
    PROVE  Agreement'
  <1> USE ConstantsAssumption DEF IndInv, Agreement, serverVars
  <1> DEFINE key == alloc[t]
  <1>0. \A q \in Keys : Chosen(q) => Chosen(q)'
    BY ChosenStays DEF Next, Task
  <1>a. /\ pc[t] = "closing" /\ Forget(t, key)
        /\ key \in Ports \cup Paths
        /\ fwds[key] = t \/ Chosen(key)
    BY KeyOfClosing
  <1>e. pc'[t] = "cancel" /\ \A u \in Tunnels \ {t} : pc'[u] = pc[u]
    BY <1>a DEF TypeOK, Forget, Goto
  <1>f. \A q \in Keys \ {key} : fwds'[q] = fwds[q]
    BY <1>a DEF TypeOK, Forget
  <1>1. Registered'
    <2> SUFFICES ASSUME NEW u \in Tunnels \ {t},
                        pc[u] \in {"lock", "request", "accepted", "refused",
                                   "active", "closing"}
                 PROVE  fwds'[Bind[u]] = u \/ Chosen(Bind[u])'
      BY <1>e DEF Registered
    <2>1. Bind[u] \in Keys /\ (fwds[Bind[u]] = u \/ Chosen(Bind[u]))
      BY DEF Registered
    <2> QED
      BY <1>0, <1>a, <1>f, <2>1
  <1>2. CleanupOfFailed'
    <2> SUFFICES ASSUME NEW k \in cleanup
                 PROVE  \/ Chosen(k)'
                        \/ fwds'[k] \in Tunnels /\ pc'[fwds'[k]] = "failed"
      BY <1>a DEF CleanupOfFailed, Forget
    <2>1. k \in Keys
      BY DEF TypeOK
    <2>2. Chosen(k) \/ (fwds[k] \in Tunnels /\ pc[fwds[k]] = "failed")
      BY DEF CleanupOfFailed
    <2> QED
      BY <1>0, <1>a, <1>e, <1>f, <2>1, <2>2
  <1>3. (Listened /\ ListenersOwn)'
    BY <1>a, ListenersStay DEF Live, Forget, Goto
  <1>4. AskedIsPending'
    BY <1>a DEF TypeOK, AskedIsPending, Forget, Goto
  <1> QED
    BY <1>1, <1>2, <1>3, <1>4

(* The cancel is sent under the lock of the handle.                        *)
LEMMA SendCancelStep ==
    ASSUME IndInv, NEW t \in Tunnels, SendCancel(t)
    PROVE  Agreement'
  <1> USE ConstantsAssumption DEF IndInv, Agreement, serverVars
  <1>0. \A q \in Keys : Chosen(q) => Chosen(q)'
    BY ChosenStays DEF Next, Task, Cancel, CancelPath, Tcp, Streamlocal
  <1>1. Registered'
    BY <1>0 DEF TypeOK, Keys, Registered, SendCancel, Goto
  <1>2. CleanupOfFailed'
    BY <1>0 DEF TypeOK, Keys, Registered, CleanupOfFailed, SendCancel, Goto
  <1>3. (Listened /\ ListenersOwn)'
    BY ListenersStay DEF Live, SendCancel, Goto
  <1>4. AskedIsPending'
    BY DEF TypeOK, AskedIsPending, SendCancel, Goto
  <1> QED
    BY <1>1, <1>2, <1>3, <1>4

(* The task of a closed tunnel ends.                                       *)
LEMMA CancelledStep ==
    ASSUME IndInv, NEW t \in Tunnels, Cancelled(t)
    PROVE  Agreement'
  <1> USE ConstantsAssumption DEF IndInv, Agreement, serverVars
  <1>0. \A q \in Keys : Chosen(q) => Chosen(q)'
    BY ChosenStays DEF Next, Task, Server
  <1>1. Registered'
    BY <1>0 DEF TypeOK, Keys, Registered, Cancelled, Goto
  <1>2. CleanupOfFailed'
    BY <1>0 DEF TypeOK, Keys, Registered, CleanupOfFailed, Cancelled, Goto
  <1>3. (Listened /\ ListenersOwn)'
    BY ListenersStay DEF Live, Cancelled, Goto
  <1>4. AskedIsPending'
    BY DEF TypeOK, AskedIsPending, Cancelled, Goto
  <1> QED
    BY <1>1, <1>2, <1>3, <1>4

(* The server binds, for a start that waits or has timed out.              *)
LEMMA ServerAcceptsStep ==
    ASSUME IndInv, NEW t \in Tunnels, ServerAccepts(t)
    PROVE  Agreement'
  <1> USE ConstantsAssumption DEF IndInv, Agreement, serverVars
  <1>0. \A q \in Keys : Chosen(q) => Chosen(q)'
    BY ChosenStays DEF Next, Task, Server
  <1>1. Registered'
    BY <1>0 DEF TypeOK, Keys, Registered, ServerAccepts
  <1>2. CleanupOfFailed'
    BY <1>0 DEF TypeOK, Keys, Registered, CleanupOfFailed, AskedIsPending,
       ServerAccepts
  <1>3. (Listened /\ ListenersOwn)'
    <2>1. PICK p \in Ports \cup Paths :
             /\ p \in IF Bind[t] = 0 THEN Ports ELSE {Bind[t]}
             /\ listening[p] = Nobody
             /\ listening' = [listening EXCEPT ![p] = t]
             /\ alloc' = IF pc[t] = "request" THEN [alloc EXCEPT ![t] = p] ELSE alloc
      BY DEF ServerAccepts
    <2>2. /\ listening'[p] = t
          /\ \A q \in (Ports \cup Paths) \ {p} : listening'[q] = listening[q]
      BY <2>1 DEF TypeOK
    <2>3. \A u \in Tunnels \ {t} : pc'[u] = pc[u] /\ alloc'[u] = alloc[u]
      BY <2>1 DEF TypeOK, ServerAccepts
    <2>4. \/ pc[t] = "request" /\ pc'[t] = "accepted" /\ alloc'[t] = p
          \/ pc[t] = "timed out" /\ pc'[t] = "timed out"
      BY <2>1 DEF TypeOK, AskedIsPending, ServerAccepts
    <2>5. kept' = kept /\ t \notin kept
      BY <2>4 DEF AskedIsPending, ServerAccepts
    <2>6. \A q \in Ports \cup Paths : listening[q] \in Tunnels \cup {Nobody}
      BY DEF TypeOK
    <2>7. Listened'
      <3> SUFFICES ASSUME NEW u \in Tunnels, pc'[u] \in Live
                   PROVE  /\ alloc'[u] \in Ports \cup Paths
                          /\ Bind[u] \in {0, alloc'[u]}
                          /\ listening'[alloc'[u]] = u
        BY DEF Listened
      <3>1. CASE u = t
        BY <2>1, <2>2, <2>4, <3>1 DEF Live
      <3>2. CASE u # t
        BY <2>1, <2>2, <2>3, <3>2 DEF Listened
      <3> QED
        BY <3>1, <3>2
    <2>8. ListenersOwn'
      <3> SUFFICES ASSUME NEW q \in Ports \cup Paths, listening'[q] # Nobody
                   PROVE  /\ \/ pc'[listening'[q]] = "timed out"
                             \/ alloc'[listening'[q]] = q
                          /\ \/ pc'[listening'[q]] \in Live \cup {"timed out"}
                             \/ listening'[q] \in kept'
        BY DEF ListenersOwn
      <3>1. CASE q = p
        BY <2>2, <2>4, <3>1 DEF Live
      <3>2. CASE q # p /\ listening[q] = t
        BY <2>2, <2>4, <2>5, <3>2 DEF ListenersOwn, Live
      <3>3. CASE q # p /\ listening[q] # t
        <4>1. listening'[q] = listening[q] /\ listening[q] \in Tunnels \ {t}
          BY <2>2, <2>6, <3>3
        <4> QED
          BY <2>3, <2>5, <4>1 DEF ListenersOwn
      <3> QED
        BY <3>1, <3>2, <3>3
    <2> QED
      BY <2>7, <2>8
  <1>4. AskedIsPending'
    BY DEF TypeOK, AskedIsPending, ServerAccepts
  <1> QED
    BY <1>1, <1>2, <1>3, <1>4

(* The server denies.                                                      *)
LEMMA ServerDeniesStep ==
    ASSUME IndInv, NEW t \in Tunnels, ServerDenies(t)
    PROVE  Agreement'
  <1> USE ConstantsAssumption DEF IndInv, Agreement, serverVars
  <1>0. \A q \in Keys : Chosen(q) => Chosen(q)'
    BY ChosenStays DEF Next, Task, Server
  <1>1. Registered'
    BY <1>0 DEF TypeOK, Keys, Registered, ServerDenies
  <1>2. CleanupOfFailed'
    BY <1>0 DEF TypeOK, Keys, Registered, CleanupOfFailed, AskedIsPending,
       ServerDenies
  <1>3. (Listened /\ ListenersOwn)'
    <2>1. CASE pc[t] = "request"
      BY <2>1, ListenersStay DEF Live, ServerDenies
    <2>2. CASE pc[t] # "request"
      BY <2>2 DEF Listened, ListenersOwn, ServerDenies
    <2> QED
      BY <2>1, <2>2
  <1>4. AskedIsPending'
    BY DEF TypeOK, AskedIsPending, ServerDenies
  <1> QED
    BY <1>1, <1>2, <1>3, <1>4

(* The server gives up the listener.                                       *)
LEMMA ServerCancelsStep ==
    ASSUME IndInv, NEW t \in Tunnels, ServerCancels(t)
    PROVE  Agreement'
  <1> USE ConstantsAssumption DEF IndInv, Agreement, serverVars
  <1>0. \A q \in Keys : Chosen(q) => Chosen(q)'
    BY ChosenStays DEF Next, Task, Server
  <1>1. Registered'
    BY <1>0 DEF TypeOK, Keys, Registered, ServerCancels, Goto
  <1>2. CleanupOfFailed'
    BY <1>0 DEF TypeOK, Keys, Registered, CleanupOfFailed, AskedIsPending,
       ServerCancels, Goto
  <1>a. pc[t] = "cancelling" /\ pc'[t] = "cancelled"
    BY DEF TypeOK, ServerCancels, Goto
  <1>b. \A u \in Tunnels \ {t} : pc'[u] = pc[u]
    BY DEF TypeOK, ServerCancels, Goto
  <1>c. alloc' = alloc /\ asked' = asked /\ kept' \in {kept, kept \cup {t}}
    BY DEF ServerCancels
  <1>d. alloc[t] \in Ports \cup Paths /\ listening[alloc[t]] = t
    BY <1>a DEF Listened, Live
  <1>e. /\ \A q \in (Ports \cup Paths) \ {alloc[t]} : listening'[q] = listening[q]
        /\ \/ listening'[alloc[t]] = Nobody
           \/ listening'[alloc[t]] = t /\ t \in kept'
    BY <1>d DEF TypeOK, ServerCancels
  <1>f. \A q \in Ports \cup Paths : listening[q] \in Tunnels \cup {Nobody}
    BY DEF TypeOK
  <1>3. (Listened /\ ListenersOwn)'
    <2>1. Listened'
      <3> SUFFICES ASSUME NEW u \in Tunnels, pc'[u] \in Live
                   PROVE  /\ alloc[u] \in Ports \cup Paths
                          /\ Bind[u] \in {0, alloc[u]}
                          /\ listening'[alloc[u]] = u
        BY <1>c DEF Listened
      <3>1. u # t
        BY <1>a DEF Live
      <3> QED
        BY <1>b, <1>d, <1>e, <3>1 DEF Listened
    <2>2. ListenersOwn'
      <3> SUFFICES ASSUME NEW q \in Ports \cup Paths, listening'[q] # Nobody
                   PROVE  /\ \/ pc'[listening'[q]] = "timed out"
                             \/ alloc[listening'[q]] = q
                          /\ \/ pc'[listening'[q]] \in Live \cup {"timed out"}
                             \/ listening'[q] \in kept'
        BY <1>c DEF ListenersOwn
      <3>1. CASE q = alloc[t]
        BY <1>e, <3>1
      <3>2. CASE q # alloc[t]
        <4>1. listening[q] # t
          BY <1>a, <3>2 DEF ListenersOwn
        <4> QED
          BY <1>b, <1>c, <1>e, <1>f, <3>2, <4>1 DEF ListenersOwn
      <3> QED
        BY <3>1, <3>2
    <2> QED
      BY <2>1, <2>2
  <1>4. AskedIsPending'
    <2>1. asked \subseteq Tunnels /\ kept \subseteq Tunnels
      BY DEF TypeOK
    <2> QED
      BY <1>a, <1>b, <1>c, <2>1 DEF AskedIsPending
  <1> QED
    BY <1>1, <1>2, <1>3, <1>4

(* A cleanup task removes the key of a failed start.                       *)
LEMMA CleanupStep ==
    ASSUME IndInv, NEW k \in Keys, Cleanup(k)
    PROVE  Agreement'
  <1> USE ConstantsAssumption DEF IndInv, Agreement, serverVars
  <1>0. \A q \in Keys : Chosen(q) => Chosen(q)'
    BY ChosenStays DEF Next, Task, Server
  <1>1. Registered'
    BY <1>0 DEF TypeOK, Keys, Registered, CleanupOfFailed, Cleanup
  <1>2. CleanupOfFailed'
    BY <1>0 DEF TypeOK, Keys, Registered, CleanupOfFailed, Cleanup
  <1>3. (Listened /\ ListenersOwn)'
    BY DEF TypeOK, Keys, Listened, ListenersOwn, Cleanup
  <1>4. AskedIsPending'
    BY DEF TypeOK, AskedIsPending, Cleanup
  <1> QED
    BY <1>1, <1>2, <1>3, <1>4

(* Others use the handle.                                                  *)
LEMMA OtherLocksStep ==
    ASSUME IndInv, OtherLocks
    PROVE  Agreement'
  <1> USE ConstantsAssumption DEF IndInv, Agreement, serverVars
  <1>0. \A q \in Keys : Chosen(q) => Chosen(q)'
    BY ChosenStays DEF Next, Task, Server
  <1>1. Registered'
    BY <1>0 DEF TypeOK, Keys, Registered, OtherLocks
  <1>2. CleanupOfFailed'
    BY <1>0 DEF TypeOK, Keys, Registered, CleanupOfFailed, OtherLocks
  <1>3. (Listened /\ ListenersOwn)'
    BY DEF TypeOK, Keys, Listened, ListenersOwn, OtherLocks
  <1>4. AskedIsPending'
    BY DEF TypeOK, AskedIsPending, OtherLocks
  <1> QED
    BY <1>1, <1>2, <1>3, <1>4

-----------------------------------------------------------------------------
(* Every step keeps the invariant.                                         *)
LEMMA NextIndInv == IndInv /\ [Next]_vars => IndInv'
  <1> SUFFICES ASSUME IndInv, [Next]_vars PROVE Agreement'
    BY StepTypeOK DEF IndInv
  <1>1. ASSUME NEW t \in Tunnels, Task(t) PROVE Agreement'
    BY <1>1, ReserveStep, SendRequestStep, RunStep, RefusedStep, TimedOutStep,
       CloseStep, ForgetStep, SendCancelStep, CancelledStep
       DEF Task, Register, RegisterPath, Request, RequestPath, Started,
       StartedPath, Denied, DeniedPath, Unregister, UnregisterPath, Cancel,
       CancelPath
  <1>2. ASSUME NEW t \in Tunnels, Server(t) PROVE Agreement'
    BY <1>2, ServerAcceptsStep, ServerDeniesStep, ServerCancelsStep DEF Server
  <1>3. ASSUME NEW k \in Keys, Cleanup(k) PROVE Agreement'
    BY <1>3, CleanupStep
  <1>4. CASE OtherLocks
    BY <1>4, OtherLocksStep
  <1>5. CASE UNCHANGED vars
    <2>1. \A k : Chosen(k)' <=> Chosen(k)
      BY <1>5 DEF vars, Chosen
    <2>2. (Registered /\ CleanupOfFailed)'
      BY <1>5, <2>1 DEF vars, IndInv, Agreement, Registered, CleanupOfFailed
    <2> QED
      BY <1>5, <2>2 DEF vars, serverVars, IndInv, Agreement, Listened, ListenersOwn,
         AskedIsPending
  <1> QED
    BY <1>1, <1>2, <1>3, <1>4, <1>5 DEF Next

(* The inductive invariant holds throughout a session.                     *)
LEMMA IndInvAlways == Spec => []IndInv
  <1>1. Init => IndInv
    BY InitIndInv
  <1>2. IndInv /\ [Next]_vars => IndInv'
    BY NextIndInv
  <1> QED
    BY <1>1, <1>2, PTL DEF Spec

(* The map of targets, the lock and the server's listeners keep their      *)
(* types, for starts that leave the choice of the port to the server too.  *)
THEOREM TypeCorrect == Spec => []TypeOK
  <1>1. Init => TypeOK
    BY InitIndInv DEF IndInv
  <1> QED
    BY <1>1, StepTypeOK, PTL DEF Spec

(* A running tunnel has its listener at the server, and what arrives there *)
(* reaches its own target, whatever other tunnels do and however late the  *)
(* server answers (start_remote_forward,                                   *)
(* start_remote_streamlocal_forward, Tunnel::close).                       *)
THEOREM RunningTunnelsWork == Spec => []ActiveTunnelWorks
  <1>1. IndInv => ActiveTunnelWorks
    BY ConstantsAssumption
       DEF IndInv, Agreement, TypeOK, Keys, Registered, Listened,
       ActiveTunnelWorks, Target, Live, Chosen
  <1>2. Spec => []IndInv
    BY IndInvAlways
  <1> QED
    BY <1>1, <1>2, PTL

(* A listener of the server that no tunnel uses belongs to a start that    *)
(* timed out or to a tunnel whose cancel was refused (start_remote_forward *)
(* and the task behind a remote Tunnel).                                   *)
THEOREM StrayListenersHaveACause == Spec => []NoStrayListener
  <1>1. IndInv => NoStrayListener
    BY DEF IndInv, Agreement, ListenersOwn, NoStrayListener, Live
  <1>2. Spec => []IndInv
    BY IndInvAlways
  <1> QED
    BY <1>1, <1>2, PTL

(* Only a failed or closing tunnel loses its registration, but for one on  *)
(* a port the server has chosen for another: a cleanup task never takes    *)
(* that of a later start (the removals from the map in                     *)
(* start_remote_forward and its task).                                     *)
THEOREM RegistrationsAreRemovedByTheirOwner == Spec => RemovalIsOwn
  <1> DEFINE Own == \A k \in Keys : (fwds[k] # Nobody /\ fwds'[k] # fwds[k])
                                    => pc[fwds[k]] \in {"failed", "closing"} \/ Chosen(k)
  <1>1. IndInv /\ [Next]_vars => [Own]_vars
    <2> SUFFICES ASSUME IndInv, Next PROVE Own
      OBVIOUS
    <2>1. ASSUME NEW t \in Tunnels, Reserve(t) PROVE Own
      BY <2>1, ConstantsAssumption DEF IndInv, TypeOK, Keys, Reserve
    <2>2. ASSUME NEW t \in Tunnels, Unregister(t) \/ UnregisterPath(t) PROVE Own
      <3>1. /\ pc[t] = "closing" /\ Forget(t, alloc[t])
            /\ fwds[alloc[t]] = t \/ Chosen(alloc[t])
        BY <2>2, KeyOfClosing
      <3>2. \A k \in Keys \ {alloc[t]} : fwds'[k] = fwds[k]
        BY <3>1 DEF IndInv, TypeOK, Forget
      <3> QED
        BY <3>1, <3>2
    <2>3. ASSUME NEW k \in Keys, Cleanup(k) PROVE Own
      BY <2>3 DEF IndInv, Agreement, TypeOK, CleanupOfFailed, Cleanup
    <2>4. CASE fwds' = fwds
      BY <2>4
    <2> QED
      BY <2>1, <2>2, <2>3, <2>4
         DEF Next, Task, Server, Register, RegisterPath, Request, RequestPath,
         SendRequest, Started, StartedPath, Run, Denied, DeniedPath, Refused,
         TimedOut, Close, Cancel, CancelPath, SendCancel, Cancelled,
         ServerAccepts, ServerDenies, ServerCancels, OtherLocks
  <1>2. Spec => []IndInv
    BY IndInvAlways
  <1> QED
    BY <1>1, <1>2, PTL DEF Spec, RemovalIsOwn

-----------------------------------------------------------------------------
(* ChannelBridge.                                                          *)

Chunks == Seq(Nat)
Messages == [t : {"data", "extended", "eof", "close"}, d : Chunks]
Commands == {"write", "eof", "close"} \X Nat

InHandle == Range(hbuf.stdout) \cup Range(hbuf.stderr)
InBuf == Range(rbuf)
InQueue == In(rq)
InChannel == In(Data(chan))

Types ==
    /\ kind \in {"shell", "tunnel"}
    /\ user \in {"handle", "stream", "gone"}
    /\ task \in {"none", "select", "drain", "done", "broken"}
    /\ peer \in {"open", "eof", "closed"}
    /\ chan \in Seq(Messages) /\ bytes \in Nat /\ blanks \in Nat
    /\ hbuf \in [stdout : Chunks, stderr : Chunks]
    /\ rbuf \in Chunks /\ rq \in Seq(Chunks)
    /\ got \in Chunks /\ lost \in Chunks
    /\ closed \in BOOLEAN /\ ended \in BOOLEAN /\ eofSent \in BOOLEAN
    /\ cq \in Seq(Commands) /\ out \in Seq(Commands) /\ writes \in Nat

(* Who holds what: the channel belongs to the handle or to the bridge, a   *)
(* handle has data of one stream at most, and nobody closes what is still  *)
(* in use.                                                                 *)
Roles ==
    /\ user = "handle" =>
          /\ task = "none"
          /\ rbuf = <<>> /\ rq = <<>> /\ cq = <<>> /\ lost = <<>>
    /\ user = "stream" => hbuf.stdout = <<>> /\ hbuf.stderr = <<>>
    /\ hbuf.stdout = <<>> \/ hbuf.stderr = <<>>
    /\ user # "gone" => \A i \in DOMAIN cq : cq[i][1] # "close"

(* The peer sends nothing after its close, and a tunnel's no second        *)
(* stream.                                                                 *)
ChannelOrder ==
    \A i \in DOMAIN chan :
        /\ chan[i].t \in {"eof", "close"} => chan[i].d = <<>>
        /\ chan[i].t = "close" => i = Len(chan) /\ peer = "closed"
        /\ chan[i].t = "extended" => kind = "shell"

(* A handle knows of the close, and a bridge is done while its stream is   *)
(* in use, only when the channel has been read to its end.                 *)
EndsAtTheEnd ==
    (user = "handle" /\ closed) \/ (user = "stream" /\ task = "done")
        => chan = <<>> /\ peer = "closed"

(* The parts of Path, each below what lies farther from the reader.        *)
Levels ==
    user # "gone" =>
        /\ Increasing(got) /\ Increasing(rbuf)
        /\ Increasing(hbuf.stdout) /\ Increasing(hbuf.stderr)
        /\ Ordered(rq) /\ Ordered(Data(chan))
        /\ Below(Range(got), InHandle \cup InBuf \cup InQueue \cup InChannel)
        /\ Below(InHandle, InBuf \cup InQueue \cup InChannel)
        /\ Below(InBuf, InQueue \cup InChannel)
        /\ Below(InQueue, InChannel)
        /\ Range(got) \cup InHandle \cup InBuf \cup InQueue \cup InChannel = Wanted

(* Without an empty message of the peer there is no empty chunk to read.   *)
NoBlankToRead ==
    blanks = 0 =>
        /\ \A i \in DOMAIN chan : chan[i].t \in {"data", "extended"} => chan[i].d # <<>>
        /\ \A i \in DOMAIN rq : rq[i] # <<>>

(* What into_async_io dropped had been sent.                               *)
LostWasSent == Range(lost) \subseteq 1 .. bytes

(* What was issued and what is queued are the writes accepted.             *)
Line(line, last) ==
    /\ InOrder(line, last)
    /\ \A n \in 1 .. last : \E i \in DOMAIN line : line[i] = <<"write", n>>
LineInOrder == Line(out \o cq, writes)

BridgeInv ==
    /\ Types /\ Roles /\ ChannelOrder /\ EndsAtTheEnd
    /\ Levels /\ LostWasSent /\ EndMeansAll
    /\ LineInOrder /\ NoBlankToRead

-----------------------------------------------------------------------------
(* Sequences, and the bytes in them.                                       *)

LEMMA Appended ==
    ASSUME NEW S, NEW s \in Seq(S), NEW e \in S
    PROVE  /\ Append(s, e) \in Seq(S)
           /\ Len(s) \in Nat /\ Len(Append(s, e)) = Len(s) + 1
           /\ \A i \in 1 .. Len(s) : Append(s, e)[i] = s[i]
           /\ Append(s, e)[Len(s) + 1] = e
  OBVIOUS

LEMMA HeadAndTail ==
    ASSUME NEW S, NEW s \in Seq(S), s # <<>>
    PROVE  /\ Head(s) = s[1] /\ Head(s) \in S
           /\ Tail(s) \in Seq(S)
           /\ Len(s) \in Nat \ {0} /\ Len(Tail(s)) = Len(s) - 1
           /\ \A i \in 1 .. Len(Tail(s)) : Tail(s)[i] = s[i + 1]
  OBVIOUS

LEMMA Concatenated ==
    ASSUME NEW s \in Seq(Chunks), NEW t \in Seq(Chunks)
    PROVE  /\ s \o t \in Seq(Chunks) /\ Len(s \o t) = Len(s) + Len(t)
           /\ DOMAIN (s \o t) = 1 .. (Len(s) + Len(t))
           /\ \A i \in 1 .. Len(s) : (s \o t)[i] = s[i]
           /\ \A i \in 1 .. Len(t) : (s \o t)[Len(s) + i] = t[i]
  OBVIOUS

LEMMA Joined ==
    ASSUME NEW s \in Chunks, NEW t \in Chunks, Increasing(s), Increasing(t),
           Below(Range(s), Range(t))
    PROVE  /\ s \o t \in Chunks /\ Increasing(s \o t)
           /\ Range(s \o t) = Range(s) \cup Range(t)
  <1> USE DEF Chunks
  <1>1. /\ s \o t \in Seq(Nat) /\ Len(s) \in Nat /\ Len(t) \in Nat
        /\ Len(s \o t) = Len(s) + Len(t)
        /\ \A i \in 1 .. Len(s) : (s \o t)[i] = s[i]
        /\ \A i \in 1 .. Len(t) : (s \o t)[Len(s) + i] = t[i]
        /\ DOMAIN s = 1 .. Len(s) /\ DOMAIN t = 1 .. Len(t)
        /\ DOMAIN (s \o t) = 1 .. (Len(s) + Len(t))
    OBVIOUS
  <1>2. \A i \in 1 .. (Len(s) + Len(t)) :
            \/ i \in 1 .. Len(s) /\ (s \o t)[i] = s[i]
            \/ i - Len(s) \in 1 .. Len(t) /\ (s \o t)[i] = t[i - Len(s)]
    <2> TAKE i \in 1 .. (Len(s) + Len(t))
    <2>1. CASE i <= Len(s)
      BY <1>1, <2>1
    <2>2. CASE i > Len(s)
      <3>1. i - Len(s) \in 1 .. Len(t) /\ Len(s) + (i - Len(s)) = i
        BY <1>1, <2>2
      <3> QED
        BY <1>1, <3>1
    <2> QED
      BY <1>1, <2>1, <2>2
  <1>3. Range(s \o t) = Range(s) \cup Range(t)
    <2>1. Range(s \o t) \subseteq Range(s) \cup Range(t)
      BY <1>1, <1>2 DEF Range
    <2>2. ASSUME NEW x \in Range(s) PROVE x \in Range(s \o t)
      BY <1>1 DEF Range
    <2>3. ASSUME NEW x \in Range(t) PROVE x \in Range(s \o t)
      <3>1. PICK i \in 1 .. Len(t) : x = t[i]
        BY <1>1 DEF Range
      <3>2. Len(s) + i \in DOMAIN (s \o t) /\ (s \o t)[Len(s) + i] = x
        BY <1>1, <3>1
      <3> QED
        BY <3>2 DEF Range
    <2> QED
      BY <2>1, <2>2, <2>3
  <1>4. Increasing(s \o t)
    <2> SUFFICES ASSUME NEW i \in DOMAIN (s \o t), NEW j \in DOMAIN (s \o t), i < j
                 PROVE  (s \o t)[i] < (s \o t)[j]
      BY DEF Increasing
    <2>1. CASE i \in 1 .. Len(s) /\ j \in 1 .. Len(s)
      BY <1>1, <2>1 DEF Increasing
    <2>2. CASE i \in 1 .. Len(s) /\ j \notin 1 .. Len(s)
      <3>1. (s \o t)[i] = s[i] /\ s[i] \in Range(s)
        BY <1>1, <2>2 DEF Range
      <3>2. j - Len(s) \in 1 .. Len(t) /\ (s \o t)[j] = t[j - Len(s)]
        BY <1>1, <1>2, <2>2
      <3>3. (s \o t)[j] \in Range(t)
        BY <1>1, <3>2 DEF Range
      <3> QED
        BY <3>1, <3>3 DEF Below
    <2>3. CASE i \notin 1 .. Len(s)
      <3>1. j \notin 1 .. Len(s)
        BY <1>1, <2>3
      <3>2. /\ i - Len(s) \in 1 .. Len(t) /\ (s \o t)[i] = t[i - Len(s)]
            /\ j - Len(s) \in 1 .. Len(t) /\ (s \o t)[j] = t[j - Len(s)]
        BY <1>1, <1>2, <2>3, <3>1
      <3>3. i - Len(s) < j - Len(s)
        BY <1>1
      <3> QED
        BY <1>1, <3>2, <3>3 DEF Increasing
    <2> QED
      BY <2>1, <2>2, <2>3
  <1> QED
    BY <1>1, <1>3, <1>4

(* Two pieces of a sequence, cut behind its m-th element.                  *)
LEMMA TwoPieces ==
    ASSUME NEW s \in Chunks, Increasing(s), NEW m \in Nat, m <= Len(s),
           NEW f \in Chunks, Len(f) = m, \A i \in 1 .. m : f[i] = s[i],
           NEW r \in Chunks, Len(r) = Len(s) - m, \A i \in 1 .. Len(s) - m : r[i] = s[m + i]
    PROVE  /\ Increasing(f) /\ Increasing(r)
           /\ Range(f) \cup Range(r) = Range(s)
           /\ Below(Range(f), Range(r))
  <1> USE DEF Chunks
  <1>1. /\ Len(s) \in Nat /\ DOMAIN s = 1 .. Len(s)
        /\ DOMAIN f = 1 .. m /\ DOMAIN r = 1 .. (Len(s) - m)
    OBVIOUS
  <1>2. \A i \in DOMAIN f : i \in DOMAIN s /\ i \in Nat /\ i <= m
    BY <1>1
  <1>3. \A i \in DOMAIN r : m + i \in DOMAIN s /\ i \in Nat /\ i > 0
    BY <1>1, SMTT(30)
  <1>4. \A i \in DOMAIN s : (i <= m /\ i \in DOMAIN f) \/ (i - m \in DOMAIN r /\ m + (i - m) = i)
    BY <1>1
  <1>5. (\A i \in DOMAIN f : f[i] = s[i]) /\ (\A i \in DOMAIN r : r[i] = s[m + i])
    BY <1>1
  <1>6. Increasing(f)
    BY <1>2, <1>5 DEF Increasing
  <1>7. ASSUME NEW i \in DOMAIN r, NEW j \in DOMAIN r, i < j PROVE r[i] < r[j]
    <2>1. m + i \in DOMAIN s /\ m + j \in DOMAIN s /\ m + i < m + j
      BY <1>3, <1>7
    <2> QED
      BY <2>1, <1>5 DEF Increasing
  <1>8. ASSUME NEW i \in DOMAIN f, NEW j \in DOMAIN r PROVE f[i] < r[j]
    <2>1. i \in DOMAIN s /\ m + j \in DOMAIN s /\ i < m + j
      BY <1>2, <1>3
    <2> QED
      BY <2>1, <1>5 DEF Increasing
  <1>9. Range(f) \cup Range(r) = Range(s)
    <2>1. ASSUME NEW x \in Range(s) PROVE x \in Range(f) \cup Range(r)
      <3>1. PICK i \in DOMAIN s : x = s[i]
        BY DEF Range
      <3>2. CASE i \in DOMAIN f
        BY <3>1, <3>2, <1>5 DEF Range
      <3>3. CASE i - m \in DOMAIN r /\ m + (i - m) = i
        BY <3>1, <3>3, <1>5 DEF Range
      <3> QED
        BY <3>2, <3>3, <1>4
    <2>2. Range(f) \subseteq Range(s)
      BY <1>2, <1>5 DEF Range
    <2>3. Range(r) \subseteq Range(s)
      BY <1>3, <1>5 DEF Range
    <2> QED
      BY <2>1, <2>2, <2>3
  <1> QED
    BY <1>6, <1>7, <1>8, <1>9 DEF Increasing, Below, Range

(* A read takes the first n bytes and leaves the rest.                     *)
LEMMA SplitAt ==
    ASSUME NEW s \in Chunks, Increasing(s), NEW n \in Nat
    PROVE  /\ First(s, n) \in Chunks /\ Rest(s, n) \in Chunks
           /\ Increasing(First(s, n)) /\ Increasing(Rest(s, n))
           /\ Range(First(s, n)) \cup Range(Rest(s, n)) = Range(s)
           /\ Below(Range(First(s, n)), Range(Rest(s, n)))
  <1> USE DEF Chunks
  <1>0. Len(s) \in Nat
    OBVIOUS
  <1>1. CASE n <= Len(s)
    <2>1. First(s, n) = SubSeq(s, 1, n) /\ Rest(s, n) = SubSeq(s, n + 1, Len(s))
      BY <1>0, <1>1 DEF First, Rest, Min2
    <2>2. /\ SubSeq(s, 1, n) \in Seq(Nat) /\ Len(SubSeq(s, 1, n)) = n
          /\ \A i \in 1 .. n : SubSeq(s, 1, n)[i] = s[i]
      BY <1>0, <1>1
    <2>3. /\ SubSeq(s, n + 1, Len(s)) \in Seq(Nat)
          /\ Len(SubSeq(s, n + 1, Len(s))) = Len(s) - n
          /\ \A i \in 1 .. Len(s) - n : SubSeq(s, n + 1, Len(s))[i] = s[n + i]
      BY <1>0, <1>1
    <2> DEFINE f == First(s, n)
               r == Rest(s, n)
    <2>4. /\ f \in Chunks /\ Len(f) = n /\ \A i \in 1 .. n : f[i] = s[i]
          /\ r \in Chunks /\ Len(r) = Len(s) - n
          /\ \A i \in 1 .. Len(s) - n : r[i] = s[n + i]
      BY <2>1, <2>2, <2>3
    <2> HIDE DEF f, r, Chunks
    <2>5. /\ Increasing(f) /\ Increasing(r)
          /\ Range(f) \cup Range(r) = Range(s)
          /\ Below(Range(f), Range(r))
      BY <1>1, <2>4, TwoPieces, SMTT(30)
    <2> QED
      BY <2>4, <2>5 DEF f, r
  <1>2. CASE n > Len(s)
    <2>1. First(s, n) = SubSeq(s, 1, Len(s))
      BY <1>0, <1>2 DEF First, Min2
    <2>2. SubSeq(s, 1, Len(s)) = s
      BY <1>0
    <2>3. Rest(s, n) \in Seq(Nat) /\ Len(Rest(s, n)) = 0
      BY <1>0, <1>2 DEF Rest
    <2>4. Rest(s, n) = <<>>
      BY <2>3
    <2>5. Increasing(<<>>) /\ Range(<<>>) = {} /\ Below(Range(s), {}) /\ <<>> \in Chunks
      BY DEF Increasing, Range, Below
    <2> HIDE DEF Chunks
    <2> QED
      BY <2>1, <2>2, <2>4, <2>5
  <1> QED
    BY <1>0, <1>1, <1>2

LEMMA Nothing ==
    /\ <<>> \in Chunks /\ Increasing(<<>>) /\ Range(<<>>) = {}
    /\ Ordered(<<>>) /\ In(<<>>) = {}
  BY DEF Chunks, Increasing, Range, Ordered, In

(* A chunk joins a queue, and leaves it.                                   *)
LEMMA ChunkAppended ==
    ASSUME NEW q \in Seq(Chunks), Ordered(q), NEW d \in Chunks, Increasing(d),
           Below(In(q), Range(d))
    PROVE  /\ Append(q, d) \in Seq(Chunks)
           /\ Ordered(Append(q, d))
           /\ In(Append(q, d)) = In(q) \cup Range(d)
  <1> DEFINE a == Append(q, d)
  <1>1. /\ a \in Seq(Chunks) /\ Len(q) \in Nat
        /\ DOMAIN q = 1 .. Len(q) /\ DOMAIN a = 1 .. (Len(q) + 1)
        /\ \A i \in 1 .. Len(q) : a[i] = q[i]
        /\ a[Len(q) + 1] = d
    OBVIOUS
  <1> HIDE DEF a
  <1>2. \A i \in DOMAIN a : (i \in DOMAIN q /\ a[i] = q[i]) \/ (i = Len(q) + 1 /\ a[i] = d)
    BY <1>1
  <1>3. \A i \in DOMAIN q : Range(q[i]) \subseteq In(q) /\ i \in DOMAIN a /\ a[i] = q[i] /\ i < Len(q) + 1
    BY <1>1 DEF In
  <1>4. Ordered(a)
    <2> SUFFICES ASSUME NEW i \in DOMAIN a, NEW j \in DOMAIN a
                 PROVE  Increasing(a[i]) /\ (i < j => Below(Range(a[i]), Range(a[j])))
      BY DEF Ordered
    <2>1. Increasing(a[i])
      BY <1>2 DEF Ordered
    <2>2. ASSUME i < j PROVE Below(Range(a[i]), Range(a[j]))
      <3>1. i \in DOMAIN q /\ a[i] = q[i]
        BY <1>1, <1>2, <2>2
      <3>2. CASE j \in DOMAIN q
        BY <1>3, <2>2, <3>1, <3>2 DEF Ordered
      <3>3. CASE j = Len(q) + 1
        BY <1>1, <1>3, <3>1, <3>3 DEF Below
      <3> QED
        BY <1>2, <3>2, <3>3
    <2> QED
      BY <2>1, <2>2
  <1>5. In(a) = In(q) \cup Range(d)
    <2>1. In(a) \subseteq In(q) \cup Range(d)
      BY <1>2, <1>3 DEF In
    <2>2. In(q) \subseteq In(a)
      BY <1>3 DEF In
    <2>3. Range(d) \subseteq In(a)
      <3>1. Len(q) + 1 \in DOMAIN a
        BY <1>1
      <3> QED
        BY <1>1, <3>1 DEF In
    <2> QED
      BY <2>1, <2>2, <2>3
  <1> QED
    BY <1>1, <1>4, <1>5 DEF a

LEMMA ChunkTaken ==
    ASSUME NEW q \in Seq(Chunks), Ordered(q), q # <<>>
    PROVE  /\ Head(q) \in Chunks /\ Increasing(Head(q))
           /\ Tail(q) \in Seq(Chunks) /\ Ordered(Tail(q))
           /\ In(q) = Range(Head(q)) \cup In(Tail(q))
           /\ Below(Range(Head(q)), In(Tail(q)))
  <1> DEFINE t == Tail(q)
             h == Head(q)
  <1>1. /\ h = q[1] /\ h \in Chunks /\ t \in Seq(Chunks)
        /\ Len(q) \in Nat /\ Len(q) > 0
        /\ DOMAIN q = 1 .. Len(q) /\ DOMAIN t = 1 .. (Len(q) - 1)
        /\ \A i \in 1 .. (Len(q) - 1) : t[i] = q[i + 1]
    BY HeadAndTail
  <1> HIDE DEF h, t
  <1>2. \A i \in DOMAIN t : i + 1 \in DOMAIN q /\ 1 < i + 1 /\ t[i] = q[i + 1]
    BY <1>1
  <1>3. \A i \in DOMAIN q : i = 1 \/ (i - 1 \in DOMAIN t /\ t[i - 1] = q[i])
    <2> TAKE i \in DOMAIN q
    <2>1. CASE i # 1
      <3>1. i - 1 \in DOMAIN t /\ (i - 1) + 1 = i
        BY <1>1, <2>1
      <3> QED
        BY <1>2, <3>1
    <2> QED
      BY <2>1
  <1>4. 1 \in DOMAIN q
    BY <1>1
  <1>5. Ordered(t)
    <2> SUFFICES ASSUME NEW i \in DOMAIN t, NEW j \in DOMAIN t
                 PROVE  Increasing(t[i]) /\ (i < j => Below(Range(t[i]), Range(t[j])))
      BY DEF Ordered
    <2>1. i < j => i + 1 < j + 1
      BY <1>1
    <2> QED
      BY <1>2, <2>1 DEF Ordered
  <1>6. In(q) = Range(h) \cup In(t)
    <2>1. In(q) \subseteq Range(h) \cup In(t)
      BY <1>1, <1>3 DEF In
    <2>2. Range(h) \subseteq In(q)
      BY <1>1, <1>4 DEF In
    <2>3. In(t) \subseteq In(q)
      BY <1>2 DEF In
    <2> QED
      BY <2>1, <2>2, <2>3
  <1>7. \A i \in DOMAIN t : Below(Range(h), Range(t[i]))
    BY <1>1, <1>2, <1>4 DEF Ordered
  <1>8. Below(Range(h), In(t))
    BY <1>7 DEF Below, In
  <1>9. Increasing(h)
    BY <1>1, <1>4 DEF Ordered
  <1> QED
    BY <1>1, <1>5, <1>6, <1>8, <1>9 DEF h, t

(* What the messages of a channel carry.                                   *)
LEMMA DataOf ==
    ASSUME NEW c \in Seq(Messages)
    PROVE  /\ Data(c) \in Seq(Chunks) /\ Len(Data(c)) = Len(c)
           /\ \A i \in DOMAIN c : Data(c)[i] = c[i].d
  <1>1. \A i \in DOMAIN c : c[i].d \in Chunks
    <2>1. \A i \in DOMAIN c : c[i] \in Messages
      OBVIOUS
    <2>2. \A m \in Messages : m.d \in Chunks
      BY DEF Messages
    <2> QED
      BY <2>1, <2>2
  <1>2. DOMAIN c = 1 .. Len(c) /\ Len(c) \in Nat
    OBVIOUS
  <1>3. Data(c) = [i \in 1 .. Len(c) |-> c[i].d]
    BY <1>2 DEF Data
  <1> QED
    BY <1>1, <1>2, <1>3

LEMMA DataAppended ==
    ASSUME NEW c \in Seq(Messages), NEW m \in Messages
    PROVE  Data(Append(c, m)) = Append(Data(c), m.d)
  <1> DEFINE x == Data(Append(c, m))
             y == Append(Data(c), m.d)
  <1>1. m.d \in Chunks /\ Append(c, m) \in Seq(Messages) /\ Len(c) \in Nat
        /\ Len(Append(c, m)) = Len(c) + 1 /\ DOMAIN Append(c, m) = 1 .. (Len(c) + 1)
        /\ DOMAIN c = 1 .. Len(c)
    BY DEF Messages
  <1>2. x \in Seq(Chunks) /\ Len(x) = Len(c) + 1 /\ \A i \in 1 .. (Len(c) + 1) : x[i] = Append(c, m)[i].d
    BY <1>1, DataOf
  <1>3. /\ y \in Seq(Chunks) /\ Len(y) = Len(c) + 1
        /\ \A i \in 1 .. Len(c) : y[i] = c[i].d
        /\ y[Len(c) + 1] = m.d
    BY <1>1, DataOf
  <1>4. \A i \in 1 .. (Len(c) + 1) : x[i] = y[i]
    BY <1>1, <1>2, <1>3
  <1> HIDE DEF x, y
  <1>5. x = y
    BY <1>2, <1>3, <1>4
  <1> QED
    BY <1>5 DEF x, y

LEMMA DataTaken ==
    ASSUME NEW c \in Seq(Messages), c # <<>>
    PROVE  /\ Data(c) # <<>> /\ Head(Data(c)) = Head(c).d /\ Head(c) \in Messages
           /\ Tail(c) \in Seq(Messages) /\ Data(Tail(c)) = Tail(Data(c))
  <1> DEFINE x == Data(Tail(c))
             y == Tail(Data(c))
  <1>1. /\ Head(c) = c[1] /\ Head(c) \in Messages /\ Tail(c) \in Seq(Messages)
        /\ Len(c) \in Nat \ {0} /\ Len(Tail(c)) = Len(c) - 1
        /\ \A i \in 1 .. (Len(c) - 1) : Tail(c)[i] = c[i + 1]
        /\ DOMAIN c = 1 .. Len(c) /\ DOMAIN Tail(c) = 1 .. (Len(c) - 1)
    BY HeadAndTail
  <1>2. Data(c) \in Seq(Chunks) /\ Len(Data(c)) = Len(c) /\ \A i \in 1 .. Len(c) : Data(c)[i] = c[i].d
    BY <1>1, DataOf
  <1>3. Data(c) # <<>> /\ Head(Data(c)) = Head(c).d
    BY <1>1, <1>2
  <1>4. x \in Seq(Chunks) /\ Len(x) = Len(c) - 1 /\ \A i \in 1 .. (Len(c) - 1) : x[i] = c[i + 1].d
    <2>1. /\ x \in Seq(Chunks) /\ Len(x) = Len(Tail(c))
          /\ \A i \in DOMAIN Tail(c) : x[i] = Tail(c)[i].d
      BY <1>1, DataOf
    <2> HIDE DEF x
    <2> QED
      BY <1>1, <2>1
  <1>5. y \in Seq(Chunks) /\ Len(y) = Len(c) - 1 /\ \A i \in 1 .. (Len(c) - 1) : y[i] = c[i + 1].d
    BY <1>1, <1>2, <1>3, HeadAndTail
  <1> HIDE DEF x, y
  <1>6. x = y
    BY <1>1, <1>4, <1>5
  <1> QED
    BY <1>1, <1>3, <1>6 DEF x, y

-----------------------------------------------------------------------------
(* The line of commands: what was issued, then what is queued.             *)

LEMMA WriteJoinsLine ==
    ASSUME NEW l \in Seq(Commands), NEW w \in Nat, Line(l, w)
    PROVE  Line(Append(l, <<"write", w + 1>>), w + 1)
  <1> DEFINE e == <<"write", w + 1>>
             a == Append(l, e)
  <1>1. e \in Commands /\ e[1] = "write" /\ e[2] = w + 1
    BY DEF Commands
  <1>2. /\ a \in Seq(Commands) /\ Len(l) \in Nat
        /\ DOMAIN l = 1 .. Len(l) /\ DOMAIN a = 1 .. (Len(l) + 1)
        /\ \A i \in 1 .. Len(l) : a[i] = l[i]
        /\ a[Len(l) + 1] = e
    BY <1>1
  <1> HIDE DEF a, e
  <1>3. \A i \in DOMAIN a : (i \in DOMAIN l /\ a[i] = l[i]) \/ (i = Len(l) + 1 /\ a[i] = e)
    BY <1>2
  <1>4. \A i \in DOMAIN l : l[i][2] \in 0 .. w
    BY DEF Line, InOrder
  <1>5. \A n \in 1 .. w : \E j \in 1 .. Len(l) : a[j] = <<"write", n>>
    BY <1>2 DEF Line
  <1>6. \A n \in 1 .. (w + 1) : \E j \in 1 .. (Len(l) + 1) : a[j] = <<"write", n>>
    <2> TAKE n \in 1 .. (w + 1)
    <2>1. CASE n = w + 1
      <3>1. Len(l) + 1 \in 1 .. (Len(l) + 1)
        BY <1>2
      <3> QED
        BY <1>2, <2>1, <3>1 DEF e
    <2>2. CASE n # w + 1
      <3>1. n \in 1 .. w
        BY <2>2
      <3>2. PICK j \in 1 .. Len(l) : a[j] = <<"write", n>>
        BY <1>5, <3>1
      <3>3. j \in 1 .. (Len(l) + 1)
        BY <1>2
      <3> QED
        BY <3>2, <3>3
    <2> QED
      BY <2>1, <2>2
  <1>7. ASSUME NEW i \in DOMAIN a
        PROVE  /\ a[i][2] \in 0 .. (w + 1)
               /\ a[i][1] = "write" => a[i][2] > 0
               /\ \A n \in 1 .. a[i][2] : \E j \in 1 .. i : a[j] = <<"write", n>>
               /\ \A j \in DOMAIN a :
                     a[i][1] = "write" /\ a[j][1] = "write" /\ i < j => a[i][2] < a[j][2]
    <2>1. CASE i \in DOMAIN l
      <3>1. /\ l[i][2] \in 0 .. w
            /\ l[i][1] = "write" => l[i][2] > 0
            /\ \A n \in 1 .. l[i][2] : \E j \in 1 .. i : l[j] = <<"write", n>>
        BY <2>1 DEF Line, InOrder
      <3>2. \A j \in 1 .. i : a[j] = l[j]
        BY <1>2, <2>1
      <3>3. a[i] = l[i]
        BY <1>2, <2>1
      <3>4. a[i][2] \in 0 .. (w + 1)
        BY <3>1, <3>3
      <3>5. \A n \in 1 .. a[i][2] : \E j \in 1 .. i : a[j] = <<"write", n>>
        BY <3>1, <3>2, <3>3
      <3>6. ASSUME NEW j \in DOMAIN a, a[i][1] = "write", a[j][1] = "write", i < j
            PROVE  a[i][2] < a[j][2]
        <4>1. CASE j \in DOMAIN l
          BY <1>2, <2>1, <3>6, <4>1 DEF Line, InOrder
        <4>2. CASE j = Len(l) + 1
          BY <1>1, <1>2, <3>1, <3>3, <4>2
        <4> QED
          BY <1>3, <4>1, <4>2
      <3> QED
        BY <3>1, <3>3, <3>4, <3>5, <3>6
    <2>2. CASE i = Len(l) + 1
      <3>1. a[i][2] = w + 1
        BY <1>1, <1>2, <2>2
      <3>2. \A j \in DOMAIN a : ~(i < j)
        BY <1>2, <2>2
      <3>3. a[i][2] \in 0 .. (w + 1) /\ a[i][2] > 0
        BY <3>1
      <3>4. \A n \in 1 .. a[i][2] : \E j \in 1 .. i : a[j] = <<"write", n>>
        BY ONLY <1>6, <2>2, <3>1
      <3> QED
        BY <3>2, <3>3, <3>4
    <2> QED
      BY <1>3, <2>1, <2>2
  <1>8. InOrder(a, w + 1)
    BY <1>7 DEF InOrder
  <1>9. \A n \in 1 .. (w + 1) : \E i \in DOMAIN a : a[i] = <<"write", n>>
    BY <1>2, <1>6
  <1> QED
    BY <1>8, <1>9 DEF Line, a, e

LEMMA EndJoinsLine ==
    ASSUME NEW l \in Seq(Commands), NEW w \in Nat, Line(l, w), NEW c \in {"eof", "close"}
    PROVE  Line(Append(l, <<c, w>>), w)
  <1> DEFINE e == <<c, w>>
             a == Append(l, e)
  <1>1. e \in Commands /\ e[1] # "write" /\ e[2] = w
    BY DEF Commands
  <1>2. /\ a \in Seq(Commands) /\ Len(l) \in Nat
        /\ DOMAIN l = 1 .. Len(l) /\ DOMAIN a = 1 .. (Len(l) + 1)
        /\ \A i \in 1 .. Len(l) : a[i] = l[i]
        /\ a[Len(l) + 1] = e
    BY <1>1
  <1> HIDE DEF a, e
  <1>3. \A i \in DOMAIN a : (i \in DOMAIN l /\ a[i] = l[i]) \/ (i = Len(l) + 1 /\ a[i] = e)
    BY <1>2
  <1>4. \A i \in DOMAIN l : i \in 1 .. (Len(l) + 1) /\ i \in DOMAIN a /\ a[i] = l[i]
    BY <1>2
  <1>5. \A n \in 1 .. w : \E j \in 1 .. (Len(l) + 1) : a[j] = <<"write", n>>
    BY <1>4 DEF Line
  <1>6. ASSUME NEW i \in DOMAIN a
        PROVE  /\ a[i][2] \in 0 .. w
               /\ a[i][1] = "write" => a[i][2] > 0
               /\ \A n \in 1 .. a[i][2] : \E j \in 1 .. i : a[j] = <<"write", n>>
               /\ \A j \in DOMAIN a :
                     a[i][1] = "write" /\ a[j][1] = "write" /\ i < j => a[i][2] < a[j][2]
    <2>1. CASE i \in DOMAIN l
      <3>1. /\ l[i][2] \in 0 .. w
            /\ l[i][1] = "write" => l[i][2] > 0
            /\ \A n \in 1 .. l[i][2] : \E j \in 1 .. i : l[j] = <<"write", n>>
        BY <2>1 DEF Line, InOrder
      <3>2. \A j \in 1 .. i : a[j] = l[j]
        BY <1>2, <2>1
      <3>3. a[i] = l[i]
        BY <1>2, <2>1
      <3>4. \A n \in 1 .. a[i][2] : \E j \in 1 .. i : a[j] = <<"write", n>>
        BY <3>1, <3>2, <3>3
      <3>5. ASSUME NEW j \in DOMAIN a, a[i][1] = "write", a[j][1] = "write", i < j
            PROVE  a[i][2] < a[j][2]
        <4>1. j \in DOMAIN l /\ a[j] = l[j]
          BY <1>1, <1>3, <3>5
        <4> QED
          BY <2>1, <3>3, <3>5, <4>1 DEF Line, InOrder
      <3> QED
        BY <3>1, <3>3, <3>4, <3>5
    <2>2. CASE i = Len(l) + 1
      <3>1. a[i][2] = w /\ a[i][1] # "write"
        BY <1>1, <1>2, <2>2
      <3>2. a[i][2] \in 0 .. w
        BY <3>1
      <3>3. \A n \in 1 .. a[i][2] : \E j \in 1 .. i : a[j] = <<"write", n>>
        BY ONLY <1>5, <2>2, <3>1
      <3> QED
        BY <3>1, <3>2, <3>3
    <2> QED
      BY <1>3, <2>1, <2>2
  <1>7. InOrder(a, w)
    BY <1>6 DEF InOrder
  <1>8. \A n \in 1 .. w : \E i \in DOMAIN a : a[i] = <<"write", n>>
    BY <1>2, <1>5
  <1> QED
    BY <1>7, <1>8 DEF Line, a, e

LEMMA LineQueued ==
    ASSUME NEW o \in Seq(Commands), NEW q \in Seq(Commands), NEW c \in Commands
    PROVE  o \o Append(q, c) = Append(o \o q, c)
  OBVIOUS

LEMMA LineIssued ==
    ASSUME NEW o \in Seq(Commands), NEW c \in Commands
    PROVE  Append(o, c) \o <<>> = Append(o \o <<>>, c)
  OBVIOUS

LEMMA LineMoved ==
    ASSUME NEW o \in Seq(Commands), NEW q \in Seq(Commands), q # <<>>
    PROVE  Append(o, Head(q)) \o Tail(q) = o \o q
  OBVIOUS

LEMMA LineFront ==
    ASSUME NEW o \in Seq(Commands), NEW q \in Seq(Commands), NEW w, InOrder(o \o q, w)
    PROVE  InOrder(o, w)
  <1>1. DOMAIN o \subseteq DOMAIN (o \o q) /\ \A i \in DOMAIN o : (o \o q)[i] = o[i]
    OBVIOUS
  <1>2. \A i \in DOMAIN o : \A j \in 1 .. i : j \in DOMAIN o
    OBVIOUS
  <1> QED
    BY <1>1, <1>2 DEF InOrder

-----------------------------------------------------------------------------
(* Types.                                                                  *)

LEMMA PiecesType ==
    ASSUME NEW s \in Chunks, NEW n \in Nat
    PROVE  First(s, n) \in Chunks /\ Rest(s, n) \in Chunks
  <1> USE DEF Chunks
  <1>1. Min2(n, Len(s)) \in Nat /\ Min2(n, Len(s)) <= Len(s) /\ Len(s) \in Nat
    BY DEF Min2
  <1>2. \A m \in Nat : m <= Len(s) => SubSeq(s, 1, m) \in Seq(Nat)
    BY <1>1
  <1>3. First(s, n) \in Seq(Nat)
    BY <1>1, <1>2 DEF First
  <1>4. Rest(s, n) \in Seq(Nat)
    BY <1>1 DEF Rest
  <1> QED
    BY <1>3, <1>4

LEMMA NewBytes ==
    ASSUME NEW a \in Nat, NEW n \in Nat
    PROVE  /\ Range2(a, a + n) \in Chunks /\ Increasing(Range2(a, a + n))
           /\ Range(Range2(a, a + n)) = (a + 1) .. (a + n)
  <1> DEFINE s == Range2(a, a + n)
  <1>1. s = [i \in 1 .. n |-> a + i]
    BY DEF Range2
  <1>2. s \in Seq(Nat) /\ DOMAIN s = 1 .. n /\ \A i \in 1 .. n : s[i] = a + i
    BY <1>1
  <1> HIDE DEF s
  <1>3. Increasing(s)
    BY <1>2 DEF Increasing
  <1>4. ASSUME NEW x \in (a + 1) .. (a + n) PROVE x \in Range(s)
    <2>1. x - a \in DOMAIN s /\ s[x - a] = x
      BY <1>2
    <2> QED
      BY <2>1 DEF Range
  <1>5. ASSUME NEW x \in Range(s) PROVE x \in (a + 1) .. (a + n)
    BY <1>2 DEF Range
  <1>6. Range(s) = (a + 1) .. (a + n)
    BY <1>4, <1>5
  <1> QED
    BY <1>2, <1>3, <1>6 DEF s, Chunks

LEMMA MessageType ==
    ASSUME NEW t \in {"data", "extended", "eof", "close"}, NEW d \in Chunks
    PROVE  Msg(t, d) \in Messages /\ Msg(t, d).t = t /\ Msg(t, d).d = d
  BY DEF Msg, Messages

LEMMA MessageParts ==
    ASSUME NEW m \in Messages
    PROVE  m.t \in {"data", "extended", "eof", "close"} /\ m.d \in Chunks
  BY DEF Messages

LEMMA CommandType ==
    ASSUME NEW n \in Nat
    PROVE  \A c \in {"write", "eof", "close"} :
              <<c, n>> \in Commands /\ <<c, n>>[1] = c /\ <<c, n>>[2] = n
  BY DEF Commands

LEMMA HandleBuffers ==
    ASSUME NEW h \in [stdout : Chunks, stderr : Chunks], NEW d \in Chunks
    PROVE  /\ h.stdout \in Chunks /\ h.stderr \in Chunks
           /\ [h EXCEPT !["stdout"] = d] \in [stdout : Chunks, stderr : Chunks]
           /\ [h EXCEPT !["stdout"] = d].stdout = d
           /\ [h EXCEPT !["stdout"] = d].stderr = h.stderr
           /\ [h EXCEPT !["stderr"] = d] \in [stdout : Chunks, stderr : Chunks]
           /\ [h EXCEPT !["stderr"] = d].stderr = d
           /\ [h EXCEPT !["stderr"] = d].stdout = h.stdout
  <1>1. h = [stdout |-> h.stdout, stderr |-> h.stderr]
    OBVIOUS
  <1> QED
    BY <1>1

-----------------------------------------------------------------------------
(* The initial states.                                                     *)

LEMMA BridgeInitInv == BridgeInit => BridgeInv
  <1> SUFFICES ASSUME BridgeInit PROVE BridgeInv
    OBVIOUS
  <1> USE DEF BridgeInit
  <1>1. Types
    <2>1. chan \in Seq(Messages) /\ rq \in Seq(Chunks) /\ cq \in Seq(Commands) /\ out \in Seq(Commands)
      OBVIOUS
    <2>2. rbuf \in Chunks /\ got \in Chunks /\ lost \in Chunks
      BY Nothing
    <2>3. hbuf \in [stdout : Chunks, stderr : Chunks]
      BY Nothing
    <2>4. /\ user \in {"handle", "stream", "gone"}
          /\ task \in {"none", "select", "drain", "done", "broken"}
      OBVIOUS
    <2> QED
      BY <2>1, <2>2, <2>3, <2>4 DEF Types
  <1>2. Roles
    BY DEF Roles
  <1>3. ChannelOrder /\ EndsAtTheEnd /\ EndMeansAll
    BY DEF ChannelOrder, EndsAtTheEnd, EndMeansAll
  <1>4. Levels
    <2>1. Data(chan) = <<>>
      BY DEF Data
    <2>2. Range(got) = {} /\ InHandle = {} /\ InBuf = {} /\ InQueue = {} /\ InChannel = {}
      BY <2>1, Nothing DEF InHandle, InBuf, InQueue, InChannel
    <2>3. Wanted = {}
      BY DEF Wanted
    <2> QED
      BY <2>1, <2>2, <2>3, Nothing DEF Levels, Below
  <1>5. LineInOrder
    <2>1. out \o cq = <<>> /\ writes = 0
      OBVIOUS
    <2>2. InOrder(<<>>, 0)
      BY DEF InOrder
    <2> QED
      BY <2>1, <2>2 DEF LineInOrder, Line
  <1>6. LostWasSent
    BY Nothing DEF LostWasSent
  <1>7. NoBlankToRead
    BY DEF NoBlankToRead
  <1> QED
    BY <1>1, <1>2, <1>3, <1>4, <1>5, <1>6, <1>7 DEF BridgeInv

-----------------------------------------------------------------------------
(* Steps and what they leave alone.                                        *)

streamVars == <<got, hbuf, rbuf, rq, chan, bytes, blanks, lost>>

LEMMA LevelsKept ==
    ASSUME Levels, UNCHANGED streamVars, user' \in {user, "gone"}
    PROVE  Levels'
  BY DEF Levels, streamVars, InHandle, InBuf, InQueue, InChannel, Wanted

LEMMA EndKept ==
    ASSUME EndMeansAll, UNCHANGED <<ended, peer, got, bytes, blanks, lost>>
    PROVE  EndMeansAll'
  BY DEF EndMeansAll, Wanted

Core == Types /\ Roles /\ ChannelOrder /\ EndsAtTheEnd /\ Levels /\ EndMeansAll

(* What a ShellHandle::read can do, given that one buffer is empty.        *)
Handed(d, n) ==
    /\ got' = got \o First(d, n) /\ ended' = (d = <<>>) /\ UNCHANGED closed
    /\ hbuf' \in [stdout : Chunks, stderr : Chunks]
    /\ \/ hbuf'.stdout = Rest(d, n) /\ hbuf'.stderr = <<>>
       \/ hbuf'.stderr = Rest(d, n) /\ hbuf'.stdout = <<>>
    /\ \/ /\ UNCHANGED chan /\ d # <<>>
          /\ \/ hbuf.stdout = d /\ hbuf.stderr = <<>>
             \/ hbuf.stderr = d /\ hbuf.stdout = <<>>
       \/ /\ hbuf.stdout = <<>> /\ hbuf.stderr = <<>>
          /\ ~closed /\ chan # <<>> /\ chan' = Tail(chan)
          /\ Head(chan).d = d /\ Head(chan).t \in {"data", "extended"}
NothingHanded ==
    /\ hbuf.stdout = <<>> /\ hbuf.stderr = <<>>
    /\ UNCHANGED <<got, hbuf>>
    /\ \/ closed /\ ended' = TRUE /\ UNCHANGED <<closed, chan>>
       \/ /\ ~closed /\ chan # <<>> /\ chan' = Tail(chan)
          /\ \/ Head(chan).t = "close" /\ closed' = TRUE /\ ended' = TRUE
             \/ Head(chan).t = "eof" /\ UNCHANGED <<closed, ended>>

LEMMA EmptyConcat ==
    ASSUME NEW s \in Chunks, NEW t \in Chunks
    PROVE  /\ <<>> \o s = s
           /\ s \o t = <<>> <=> s = <<>> /\ t = <<>>
  BY DEF Chunks

LEMMA HandleReads ==
    ASSUME Types, Roles, NEW n \in 1 .. 2, HandleRead(n)
    PROVE  (\E d \in Chunks : Handed(d, n)) \/ NothingHanded
  <1> USE DEF HandleRead
  <1>0. /\ hbuf.stdout \in Chunks /\ hbuf.stderr \in Chunks
        /\ hbuf \in [stdout : Chunks, stderr : Chunks] /\ chan \in Seq(Messages)
        /\ hbuf.stdout = <<>> \/ hbuf.stderr = <<>>
    BY DEF Types, Roles
  <1>1. CASE hbuf.stdout \o hbuf.stderr # <<>>
    <2>1. CASE hbuf.stdout # <<>>
      <3>1. hbuf.stderr = <<>> /\ Rest(hbuf.stdout, n) \in Chunks
        BY <1>0, <2>1, PiecesType
      <3>2. hbuf' = [hbuf EXCEPT !["stdout"] = Rest(hbuf.stdout, n)]
        BY <1>0, <1>1, <2>1
      <3>3. /\ hbuf' \in [stdout : Chunks, stderr : Chunks]
            /\ hbuf'.stdout = Rest(hbuf.stdout, n) /\ hbuf'.stderr = hbuf.stderr
        BY <1>0, <3>1, <3>2, HandleBuffers
      <3>4. got' = got \o First(hbuf.stdout, n) /\ ended' = FALSE /\ UNCHANGED <<closed, chan>>
        BY <1>1, <2>1 DEF Give
      <3>5. Handed(hbuf.stdout, n)
        BY <2>1, <3>1, <3>3, <3>4 DEF Handed
      <3> QED
        BY <1>0, <3>5
    <2>2. CASE hbuf.stdout = <<>>
      <3>0. hbuf.stderr # <<>>
        BY <1>0, <1>1, <2>2, EmptyConcat
      <3>1. Rest(hbuf.stderr, n) \in Chunks
        BY <1>0, PiecesType
      <3>2. hbuf' = [hbuf EXCEPT !["stderr"] = Rest(hbuf.stderr, n)]
        BY <1>0, <1>1, <2>2
      <3>3. /\ hbuf' \in [stdout : Chunks, stderr : Chunks]
            /\ hbuf'.stderr = Rest(hbuf.stderr, n) /\ hbuf'.stdout = hbuf.stdout
        BY <1>0, <3>1, <3>2, HandleBuffers
      <3>4. got' = got \o First(hbuf.stderr, n) /\ ended' = FALSE /\ UNCHANGED <<closed, chan>>
        BY <1>1, <2>2, <3>0 DEF Give
      <3>5. Handed(hbuf.stderr, n)
        BY <2>2, <3>0, <3>3, <3>4 DEF Handed
      <3> QED
        BY <1>0, <3>5
    <2> QED
      BY <2>1, <2>2
  <1>2. CASE hbuf.stdout \o hbuf.stderr = <<>>
    <2>0. hbuf.stdout = <<>> /\ hbuf.stderr = <<>>
      BY <1>0, <1>2, EmptyConcat
    <2>1. CASE closed /\ GiveEnd /\ UNCHANGED <<hbuf, closed, chan>>
      BY <2>0, <2>1 DEF NothingHanded, GiveEnd
    <2>2. CASE ~closed /\ chan # <<>> /\ chan' = Tail(chan)
      <3> DEFINE m == Head(chan)
      <3>0. m.d \in Chunks
        BY <1>0, <2>2, HeadAndTail, MessageParts
      <3>1. CASE m.t = "close" /\ closed' = TRUE /\ GiveEnd /\ UNCHANGED hbuf
        BY <2>0, <2>2, <3>1 DEF NothingHanded, GiveEnd
      <3>2. CASE m.t = "eof" /\ UNCHANGED <<hbuf, closed, got, ended>>
        BY <2>0, <2>2, <3>2 DEF NothingHanded
      <3>3. Rest(m.d, n) \in Chunks /\ <<>> \o Rest(m.d, n) = Rest(m.d, n)
        BY <3>0, PiecesType, EmptyConcat
      <3>4. CASE m.t = "data" /\ HandleData("stdout", m.d, n)
        <4>1. hbuf' = [hbuf EXCEPT !["stdout"] = <<>> \o Rest(m.d, n)]
          BY <1>0, <2>0, <3>4 DEF HandleData
        <4>2. /\ hbuf' \in [stdout : Chunks, stderr : Chunks]
              /\ hbuf'.stdout = Rest(m.d, n) /\ hbuf'.stderr = hbuf.stderr
          BY <1>0, <3>3, <4>1, HandleBuffers
        <4>3. got' = got \o First(m.d, n) /\ ended' = (m.d = <<>>) /\ UNCHANGED closed
          BY <3>4 DEF HandleData, Give
        <4>4. Handed(m.d, n)
          BY <2>0, <2>2, <3>4, <4>2, <4>3 DEF Handed
        <4> QED
          BY <3>0, <4>4
      <3>5. CASE m.t = "extended" /\ HandleData("stderr", m.d, n)
        <4>1. hbuf' = [hbuf EXCEPT !["stderr"] = <<>> \o Rest(m.d, n)]
          BY <1>0, <2>0, <3>5 DEF HandleData
        <4>2. /\ hbuf' \in [stdout : Chunks, stderr : Chunks]
              /\ hbuf'.stderr = Rest(m.d, n) /\ hbuf'.stdout = hbuf.stdout
          BY <1>0, <3>3, <4>1, HandleBuffers
        <4>3. got' = got \o First(m.d, n) /\ ended' = (m.d = <<>>) /\ UNCHANGED closed
          BY <3>5 DEF HandleData, Give
        <4>4. Handed(m.d, n)
          BY <2>0, <2>2, <3>5, <4>2, <4>3 DEF Handed
        <4> QED
          BY <3>0, <4>4
      <3> QED
        BY <1>2, <2>2, <3>1, <3>2, <3>4, <3>5
    <2> QED
      BY <1>2, <2>1, <2>2
  <1> QED
    BY <1>1, <1>2

(* Taking a message leaves a channel whose close is still the last.        *)
LEMMA OrderTaken ==
    ASSUME Types, ChannelOrder, chan # <<>>, chan' = Tail(chan), UNCHANGED <<peer, kind>>
    PROVE  ChannelOrder' /\ chan' \in Seq(Messages)
  <1>1. /\ chan' \in Seq(Messages) /\ Len(chan) \in Nat \ {0} /\ Len(chan') = Len(chan) - 1
        /\ DOMAIN chan = 1 .. Len(chan) /\ DOMAIN chan' = 1 .. (Len(chan) - 1)
        /\ \A i \in 1 .. (Len(chan) - 1) : chan'[i] = chan[i + 1]
    BY HeadAndTail DEF Types
  <1>2. \A i \in DOMAIN chan' : i + 1 \in DOMAIN chan /\ chan'[i] = chan[i + 1]
                                /\ (i + 1 = Len(chan) => i = Len(chan'))
    BY <1>1
  <1> QED
    BY <1>1, <1>2 DEF ChannelOrder

(* A message in front of the close is followed by what the tail holds.     *)
LEMMA ChannelTaken ==
    ASSUME Types, ChannelOrder, Ordered(Data(chan)), chan # <<>>, chan' = Tail(chan)
    PROVE  /\ Head(chan) \in Messages /\ Head(chan).d \in Chunks /\ Increasing(Head(chan).d)
           /\ Ordered(Data(chan))'
           /\ InChannel = Range(Head(chan).d) \cup InChannel'
           /\ Below(Range(Head(chan).d), InChannel')
           /\ Head(chan).t \in {"eof", "close"} => Range(Head(chan).d) = {}
           /\ Head(chan).t = "close" => chan' = <<>> /\ peer = "closed"
           /\ Head(chan).t = "extended" => kind = "shell"
  <1>1. chan \in Seq(Messages)
    BY DEF Types
  <1>2. /\ Data(chan) # <<>> /\ Head(Data(chan)) = Head(chan).d /\ Head(chan) \in Messages
        /\ Data(Tail(chan)) = Tail(Data(chan))
    BY <1>1, DataTaken
  <1>3. Data(chan) \in Seq(Chunks)
    BY <1>1, DataOf
  <1>4. Data(chan)' = Tail(Data(chan))
    BY <1>2
  <1>5. 1 \in DOMAIN chan /\ Head(chan) = chan[1]
    BY <1>1, HeadAndTail
  <1>6. chan[1].t = "close" => Len(chan) = 1
    BY <1>5 DEF ChannelOrder
  <1>7. Head(chan).t = "close" => chan' = <<>> /\ peer = "closed"
    BY <1>1, <1>5, <1>6 DEF ChannelOrder
  <1>8. Head(chan).t = "extended" => kind = "shell"
    BY <1>5 DEF ChannelOrder
  <1>9. Head(chan).t \in {"eof", "close"} => Range(Head(chan).d) = {}
    BY <1>5, Nothing DEF ChannelOrder
  <1>10. /\ Head(Data(chan)) \in Chunks /\ Increasing(Head(Data(chan)))
         /\ Ordered(Tail(Data(chan)))
         /\ In(Data(chan)) = Range(Head(Data(chan))) \cup In(Tail(Data(chan)))
         /\ Below(Range(Head(Data(chan))), In(Tail(Data(chan))))
    BY <1>2, <1>3, ChunkTaken
  <1>11. InChannel' = In(Tail(Data(chan)))
    BY <1>4 DEF InChannel
  <1> QED
    BY <1>2, <1>4, <1>7, <1>8, <1>9, <1>10, <1>11 DEF InChannel

(* Of a handle nothing is in the stream's buffers.                         *)
LEMMA HandleHolds ==
    ASSUME Roles, user = "handle"
    PROVE  InBuf = {} /\ InQueue = {} /\ Range(lost) = {}
  BY Nothing DEF Roles, InBuf, InQueue

LEMMA StepHandleRead ==
    ASSUME BridgeInv, NEW n \in 1 .. 2, HandleRead(n)
    PROVE  Core'
  <1>1. /\ user = "handle" /\ ~ended
        /\ UNCHANGED <<kind, user, task, peer, bytes, blanks, rbuf, rq, cq, writes, eofSent, out, lost>>
    BY DEF HandleRead, Reading
  <1>2. Types /\ Roles /\ ChannelOrder /\ EndsAtTheEnd /\ Levels /\ EndMeansAll
    BY DEF BridgeInv
  <1>3. /\ InBuf = {} /\ InQueue = {} /\ InBuf' = {} /\ InQueue' = {} /\ Wanted' = Wanted
    BY <1>1, <1>2, HandleHolds DEF InBuf, InQueue, Wanted
  <1>4. /\ Increasing(got) /\ Increasing(rbuf) /\ Ordered(rq) /\ Ordered(Data(chan))
        /\ Increasing(hbuf.stdout) /\ Increasing(hbuf.stderr)
        /\ Below(Range(got), InHandle \cup InChannel) /\ Below(InHandle, InChannel)
        /\ Range(got) \cup InHandle \cup InChannel = Wanted
    BY <1>1, <1>2, <1>3 DEF Levels
  <1>5. (Increasing(rbuf) /\ Ordered(rq))'
    BY <1>1, <1>4
  <1>6. ASSUME NEW d \in Chunks, Handed(d, n) PROVE Core'
    <2>1. PICK X : /\ Increasing(d) /\ Below(Range(got), Range(d))
                   /\ Ordered(Data(chan))' /\ InChannel' = X
                   /\ Below(Range(d), X) /\ Below(Range(got), X)
                   /\ Range(got) \cup Range(d) \cup X = Wanted
      <3>1. CASE UNCHANGED chan
        <4>1. InHandle = Range(d) /\ Increasing(d)
          BY <1>4, <1>6, <3>1, Nothing DEF Handed, InHandle
        <4>2. InChannel' = InChannel /\ Data(chan)' = Data(chan)
          BY <3>1 DEF InChannel
        <4> QED
          BY <1>4, <4>1, <4>2 DEF Below
      <3>2. CASE /\ hbuf.stdout = <<>> /\ hbuf.stderr = <<>> /\ chan # <<>>
                 /\ chan' = Tail(chan) /\ Head(chan).d = d
        <4>1. InHandle = {}
          BY <3>2, Nothing DEF InHandle
        <4>2. /\ Increasing(d) /\ Ordered(Data(chan))'
              /\ InChannel = Range(d) \cup InChannel' /\ Below(Range(d), InChannel')
          BY <1>2, <1>4, <3>2, ChannelTaken
        <4> QED
          BY <1>4, <4>1, <4>2 DEF Below
      <3> QED
        BY <1>6, <3>1, <3>2 DEF Handed
    <2>2. /\ First(d, n) \in Chunks /\ Rest(d, n) \in Chunks
          /\ Increasing(First(d, n)) /\ Increasing(Rest(d, n))
          /\ Range(First(d, n)) \cup Range(Rest(d, n)) = Range(d)
          /\ Below(Range(First(d, n)), Range(Rest(d, n)))
      BY <2>1, SplitAt
    <2>3. Below(Range(got), Range(First(d, n)))
      BY <2>1, <2>2 DEF Below
    <2>4. got' = got \o First(d, n) /\ got \in Chunks
      BY <1>2, <1>6 DEF Handed, Types
    <2>5. /\ got' \in Chunks /\ Increasing(got')
          /\ Range(got') = Range(got) \cup Range(First(d, n))
      BY <1>4, <2>2, <2>3, <2>4, Joined
    <2>6. /\ InHandle' = Range(Rest(d, n)) /\ Increasing(hbuf.stdout)' /\ Increasing(hbuf.stderr)'
      BY <1>6, <2>2, Nothing DEF Handed, InHandle
    <2>7. Levels'
      <3>1. Below(Range(got'), InHandle' \cup InChannel')
        BY <2>1, <2>2, <2>5, <2>6 DEF Below
      <3>2. Below(InHandle', InChannel')
        BY <2>1, <2>2, <2>6 DEF Below
      <3>3. Range(got') \cup InHandle' \cup InChannel' = Wanted
        BY <2>1, <2>2, <2>5, <2>6
      <3> QED
        BY <1>3, <1>5, <2>1, <2>5, <2>6, <3>1, <3>2, <3>3 DEF Levels, Below
    <2>8. ChannelOrder' /\ chan' \in Seq(Messages)
      <3>1. CASE UNCHANGED chan
        BY <1>1, <1>2, <3>1 DEF ChannelOrder, Types
      <3>2. CASE chan # <<>> /\ chan' = Tail(chan)
        BY <1>1, <1>2, <3>2, OrderTaken
      <3> QED
        BY <1>6, <3>1, <3>2 DEF Handed
    <2>9. EndsAtTheEnd'
      BY <1>1, <1>2, <1>6 DEF Handed, EndsAtTheEnd
    <2>10. EndMeansAll'
      <3> SUFFICES ASSUME blanks = 0 PROVE d # <<>>
        BY <1>1, <1>6 DEF Handed, EndMeansAll
      <3>1. CASE chan # <<>> /\ Head(chan).d = d /\ Head(chan).t \in {"data", "extended"}
        <4>1. 1 \in DOMAIN chan /\ Head(chan) = chan[1]
          BY <1>2, <3>1, HeadAndTail DEF Types
        <4> QED
          BY <3>1, <4>1 DEF BridgeInv, NoBlankToRead
      <3> QED
        BY <1>6, <3>1 DEF Handed
    <2>11. Types'
      BY <1>1, <1>2, <1>6, <2>5, <2>8 DEF Handed, Types
    <2>12. Roles'
      BY <1>1, <1>2, <1>6 DEF Handed, Roles
    <2> QED
      BY <2>7, <2>8, <2>9, <2>10, <2>11, <2>12 DEF Core
  <1>7. ASSUME NothingHanded PROVE Core'
    <2>1. InHandle = {} /\ InHandle' = {} /\ got' = got /\ hbuf' = hbuf
      BY <1>7, Nothing DEF NothingHanded, InHandle
    <2>2. /\ Ordered(Data(chan))' /\ InChannel' = InChannel
          /\ ended' => chan' = <<>> /\ peer = "closed"
          /\ closed' => chan' = <<>> /\ peer = "closed"
          /\ ChannelOrder' /\ chan' \in Seq(Messages)
      <3>1. CASE closed /\ UNCHANGED <<closed, chan>>
        BY <1>1, <1>2, <1>4, <3>1 DEF EndsAtTheEnd, InChannel, ChannelOrder, Types
      <3>2. CASE /\ ~closed /\ chan # <<>> /\ chan' = Tail(chan)
                 /\ Head(chan).t = "close" /\ closed' = TRUE /\ ended' = TRUE
        BY <1>1, <1>2, <1>4, <3>2, ChannelTaken, OrderTaken
      <3>3. CASE /\ ~closed /\ chan # <<>> /\ chan' = Tail(chan)
                 /\ Head(chan).t = "eof" /\ UNCHANGED <<closed, ended>>
        BY <1>1, <1>2, <1>4, <3>3, ChannelTaken, OrderTaken
      <3> QED
        BY <1>7, <3>1, <3>2, <3>3 DEF NothingHanded
    <2>3. Levels'
      BY <1>3, <1>4, <1>5, <2>1, <2>2 DEF Levels, Below
    <2>4. EndsAtTheEnd'
      BY <1>1, <2>2 DEF EndsAtTheEnd
    <2>5. EndMeansAll'
      <3> SUFFICES ASSUME ended'
                   PROVE  (peer = "closed" /\ Increasing(got) /\ Range(got) = Wanted)'
        BY DEF EndMeansAll
      <3>1. chan' = <<>> /\ peer = "closed"
        BY <2>2
      <3>2. InChannel' = {}
        <4>1. Data(<<>>) = <<>>
          BY DEF Data
        <4> QED
          BY <3>1, <4>1, Nothing DEF InChannel
      <3> QED
        BY <1>1, <1>3, <1>4, <2>1, <2>2, <3>1, <3>2
    <2>6. Types'
      BY <1>1, <1>2, <1>7, <2>1, <2>2 DEF NothingHanded, Types
    <2>7. Roles'
      BY <1>1, <1>2, <2>1 DEF Roles
    <2> QED
      BY <2>2, <2>3, <2>4, <2>5, <2>6, <2>7 DEF Core
  <1> QED
    BY <1>2, <1>6, <1>7, HandleReads

(* Of a stream nothing is in the handle's buffers.                         *)
LEMMA StreamHolds ==
    ASSUME Roles, user = "stream"
    PROVE  InHandle = {}
  BY Nothing DEF Roles, InHandle

LEMMA StepPollRead ==
    ASSUME BridgeInv, NEW n \in 1 .. 2, PollRead(n)
    PROVE  Core'
  <1>1. /\ user = "stream" /\ ~ended
        /\ UNCHANGED <<kind, user, task, chan, peer, bytes, blanks, hbuf, cq, writes, eofSent, out, lost>>
    BY DEF PollRead, Reading
  <1>2. Types /\ Roles /\ ChannelOrder /\ EndsAtTheEnd /\ Levels /\ EndMeansAll
    BY DEF BridgeInv
  <1>3. InHandle = {} /\ InHandle' = {} /\ Wanted' = Wanted /\ InChannel' = InChannel
    BY <1>1, <1>2, StreamHolds DEF InHandle, Wanted, InChannel
  <1>4. /\ Increasing(got) /\ Increasing(rbuf) /\ Ordered(rq) /\ Ordered(Data(chan))
        /\ Increasing(hbuf.stdout) /\ Increasing(hbuf.stderr)
        /\ Below(Range(got), InBuf \cup InQueue \cup InChannel)
        /\ Below(InBuf, InQueue \cup InChannel) /\ Below(InQueue, InChannel)
        /\ Range(got) \cup InBuf \cup InQueue \cup InChannel = Wanted
    BY <1>1, <1>2, <1>3 DEF Levels
  <1>5. (Ordered(Data(chan)) /\ Increasing(hbuf.stdout) /\ Increasing(hbuf.stderr))'
    BY <1>1, <1>4
  <1>6. ChannelOrder' /\ Roles'
    BY <1>1, <1>2 DEF ChannelOrder, Roles
  <1>7. EndsAtTheEnd'
    BY <1>1, <1>2 DEF EndsAtTheEnd
  <1>8. ASSUME NEW d \in Chunks, Increasing(d), Give(d, n), rbuf' = Rest(d, n), UNCHANGED closed,
               blanks = 0 => d # <<>>,
               rq' \in Seq(Chunks), Ordered(rq'),
               Below(Range(got), Range(d)), Below(Range(got), InQueue'),
               Below(Range(d), InQueue' \cup InChannel), Below(InQueue', InChannel),
               Range(got) \cup Range(d) \cup InQueue' \cup InChannel = Wanted
        PROVE  Core'
    <2>1. /\ First(d, n) \in Chunks /\ Rest(d, n) \in Chunks
          /\ Increasing(First(d, n)) /\ Increasing(Rest(d, n))
          /\ Range(First(d, n)) \cup Range(Rest(d, n)) = Range(d)
          /\ Below(Range(First(d, n)), Range(Rest(d, n)))
      BY <1>8, SplitAt
    <2>2. Below(Range(got), Range(First(d, n)))
      BY <1>8, <2>1 DEF Below
    <2>3. got' = got \o First(d, n) /\ got \in Chunks /\ ended' = (d = <<>>)
      BY <1>2, <1>8 DEF Give, Types
    <2>4. /\ got' \in Chunks /\ Increasing(got')
          /\ Range(got') = Range(got) \cup Range(First(d, n))
      BY <1>4, <2>1, <2>2, <2>3, Joined
    <2>5. InBuf' = Range(Rest(d, n)) /\ Increasing(rbuf')
      BY <1>8, <2>1 DEF InBuf
    <2>6. Below(Range(got'), InBuf' \cup InQueue' \cup InChannel)
      BY <1>4, <1>8, <2>1, <2>4, <2>5 DEF Below
    <2>7. Below(InBuf', InQueue' \cup InChannel)
      BY <1>8, <2>1, <2>5 DEF Below
    <2>8. Range(got') \cup InBuf' \cup InQueue' \cup InChannel = Wanted
      BY <1>8, <2>1, <2>4, <2>5
    <2>9. Levels'
      BY <1>3, <1>5, <1>8, <2>4, <2>5, <2>6, <2>7, <2>8 DEF Levels, Below
    <2>10. EndMeansAll'
      BY <1>1, <1>8, <2>3 DEF EndMeansAll
    <2>11. Types'
      BY <1>1, <1>2, <1>8, <2>1, <2>3, <2>4 DEF Types
    <2> QED
      BY <1>6, <1>7, <2>9, <2>10, <2>11 DEF Core
  <1>9. CASE rbuf # <<>> /\ Give(rbuf, n) /\ rbuf' = Rest(rbuf, n) /\ UNCHANGED <<rq, closed>>
    <2>1. InQueue' = InQueue /\ rbuf \in Chunks /\ rq \in Seq(Chunks) /\ InBuf = Range(rbuf)
      BY <1>2, <1>9 DEF InQueue, InBuf, Types
    <2>2. Below(Range(got), Range(rbuf)) /\ Below(Range(got), InQueue)
      BY <1>4, <2>1 DEF Below
    <2> QED
      BY <1>4, <1>8, <1>9, <2>1, <2>2
  <1>10. CASE /\ rbuf = <<>> /\ rq # <<>>
              /\ Give(Head(rq), n) /\ rbuf' = Rest(Head(rq), n) /\ rq' = Tail(rq)
              /\ UNCHANGED closed
    <2>1. rq \in Seq(Chunks)
      BY <1>2 DEF Types
    <2>2. /\ Head(rq) \in Chunks /\ Increasing(Head(rq))
          /\ rq' \in Seq(Chunks) /\ Ordered(rq')
          /\ InQueue = Range(Head(rq)) \cup InQueue'
          /\ Below(Range(Head(rq)), InQueue')
      BY <1>4, <1>10, <2>1, ChunkTaken DEF InQueue
    <2>3. InBuf = {}
      BY <1>10, Nothing DEF InBuf
    <2>4. Below(Range(got), Range(Head(rq))) /\ Below(Range(got), InQueue')
      BY <1>4, <2>2 DEF Below
    <2>5. Below(Range(Head(rq)), InQueue' \cup InChannel) /\ Below(InQueue', InChannel)
      BY <1>4, <2>2 DEF Below
    <2>6. Range(got) \cup Range(Head(rq)) \cup InQueue' \cup InChannel = Wanted
      BY <1>4, <2>2, <2>3
    <2>7. blanks = 0 => Head(rq) # <<>>
      <3>1. 1 \in DOMAIN rq /\ Head(rq) = rq[1]
        BY <1>10, <2>1, HeadAndTail
      <3> QED
        BY <3>1 DEF BridgeInv, NoBlankToRead
    <2> QED
      BY <1>8, <1>10, <2>2, <2>4, <2>5, <2>6, <2>7
  <1>11. CASE /\ rbuf = <<>> /\ rq = <<>> /\ task = "done"
              /\ GiveEnd /\ closed' = (kind = "tunnel") /\ UNCHANGED <<rbuf, rq>>
    <2>1. chan = <<>> /\ peer = "closed"
      BY <1>1, <1>2, <1>11 DEF EndsAtTheEnd
    <2>2. Data(chan) = <<>>
      BY <2>1 DEF Data
    <2>3. InBuf = {} /\ InQueue = {} /\ InChannel = {} /\ got' = got
      BY <1>11, <2>2, Nothing DEF InBuf, InQueue, InChannel, GiveEnd
    <2>4. Range(got) = Wanted /\ peer' = "closed"
      BY <1>1, <1>4, <2>1, <2>3
    <2>5. EndMeansAll'
      BY <1>3, <1>4, <2>3, <2>4 DEF EndMeansAll
    <2>6. Levels'
      BY <1>1, <1>2, <1>11, <2>3, LevelsKept DEF streamVars
    <2>7. closed' \in BOOLEAN /\ ended' \in BOOLEAN
      BY <1>11 DEF GiveEnd
    <2>8. Types'
      BY <1>1, <1>2, <1>11, <2>3, <2>7 DEF Types
    <2> QED
      BY <1>6, <1>7, <2>5, <2>6, <2>8 DEF Core
  <1> QED
    BY <1>9, <1>10, <1>11 DEF PollRead

(* into_async_io drops what the handle had buffered, and nothing else.     *)
LEMMA StepIntoAsyncIo ==
    ASSUME BridgeInv, IntoAsyncIo
    PROVE  Core'
  <1> USE DEF IntoAsyncIo
  <1>2. Types /\ Roles /\ ChannelOrder /\ EndsAtTheEnd /\ Levels /\ EndMeansAll
    BY DEF BridgeInv
  <1>3. /\ hbuf.stdout \in Chunks /\ hbuf.stderr \in Chunks
        /\ hbuf'.stdout = <<>> /\ hbuf'.stderr = <<>>
    BY <1>2 DEF Types
  <1>4. InBuf = {} /\ InQueue = {} /\ Range(lost) = {}
    BY <1>2, HandleHolds
  <1>5. InHandle' = {} /\ InBuf' = {} /\ InQueue' = {} /\ InChannel' = InChannel
    BY <1>3, <1>4, Nothing DEF InHandle, InBuf, InQueue, InChannel
  <1>6. /\ Increasing(got) /\ Increasing(rbuf) /\ Ordered(rq) /\ Ordered(Data(chan))
        /\ Increasing(hbuf.stdout) /\ Increasing(hbuf.stderr)
        /\ Below(Range(got), InHandle \cup InChannel) /\ Below(InHandle, InChannel)
        /\ Range(got) \cup InHandle \cup InChannel = Wanted
    BY <1>2, <1>4 DEF Levels
  <1>7. lost' \in Chunks /\ Range(lost') = InHandle
    <2>1. Below(Range(hbuf.stdout), Range(hbuf.stderr))
      BY <1>2, Nothing DEF Roles, Below
    <2> QED
      BY <1>3, <1>6, <2>1, Joined DEF InHandle
  <1>8. Wanted' = Wanted \ InHandle
    BY <1>4, <1>7 DEF Wanted
  <1>9. Range(got) \cap InHandle = {} /\ InHandle \cap InChannel = {}
    <2>1. InHandle \subseteq Nat
      BY <1>3 DEF InHandle, Range, Chunks
    <2>2. ASSUME NEW x \in InHandle PROVE x \notin Range(got) /\ x \notin InChannel
      <3>1. ~(x < x)
        BY <2>1
      <3> QED
        BY <1>6, <3>1 DEF Below
    <2> QED
      BY <2>2
  <1>10. Range(got) \cup InChannel = Wanted'
    BY <1>6, <1>8, <1>9
  <1>11. Levels'
    <2>1. /\ Increasing(got') /\ Increasing(rbuf') /\ Ordered(rq')
          /\ Ordered(Data(chan))' /\ Increasing(hbuf'.stdout) /\ Increasing(hbuf'.stderr)
      BY <1>3, <1>6, Nothing
    <2>2. Below(Range(got'), InChannel')
      BY <1>5, <1>6 DEF Below
    <2> QED
      BY <1>5, <1>10, <2>1, <2>2 DEF Levels, Below
  <1>12. Types'
    <2>1. hbuf' \in [stdout : Chunks, stderr : Chunks]
      BY Nothing
    <2> QED
      BY <1>2, <1>7, <2>1 DEF Types
  <1>13. Roles'
    BY <1>2, <1>3 DEF Roles
  <1>14. ChannelOrder' /\ EndsAtTheEnd' /\ EndMeansAll'
    BY <1>2 DEF ChannelOrder, EndsAtTheEnd, EndMeansAll
  <1> QED
    BY <1>11, <1>12, <1>13, <1>14 DEF Core

LEMMA StepBridgeMessage ==
    ASSUME BridgeInv, BridgeMessage
    PROVE  Core'
  <1>1. /\ task \in {"select", "drain"} /\ chan # <<>> /\ chan' = Tail(chan)
        /\ UNCHANGED <<kind, user, peer, bytes, blanks, hbuf, closed, rbuf, cq, writes, eofSent,
                       out, got, ended, lost>>
    BY DEF BridgeMessage
  <1>2. Types /\ Roles /\ ChannelOrder /\ EndsAtTheEnd /\ Levels /\ EndMeansAll
    BY DEF BridgeInv
  <1>3. ChannelOrder' /\ chan' \in Seq(Messages)
    BY <1>1, <1>2, OrderTaken
  <1>4. EndMeansAll'
    BY <1>1, <1>2, EndKept
  <1>5. Head(chan) \in Messages /\ Head(chan).d \in Chunks
    BY <1>1, <1>2, HeadAndTail, MessageParts DEF Types
  <1>6. user # "handle"
    BY <1>1, <1>2 DEF Roles
  <1>7. task' \in {"select", "drain", "done", "broken"} /\ rq' \in Seq(Chunks)
    <2>1. rq \in Seq(Chunks)
      BY <1>2 DEF Types
    <2>2. Append(rq, Head(chan).d) \in Seq(Chunks)
      BY <1>5, <2>1, Appended
    <2>3. rq' \in {rq, Append(rq, Head(chan).d)}
      BY DEF BridgeMessage
    <2>4. task' \in {"select", "drain", "done", "broken"}
      BY <1>1 DEF BridgeMessage
    <2> QED
      BY <2>1, <2>2, <2>3, <2>4
  <1>8. Types'
    BY <1>1, <1>2, <1>3, <1>7 DEF Types
  <1>9. Roles'
    BY <1>1, <1>2, <1>6 DEF Roles
  <1>10. ASSUME user = "stream" PROVE Levels' /\ EndsAtTheEnd'
    <2>1. InHandle = {} /\ InHandle' = {} /\ InBuf' = InBuf /\ Wanted' = Wanted
      BY <1>1, <1>2, <1>10, StreamHolds DEF InHandle, InBuf, Wanted
    <2>2. /\ Increasing(got) /\ Increasing(rbuf) /\ Ordered(rq) /\ Ordered(Data(chan))
          /\ Increasing(hbuf.stdout) /\ Increasing(hbuf.stderr)
          /\ Below(Range(got), InBuf \cup InQueue \cup InChannel)
          /\ Below(InBuf, InQueue \cup InChannel) /\ Below(InQueue, InChannel)
          /\ Range(got) \cup InBuf \cup InQueue \cup InChannel = Wanted
      BY <1>2, <1>10, <2>1 DEF Levels
    <2> DEFINE d == Head(chan).d
    <2>3. /\ Increasing(d) /\ Ordered(Data(chan))'
          /\ InChannel = Range(d) \cup InChannel' /\ Below(Range(d), InChannel')
          /\ Head(chan).t \in {"eof", "close"} => Range(d) = {}
          /\ Head(chan).t = "close" => chan' = <<>> /\ peer = "closed"
          /\ Head(chan).t = "extended" => kind = "shell"
      BY <1>1, <1>2, <2>2, ChannelTaken
    <2>4. Head(chan).t \in {"data", "extended", "eof", "close"}
      BY <1>5, MessageParts
    <2>5. \/ Head(chan).t \in {"data", "extended"} /\ rq' = Append(rq, d) /\ task' = task
          \/ Head(chan).t = "eof" /\ rq' = rq /\ task' = task
          \/ Head(chan).t = "close" /\ rq' = rq /\ task' = "done"
      BY <1>10, <2>3, <2>4 DEF BridgeMessage
    <2>6. EndsAtTheEnd'
      BY <1>1, <1>10, <2>3, <2>5 DEF EndsAtTheEnd
    <2>7. Ordered(rq') /\ InQueue' = InQueue \cup Range(d)
      <3>1. CASE rq' = Append(rq, d)
        <4>1. Below(In(rq), Range(d)) /\ rq \in Seq(Chunks)
          BY <1>2, <2>2, <2>3 DEF InQueue, Below, Types
        <4> QED
          BY <1>5, <2>2, <2>3, <3>1, <4>1, ChunkAppended DEF InQueue
      <3>2. CASE rq' = rq /\ Range(d) = {}
        BY <2>2, <3>2 DEF InQueue
      <3> QED
        BY <2>3, <2>5, <3>1, <3>2
    <2> HIDE DEF d
    <2>8. InQueue' \cup InChannel' = InQueue \cup InChannel
      BY <2>3, <2>7
    <2>9. Below(InQueue', InChannel')
      BY <2>2, <2>3, <2>7 DEF Below
    <2>10. Below(Range(got), InBuf \cup InQueue' \cup InChannel') /\ Below(InBuf, InQueue' \cup InChannel')
      BY <2>2, <2>8 DEF Below
    <2>11. Range(got) \cup InBuf \cup InQueue' \cup InChannel' = Wanted
      BY <2>2, <2>8
    <2>12. Levels'
      BY <1>1, <2>1, <2>2, <2>3, <2>7, <2>9, <2>10, <2>11 DEF Levels, Below
    <2> QED
      BY <2>6, <2>12
  <1>11. ASSUME user = "gone" PROVE Levels' /\ EndsAtTheEnd'
    BY <1>1, <1>11 DEF Levels, EndsAtTheEnd
  <1> QED
    BY <1>2, <1>3, <1>4, <1>6, <1>8, <1>9, <1>10, <1>11 DEF Core, Types

(* What the peer adds to the channel.                                      *)
LEMMA PeerAdds ==
    ASSUME BridgeInv, PeerSend \/ PeerEof \/ PeerClose
    PROVE  \E m \in Messages :
           /\ rq' = rq
           /\ peer # "closed" /\ peer' \in {"open", "eof", "closed"}
           /\ chan' = Append(chan, m)
           /\ bytes' \in Nat /\ bytes <= bytes'
           /\ blanks' \in Nat /\ (m.d = <<>> /\ m.t \in {"data", "extended"} => blanks' > 0)
           /\ blanks' = 0 => blanks = 0
           /\ Increasing(m.d) /\ Range(m.d) = (bytes + 1) .. bytes'
           /\ m.t \in {"eof", "close"} => m.d = <<>>
           /\ m.t = "close" => peer' = "closed"
           /\ m.t = "extended" => kind = "shell"
  <1>0. rq' = rq
    BY DEF PeerSend, PeerEof, PeerClose
  <1>1. CASE PeerSend
    <2>1. PICK n \in Nat, t \in {"data", "extended"} :
             /\ t = "extended" => kind = "shell"
             /\ blanks' = IF n = 0 THEN blanks + 1 ELSE blanks
             /\ bytes' = bytes + n
             /\ chan' = Append(chan, Msg(t, Range2(bytes, bytes + n)))
      BY <1>1, BridgeAssumption DEF PeerSend
    <2>2. bytes \in Nat /\ blanks \in Nat /\ peer = "open" /\ peer' = peer
      BY <1>1 DEF BridgeInv, Types, PeerSend
    <2>3. /\ Range2(bytes, bytes + n) \in Chunks /\ Increasing(Range2(bytes, bytes + n))
          /\ Range(Range2(bytes, bytes + n)) = (bytes + 1) .. bytes'
      BY <2>1, <2>2, NewBytes
    <2>4. /\ Msg(t, Range2(bytes, bytes + n)) \in Messages
          /\ Msg(t, Range2(bytes, bytes + n)).t = t
          /\ Msg(t, Range2(bytes, bytes + n)).d = Range2(bytes, bytes + n)
      BY <2>3, MessageType
    <2>5. bytes' \in Nat /\ bytes <= bytes'
      BY <2>1, <2>2
    <2> DEFINE x == Msg(t, Range2(bytes, bytes + n))
    <2>6. /\ x \in Messages /\ chan' = Append(chan, x) /\ x.t = t /\ Increasing(x.d)
          /\ Range(x.d) = (bytes + 1) .. bytes'
      BY <2>1, <2>3, <2>4
    <2>7. x.d = <<>> => blanks' > 0
      <3>1. n # 0 => bytes + 1 \in Range(x.d)
        BY <2>1, <2>2, <2>6
      <3>2. n # 0 => x.d # <<>>
        BY <3>1, Nothing
      <3> QED
        BY <2>1, <2>2, <3>2
    <2>8. blanks' \in Nat /\ (blanks' = 0 => blanks = 0)
      BY <2>1, <2>2
    <2> HIDE DEF x
    <2> QED
      BY <1>0, <2>1, <2>2, <2>5, <2>6, <2>7, <2>8
  <1>2. CASE PeerEof \/ PeerClose
    <2>1. PICK t \in {"eof", "close"} :
             /\ chan' = Append(chan, Msg(t, <<>>)) /\ bytes' = bytes /\ blanks' = blanks
             /\ peer' = (IF t = "eof" THEN "eof" ELSE "closed") /\ peer # "closed"
      BY <1>2 DEF PeerEof, PeerClose
    <2>2. Msg(t, <<>>) \in Messages /\ Msg(t, <<>>).t = t /\ Msg(t, <<>>).d = <<>>
      BY Nothing, MessageType
    <2>3. bytes \in Nat /\ blanks \in Nat /\ (bytes + 1) .. bytes = {}
      BY DEF BridgeInv, Types
    <2> DEFINE x == Msg(t, <<>>)
    <2>4. /\ x \in Messages /\ chan' = Append(chan, x) /\ x.t = t /\ x.d = <<>>
          /\ Increasing(x.d) /\ Range(x.d) = {}
      BY <2>1, <2>2, Nothing
    <2> HIDE DEF x
    <2>5. bytes' = bytes /\ bytes <= bytes /\ Range(x.d) = (bytes + 1) .. bytes
      <3>1. bytes' = bytes
        BY <2>1
      <3>2. bytes <= bytes
        BY <2>3
      <3> QED
        BY <2>3, <2>4, <3>1, <3>2
    <2>6. peer # "closed" /\ peer' \in {"open", "eof", "closed"} /\ (t = "close" => peer' = "closed")
      BY <2>1
    <2> QED
      BY <1>0, <2>1, <2>3, <2>4, <2>5, <2>6
  <1> QED
    BY <1>1, <1>2

(* The peer adds a message behind those in the channel.                    *)
LEMMA StepPeer ==
    ASSUME BridgeInv, PeerSend \/ PeerEof \/ PeerClose
    PROVE  Core'
  <1>1. UNCHANGED <<kind, user, task, hbuf, closed, rbuf, rq, cq, writes, eofSent,
                    out, got, ended, lost>>
    BY DEF PeerSend, PeerEof, PeerClose
  <1>2. Types /\ Roles /\ ChannelOrder /\ EndsAtTheEnd /\ Levels /\ EndMeansAll
    BY DEF BridgeInv
  <1>3. PICK m \in Messages :
           /\ peer # "closed" /\ peer' \in {"open", "eof", "closed"}
           /\ chan' = Append(chan, m)
           /\ bytes' \in Nat /\ bytes <= bytes'
           /\ blanks' \in Nat /\ (m.d = <<>> /\ m.t \in {"data", "extended"} => blanks' > 0)
           /\ blanks' = 0 => blanks = 0
           /\ Increasing(m.d) /\ Range(m.d) = (bytes + 1) .. bytes'
           /\ m.t \in {"eof", "close"} => m.d = <<>>
           /\ m.t = "close" => peer' = "closed"
           /\ m.t = "extended" => kind = "shell"
    BY PeerAdds
  <1>4. chan \in Seq(Messages) /\ bytes \in Nat /\ m.d \in Chunks
    BY <1>2, MessageParts DEF Types
  <1>5. /\ chan' \in Seq(Messages) /\ Len(chan) \in Nat /\ Len(chan') = Len(chan) + 1
        /\ DOMAIN chan = 1 .. Len(chan) /\ DOMAIN chan' = 1 .. (Len(chan) + 1)
        /\ \A i \in 1 .. Len(chan) : chan'[i] = chan[i]
        /\ chan'[Len(chan) + 1] = m
    BY <1>3, <1>4, Appended
  <1>6. ChannelOrder'
    <2>1. \A i \in DOMAIN chan : chan[i].t # "close"
      BY <1>2, <1>3 DEF ChannelOrder
    <2>2. \A i \in DOMAIN chan' :
             (i \in DOMAIN chan /\ chan'[i] = chan[i]) \/ (i = Len(chan') /\ chan'[i] = m)
      BY <1>5
    <2> QED
      BY <1>1, <1>2, <1>3, <2>1, <2>2 DEF ChannelOrder
  <1>7. EndsAtTheEnd' /\ EndMeansAll'
    BY <1>1, <1>2, <1>3 DEF EndsAtTheEnd, EndMeansAll
  <1>8. Types' /\ Roles'
    BY <1>1, <1>2, <1>3, <1>5 DEF Types, Roles
  <1>9. ASSUME user # "gone" PROVE Levels'
    <2>1. /\ InHandle' = InHandle /\ InBuf' = InBuf /\ InQueue' = InQueue
      BY <1>1 DEF InHandle, InBuf, InQueue
    <2>2. Data(chan)' = Append(Data(chan), m.d) /\ Data(chan) \in Seq(Chunks)
      BY <1>3, <1>4, DataAppended, DataOf
    <2>3. /\ Increasing(got) /\ Increasing(rbuf) /\ Ordered(rq) /\ Ordered(Data(chan))
          /\ Increasing(hbuf.stdout) /\ Increasing(hbuf.stderr)
          /\ Below(Range(got), InHandle \cup InBuf \cup InQueue \cup InChannel)
          /\ Below(InHandle, InBuf \cup InQueue \cup InChannel)
          /\ Below(InBuf, InQueue \cup InChannel) /\ Below(InQueue, InChannel)
          /\ Range(got) \cup InHandle \cup InBuf \cup InQueue \cup InChannel = Wanted
      BY <1>2, <1>9 DEF Levels
    <2>4. Below(1 .. bytes, Range(m.d))
      BY <1>3, <1>4 DEF Below
    <2>5. Wanted \subseteq 1 .. bytes
      BY DEF Wanted
    <2>6. Below(In(Data(chan)), Range(m.d))
      BY <2>3, <2>4, <2>5 DEF Below, InChannel
    <2>7. Ordered(Data(chan))' /\ InChannel' = InChannel \cup Range(m.d)
      BY <1>3, <1>4, <2>2, <2>3, <2>6, ChunkAppended DEF InChannel
    <2>8. /\ Below(Range(got), Range(m.d)) /\ Below(InHandle, Range(m.d))
          /\ Below(InBuf, Range(m.d)) /\ Below(InQueue, Range(m.d))
      BY <2>3, <2>4, <2>5 DEF Below
    <2>9. /\ Below(Range(got), InHandle \cup InBuf \cup InQueue \cup InChannel')
          /\ Below(InHandle, InBuf \cup InQueue \cup InChannel')
          /\ Below(InBuf, InQueue \cup InChannel') /\ Below(InQueue, InChannel')
      BY <2>3, <2>7, <2>8 DEF Below
    <2>10. Wanted' = Wanted \cup Range(m.d)
      <3>1. 1 .. bytes' = (1 .. bytes) \cup Range(m.d)
        BY <1>3, <1>4
      <3>2. Range(m.d) \cap Range(lost) = {}
        <4>1. Range(lost) \subseteq 1 .. bytes
          BY <1>2 DEF LostWasSent, BridgeInv
        <4> QED
          BY <1>3, <1>4, <4>1
      <3> QED
        BY <1>1, <3>1, <3>2 DEF Wanted
    <2>11. Range(got) \cup InHandle \cup InBuf \cup InQueue \cup InChannel' = Wanted'
      BY <2>3, <2>7, <2>10
    <2> QED
      BY <1>1, <2>1, <2>3, <2>7, <2>9, <2>11 DEF Levels
  <1>10. ASSUME user = "gone" PROVE Levels'
    BY <1>1, <1>10 DEF Levels
  <1> QED
    BY <1>6, <1>7, <1>8, <1>9, <1>10 DEF Core

(* The steps that move no byte towards the reader.                         *)
LEMMA StepHandleSends ==
    ASSUME BridgeInv, HandleWrite \/ HandleEof \/ HandleClose
    PROVE  Core'
  <1>1. /\ UNCHANGED streamVars /\ UNCHANGED <<kind, task, peer, closed, cq, ended>>
        /\ user = "handle" /\ user' \in {user, "gone"}
    BY DEF HandleWrite, HandleEof, HandleClose, streamVars
  <1>2. Types /\ Roles /\ ChannelOrder /\ EndsAtTheEnd /\ Levels /\ EndMeansAll
    BY DEF BridgeInv
  <1>3. writes \in Nat /\ out \in Seq(Commands)
    BY <1>2 DEF Types
  <1>4. writes' \in Nat /\ eofSent' \in BOOLEAN
    <2>1. writes' \in {writes, writes + 1} /\ eofSent' \in {eofSent, TRUE}
      BY DEF HandleWrite, HandleEof, HandleClose
    <2>2. eofSent \in BOOLEAN /\ writes + 1 \in Nat
      BY <1>2, <1>3 DEF Types
    <2>3. writes' \in Nat
      BY <1>3, <2>1, <2>2
    <2>4. eofSent' \in BOOLEAN
      BY <2>1, <2>2
    <2> QED
      BY <2>3, <2>4
  <1>5. out' \in Seq(Commands)
    <2>1. \E c \in Commands : out' = Append(out, c)
      BY <1>3, <1>4, CommandType DEF HandleWrite, HandleEof, HandleClose
    <2> QED
      BY <1>3, <2>1, Appended
  <1>6. Types'
    BY <1>1, <1>2, <1>4, <1>5 DEF Types, streamVars
  <1>7. Roles' /\ ChannelOrder' /\ EndsAtTheEnd'
    BY <1>1, <1>2 DEF Roles, ChannelOrder, EndsAtTheEnd, streamVars
  <1>8. Levels' /\ EndMeansAll'
    BY <1>1, <1>2, LevelsKept, EndKept DEF streamVars
  <1> QED
    BY <1>6, <1>7, <1>8 DEF Core

LEMMA StepStreamSends ==
    ASSUME BridgeInv, StreamWrite \/ StreamShutdown
    PROVE  Core'
  <1>1. /\ UNCHANGED streamVars /\ UNCHANGED <<kind, user, task, peer, closed, out, ended>>
        /\ user = "stream"
    BY DEF StreamWrite, StreamShutdown, streamVars
  <1>2. Types /\ Roles /\ ChannelOrder /\ EndsAtTheEnd /\ Levels /\ EndMeansAll
    BY DEF BridgeInv
  <1>3. writes \in Nat /\ cq \in Seq(Commands)
    BY <1>2 DEF Types
  <1>4. writes' \in Nat /\ eofSent' \in BOOLEAN
    <2>1. writes' \in {writes, writes + 1} /\ eofSent' \in {eofSent, TRUE}
      BY DEF StreamWrite, StreamShutdown
    <2>2. eofSent \in BOOLEAN /\ writes + 1 \in Nat
      BY <1>2, <1>3 DEF Types
    <2>3. writes' \in Nat
      BY <1>3, <2>1, <2>2
    <2>4. eofSent' \in BOOLEAN
      BY <2>1, <2>2
    <2> QED
      BY <2>3, <2>4
  <1>5. cq' \in Seq(Commands) /\ \A i \in DOMAIN cq' : cq'[i][1] # "close"
    <2>1. cq' = cq \/ \E c \in Commands : cq' = Append(cq, c) /\ c[1] # "close"
      <3>1. CASE StreamWrite
        <4>1. writes + 1 \in Nat
          BY <1>3
        <4>2. cq' = Append(cq, <<"write", writes + 1>>)
          BY <3>1 DEF StreamWrite, Queue
        <4> QED
          BY <4>1, <4>2, CommandType
      <3>2. CASE StreamShutdown
        BY <1>3, <3>2, CommandType DEF StreamShutdown, Queue
      <3> QED
        BY <3>1, <3>2
    <2>2. CASE cq' = cq
      BY <1>1, <1>2, <1>3, <2>2 DEF Roles
    <2>3. ASSUME NEW c \in Commands, cq' = Append(cq, c), c[1] # "close"
          PROVE  cq' \in Seq(Commands) /\ \A i \in DOMAIN cq' : cq'[i][1] # "close"
      <3>1. \A i \in DOMAIN cq : cq[i][1] # "close"
        BY <1>1, <1>2 DEF Roles
      <3>2. /\ cq' \in Seq(Commands) /\ Len(cq) \in Nat /\ DOMAIN cq = 1 .. Len(cq)
            /\ DOMAIN cq' = 1 .. (Len(cq) + 1)
            /\ \A i \in 1 .. Len(cq) : cq'[i] = cq[i]
            /\ cq'[Len(cq) + 1] = c
        BY <1>3, <2>3, Appended
      <3>3. \A i \in DOMAIN cq' : (i \in DOMAIN cq /\ cq'[i] = cq[i]) \/ cq'[i] = c
        BY <3>2
      <3> QED
        BY <2>3, <3>1, <3>2, <3>3
    <2> QED
      BY <2>1, <2>2, <2>3
  <1>6. Types'
    BY <1>1, <1>2, <1>4, <1>5 DEF Types, streamVars
  <1>7. Roles'
    BY <1>1, <1>2, <1>5 DEF Roles, streamVars
  <1>8. ChannelOrder' /\ EndsAtTheEnd'
    BY <1>1, <1>2 DEF ChannelOrder, EndsAtTheEnd, streamVars
  <1>9. Levels' /\ EndMeansAll'
    BY <1>1, <1>2, LevelsKept, EndKept DEF streamVars
  <1> QED
    BY <1>6, <1>7, <1>8, <1>9 DEF Core

LEMMA StepStreamGoes ==
    ASSUME BridgeInv, StreamDrop \/ StreamClose
    PROVE  Core'
  <1>1. /\ user = "stream" /\ user' = "gone" /\ rbuf' = <<>> /\ rq' = <<>>
        /\ UNCHANGED <<kind, task, chan, peer, bytes, blanks, hbuf, closed, writes, eofSent,
                       out, got, ended, lost>>
    BY DEF StreamDrop, StreamClose
  <1>2. Types /\ Roles /\ ChannelOrder /\ EndsAtTheEnd /\ Levels /\ EndMeansAll
    BY DEF BridgeInv
  <1>3. cq' \in Seq(Commands)
    <2>1. cq \in Seq(Commands) /\ writes \in Nat
      BY <1>2 DEF Types
    <2>2. cq' = cq \/ cq' = Append(cq, <<"close", writes>>)
      BY DEF StreamDrop, StreamClose, Queue
    <2>3. <<"close", writes>> \in Commands
      BY <2>1, CommandType
    <2> QED
      BY <2>1, <2>2, <2>3, Appended
  <1>4. rq' \in Seq(Chunks) /\ rbuf' \in Chunks
    BY <1>1, Nothing
  <1>5. Types'
    BY <1>1, <1>2, <1>3, <1>4 DEF Types
  <1>6. Roles' /\ ChannelOrder' /\ EndsAtTheEnd' /\ Levels'
    BY <1>1, <1>2 DEF Roles, ChannelOrder, EndsAtTheEnd, Levels
  <1>7. EndMeansAll'
    BY <1>1, <1>2, EndKept
  <1> QED
    BY <1>5, <1>6, <1>7 DEF Core

LEMMA StepBridgeCommands ==
    ASSUME BridgeInv, BridgeEnded \/ BridgeNoCommands \/ BridgeCommand
    PROVE  Core'
  <1>1. /\ UNCHANGED streamVars /\ UNCHANGED <<kind, user, peer, closed, writes, eofSent, ended>>
        /\ task \in {"select", "drain"} /\ task' \in {"select", "drain", "done", "broken"}
    BY DEF BridgeEnded, BridgeNoCommands, BridgeCommand, streamVars
  <1>2. Types /\ Roles /\ ChannelOrder /\ EndsAtTheEnd /\ Levels /\ EndMeansAll
    BY DEF BridgeInv
  <1>3. writes \in Nat /\ out \in Seq(Commands) /\ cq \in Seq(Commands)
    BY <1>2 DEF Types
  <1>4. CASE BridgeEnded \/ BridgeNoCommands
    <2>1. cq' = cq /\ out' \in {out, Append(out, <<"close", writes>>)}
      BY <1>4 DEF BridgeEnded, BridgeNoCommands
    <2>2. out' \in Seq(Commands)
      <3>1. <<"close", writes>> \in Commands
        BY <1>3, CommandType
      <3>2. Append(out, <<"close", writes>>) \in Seq(Commands)
        BY <1>3, <3>1, Appended
      <3> QED
        BY <1>3, <2>1, <3>2
    <2>3. Types'
      BY <1>1, <1>2, <2>1, <2>2 DEF Types, streamVars
    <2>4. Roles'
      BY <1>1, <1>2, <2>1 DEF Roles, streamVars
    <2>5. EndsAtTheEnd'
      BY <1>1, <1>2, <1>4 DEF EndsAtTheEnd, BridgeEnded, BridgeNoCommands, streamVars, Roles
    <2> QED
      BY <1>1, <1>2, <2>3, <2>4, <2>5, LevelsKept, EndKept DEF Core, ChannelOrder, streamVars
  <1>5. CASE BridgeCommand
    <2>1. /\ cq # <<>> /\ cq' = Tail(cq) /\ out' = Append(out, Head(cq))
          /\ task' = IF Head(cq)[1] = "close" THEN "done" ELSE task
      BY <1>5 DEF BridgeCommand
    <2>2. /\ Head(cq) = cq[1] /\ Head(cq) \in Commands /\ cq' \in Seq(Commands)
          /\ Len(cq) \in Nat \ {0} /\ DOMAIN cq = 1 .. Len(cq)
          /\ DOMAIN cq' = 1 .. (Len(cq) - 1)
          /\ \A i \in 1 .. (Len(cq) - 1) : cq'[i] = cq[i + 1]
      BY <1>3, <2>1, HeadAndTail
    <2>3. \A i \in DOMAIN cq' : i + 1 \in DOMAIN cq /\ cq'[i] = cq[i + 1]
      BY <2>2
    <2>4. 1 \in DOMAIN cq
      BY <2>2
    <2>5. out' \in Seq(Commands)
      BY <1>3, <2>1, <2>2, Appended
    <2>6. Types'
      BY <1>1, <1>2, <2>2, <2>5 DEF Types, streamVars
    <2>7. user # "handle"
      BY <1>1, <1>2 DEF Roles
    <2>8. Roles'
      BY <1>1, <1>2, <2>3, <2>7 DEF Roles, streamVars
    <2>9. user = "stream" => task' = task
      BY <1>2, <2>1, <2>2, <2>4 DEF Roles
    <2>10. EndsAtTheEnd'
      BY <1>1, <1>2, <2>7, <2>9 DEF EndsAtTheEnd, streamVars
    <2> QED
      BY <1>1, <1>2, <2>6, <2>8, <2>10, LevelsKept, EndKept DEF Core, ChannelOrder, streamVars
  <1> QED
    BY <1>4, <1>5

LEMMA StepLost ==
    ASSUME BridgeInv, [BridgeNext]_bridgeVars
    PROVE  LostWasSent'
  <1>1. CASE UNCHANGED lost
    <2>1. bytes \in Nat /\ bytes' \in Nat /\ bytes <= bytes'
      <3>1. bytes \in Nat
        BY DEF BridgeInv, Types
      <3>2. CASE PeerSend
        BY <3>1, <3>2 DEF PeerSend
      <3>3. CASE UNCHANGED bytes
        BY <3>1, <3>3
      <3> QED
        BY <3>2, <3>3 DEF BridgeNext, Bridge, bridgeVars, HandleRead, PollRead, HandleWrite, HandleEof,
           HandleClose, IntoAsyncIo, StreamWrite, StreamShutdown, StreamDrop, StreamClose,
           BridgeMessage, BridgeEnded, BridgeNoCommands, BridgeCommand, PeerEof, PeerClose
    <2>2. 1 .. bytes \subseteq 1 .. bytes'
      BY <2>1
    <2> QED
      BY <1>1, <2>2 DEF BridgeInv, LostWasSent
  <1>2. CASE IntoAsyncIo
    <2>1. /\ hbuf.stdout \in Chunks /\ hbuf.stderr \in Chunks
          /\ Increasing(hbuf.stdout) /\ Increasing(hbuf.stderr)
          /\ InHandle \subseteq Wanted
      BY <1>2 DEF BridgeInv, IntoAsyncIo, Types, Levels
    <2>2. Below(Range(hbuf.stdout), Range(hbuf.stderr))
      BY Nothing DEF BridgeInv, Roles, Below
    <2>3. Range(lost') = InHandle
      BY <1>2, <2>1, <2>2, Joined DEF IntoAsyncIo, InHandle
    <2>4. bytes' = bytes
      BY <1>2 DEF IntoAsyncIo
    <2> QED
      BY <2>1, <2>3, <2>4 DEF Wanted, LostWasSent
  <1> QED
    BY <1>1, <1>2 DEF BridgeNext, Bridge, bridgeVars, HandleRead, PollRead, HandleWrite, HandleEof,
       HandleClose, StreamWrite, StreamShutdown, StreamDrop, StreamClose,
       BridgeMessage, BridgeEnded, BridgeNoCommands, BridgeCommand, PeerSend, PeerEof, PeerClose

(* The empty chunks to read come from empty messages.                      *)
LEMMA StepBlank ==
    ASSUME BridgeInv, [BridgeNext]_bridgeVars
    PROVE  NoBlankToRead'
  <1>0. Types /\ NoBlankToRead
    BY DEF BridgeInv
  <1>1. chan \in Seq(Messages) /\ rq \in Seq(Chunks) /\ blanks \in Nat
    BY <1>0 DEF Types
  <1>2. CASE UNCHANGED <<chan, blanks>> /\ rq' \in {rq, <<>>}
    BY <1>0, <1>2 DEF NoBlankToRead
  <1>3. CASE UNCHANGED <<chan, blanks>> /\ rq # <<>> /\ rq' = Tail(rq)
    <2>1. \A i \in DOMAIN rq' : i + 1 \in DOMAIN rq /\ rq'[i] = rq[i + 1]
      BY <1>1, <1>3, HeadAndTail
    <2> QED
      BY <1>0, <1>3, <2>1 DEF NoBlankToRead
  <1>4. ASSUME blanks' = blanks, chan # <<>>, chan' = Tail(chan),
               \/ rq' = rq
               \/ Head(chan).t \in {"data", "extended"} /\ rq' = Append(rq, Head(chan).d)
        PROVE  NoBlankToRead'
    <2>1. \A i \in DOMAIN chan' : i + 1 \in DOMAIN chan /\ chan'[i] = chan[i + 1]
      BY <1>1, <1>4, HeadAndTail
    <2>2. 1 \in DOMAIN chan /\ Head(chan) = chan[1] /\ Head(chan).d \in Chunks
      BY <1>1, <1>4, HeadAndTail, MessageParts
    <2>3. ASSUME rq' = Append(rq, Head(chan).d), NEW i \in DOMAIN rq'
          PROVE  (i \in DOMAIN rq /\ rq'[i] = rq[i]) \/ rq'[i] = Head(chan).d
      BY <1>1, <2>2, <2>3, Appended
    <2> QED
      BY <1>0, <1>4, <2>1, <2>2, <2>3 DEF NoBlankToRead
  <1>5. CASE PeerSend \/ PeerEof \/ PeerClose
    <2>1. PICK m \in Messages :
             /\ chan' = Append(chan, m) /\ rq' = rq
             /\ blanks' = 0 => blanks = 0
             /\ m.d = <<>> /\ m.t \in {"data", "extended"} => blanks' > 0
             /\ blanks' \in Nat
      BY <1>5, PeerAdds
    <2>2. \A i \in DOMAIN chan' :
             (i \in DOMAIN chan /\ chan'[i] = chan[i]) \/ chan'[i] = m
      BY <1>1, <2>1, Appended
    <2> QED
      BY <1>0, <2>1, <2>2 DEF NoBlankToRead
  <1>6. CASE BridgeMessage
    BY <1>4, <1>6 DEF BridgeMessage
  <1>7. ASSUME NEW n \in 1 .. 2, HandleRead(n) PROVE NoBlankToRead'
    BY <1>2, <1>4, <1>7 DEF HandleRead
  <1>8. ASSUME NEW n \in 1 .. 2, PollRead(n) PROVE NoBlankToRead'
    BY <1>2, <1>3, <1>8 DEF PollRead
  <1> QED
    BY <1>2, <1>5, <1>6, <1>7, <1>8 DEF BridgeNext, Bridge, bridgeVars, HandleWrite,
       HandleEof, HandleClose, IntoAsyncIo, StreamWrite, StreamShutdown, StreamDrop,
       StreamClose, BridgeEnded, BridgeNoCommands, BridgeCommand

(* A command that is accepted joins the line, and issuing one moves none.  *)
LEMMA StepLine ==
    ASSUME BridgeInv, [BridgeNext]_bridgeVars
    PROVE  LineInOrder'
  <1>1. /\ out \in Seq(Commands) /\ cq \in Seq(Commands) /\ writes \in Nat
        /\ Line(out \o cq, writes) /\ out \o cq \in Seq(Commands)
    BY DEF BridgeInv, Types, LineInOrder
  <1>2. user = "handle" => cq = <<>>
    BY DEF BridgeInv, Roles
  <1>3. /\ <<"write", writes + 1>> \in Commands
        /\ <<"eof", writes>> \in Commands /\ <<"close", writes>> \in Commands
    <2>1. writes + 1 \in Nat
      BY <1>1
    <2> QED
      BY <1>1, <2>1, CommandType
  <1>4. ASSUME NEW c \in Commands, out' \o cq' = Append(out \o cq, c),
               \/ c = <<"write", writes + 1>> /\ writes' = writes + 1
               \/ c \in {<<"eof", writes>>, <<"close", writes>>} /\ writes' = writes
        PROVE  LineInOrder'
    <2>1. CASE c = <<"write", writes + 1>> /\ writes' = writes + 1
      BY <1>1, <1>4, <2>1, WriteJoinsLine DEF LineInOrder
    <2>2. CASE c \in {<<"eof", writes>>, <<"close", writes>>} /\ writes' = writes
      BY <1>1, <1>4, <2>2, EndJoinsLine DEF LineInOrder
    <2> QED
      BY <1>4, <2>1, <2>2
  <1>5. CASE UNCHANGED <<out, cq, writes>>
    BY <1>1, <1>5 DEF LineInOrder
  <1>6. ASSUME NEW c \in Commands, user = "handle", out' = Append(out, c), cq' = cq
        PROVE  out' \o cq' = Append(out \o cq, c)
    BY <1>1, <1>2, <1>6, LineIssued
  <1>7. CASE HandleWrite
    <2>1. writes' = writes + 1 /\ out' = Append(out, <<"write", writes + 1>>) /\ cq' = cq
      BY <1>7 DEF HandleWrite
    <2>2. out' \o cq' = Append(out \o cq, <<"write", writes + 1>>)
      BY <1>3, <1>6, <1>7, <2>1 DEF HandleWrite
    <2> QED
      BY <1>3, <1>4, <2>1, <2>2
  <1>8. CASE HandleEof \/ HandleClose
    <2>1. PICK c \in {<<"eof", writes>>, <<"close", writes>>} :
             writes' = writes /\ out' = Append(out, c) /\ cq' = cq /\ user = "handle"
      BY <1>8 DEF HandleEof, HandleClose
    <2>2. c \in Commands
      BY <1>3
    <2>3. out' \o cq' = Append(out \o cq, c)
      BY <1>6, <2>1, <2>2
    <2> QED
      BY <1>4, <2>1, <2>2, <2>3
  <1>9. CASE StreamWrite
    <2>1. writes' = writes + 1 /\ cq' = Append(cq, <<"write", writes + 1>>) /\ out' = out
      BY <1>9 DEF StreamWrite, Queue
    <2> QED
      BY <1>1, <1>3, <1>4, <2>1, LineQueued
  <1>10. CASE StreamShutdown \/ StreamClose
    <2>1. CASE task # "done"
      <3>1. PICK c \in {<<"eof", writes>>, <<"close", writes>>} :
               writes' = writes /\ cq' = Append(cq, c) /\ out' = out
        BY <1>10, <2>1 DEF StreamShutdown, StreamClose, Queue
      <3>2. c \in Commands
        BY <1>3
      <3> QED
        BY <1>1, <1>4, <3>1, <3>2, LineQueued
    <2>2. CASE task = "done"
      BY <1>5, <1>10, <2>2 DEF StreamShutdown, StreamClose, Queue
    <2> QED
      BY <2>1, <2>2
  <1>11. CASE BridgeNoCommands
    <2>1. CASE kind = "tunnel"
      <3>1. cq = <<>> /\ cq' = cq /\ writes' = writes /\ out' = Append(out, <<"close", writes>>)
        BY <1>11, <2>1 DEF BridgeNoCommands
      <3>2. out' \o cq' = Append(out \o cq, <<"close", writes>>)
        BY <1>1, <1>3, <3>1, LineIssued
      <3> QED
        BY <1>3, <1>4, <3>1, <3>2
    <2>2. CASE kind # "tunnel"
      BY <1>5, <1>11, <2>2 DEF BridgeNoCommands
    <2> QED
      BY <2>1, <2>2
  <1>12. CASE BridgeCommand
    <2>1. cq # <<>> /\ cq' = Tail(cq) /\ out' = Append(out, Head(cq)) /\ writes' = writes
      BY <1>12 DEF BridgeCommand
    <2>2. out' \o cq' = out \o cq
      BY <1>1, <2>1, LineMoved
    <2> QED
      BY <1>1, <2>1, <2>2 DEF LineInOrder
  <1> QED
    BY <1>5, <1>7, <1>8, <1>9, <1>10, <1>11, <1>12 DEF BridgeNext, Bridge, bridgeVars, HandleRead, PollRead,
       IntoAsyncIo, StreamDrop, BridgeMessage, BridgeEnded, PeerSend, PeerEof, PeerClose

LEMMA BridgeNextInv == BridgeInv /\ [BridgeNext]_bridgeVars => BridgeInv'
  <1> SUFFICES ASSUME BridgeInv, [BridgeNext]_bridgeVars PROVE BridgeInv'
    OBVIOUS
  <1>1. CASE UNCHANGED bridgeVars
    <2>1. Types' /\ Roles' /\ ChannelOrder' /\ EndsAtTheEnd'
      BY <1>1 DEF BridgeInv, bridgeVars, Types, Roles, ChannelOrder, EndsAtTheEnd
    <2>2. Levels' /\ EndMeansAll'
      BY <1>1, LevelsKept, EndKept DEF BridgeInv, bridgeVars, streamVars
    <2> QED
      BY <2>1, <2>2, StepLost, StepLine, StepBlank DEF BridgeInv
  <1>2. CASE BridgeNext
    <2>1. Core'
      BY <1>2, StepHandleRead, StepPollRead, StepIntoAsyncIo, StepBridgeMessage, StepPeer,
         StepHandleSends, StepStreamSends, StepStreamGoes, StepBridgeCommands DEF BridgeNext, Bridge
    <2> QED
      BY <2>1, StepLost, StepLine, StepBlank DEF Core, BridgeInv
  <1> QED
    BY <1>1, <1>2

LEMMA BridgeInvAlways == BridgeSpec => []BridgeInv
  BY BridgeInitInv, BridgeNextInv, PTL DEF BridgeSpec

-----------------------------------------------------------------------------
(* The parts of Path put together.                                         *)
LEMMA LevelsMakePath ==
    ASSUME BridgeInv, user # "gone"
    PROVE  Ordered(Path) /\ In(Path) = Wanted
  <1> DEFINE near == <<got, hbuf.stdout, hbuf.stderr, rbuf>>
             far == Data(chan)
             r == Len(rq)
             f == Len(far)
  <1>1. /\ got \in Chunks /\ hbuf.stdout \in Chunks /\ hbuf.stderr \in Chunks /\ rbuf \in Chunks
        /\ rq \in Seq(Chunks) /\ far \in Seq(Chunks)
    BY DataOf DEF BridgeInv, Types
  <1>2. /\ near \in Seq(Chunks) /\ Len(near) = 4
        /\ near[1] = got /\ near[2] = hbuf.stdout /\ near[3] = hbuf.stderr /\ near[4] = rbuf
    BY <1>1
  <1> HIDE DEF near, far
  <1>3. r \in Nat /\ f \in Nat /\ DOMAIN rq = 1 .. r /\ DOMAIN far = 1 .. f
    BY <1>1
  <1>4. Path = near \o rq \o far
    BY DEF Path, near, far
  <1>5. /\ DOMAIN Path = 1 .. (4 + r + f)
        /\ \A i \in 1 .. 4 : Path[i] = near[i]
        /\ \A i \in 1 .. r : Path[4 + i] = rq[i]
        /\ \A i \in 1 .. f : Path[4 + r + i] = far[i]
    <2> DEFINE front == near \o rq
    <2>1. /\ front \in Seq(Chunks) /\ Len(front) = 4 + r
          /\ \A i \in 1 .. 4 : front[i] = near[i]
          /\ \A i \in 1 .. r : front[4 + i] = rq[i]
      <3>1. /\ near \o rq \in Seq(Chunks) /\ Len(near \o rq) = Len(near) + Len(rq)
            /\ \A i \in 1 .. Len(near) : (near \o rq)[i] = near[i]
            /\ \A i \in 1 .. Len(rq) : (near \o rq)[Len(near) + i] = rq[i]
        BY <1>1, <1>2, Concatenated
      <3> QED
        BY <1>2, <3>1
    <2>2. Path = front \o far
      BY <1>4
    <2> HIDE DEF front
    <2>3. /\ DOMAIN Path = 1 .. (4 + r + f)
          /\ \A i \in 1 .. (4 + r) : Path[i] = front[i]
          /\ \A i \in 1 .. f : Path[4 + r + i] = far[i]
      <3>1. /\ DOMAIN (front \o far) = 1 .. (Len(front) + Len(far))
            /\ \A i \in 1 .. Len(front) : (front \o far)[i] = front[i]
            /\ \A i \in 1 .. Len(far) : (front \o far)[Len(front) + i] = far[i]
        BY <1>1, <2>1, Concatenated
      <3> HIDE DEF r
      <3> QED
        BY <2>1, <2>2, <3>1
    <2>4. \A i \in 1 .. r : 4 + i \in 1 .. (4 + r)
      BY <1>3
    <2>5. \A i \in 1 .. 4 : i \in 1 .. (4 + r)
      BY <1>3
    <2> QED
      BY <2>1, <2>3, <2>4, <2>5
  <1> HIDE DEF r, f
  <1>6. \A i \in DOMAIN Path :
           \/ i \in 1 .. 4
           \/ i - 4 \in 1 .. r /\ i > 4 /\ Path[i] = rq[i - 4]
           \/ i - (4 + r) \in 1 .. f /\ i > 4 + r /\ Path[i] = far[i - (4 + r)]
    <2> TAKE i \in DOMAIN Path
    <2>1. CASE i \in 5 .. (4 + r)
      <3>1. i - 4 \in 1 .. r /\ 4 + (i - 4) = i /\ i > 4
        BY <1>3, <2>1
      <3>2. Path[4 + (i - 4)] = rq[i - 4]
        BY <1>5, <3>1
      <3> QED
        BY <3>1, <3>2
    <2>2. CASE i > 4 + r
      <3>1. i - (4 + r) \in 1 .. f /\ 4 + r + (i - (4 + r)) = i
        BY <1>3, <1>5, <2>2
      <3>2. Path[4 + r + (i - (4 + r))] = far[i - (4 + r)]
        BY <1>5, <3>1
      <3> QED
        BY <2>2, <3>1, <3>2
    <2> QED
      BY <1>3, <1>5, <2>1, <2>2
  <1>7. /\ Path[1] = got /\ Path[2] = hbuf.stdout /\ Path[3] = hbuf.stderr /\ Path[4] = rbuf
        /\ {1, 2, 3, 4} \subseteq DOMAIN Path
    BY <1>2, <1>3, <1>5
  <1>8. /\ Increasing(got) /\ Increasing(rbuf)
        /\ Increasing(hbuf.stdout) /\ Increasing(hbuf.stderr)
        /\ Ordered(rq) /\ Ordered(far)
        /\ Below(Range(got), InHandle \cup InBuf \cup InQueue \cup InChannel)
        /\ Below(InHandle, InBuf \cup InQueue \cup InChannel)
        /\ Below(InBuf, InQueue \cup InChannel)
        /\ Below(InQueue, InChannel)
        /\ Range(got) \cup InHandle \cup InBuf \cup InQueue \cup InChannel = Wanted
    BY DEF BridgeInv, Levels, far
  <1>9. /\ Range(hbuf.stdout) = {} \/ Range(hbuf.stderr) = {}
        /\ InHandle = Range(hbuf.stdout) \cup Range(hbuf.stderr) /\ InBuf = Range(rbuf)
        /\ \A i \in 1 .. r : Range(rq[i]) \subseteq InQueue
        /\ \A i \in 1 .. f : Range(far[i]) \subseteq InChannel
    BY <1>3, Nothing DEF BridgeInv, Roles, InHandle, InBuf, InQueue, InChannel, In, far
  <1>10. Ordered(Path)
    <2>1. ASSUME NEW i \in DOMAIN Path PROVE Increasing(Path[i])
      <3>1. CASE i \in 1 .. 4
        <4>1. i \in {1, 2, 3, 4}
          BY <3>1
        <4> QED
          BY <1>7, <1>8, <4>1
      <3>2. CASE i \notin 1 .. 4
        BY <1>3, <1>6, <1>8, <3>2 DEF Ordered
      <3> QED
        BY <3>1, <3>2
    <2>2. ASSUME NEW i \in DOMAIN Path, NEW j \in DOMAIN Path, i < j
          PROVE  Below(Range(Path[i]), Range(Path[j]))
      <3>0. i \in Nat /\ j \in Nat /\ i >= 1
        BY <1>3, <1>5
      <3>1. j > 4 => Range(Path[j]) \subseteq InQueue \cup InChannel
        BY <1>6, <1>9, <3>0
      <3>2. CASE i = 1
        <4>1. j \in {2, 3, 4} \/ j > 4
          BY <2>2, <3>0, <3>2
        <4>2. Range(Path[j]) \subseteq InHandle \cup InBuf \cup InQueue \cup InChannel
          BY <1>7, <1>9, <3>1, <4>1
        <4> QED
          BY <1>7, <1>8, <3>2, <4>2 DEF Below
      <3>3. CASE i \in {2, 3}
        <4>1. (i = 2 /\ j = 3) \/ j = 4 \/ j > 4
          BY <2>2, <3>0, <3>3
        <4>2. CASE i = 2 /\ j = 3
          BY <1>7, <1>9, <4>2 DEF Below
        <4>3. CASE j = 4 \/ j > 4
          <5>1. Range(Path[j]) \subseteq InBuf \cup InQueue \cup InChannel
            BY <1>7, <1>9, <3>1, <4>3
          <5>2. Range(Path[i]) \subseteq InHandle
            BY <1>7, <1>9, <3>3
          <5> QED
            BY <1>8, <5>1, <5>2 DEF Below
        <4> QED
          BY <4>1, <4>2, <4>3
      <3>4. CASE i = 4
        <4>1. Range(Path[j]) \subseteq InQueue \cup InChannel
          BY <2>2, <3>0, <3>1, <3>4
        <4> QED
          BY <1>7, <1>8, <1>9, <3>4, <4>1 DEF Below
      <3>5. CASE i - 4 \in 1 .. r /\ i > 4 /\ Path[i] = rq[i - 4]
        <4>1. CASE j - 4 \in 1 .. r /\ Path[j] = rq[j - 4]
          <5>1. i - 4 < j - 4
            BY <2>2, <3>0
          <5> QED
            BY <1>3, <1>8, <3>5, <4>1, <5>1 DEF Ordered
        <4>2. CASE j - (4 + r) \in 1 .. f /\ Path[j] = far[j - (4 + r)]
          BY <1>8, <1>9, <3>5, <4>2 DEF Below
        <4>3. j \notin 1 .. 4
          BY <2>2, <3>0, <3>5
        <4> QED
          BY <1>6, <4>1, <4>2, <4>3
      <3>6. CASE i - (4 + r) \in 1 .. f /\ i > 4 + r /\ Path[i] = far[i - (4 + r)]
        <4>1. j > 4 + r /\ j \notin 1 .. 4 /\ j - 4 \notin 1 .. r
          BY <1>3, <2>2, <3>0, <3>6
        <4>2. j - (4 + r) \in 1 .. f /\ Path[j] = far[j - (4 + r)]
          BY <1>6, <4>1
        <4>3. i - (4 + r) < j - (4 + r)
          BY <1>3, <2>2, <3>0
        <4> QED
          BY <1>3, <1>8, <3>6, <4>2, <4>3 DEF Ordered
      <3>7. i \in 1 .. 4 => i = 1 \/ i \in {2, 3} \/ i = 4
        OBVIOUS
      <3> QED
        BY <1>6, <3>2, <3>3, <3>4, <3>5, <3>6, <3>7
    <2> QED
      BY <2>1, <2>2 DEF Ordered
  <1>11. In(Path) = Range(got) \cup InHandle \cup InBuf \cup InQueue \cup InChannel
    <2>1. ASSUME NEW i \in DOMAIN Path
          PROVE  Range(Path[i]) \subseteq
                    Range(got) \cup InHandle \cup InBuf \cup InQueue \cup InChannel
      <3>1. CASE i \in 1 .. 4
        <4>1. i \in {1, 2, 3, 4}
          BY <3>1
        <4> QED
          BY <1>7, <1>9, <4>1
      <3>2. CASE i \notin 1 .. 4
        BY <1>6, <1>9, <3>2
      <3> QED
        BY <3>1, <3>2
    <2>2. In(Path) \subseteq Range(got) \cup InHandle \cup InBuf \cup InQueue \cup InChannel
      BY <2>1 DEF In
    <2>3. Range(got) \cup InHandle \cup InBuf \subseteq In(Path)
      BY <1>7, <1>9 DEF In
    <2>4. InQueue \subseteq In(Path)
      <3>1. \A i \in 1 .. r : 4 + i \in DOMAIN Path /\ Path[4 + i] = rq[i]
        BY <1>3, <1>5
      <3> QED
        BY <1>3, <3>1 DEF In, InQueue
    <2>5. InChannel \subseteq In(Path)
      <3>1. \A i \in 1 .. f : 4 + r + i \in DOMAIN Path /\ Path[4 + r + i] = far[i]
        BY <1>3, <1>5
      <3>2. InChannel = In(far)
        BY DEF InChannel, far
      <3> QED
        BY <1>3, <3>1, <3>2 DEF In
    <2> QED
      BY <2>2, <2>3, <2>4, <2>5
  <1> QED
    BY <1>8, <1>10, <1>11

(* Between the peer and the reader no byte is lost, doubled or overtaken,  *)
(* however the two ends, the bridge and into_async_io interleave.          *)
THEOREM BytesArriveInOrder == BridgeSpec => []StreamIsIntact
  <1>1. BridgeInv => StreamIsIntact
    BY LevelsMakePath DEF StreamIsIntact
  <1> QED
    BY <1>1, BridgeInvAlways, PTL

(* To a reader whose peer sends no empty message the end of the stream is  *)
(* reported only after the peer's close, with every byte read.             *)
THEOREM EndIsTheEnd == BridgeSpec => []EndMeansAll
  <1>1. BridgeInv => EndMeansAll
    BY DEF BridgeInv
  <1> QED
    BY <1>1, BridgeInvAlways, PTL

(* Writes go out in the order they were accepted with none left out, and   *)
(* an EOF or close only behind the writes accepted before it.              *)
THEOREM WritesGoOutInOrder == BridgeSpec => []WritesInOrder
  <1>1. BridgeInv => WritesInOrder
    BY LineFront DEF BridgeInv, Types, LineInOrder, Line, WritesInOrder
  <1> QED
    BY <1>1, BridgeInvAlways, PTL
=============================================================================
