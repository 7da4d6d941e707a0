-------------------------- MODULE SftpClientProofs --------------------------
(***************************************************************************)
(* Proofs about SftpClient for any set of calls, any id width and any      *)
(* queue capacity.                                                         *)
(***************************************************************************)
EXTENDS SftpClient, TLAPS

(* The initial state satisfies the inductive invariant.                    *)
LEMMA InitIndInv == Init => IndInv
  <1> SUFFICES ASSUME Init PROVE IndInv
    OBVIOUS
  <1> USE ConstantsAssumption DEF Init, Ids
  <1>1. TypeOK
    <2>1. slot \in [Calls -> Slots]
      BY DEF Slots, Empty
    <2>2. queue \in Seq(Packets) /\ wire \in Seq(Messages) /\ server \subseteq Packets
      OBVIOUS
    <2> QED
      BY <2>1, <2>2 DEF TypeOK, ConnStates, CallStates, WriteTaskStates,
           ReadTaskStates, AbortReasons, PeerStates, Results
  <1>2. NoCallBeforeRunning /\ PendingOwner /\ UnfiledIsEmpty /\ PacketsAreSent
    BY DEF NoCallBeforeRunning, PendingOwner, UnfiledIsEmpty, PacketsAreSent, Empty
  <1>3. NotStolen /\ NoCrossDelivery /\ WaiterIsTracked
    BY DEF NotStolen, NoCrossDelivery, WaiterIsTracked, Empty
  <1> QED
    BY <1>1, <1>2, <1>3 DEF IndInv

(* Every step of the runtime and of its peer keeps the types.              *)
LEMMA StepTypeOK == TypeOK /\ [Next]_vars => TypeOK'
  <1> SUFFICES ASSUME TypeOK, [Next]_vars PROVE TypeOK'
    OBVIOUS
  <1> USE ConstantsAssumption DEF TypeOK, Ids
  <1>1. CASE Connect
    BY <1>1 DEF Connect, ConnStates, callVars, peerVars
  <1>2. CASE ConnectRead
    BY <1>2 DEF ConnectRead, ConnStates, callVars, peerVars
  <1>3. ASSUME NEW c \in Calls, CallStep(c) PROVE TypeOK'
    <2>1. CASE NextRequestId(c)
      BY <2>1 DEF NextRequestId, CallStates, callVars, peerVars
    <2>2. CASE Insert(c)
      BY <2>2 DEF Insert, CallStates, callVars, peerVars, Slots, SenderDropped
    <2>3. CASE Send(c)
      <3>1. Packet(c) \in Packets
        BY DEF Packet, Packets
      <3>2. queue' \in Seq(Packets)
        BY <2>3, <3>1 DEF Send
      <3>3. pc' \in [Calls -> CallStates] /\ result' \in [Calls -> Results]
        BY <2>3 DEF Send, CallStates, Results, Errors
      <3> QED
        BY <2>3, <3>2, <3>3 DEF Send, callVars, peerVars
    <2>4. CASE Finish(c)
      BY <2>4 DEF Finish, CallStates, Results, AbortReasons, callVars, peerVars, Outcome, Slots, Errors, StatusBodies
    <2>5. CASE Cancel(c)
      BY <2>5 DEF Cancel, CallStates, callVars, peerVars
    <2> QED
      BY <1>3, <2>1, <2>2, <2>3, <2>4, <2>5 DEF CallStep
  <1>4. CASE DropClient
    BY <1>4 DEF DropClient, callVars, peerVars
  <1>5. CASE WriteTask
    <2>1. CASE WtWrite
      BY <2>1 DEF WtWrite, callVars, peerVars
    <2>2. CASE WtWriteFail
      BY <2>2 DEF WtWriteFail, WriteTaskStates, callVars, peerVars
    <2>3. CASE WtEnd
      BY <2>3 DEF WtEnd, WriteTaskStates, callVars, peerVars
    <2>5. CASE WtClose
      BY <2>5 DEF WtClose, WriteTaskStates, PeerStates, callVars, peerVars
    <2>6. CASE WtReason
      BY <2>6 DEF WtReason, WriteTaskStates, AbortReasons, callVars, peerVars
    <2>7. CASE WtExit
      BY <2>7 DEF WtExit, WriteTaskStates, callVars, peerVars
    <2>4. CASE WtDrain
      BY <2>4 DEF WtDrain, WriteTaskStates, Drain, Failed, Slots, Errors, callVars, peerVars
    <2> QED
      BY <1>5, <2>1, <2>2, <2>3, <2>4, <2>5, <2>6, <2>7 DEF WriteTask
  <1>6. CASE ReadTask
    <2>1. CASE RtDispatch
      <3> DEFINE m == Head(wire)
      <3>1. m \in Messages /\ wire' \in Seq(Messages)
        BY <2>1 DEF RtDispatch
      <3>2. Delivered(m) \in Slots
        BY <3>1 DEF Delivered, Slots, Messages, Errors
      <3>3. slot' \in [Calls -> Slots] /\ pending' \in [Ids -> Calls \cup {NoCall}]
        BY <2>1, <3>2 DEF RtDispatch
      <3> QED
        BY <2>1, <3>1, <3>3 DEF RtDispatch, callVars, peerVars
    <2>2. CASE RtBadLength
      <3>0. wire # << >> /\ wire' = Tail(wire)
        BY <2>2 DEF RtBadLength
      <3>1. wire' \in Seq(Messages)
        BY <3>0
      <3>2. rt' \in ReadTaskStates /\ abort_reason' \in AbortReasons
        BY <2>2 DEF RtBadLength, ReadTaskStates, AbortReasons
      <3> QED
        BY <2>2, <3>1, <3>2 DEF RtBadLength, callVars, peerVars
    <2>4. CASE RtClosed
      BY <2>4 DEF RtClosed, ReadTaskStates, callVars, peerVars
    <2>3. CASE RtDrain
      BY <2>3 DEF RtDrain, ReadTaskStates, Drain, Failed, Slots, Errors, callVars, peerVars
    <2> QED
      BY <1>6, <2>1, <2>2, <2>3, <2>4 DEF ReadTask
  <1>7. CASE Peer
    <2> USE DEF Messages, Signal, Signals, AllBodies
    <2>1. CASE PeerAccept
      BY <2>1 DEF PeerAccept, PeerStates, callVars, peerVars
    <2>6. CASE PeerVersion
      <3>1. wire' \in Seq(Messages)
        BY <2>6 DEF PeerVersion
      <3>2. peer' \in PeerStates /\ faults' \in Nat
        BY <2>6 DEF PeerVersion, PeerStates
      <3> QED
        BY <2>6, <3>1, <3>2 DEF PeerVersion, callVars, peerVars
    <2>2. CASE PeerRefuse
      BY <2>2 DEF PeerRefuse, PeerStates, callVars, peerVars
    <2>3. CASE PeerFault
      BY <2>3 DEF PeerFault, Garbage, callVars, peerVars
    <2>4. CASE PeerClose
      BY <2>4 DEF PeerClose, PeerStates, callVars, peerVars
    <2>5. ASSUME NEW c \in Calls, PeerAnswer(c) PROVE TypeOK'
      BY <2>5 DEF PeerAnswer, Reply, Packets, callVars, peerVars
    <2> QED
      BY <1>7, <2>1, <2>2, <2>3, <2>4, <2>5, <2>6 DEF Peer
  <1>8. CASE UNCHANGED vars
    BY <1>8 DEF vars, callVars, peerVars
  <1> QED
    BY <1>1, <1>2, <1>3, <1>4, <1>5, <1>6, <1>7, <1>8 DEF Next

(* Every variable keeps its type in every behaviour of the runtime.        *)
THEOREM TypeCorrect == Spec => []TypeOK
  <1>1. Init => TypeOK
    BY InitIndInv DEF IndInv
  <1> QED
    BY <1>1, StepTypeOK, PTL DEF Spec

-----------------------------------------------------------------------------
(* Where packets are after an append to, or a removal from, a queue: a     *)
(* send on the write queue adds the packet of the sending call.            *)
LEMMA QueueAppend ==
  ASSUME NEW p \in Packets, queue \in Seq(Packets), queue' = Append(queue, p)
  PROVE  \A c \in Calls : InQueue(c)' <=> (InQueue(c) \/ p.call = c)
  <1>1. Len(queue') = Len(queue) + 1 /\ queue'[Len(queue) + 1] = p
    OBVIOUS
  <1>2. \A k \in 1 .. Len(queue) : queue'[k] = queue[k]
    OBVIOUS
  <1> QED
    BY <1>1, <1>2 DEF InQueue

(* recv() on the write queue takes away the packet of one call only.       *)
LEMMA QueueTail ==
  ASSUME queue \in Seq(Packets), queue # << >>, queue' = Tail(queue)
  PROVE  \A c \in Calls : InQueue(c) <=> (InQueue(c)' \/ Head(queue).call = c)
  <1>1. Len(queue') = Len(queue) - 1 /\ Len(queue) >= 1 /\ Head(queue) = queue[1]
    OBVIOUS
  <1>2. \A k \in 1 .. Len(queue') : queue'[k] = queue[k + 1]
    OBVIOUS
  <1>3. ASSUME NEW c \in Calls, InQueue(c), Head(queue).call # c PROVE InQueue(c)'
    <2>1. PICK k \in 1 .. Len(queue) : queue[k].call = c
      BY <1>3 DEF InQueue
    <2>2. k - 1 \in 1 .. Len(queue') /\ queue'[k - 1] = queue[k]
      BY <1>1, <1>2, <1>3, <2>1
    <2> QED
      BY <2>1, <2>2 DEF InQueue
  <1>4. ASSUME NEW c \in Calls, InQueue(c)' PROVE InQueue(c)
    BY <1>1, <1>2, <1>4 DEF InQueue
  <1> QED
    BY <1>1, <1>3, <1>4 DEF InQueue

(* A message from the peer concerns the call it answers and no other.      *)
LEMMA WireAppend ==
  ASSUME NEW m \in Messages, wire \in Seq(Messages), wire' = Append(wire, m)
  PROVE  \A c \in Calls : OnWire(c)' <=> (OnWire(c) \/ m.of = c)
  <1>1. Len(wire') = Len(wire) + 1 /\ wire'[Len(wire) + 1] = m
    OBVIOUS
  <1>2. \A k \in 1 .. Len(wire) : wire'[k] = wire[k]
    OBVIOUS
  <1> QED
    BY <1>1, <1>2 DEF OnWire

(* Reading a message from the channel forgets the call it answers only.    *)
LEMMA WireTail ==
  ASSUME wire \in Seq(Messages), wire # << >>, wire' = Tail(wire)
  PROVE  \A c \in Calls : OnWire(c) <=> (OnWire(c)' \/ Head(wire).of = c)
  <1>1. Len(wire') = Len(wire) - 1 /\ Len(wire) >= 1 /\ Head(wire) = wire[1]
    OBVIOUS
  <1>2. \A k \in 1 .. Len(wire') : wire'[k] = wire[k + 1]
    OBVIOUS
  <1>3. ASSUME NEW c \in Calls, OnWire(c), Head(wire).of # c PROVE OnWire(c)'
    <2>1. PICK k \in 1 .. Len(wire) : wire[k].of = c
      BY <1>3 DEF OnWire
    <2>2. k - 1 \in 1 .. Len(wire') /\ wire'[k - 1] = wire[k]
      BY <1>1, <1>2, <1>3, <2>1
    <2> QED
      BY <2>1, <2>2 DEF OnWire
  <1>4. ASSUME NEW c \in Calls, OnWire(c)' PROVE OnWire(c)
    BY <1>1, <1>2, <1>4 DEF OnWire
  <1> QED
    BY <1>1, <1>3, <1>4 DEF OnWire

(* What travels belongs to a call, except the messages that answer none.   *)
LEMMA PacketOwners ==
  ASSUME TypeOK
  PROVE  /\ \A k \in 1 .. Len(queue) : queue[k].call \in Calls
         /\ \A p \in server : p.call \in Calls
         /\ \A k \in 1 .. Len(wire) : wire[k].of \in Calls \cup {NoCall}
  <1>1. \A k \in 1 .. Len(queue) : queue[k] \in Packets
    BY DEF TypeOK
  <1>2. \A k \in 1 .. Len(wire) : wire[k] \in Messages
    BY DEF TypeOK
  <1>3. server \subseteq Packets
    BY DEF TypeOK
  <1> QED
    BY <1>1, <1>2, <1>3 DEF Packets, Messages

(* Steps that touch neither the calls, the map nor any packet.             *)
LEMMA QuietStep ==
  ASSUME IndInv, TypeOK',
         UNCHANGED <<pending, pc, id, slot, queue, server, wire, reused>>,
         conn = "running" => conn' = "running",
         wt' = "recv" => wt = "recv",
         rt' = "running" => rt = "running",
         peer' = "serving" => peer = "serving"
  PROVE  IndInv'
  <1>1. \A c \in Calls : /\ InQueue(c)' <=> InQueue(c)
                         /\ AtServer(c)' <=> AtServer(c)
                         /\ OnWire(c)' <=> OnWire(c)
    BY DEF InQueue, AtServer, OnWire
  <1>2. NoCallBeforeRunning' /\ PendingOwner' /\ UnfiledIsEmpty'
    BY DEF IndInv, NoCallBeforeRunning, PendingOwner, UnfiledIsEmpty
  <1>3. PacketsAreSent'
    BY DEF IndInv, PacketsAreSent, Sent
  <1>4. NotStolen' /\ NoCrossDelivery' /\ WaiterIsTracked'
    BY <1>1 DEF IndInv, NotStolen, UnderWay, NoCrossDelivery, WaiterIsTracked
  <1> QED
    BY <1>2, <1>3, <1>4 DEF IndInv

(* The client takes a message off the wire without touching the map: it    *)
(* is still negotiating, or the read task stops.                           *)
LEMMA SkipStep ==
  ASSUME IndInv, TypeOK',
         wire # << >>, wire' = Tail(wire),
         UNCHANGED <<pending, pc, id, slot, queue, server, reused>>,
         conn = "running" => conn' = "running" /\ rt' # "running"
  PROVE  IndInv'
  <1>0. TypeOK /\ wire \in Seq(Messages)
    BY DEF IndInv, TypeOK
  <1>1. \A c \in Calls : /\ InQueue(c)' <=> InQueue(c)
                         /\ AtServer(c)' <=> AtServer(c)
                         /\ OnWire(c)' => OnWire(c)
    BY <1>0, WireTail DEF InQueue, AtServer
  <1>2. NoCallBeforeRunning' /\ PendingOwner' /\ UnfiledIsEmpty'
    BY DEF IndInv, NoCallBeforeRunning, PendingOwner, UnfiledIsEmpty
  <1>3. PacketsAreSent'
    <2>1. \A k \in 1 .. Len(wire') : k + 1 \in 1 .. Len(wire) /\ wire'[k] = wire[k + 1]
      BY <1>0
    <2> QED
      BY <2>1 DEF IndInv, PacketsAreSent, Sent
  <1>4. NotStolen' /\ NoCrossDelivery'
    BY <1>1 DEF IndInv, NotStolen, UnderWay, NoCrossDelivery
  <1>5. WaiterIsTracked'
    BY DEF IndInv, NoCallBeforeRunning, WaiterIsTracked
  <1> QED
    BY <1>2, <1>3, <1>4, <1>5 DEF IndInv

(* Both tasks empty the map the same way; the task that does it is then    *)
(* past its work.                                                          *)
LEMMA DrainStep ==
  ASSUME NEW why, IndInv, TypeOK', Drain(why),
         UNCHANGED <<conn, pc, id, queue, server, wire, reused>>,
         wt' # "recv" \/ rt' # "running"
  PROVE  IndInv'
  <1>1. \A c \in Calls : /\ InQueue(c)' <=> InQueue(c)
                         /\ AtServer(c)' <=> AtServer(c)
                         /\ OnWire(c)' <=> OnWire(c)
    BY DEF InQueue, AtServer, OnWire
  <1>2. NoCallBeforeRunning' /\ PendingOwner'
    BY DEF IndInv, NoCallBeforeRunning, PendingOwner, Drain
  <1>6. UnfiledIsEmpty'
    <2> SUFFICES ASSUME NEW c \in Calls, pc[c] \in {"idle", "insert"}
                 PROVE  slot'[c].kind = "empty"
      BY DEF UnfiledIsEmpty
    <2>1. ~ \E i \in Ids : pending[i] = c
      BY ConstantsAssumption DEF IndInv, PendingOwner
    <2> QED
      BY <2>1 DEF IndInv, UnfiledIsEmpty, Drain
  <1>3. PacketsAreSent'
    BY DEF IndInv, PacketsAreSent, Sent
  <1>4. NotStolen' /\ NoCrossDelivery'
    BY ConstantsAssumption, <1>1
    DEF IndInv, TypeOK, NotStolen, UnderWay, NoCrossDelivery, Drain, Failed
  <1>5. WaiterIsTracked'
    BY DEF WaiterIsTracked
  <1> QED
    BY <1>2, <1>3, <1>4, <1>5, <1>6 DEF IndInv

(* The peer sends something that answers no call.                          *)
LEMMA SignalStep ==
  ASSUME NEW m \in Messages, m.of = NoCall, m.body = "malformed",
         IndInv, TypeOK', wire' = Append(wire, m),
         UNCHANGED <<conn, pending, pc, id, slot, queue, wt, rt, reused>>,
         server' = server \/ (server' = {} /\ peer' = "closed"),
         peer' = "serving" => peer = "serving" \/ conn # "running"
  PROVE  IndInv'
  <1>0. TypeOK /\ wire \in Seq(Messages)
    BY DEF IndInv, TypeOK
  <1>1. \A c \in Calls : /\ InQueue(c)' <=> InQueue(c)
                         /\ AtServer(c)' => AtServer(c)
                         /\ OnWire(c)' <=> OnWire(c)
    BY <1>0, WireAppend, ConstantsAssumption DEF InQueue, AtServer
  <1>2. NoCallBeforeRunning' /\ PendingOwner' /\ UnfiledIsEmpty'
    BY DEF IndInv, NoCallBeforeRunning, PendingOwner, UnfiledIsEmpty
  <1>3. PacketsAreSent'
    <2>1. /\ \A k \in 1 .. Len(wire) : wire'[k] = wire[k]
          /\ Len(wire') = Len(wire) + 1 /\ wire'[Len(wire) + 1] = m
      BY <1>0
    <2>2. \A k \in 1 .. Len(wire') : k \in 1 .. Len(wire) \/ wire'[k] = m
      BY <1>0, <2>1
    <2> QED
      BY <2>1, <2>2 DEF IndInv, PacketsAreSent, Sent
  <1>4. NotStolen' /\ NoCrossDelivery'
    BY <1>1 DEF IndInv, NotStolen, UnderWay, NoCrossDelivery
  <1>5. WaiterIsTracked'
    BY <1>1 DEF IndInv, WaiterIsTracked, NoCallBeforeRunning, AtServer
  <1> QED
    BY <1>2, <1>3, <1>4, <1>5 DEF IndInv

(* write_task takes the head of the queue: it reaches the peer, or the     *)
(* channel is closed and it is lost.                                       *)
LEMMA WriteStep ==
  ASSUME IndInv, TypeOK', queue # << >>, queue' = Tail(queue),
         UNCHANGED <<conn, pending, pc, id, slot, rt, peer, wire, reused>>,
         wt' = "recv" => wt = "recv",
         \/ server' = server \cup {Head(queue)}
         \/ server' = server /\ peer = "closed"
  PROVE  IndInv'
  <1>0. TypeOK /\ queue \in Seq(Packets)
    BY DEF IndInv, TypeOK
  <1>1. Head(queue) = queue[1] /\ 1 \in 1 .. Len(queue)
    BY <1>0
  <1>2. \A c \in Calls : /\ OnWire(c)' <=> OnWire(c)
                         /\ InQueue(c) <=> (InQueue(c)' \/ Head(queue).call = c)
    BY <1>0, QueueTail DEF OnWire
  <1>3. \A c \in Calls : /\ AtServer(c) => AtServer(c)'
                         /\ AtServer(c)' => AtServer(c) \/ Head(queue).call = c
                         /\ peer = "serving" /\ Head(queue).call = c => AtServer(c)'
    BY DEF AtServer
  <1>4. NoCallBeforeRunning' /\ PendingOwner' /\ UnfiledIsEmpty'
    BY DEF IndInv, NoCallBeforeRunning, PendingOwner, UnfiledIsEmpty
  <1>5. PacketsAreSent'
    <2>1. \A k \in 1 .. Len(queue') : k + 1 \in 1 .. Len(queue) /\ queue'[k] = queue[k + 1]
      BY <1>0
    <2> QED
      BY <1>1, <2>1 DEF IndInv, PacketsAreSent, Sent
  <1>6. NotStolen'
    BY <1>2, <1>3 DEF IndInv, NotStolen, UnderWay
  <1>7. NoCrossDelivery'
    BY DEF IndInv, NoCrossDelivery
  <1>8. WaiterIsTracked'
    BY <1>2, <1>3 DEF IndInv, WaiterIsTracked
  <1> QED
    BY <1>4, <1>5, <1>6, <1>7, <1>8 DEF IndInv

(* write_task returns and drops what is queued.                            *)
LEMMA ExitStep ==
  ASSUME IndInv, TypeOK', WtExit PROVE IndInv'
  <1>1. \A c \in Calls : /\ ~InQueue(c)'
                         /\ AtServer(c)' <=> AtServer(c)
                         /\ OnWire(c)' <=> OnWire(c)
    BY DEF InQueue, AtServer, OnWire, WtExit, peerVars
  <1> USE DEF IndInv, WtExit, callVars, peerVars
  <1>2. NoCallBeforeRunning' /\ PendingOwner' /\ UnfiledIsEmpty'
    BY DEF NoCallBeforeRunning, PendingOwner, UnfiledIsEmpty
  <1>3. PacketsAreSent'
    BY DEF PacketsAreSent, Sent
  <1>4. NotStolen' /\ NoCrossDelivery' /\ WaiterIsTracked'
    BY <1>1 DEF NotStolen, UnderWay, NoCrossDelivery, WaiterIsTracked
  <1> QED
    BY <1>2, <1>3, <1>4

(* dispatch_response: the reply's id leads to the call that asked, or to   *)
(* nobody.                                                                 *)
LEMMA DispatchStep ==
  ASSUME IndInv, TypeOK', RtDispatch PROVE IndInv'
  <1> DEFINE m == Head(wire)
  <1>0. TypeOK /\ wire \in Seq(Messages)
    BY DEF IndInv, TypeOK
  <1>1. m = wire[1] /\ 1 \in 1 .. Len(wire) /\ m \in Messages /\ m.id \in Ids
    <2>1. wire # << >>
      BY DEF RtDispatch
    <2>2. m = wire[1] /\ 1 \in 1 .. Len(wire) /\ m \in Messages
      BY <1>0, <2>1
    <2> QED
      BY <2>2 DEF Messages
  <1>2. \A c \in Calls : /\ InQueue(c)' <=> InQueue(c)
                         /\ AtServer(c)' <=> AtServer(c)
                         /\ OnWire(c) <=> (OnWire(c)' \/ m.of = c)
    BY <1>0, WireTail DEF RtDispatch, InQueue, AtServer, peerVars
  <1>3. /\ m.of = NoCall => m.body = "malformed"
        /\ m.of # NoCall => m.id = id[m.of] /\ m.of \in Calls /\ OnWire(m.of)
    BY <1>1, ConstantsAssumption DEF IndInv, PacketsAreSent, Messages, OnWire
  <1>4. Delivered(m).kind \in {"ok", "err"} /\ Delivered(m).of = m.of
        /\ (Delivered(m).kind = "ok" => m.body # "malformed")
    BY DEF Delivered
  <1>5. /\ pending' = [pending EXCEPT ![m.id] = NoCall]
        /\ slot' = [c \in Calls |-> IF c = pending[m.id] THEN Delivered(m) ELSE slot[c]]
        /\ UNCHANGED <<conn, pc, id, wt, rt, peer, reused>>
        /\ UNCHANGED <<queue, server>>
        /\ wire' = Tail(wire)
    BY DEF RtDispatch, peerVars
  <1>6. NoCallBeforeRunning' /\ PendingOwner'
    BY <1>0, <1>1, <1>5, ConstantsAssumption
    DEF IndInv, TypeOK, NoCallBeforeRunning, PendingOwner
  <1>7. UnfiledIsEmpty'
    BY <1>1, <1>5, ConstantsAssumption DEF IndInv, PendingOwner, UnfiledIsEmpty
  <1>8. PacketsAreSent'
    <2>1. \A k \in 1 .. Len(wire') : k + 1 \in 1 .. Len(wire) /\ wire'[k] = wire[k + 1]
      BY <1>0, <1>5
    <2> QED
      BY <1>5, <2>1 DEF IndInv, PacketsAreSent, Sent
  <1>9. NotStolen'
    BY <1>0, <1>1, <1>2, <1>5 DEF IndInv, TypeOK, NotStolen, UnderWay
  <1>10. NoCrossDelivery'
    <2> SUFFICES ASSUME ~reused, NEW c \in Calls
                 PROVE  /\ slot'[c].of \in {c, NoCall}
                        /\ slot'[c].kind = "ok" => slot'[c].of = c
      BY <1>5 DEF NoCrossDelivery
    <2>1. CASE c # pending[m.id]
      BY <1>5, <2>1 DEF IndInv, NoCrossDelivery
    <2>2. CASE c = pending[m.id]
      <3>1. m.of # NoCall => m.of = c
        BY <1>3, <2>2, ConstantsAssumption DEF IndInv, NotStolen, UnderWay
      <3> QED
        BY <1>3, <1>4, <1>5, <2>2, <3>1
    <2> QED
      BY <2>1, <2>2
  <1>11. WaiterIsTracked'
    <2> SUFFICES ASSUME NEW c \in Calls, pc[c] \in {"send", "wait"}, slot'[c].kind = "empty",
                        rt = "running", wt = "recv"
                 PROVE  /\ pending'[id[c]] = c
                        /\ (pc[c] = "wait" /\ peer = "serving")
                           => InQueue(c)' \/ AtServer(c)' \/ OnWire(c)'
      BY <1>5 DEF WaiterIsTracked
    <2>1. c # pending[m.id] /\ slot[c].kind = "empty"
      BY <1>4, <1>5
    <2>2. pending[id[c]] = c /\ id[c] # m.id /\ m.of # c
      BY <1>3, <2>1, ConstantsAssumption DEF IndInv, WaiterIsTracked
    <2>3. pending'[id[c]] = c
      BY <1>0, <1>1, <1>5, <2>2 DEF TypeOK
    <2> QED
      BY <1>2, <2>1, <2>2, <2>3 DEF IndInv, WaiterIsTracked
  <1> QED
    BY <1>6, <1>7, <1>8, <1>9, <1>10, <1>11 DEF IndInv

(* next_request_id: a fresh call owns nothing yet.                         *)
LEMMA NextRequestIdStep ==
  ASSUME NEW c \in Calls, IndInv, TypeOK', NextRequestId(c) PROVE IndInv'
  <1>0. TypeOK
    BY DEF IndInv
  <1>1. \A d \in Calls : /\ InQueue(d)' <=> InQueue(d)
                         /\ AtServer(d)' <=> AtServer(d)
                         /\ OnWire(d)' <=> OnWire(d)
    BY DEF NextRequestId, InQueue, AtServer, OnWire, peerVars
  <1>2. /\ pc[c] = "idle" /\ conn = "running"
        /\ pc' = [pc EXCEPT ![c] = "insert"] /\ id' = [id EXCEPT ![c] = next_id]
        /\ UNCHANGED <<conn, pending, slot, queue, wt, rt, peer, server, wire, reused>>
    BY DEF NextRequestId, peerVars
  <1>3. \A d \in Calls : d # c => pc'[d] = pc[d] /\ id'[d] = id[d]
    BY <1>0, <1>2 DEF TypeOK
  <1>4. pc'[c] = "insert"
    BY <1>0, <1>2 DEF TypeOK
  <1>5. NoCallBeforeRunning' /\ UnfiledIsEmpty'
    BY <1>2, <1>3, <1>4 DEF IndInv, NoCallBeforeRunning, UnfiledIsEmpty
  <1>6. PendingOwner'
    BY <1>0, <1>2, <1>3 DEF IndInv, TypeOK, PendingOwner
  <1>7. ~Sent(c) /\ \A d \in Calls : Sent(d) => d # c /\ Sent(d)'
    BY <1>2, <1>3 DEF Sent
  <1>8. PacketsAreSent'
    BY <1>0, <1>2, <1>3, <1>7, PacketOwners DEF IndInv, PacketsAreSent
  <1>9. ~UnderWay(c)
    BY <1>2, <1>7, ConstantsAssumption
    DEF IndInv, PacketsAreSent, UnderWay, InQueue, AtServer, OnWire
  <1>10. NotStolen'
    BY <1>1, <1>2, <1>3, <1>4, <1>9 DEF IndInv, NotStolen, UnderWay
  <1>11. NoCrossDelivery' /\ WaiterIsTracked'
    BY <1>1, <1>2, <1>3, <1>4 DEF IndInv, NoCrossDelivery, WaiterIsTracked
  <1> QED
    BY <1>5, <1>6, <1>8, <1>10, <1>11 DEF IndInv

(* Filing the oneshot under the call's id; the sender it replaces is       *)
(* dropped.                                                                *)
LEMMA InsertStep ==
  ASSUME NEW c \in Calls, IndInv, TypeOK', Insert(c) PROVE IndInv'
  <1>0. TypeOK /\ id[c] \in Ids
    BY DEF IndInv, TypeOK
  <1>1. \A d \in Calls : /\ InQueue(d)' <=> InQueue(d)
                         /\ AtServer(d)' <=> AtServer(d)
                         /\ OnWire(d)' <=> OnWire(d)
    BY DEF Insert, InQueue, AtServer, OnWire, peerVars
  <1>2. /\ pc[c] = "insert" /\ pc' = [pc EXCEPT ![c] = "send"]
        /\ pending' = [pending EXCEPT ![id[c]] = c]
        /\ slot' = [d \in Calls |-> IF d = pending[id[c]] THEN SenderDropped ELSE slot[d]]
        /\ reused' = (reused \/ InUse(id[c]))
        /\ UNCHANGED <<conn, id, queue, wt, rt, peer, server, wire>>
    BY DEF Insert, peerVars
  <1>3. pc'[c] = "send" /\ \A d \in Calls : d # c => pc'[d] = pc[d]
    BY <1>0, <1>2 DEF TypeOK
  <1>4. pending'[id[c]] = c /\ \A i \in Ids : i # id[c] => pending'[i] = pending[i]
    BY <1>0, <1>2 DEF TypeOK
  <1>5. pending[id[c]] # c /\ slot'[c].kind = "empty"
    BY <1>0, <1>2, ConstantsAssumption DEF IndInv, PendingOwner, UnfiledIsEmpty
  <1>6. NoCallBeforeRunning'
    BY <1>2, <1>3 DEF IndInv, NoCallBeforeRunning
  <1>7. PendingOwner'
    <2> SUFFICES ASSUME NEW i \in Ids, pending'[i] # NoCall
                 PROVE  /\ id[pending'[i]] = i
                        /\ slot'[pending'[i]].kind = "empty"
                        /\ pc'[pending'[i]] \notin {"idle", "insert"}
      BY <1>2 DEF PendingOwner
    <2>1. CASE i = id[c]
      BY <1>3, <1>4, <1>5, <2>1
    <2>2. CASE i # id[c]
      <3> DEFINE d == pending[i]
      <3>1. d \in Calls /\ pending'[i] = d
        BY <1>0, <1>4, <2>2 DEF TypeOK
      <3>2. id[d] = i /\ slot[d].kind = "empty" /\ pc[d] \notin {"idle", "insert"}
        BY <1>4, <2>2 DEF IndInv, PendingOwner
      <3>3. pending[id[c]] # d
        BY <1>0, <3>1, <3>2, <2>2, ConstantsAssumption DEF IndInv, PendingOwner
      <3> QED
        BY <1>2, <1>3, <3>1, <3>2, <3>3
    <2> QED
      BY <2>1, <2>2
  <1>8. UnfiledIsEmpty'
    BY <1>0, <1>2, <1>3, ConstantsAssumption DEF IndInv, PendingOwner, UnfiledIsEmpty
  <1>9. PacketsAreSent'
    <2>1. \A d \in Calls : Sent(d) => Sent(d)'
      BY <1>2, <1>3 DEF Sent
    <2> QED
      BY <1>0, <1>2, <2>1, PacketOwners DEF IndInv, PacketsAreSent
  <1>10. NotStolen'
    <2> SUFFICES ASSUME ~reused, ~InUse(id[c]), NEW d \in Calls, UnderWay(d)'
                 PROVE  pending'[id[d]] \in {d, NoCall}
      BY <1>2 DEF NotStolen
    <2>1. CASE d = c
      BY <1>4, <2>1
    <2>2. CASE d # c
      <3>1. UnderWay(d)
        BY <1>1, <1>3, <2>2 DEF UnderWay
      <3>2. id[d] # id[c]
        BY <1>0, <3>1, ConstantsAssumption
        DEF IndInv, PacketsAreSent, UnderWay, InUse, InQueue, AtServer, OnWire
      <3> QED
        BY <1>0, <1>4, <3>1, <3>2 DEF IndInv, TypeOK, NotStolen
    <2> QED
      BY <2>1, <2>2
  <1>11. NoCrossDelivery'
    BY <1>2 DEF IndInv, NoCrossDelivery, SenderDropped
  <1>12. WaiterIsTracked'
    <2> SUFFICES ASSUME NEW d \in Calls, pc'[d] \in {"send", "wait"}, slot'[d].kind = "empty",
                        rt = "running", wt = "recv"
                 PROVE  /\ pending'[id[d]] = d
                        /\ (pc'[d] = "wait" /\ peer = "serving")
                           => InQueue(d)' \/ AtServer(d)' \/ OnWire(d)'
      BY <1>2 DEF WaiterIsTracked
    <2>1. CASE d = c
      BY <1>3, <1>4, <2>1
    <2>2. CASE d # c
      <3>1. pc[d] = pc'[d] /\ d # pending[id[c]] /\ slot[d].kind = "empty"
        BY <1>2, <1>3, <2>2 DEF SenderDropped
      <3>2. /\ pending[id[d]] = d
            /\ (pc[d] = "wait" /\ peer = "serving") => InQueue(d) \/ AtServer(d) \/ OnWire(d)
        BY <3>1 DEF IndInv, WaiterIsTracked
      <3> QED
        BY <1>0, <1>1, <1>4, <3>1, <3>2 DEF TypeOK
    <2> QED
      BY <2>1, <2>2
  <1> QED
    BY <1>6, <1>7, <1>8, <1>9, <1>10, <1>11, <1>12 DEF IndInv

(* The packet enters the write queue, or the queue is gone and the call    *)
(* returns.                                                                *)
LEMMA SendStep ==
  ASSUME NEW c \in Calls, IndInv, TypeOK', Send(c) PROVE IndInv'
  <1>0. TypeOK /\ queue \in Seq(Packets) /\ Packet(c) \in Packets
    BY DEF IndInv, TypeOK, Packet, Packets
  <1>1. /\ pc[c] = "send"
        /\ UNCHANGED <<conn, pending, id, slot, wt, rt, peer, server, wire, reused>>
    BY DEF Send, peerVars
  <1>2. /\ pc'[c] \in {"wait", "done"} /\ \A d \in Calls : d # c => pc'[d] = pc[d]
        /\ pc'[c] = "wait" => queue' = Append(queue, Packet(c))
        /\ pc'[c] = "done" => queue' = queue /\ wt # "recv"
    BY <1>0 DEF TypeOK, Send
  <1>3. \A d \in Calls : /\ InQueue(d) => InQueue(d)'
                         /\ InQueue(d)' => InQueue(d) \/ d = c
                         /\ pc'[c] = "wait" => InQueue(c)'
    <2>1. CASE pc'[c] = "wait"
      BY <1>0, <1>2, <2>1, QueueAppend DEF Packet
    <2>2. CASE pc'[c] = "done"
      BY <1>2, <2>2 DEF InQueue
    <2> QED
      BY <1>2, <2>1, <2>2
  <1>4. \A d \in Calls : (AtServer(d)' <=> AtServer(d)) /\ (OnWire(d)' <=> OnWire(d))
    BY <1>1 DEF AtServer, OnWire
  <1>5. NoCallBeforeRunning' /\ UnfiledIsEmpty'
    BY <1>1, <1>2 DEF IndInv, NoCallBeforeRunning, UnfiledIsEmpty
  <1>6. PendingOwner'
    BY <1>0, <1>1, <1>2 DEF IndInv, TypeOK, PendingOwner
  <1>7. PacketsAreSent'
    <2>1. Sent(c)' /\ \A d \in Calls : Sent(d) => Sent(d)'
      BY <1>1, <1>2 DEF Sent
    <2>2. \A k \in 1 .. Len(queue') :
             \/ k \in 1 .. Len(queue) /\ queue'[k] = queue[k]
             \/ queue'[k] = Packet(c)
      BY <1>0, <1>2
    <2>3. \A k \in 1 .. Len(queue) :
             queue[k].call \in Calls /\ Sent(queue[k].call) /\ queue[k].id = id[queue[k].call]
      BY <1>0, PacketOwners DEF IndInv, PacketsAreSent
    <2>4. \A k \in 1 .. Len(queue') :
             pc'[queue'[k].call] \in {"wait", "done", "cancelled"}
             /\ queue'[k].id = id[queue'[k].call]
      BY <2>1, <2>2, <2>3 DEF Packet, Sent
    <2> QED
      BY <1>0, <1>1, <2>1, <2>4, PacketOwners DEF IndInv, PacketsAreSent, Sent
  <1>8. NotStolen'
    BY <1>1, <1>2, <1>3, <1>4 DEF IndInv, NotStolen, UnderWay
  <1>9. NoCrossDelivery'
    BY <1>1 DEF IndInv, NoCrossDelivery
  <1>10. WaiterIsTracked'
    <2> SUFFICES ASSUME NEW d \in Calls, pc'[d] \in {"send", "wait"}, slot[d].kind = "empty",
                        rt = "running", wt = "recv"
                 PROVE  /\ pending[id[d]] = d
                        /\ (pc'[d] = "wait" /\ peer = "serving")
                           => InQueue(d)' \/ AtServer(d)' \/ OnWire(d)'
      BY <1>1 DEF WaiterIsTracked
    <2>1. CASE d = c
      BY <1>1, <1>3, <2>1 DEF IndInv, WaiterIsTracked
    <2>2. CASE d # c
      BY <1>2, <1>3, <1>4, <2>2 DEF IndInv, WaiterIsTracked
    <2> QED
      BY <2>1, <2>2
  <1> QED
    BY <1>5, <1>6, <1>7, <1>8, <1>9, <1>10 DEF IndInv

(* A call returns, or its caller drops it.                                 *)
LEMMA LeaveStep ==
  ASSUME NEW c \in Calls, IndInv, TypeOK', Finish(c) \/ Cancel(c) PROVE IndInv'
  <1>0. TypeOK
    BY DEF IndInv
  <1>1. UNCHANGED <<conn, pending, id, slot, queue, wt, rt, peer, server, wire, reused>>
    BY DEF Finish, Cancel, peerVars
  <1>2. /\ pc[c] \in {"insert", "send", "wait"} /\ pc'[c] \in {"done", "cancelled"}
        /\ \A d \in Calls : d # c => pc'[d] = pc[d]
    BY <1>0 DEF TypeOK, Finish, Cancel, Active
  <1>3. \A d \in Calls : /\ InQueue(d)' <=> InQueue(d)
                         /\ AtServer(d)' <=> AtServer(d)
                         /\ OnWire(d)' <=> OnWire(d)
    BY <1>1 DEF InQueue, AtServer, OnWire
  <1>4. NoCallBeforeRunning' /\ UnfiledIsEmpty'
    BY <1>1, <1>2 DEF IndInv, NoCallBeforeRunning, UnfiledIsEmpty
  <1>5. PendingOwner'
    BY <1>0, <1>1, <1>2 DEF IndInv, TypeOK, PendingOwner
  <1>6. PacketsAreSent'
    <2>1. \A d \in Calls : Sent(d) => Sent(d)'
      BY <1>2 DEF Sent
    <2> QED
      BY <1>0, <1>1, <2>1, PacketOwners DEF IndInv, PacketsAreSent
  <1>7. NotStolen'
    BY <1>1, <1>2, <1>3 DEF IndInv, NotStolen, UnderWay
  <1>8. NoCrossDelivery' /\ WaiterIsTracked'
    BY <1>1, <1>2, <1>3 DEF IndInv, NoCrossDelivery, WaiterIsTracked
  <1> QED
    BY <1>4, <1>5, <1>6, <1>7, <1>8 DEF IndInv

(* The peer answers a request it holds.                                    *)
LEMMA AnswerStep ==
  ASSUME NEW c \in Calls, IndInv, TypeOK', PeerAnswer(c) PROVE IndInv'
  <1>0. TypeOK /\ wire \in Seq(Messages)
    BY DEF IndInv, TypeOK
  <1>1. UNCHANGED <<conn, pending, pc, id, slot, queue, wt, rt, peer, reused>>
    BY DEF PeerAnswer, callVars
  <1>2. PICK p \in server, body \in Bodies :
           /\ p.call = c /\ server' = server \ {p}
           /\ wire' = Append(wire, Reply(p, body))
    BY DEF PeerAnswer
  <1> DEFINE m == Reply(p, body)
  <1>3. m \in Messages /\ m.of = c /\ m.id = id[c] /\ Sent(c)
    <2>1. p \in Packets /\ body \in AllBodies
      BY <1>0, <1>2, ConstantsAssumption DEF TypeOK
    <2>2. m \in Messages
      BY <2>1 DEF Reply, Packets, Messages
    <2> QED
      BY <1>2, <2>2 DEF IndInv, PacketsAreSent, Reply
  <1>4. \A d \in Calls : /\ InQueue(d)' <=> InQueue(d)
                         /\ AtServer(d)' => AtServer(d)
                         /\ AtServer(d) => AtServer(d)' \/ d = c
                         /\ OnWire(d)' <=> (OnWire(d) \/ d = c)
    BY <1>0, <1>1, <1>2, <1>3, WireAppend DEF InQueue, AtServer
  <1>5. AtServer(c)
    BY <1>2 DEF AtServer
  <1>6. NoCallBeforeRunning' /\ PendingOwner' /\ UnfiledIsEmpty'
    BY <1>1 DEF IndInv, NoCallBeforeRunning, PendingOwner, UnfiledIsEmpty
  <1>7. PacketsAreSent'
    <2>1. \A k \in 1 .. Len(wire') :
             \/ k \in 1 .. Len(wire) /\ wire'[k] = wire[k]
             \/ wire'[k] = m
      BY <1>0, <1>2, <1>3
    <2>2. m.of # NoCall
      BY <1>3, ConstantsAssumption
    <2> QED
      BY <1>1, <1>2, <1>3, <2>1, <2>2 DEF IndInv, PacketsAreSent, Sent
  <1>8. NotStolen'
    BY <1>1, <1>4, <1>5 DEF IndInv, NotStolen, UnderWay
  <1>9. NoCrossDelivery'
    BY <1>1 DEF IndInv, NoCrossDelivery
  <1>10. WaiterIsTracked'
    BY <1>1, <1>4 DEF IndInv, WaiterIsTracked
  <1> QED
    BY <1>6, <1>7, <1>8, <1>9, <1>10 DEF IndInv

-----------------------------------------------------------------------------

(* Every step of the runtime and of its peer preserves the invariant.      *)
LEMMA StepIndInv == IndInv /\ [Next]_vars => IndInv'
  <1> SUFFICES ASSUME IndInv, [Next]_vars PROVE IndInv'
    OBVIOUS
  <1>0. TypeOK'
    BY StepTypeOK DEF IndInv
  <1>1. CASE Connect
    BY <1>0, <1>1, QuietStep DEF Connect, callVars, peerVars
  <1>2. CASE ConnectRead
    BY <1>0, <1>2, SkipStep DEF ConnectRead, callVars, peerVars
  <1>3. ASSUME NEW c \in Calls, CallStep(c) PROVE IndInv'
    BY <1>0, <1>3, NextRequestIdStep, InsertStep, SendStep, LeaveStep DEF CallStep
  <1>4. CASE DropClient
    BY <1>0, <1>4, QuietStep DEF DropClient, callVars, peerVars
  <1>5. CASE WriteTask
    <2>1. CASE WtWrite
      BY <1>0, <2>1, WriteStep DEF WtWrite, callVars
    <2>2. CASE WtWriteFail
      BY <1>0, <2>2, WriteStep DEF WtWriteFail, callVars, peerVars
    <2>3. CASE WtEnd
      BY <1>0, <2>3, QuietStep DEF WtEnd, callVars, peerVars
    <2>4. CASE WtClose
      BY <1>0, <2>4, QuietStep DEF WtClose, callVars
    <2>5. CASE WtReason
      BY <1>0, <2>5, QuietStep DEF WtReason, callVars, peerVars
    <2>6. CASE WtDrain
      BY <1>0, <2>6, DrainStep DEF WtDrain, peerVars
    <2>7. CASE WtExit
      BY <1>0, <2>7, ExitStep
    <2> QED
      BY <1>5, <2>1, <2>2, <2>3, <2>4, <2>5, <2>6, <2>7 DEF WriteTask
  <1>6. CASE ReadTask
    <2>1. CASE RtDispatch
      BY <1>0, <2>1, DispatchStep
    <2>2. CASE RtBadLength
      BY <1>0, <2>2, SkipStep DEF RtBadLength, callVars, peerVars
    <2>3. CASE RtDrain
      BY <1>0, <2>3, DrainStep DEF RtDrain, peerVars
    <2>4. CASE RtClosed
      BY <1>0, <2>4, SkipStep DEF RtClosed, callVars, peerVars
    <2> QED
      BY <1>6, <2>1, <2>2, <2>3, <2>4 DEF ReadTask
  <1>7. CASE Peer
    <2>0. \A t \in Signals : /\ Signal(t) \in Messages
                             /\ Signal(t).of = NoCall /\ Signal(t).body = "malformed"
      BY ConstantsAssumption DEF Signal, Messages, AllBodies, Ids
    <2>1. CASE PeerAccept
      BY <1>0, <2>0, <2>1, SignalStep DEF PeerAccept, callVars, Signals
    <2>2. CASE PeerVersion
      <3>1. PICK v \in Signals : wire' = Append(wire, Signal(v))
        BY <2>2 DEF PeerVersion, Signals
      <3> QED
        BY <1>0, <2>0, <2>2, <3>1, SignalStep DEF PeerVersion, callVars
    <2>3. CASE PeerRefuse
      BY <1>0, <2>0, <2>3, SignalStep DEF PeerRefuse, callVars, Signals
    <2>4. CASE PeerFault
      <3>1. PICK m \in Messages : /\ wire' = Append(wire, m)
                                  /\ m.of = NoCall /\ m.body = "malformed"
        <4>1. Garbage \in Messages /\ Garbage.of = NoCall /\ Garbage.body = "malformed"
          BY ConstantsAssumption DEF Garbage, Messages, AllBodies, Ids
        <4> QED
          BY <2>0, <2>4, <4>1 DEF PeerFault, Signals
      <3> QED
        BY <1>0, <2>4, <3>1, SignalStep DEF PeerFault, callVars
    <2>5. CASE PeerClose
      BY <1>0, <2>0, <2>5, SignalStep DEF PeerClose, callVars, Signals
    <2>6. ASSUME NEW c \in Calls, PeerAnswer(c) PROVE IndInv'
      BY <1>0, <2>6, AnswerStep
    <2> QED
      BY <1>7, <2>1, <2>2, <2>3, <2>4, <2>5, <2>6 DEF Peer
  <1>8. CASE UNCHANGED vars
    BY <1>0, <1>8, QuietStep DEF vars, callVars, peerVars
  <1> QED
    BY <1>1, <1>2, <1>3, <1>4, <1>5, <1>6, <1>7, <1>8 DEF Next

(* The inductive invariant holds in every state of the runtime.            *)
LEMMA AlwaysIndInv == Spec => []IndInv
  BY InitIndInv, StepIndInv, PTL DEF Spec

(* dispatch_response never hands a call the response to another call, as   *)
(* long as no id is filed again while it is still in use.                  *)
THEOREM ResponsesReachTheirCall == Spec => []NoCrossDelivery
  <1>1. IndInv => NoCrossDelivery
    BY DEF IndInv
  <1> QED
    BY <1>1, AlwaysIndInv, PTL

(* send_and_await never loses track of a request while read_task and       *)
(* write_task are both at work.                                            *)
THEOREM NoRequestIsLost == Spec => []WaiterIsTracked
  <1>1. IndInv => WaiterIsTracked
    BY DEF IndInv
  <1> QED
    BY <1>1, AlwaysIndInv, PTL
=============================================================================
