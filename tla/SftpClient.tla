----------------------------- MODULE SftpClient -----------------------------
(***************************************************************************)
(* The SFTP client runtime of crates/russh-extra/src/sftp/client.rs.       *)
(*                                                                         *)
(* Every API call made on a clone of one SftpClient takes a request id,    *)
(* parks a oneshot sender in the shared `pending` map under that id, puts  *)
(* its packet in the bounded write queue and awaits the oneshot.  A write  *)
(* task moves packets from the queue to the SSH channel; a read task takes *)
(* replies from the channel and completes the oneshot filed under the      *)
(* reply's id.  Each critical section of the code holds one mutex and has  *)
(* no await inside, so it is one step here; everything between two awaits  *)
(* or two locks is a step of its own.                                      *)
(*                                                                         *)
(* The peer (an SFTP server behind an SSH channel) is not part of this     *)
(* file: the Peer... actions describe it from how the runtime uses it.     *)
(***************************************************************************)
EXTENDS Naturals, Sequences, FiniteSets

CONSTANTS
    Calls,          \* the API calls; each call sends one request
    NoCall,         \* no call: an empty map entry, a packet nobody asked for
    OpOf,           \* which family of expect_* function each call ends in
    IdModulus,      \* 2^32 in the code (u32 request ids)
    FirstId,        \* 10 in the code
    WriteCapacity,  \* 256 in the code
    Bodies,         \* the kinds of reply the peer gives
    PeerMayRefuse,  \* may the peer refuse the "sftp" subsystem?
    PeerMayClose,   \* may the channel or the connection end under the client?
    MaxFaults       \* bound on the undecodable packets the peer sends

Ids == 0 .. IdModulus - 1

(* open/opendir, status-only calls, stat calls, realpath/readlink, read,   *)
(* readdir.                                                                *)
Ops == {"handle", "status", "attrs", "name", "data", "batch"}

StatusBodies == {"status_ok", "status_eof", "status_err"}

(* "payload" is the typed response the call asked for, "other" a response  *)
(* of another type, "malformed" one whose body does not decode.            *)
AllBodies == StatusBodies \cup {"payload", "empty_name", "other", "malformed"}

ASSUME ConstantsAssumption ==
    /\ NoCall \notin Calls
    /\ OpOf \in [Calls -> Ops]
    /\ IdModulus \in Nat \ {0}
    /\ FirstId \in Ids
    /\ WriteCapacity \in Nat \ {0}
    /\ Bodies \subseteq AllBodies
    /\ PeerMayRefuse \in BOOLEAN
    /\ PeerMayClose \in BOOLEAN
    /\ MaxFaults \in Nat

VARIABLES
    conn,          \* SftpClientRuntime::connect: idle, negotiating, running, failed
    dropped,       \* every clone of write_tx is gone
    next_id,       \* the AtomicU32
    pending,       \* id -> call whose oneshot sender is filed there
    pc,            \* where each call is in send_and_await
    id,            \* the request id of each call
    slot,          \* the oneshot of each call
    result,        \* what the call returned
    queue,         \* the write mpsc
    wt,            \* the write task
    write_error,   \* write_task: the Option its loop breaks with
    rt,            \* the read task
    abort_reason,  \* the shared Option<String>
    peer,          \* the far end of the channel
    server,        \* requests the peer has received and not answered
    wire,          \* what the peer sent and the client has not read
    faults,        \* undecodable packets sent so far
    reused         \* history: an id was filed again while still in use

callVars == <<pc, id, slot, result>>
peerVars == <<peer, server, faults>>
vars == <<conn, dropped, next_id, pending, callVars, queue, wt, write_error,
          rt, abort_reason, peerVars, wire, reused>>

-----------------------------------------------------------------------------

Packet(c) == [id |-> id[c], call |-> c]
Packets == [id : Ids, call : Calls]

(* What travels from the peer.  A "reply" is any framed SFTP packet;       *)
(* one of unknown type, or too short to hold an id, is filed under id 0    *)
(* and belongs to no call.                                                 *)
Reply(p, body) == [t |-> "reply", id |-> p.id, of |-> p.call, body |-> body]
Garbage == [t |-> "reply", id |-> 0, of |-> NoCall, body |-> "malformed"]
Signal(t) == [t |-> t, id |-> 0, of |-> NoCall, body |-> "malformed"]
Signals == {"success", "failure", "version", "old_version", "wrong_type",
            "bad_length", "close"}
Messages == [t : Signals \cup {"reply"}, id : Ids,
             of : Calls \cup {NoCall}, body : AllBodies]

(* The state of a oneshot: the sender is unused, it delivered a response   *)
(* or an error, or it was dropped.                                         *)
Empty == [kind |-> "empty", of |-> NoCall, what |-> "none"]
SenderDropped == [kind |-> "dropped", of |-> NoCall, what |-> "none"]
Failed(why) == [kind |-> "err", of |-> NoCall, what |-> why]
Delivered(m) ==
    IF m.body = "malformed"
    THEN [kind |-> "err", of |-> m.of, what |-> "Protocol"]
    ELSE [kind |-> "ok", of |-> m.of, what |-> m.body]
Errors == {"Protocol", "ChannelIo", "RemoteStatus"}
Slots == [kind : {"empty", "ok", "err", "dropped"},
          of : Calls \cup {NoCall}, what : AllBodies \cup Errors \cup {"none"}]

(* The match at the end of every API method: which responses are a success *)
(* for which family of calls.                                              *)
OkBodies(op) ==
    CASE op = "status" -> {"status_ok"}
      [] op = "data"   -> {"payload", "status_ok", "status_eof"}
      [] op = "batch"  -> {"payload", "empty_name", "status_ok", "status_eof"}
      [] OTHER         -> {"payload"}

Outcome(op, s) ==
    IF s.kind = "dropped" THEN "ChannelIo"
    ELSE IF s.kind = "err" THEN s.what
    ELSE IF s.what \in OkBodies(op) THEN "Ok"
    ELSE IF s.what \in StatusBodies THEN "RemoteStatus"
    ELSE "Protocol"

Active(c) == pc[c] \in {"insert", "send", "wait"}

(* Where the packet of a call, or the reply to it, may be.                 *)
InQueue(c) == \E k \in 1 .. Len(queue) : queue[k].call = c
AtServer(c) == \E p \in server : p.call = c
OnWire(c) == \E k \in 1 .. Len(wire) : wire[k].of = c

(* Is id i still attached to a request that has not run its course?        *)
InUse(i) ==
    \/ pending[i] # NoCall
    \/ \E c \in Calls : pc[c] = "send" /\ id[c] = i
    \/ \E k \in 1 .. Len(queue) : queue[k].id = i
    \/ \E p \in server : p.id = i
    \/ \E k \in 1 .. Len(wire) : wire[k].of # NoCall /\ wire[k].id = i

Init ==
    /\ conn = "idle"
    /\ dropped = FALSE
    /\ next_id = FirstId
    /\ pending = [i \in Ids |-> NoCall]
    /\ pc = [c \in Calls |-> "idle"]
    /\ id = [c \in Calls |-> FirstId]
    /\ slot = [c \in Calls |-> Empty]
    /\ result = [c \in Calls |-> "none"]
    /\ queue = << >>
    /\ wt = "recv"
    /\ write_error = "None"
    /\ rt = "running"
    /\ abort_reason = "none"
    /\ peer = "fresh"
    /\ server = {}
    /\ wire = << >>
    /\ faults = 0
    /\ reused = FALSE

-----------------------------------------------------------------------------
(* Negotiation.                                                            *)

(* Open the channel, request the subsystem and send FXP_INIT.              *)
Connect ==
    /\ conn = "idle"
    /\ \/ /\ peer # "closed"
          /\ conn' = "negotiating"
       \/ /\ peer = "closed"
          /\ conn' = "failed"
    /\ UNCHANGED <<dropped, next_id, pending, callVars, queue, wt, write_error,
                   rt, abort_reason, peerVars, wire, reused>>

(* read_sftp_response: Success, Failure and anything but data and the end  *)
(* of the channel is skipped; the first packet decides.                    *)
ConnectRead ==
    /\ conn = "negotiating"
    /\ wire # << >>
    /\ wire' = Tail(wire)
    /\ \/ Head(wire).t \in {"success", "failure"} /\ UNCHANGED conn
       \/ Head(wire).t = "version" /\ conn' = "running"
       \/ /\ Head(wire).t \notin {"success", "failure", "version"}
          /\ conn' = "failed"
    /\ UNCHANGED <<dropped, next_id, pending, callVars, queue, wt, write_error,
                   rt, abort_reason, peerVars, reused>>

-----------------------------------------------------------------------------
(* A call: next_request_id, then send_and_await.                           *)

(* Mutant: the counter does not wrap at the width of u32.                  *)
Bug_NoWrap(c) ==
    /\ conn = "running" /\ ~dropped
    /\ pc[c] = "idle"
    /\ pc' = [pc EXCEPT ![c] = "insert"]
    /\ id' = [id EXCEPT ![c] = next_id]
    /\ next_id' = next_id + 1
    /\ UNCHANGED <<conn, dropped, pending, slot, result, queue, wt, write_error,
                   rt, abort_reason, peerVars, wire, reused>>

NextRequestId(c) ==
    /\ conn = "running" /\ ~dropped
    /\ pc[c] = "idle"
    /\ pc' = [pc EXCEPT ![c] = "insert"]
    /\ id' = [id EXCEPT ![c] = next_id]
    /\ next_id' = IF next_id = IdModulus - 1 THEN 0 ELSE next_id + 1
    /\ UNCHANGED <<conn, dropped, pending, slot, result, queue, wt, write_error,
                   rt, abort_reason, peerVars, wire, reused>>

(* HashMap::insert drops the sender it replaces.                           *)
Insert(c) ==
    /\ pc[c] = "insert"
    /\ pc' = [pc EXCEPT ![c] = "send"]
    /\ pending' = [pending EXCEPT ![id[c]] = c]
    /\ slot' = [d \in Calls |-> IF d = pending[id[c]] THEN SenderDropped
                                                      ELSE slot[d]]
    /\ reused' = (reused \/ InUse(id[c]))
    /\ UNCHANGED <<conn, dropped, next_id, id, result, queue, wt, write_error,
                   rt, abort_reason, peerVars, wire>>

(* Mutant: try_send, whose failure on a full queue is ignored.             *)
Bug_TrySend(c) ==
    /\ pc[c] = "send"
    /\ queue' = IF wt # "dropped" /\ Len(queue) < WriteCapacity
                THEN Append(queue, Packet(c)) ELSE queue
    /\ pc' = [pc EXCEPT ![c] = "wait"]
    /\ UNCHANGED <<conn, dropped, next_id, pending, id, slot, result, wt,
                   write_error, rt, abort_reason, peerVars, wire, reused>>

(* The bounded queue blocks the sender when full; once write_task has      *)
(* returned its receiver is gone and send fails, leaving the map entry.    *)
Send(c) ==
    /\ pc[c] = "send"
    /\ \/ /\ wt # "dropped"
          /\ Len(queue) < WriteCapacity
          /\ queue' = Append(queue, Packet(c))
          /\ pc' = [pc EXCEPT ![c] = "wait"]
          /\ UNCHANGED result
       \/ /\ wt = "dropped"
          /\ pc' = [pc EXCEPT ![c] = "done"]
          /\ result' = [result EXCEPT ![c] = "ChannelIo"]
          /\ UNCHANGED queue
    /\ UNCHANGED <<conn, dropped, next_id, pending, id, slot, wt, write_error,
                   rt, abort_reason, peerVars, wire, reused>>

(* rx.await returned; a dropped sender also consumes abort_reason.         *)
Finish(c) ==
    /\ pc[c] = "wait"
    /\ slot[c].kind # "empty"
    /\ pc' = [pc EXCEPT ![c] = "done"]
    /\ result' = [result EXCEPT ![c] = Outcome(OpOf[c], slot[c])]
    /\ abort_reason' = IF slot[c].kind = "dropped" THEN "none" ELSE abort_reason
    /\ UNCHANGED <<conn, dropped, next_id, pending, id, slot, queue, wt,
                   write_error, rt, peerVars, wire, reused>>

(* The caller drops the future (a timeout or a select!): the map entry and *)
(* the queued packet stay behind.                                          *)
Cancel(c) ==
    /\ Active(c)
    /\ pc' = [pc EXCEPT ![c] = "cancelled"]
    /\ UNCHANGED <<conn, dropped, next_id, pending, id, slot, result, queue, wt,
                   write_error, rt, abort_reason, peerVars, wire, reused>>

(* The last SftpClient, SftpFile or SftpDir goes away.  A running call     *)
(* borrows one, so none is running.                                        *)
DropClient ==
    /\ conn = "running" /\ ~dropped
    /\ \A c \in Calls : ~Active(c)
    /\ dropped' = TRUE
    /\ UNCHANGED <<conn, next_id, pending, callVars, queue, wt, write_error, rt,
                   abort_reason, peerVars, wire, reused>>

-----------------------------------------------------------------------------
(* write_task.                                                             *)

(* A write to a channel the peer has closed is either reported as an error *)
(* (WtWriteFail) or swallowed by the SSH library.                          *)
WtWrite ==
    /\ conn = "running" /\ wt = "recv"
    /\ queue # << >>
    /\ queue' = Tail(queue)
    /\ server' = IF peer = "closed" THEN server ELSE server \cup {Head(queue)}
    /\ UNCHANGED <<conn, dropped, next_id, pending, callVars, wt, write_error,
                   rt, abort_reason, peer, faults, wire, reused>>

WtWriteFail ==
    /\ conn = "running" /\ wt = "recv"
    /\ queue # << >>
    /\ peer = "closed"
    /\ queue' = Tail(queue)
    /\ write_error' = "Some"
    /\ wt' = "close"
    /\ UNCHANGED <<conn, dropped, next_id, pending, callVars, rt, abort_reason,
                   peerVars, wire, reused>>

(* recv() returns None: no sender left and the queue is empty.             *)
WtEnd ==
    /\ conn = "running" /\ wt = "recv"
    /\ dropped /\ queue = << >>
    /\ wt' = "close"
    /\ UNCHANGED <<conn, dropped, next_id, pending, callVars, queue, write_error,
                   rt, abort_reason, peerVars, wire, reused>>

(* write_half.close(): the peer is told to close the channel.              *)
WtClose ==
    /\ wt = "close"
    /\ wt' = "reason"
    /\ peer' = IF peer = "serving" THEN "told" ELSE peer
    /\ UNCHANGED <<conn, dropped, next_id, pending, callVars, queue, write_error,
                   rt, abort_reason, server, faults, wire, reused>>

WtReason ==
    /\ wt = "reason"
    /\ wt' = "drain"
    /\ abort_reason' = IF write_error = "Some" THEN "write failed"
                                                 ELSE "channel closed"
    /\ UNCHANGED <<conn, dropped, next_id, pending, callVars, queue, write_error,
                   rt, peerVars, wire, reused>>

(* for (_, tx) in map.drain() { tx.send(Err(..)) }                         *)
Drain(why) ==
    /\ pending' = [i \in Ids |-> NoCall]
    /\ slot' = [c \in Calls |-> IF \E i \in Ids : pending[i] = c THEN Failed(why)
                                                                 ELSE slot[c]]

(* Mutant: the write task returns without draining the map.                *)
Bug_WtNoDrain ==
    /\ wt = "drain"
    /\ wt' = "exit"
    /\ UNCHANGED <<conn, dropped, next_id, pending, callVars, queue, write_error,
                   rt, abort_reason, peerVars, wire, reused>>

WtDrain ==
    /\ wt = "drain"
    /\ wt' = "exit"
    /\ Drain("ChannelIo")
    /\ UNCHANGED <<conn, dropped, next_id, pc, id, result, queue, write_error,
                   rt, abort_reason, peerVars, wire, reused>>

(* The function returns: the map guard is released first (WtDrain), the    *)
(* receiver is dropped with what is still queued.                          *)
WtExit ==
    /\ wt = "exit"
    /\ wt' = "dropped"
    /\ queue' = << >>
    /\ UNCHANGED <<conn, dropped, next_id, pending, callVars, write_error, rt,
                   abort_reason, peerVars, wire, reused>>

-----------------------------------------------------------------------------
(* read_task.                                                              *)

(* Mutant: replies are matched to some waiting call, not by their id.      *)
Bug_AnyEntry ==
    /\ conn = "running" /\ rt = "running"
    /\ wire # << >> /\ Head(wire).t = "reply"
    /\ wire' = Tail(wire)
    /\ LET i == IF \E j \in Ids : pending[j] # NoCall
                THEN CHOOSE j \in Ids : pending[j] # NoCall ELSE Head(wire).id
       IN /\ pending' = [pending EXCEPT ![i] = NoCall]
          /\ slot' = [c \in Calls |-> IF c = pending[i]
                                      THEN Delivered(Head(wire)) ELSE slot[c]]
    /\ UNCHANGED <<conn, dropped, next_id, pc, id, result, queue, wt,
                   write_error, rt, abort_reason, peerVars, reused>>

(* dispatch_response: remove the entry filed under the reply's id and      *)
(* complete its oneshot; a reply nobody waits for is ignored.              *)
RtDispatch ==
    /\ conn = "running" /\ rt = "running"
    /\ wire # << >> /\ Head(wire).t = "reply"
    /\ wire' = Tail(wire)
    /\ pending' = [pending EXCEPT ![Head(wire).id] = NoCall]
    /\ slot' = [c \in Calls |-> IF c = pending[Head(wire).id]
                                THEN Delivered(Head(wire)) ELSE slot[c]]
    /\ UNCHANGED <<conn, dropped, next_id, pc, id, result, queue, wt,
                   write_error, rt, abort_reason, peerVars, reused>>

(* A length of 0 or above MAX_SFTP_PACKET_SIZE: the reason first ...       *)
RtBadLength ==
    /\ conn = "running" /\ rt = "running"
    /\ wire # << >> /\ Head(wire).t = "bad_length"
    /\ wire' = Tail(wire)
    /\ abort_reason' = "bad length"
    /\ rt' = "drain"
    /\ UNCHANGED <<conn, dropped, next_id, pending, callVars, queue, wt,
                   write_error, peerVars, reused>>

(* ... then every pending request, then the task returns.                  *)
RtDrain ==
    /\ rt = "drain"
    /\ rt' = "stopped"
    /\ Drain("Protocol")
    /\ UNCHANGED <<conn, dropped, next_id, pc, id, result, queue, wt,
                   write_error, abort_reason, peerVars, wire, reused>>

(* Close or the end of the stream: the loop breaks and nothing else.       *)
RtClosed ==
    /\ conn = "running" /\ rt = "running"
    /\ wire # << >> /\ Head(wire).t = "close"
    /\ wire' = Tail(wire)
    /\ rt' = "stopped"
    /\ UNCHANGED <<conn, dropped, next_id, pending, callVars, queue, wt,
                   write_error, abort_reason, peerVars, reused>>

-----------------------------------------------------------------------------
(* The peer.                                                               *)

PeerAccept ==
    /\ conn = "negotiating" /\ peer = "fresh"
    /\ peer' = "accepted"
    /\ wire' = Append(wire, Signal("success"))
    /\ UNCHANGED <<conn, dropped, next_id, pending, callVars, queue, wt,
                   write_error, rt, abort_reason, server, faults, reused>>

(* The answer to FXP_INIT, or what a faulty peer sends in its place.       *)
PeerVersion ==
    /\ conn = "negotiating" /\ peer = "accepted"
    /\ peer' = "serving"
    /\ \E v \in {"version", "old_version", "wrong_type", "bad_length"} :
          /\ v # "version" => faults < MaxFaults
          /\ faults' = IF v = "version" THEN faults ELSE faults + 1
          /\ wire' = Append(wire, Signal(v))
    /\ UNCHANGED <<conn, dropped, next_id, pending, callVars, queue, wt,
                   write_error, rt, abort_reason, server, reused>>

PeerRefuse ==
    /\ PeerMayRefuse
    /\ conn = "negotiating" /\ peer = "fresh"
    /\ peer' = "refused"
    /\ wire' = Append(wire, Signal("failure"))
    /\ UNCHANGED <<conn, dropped, next_id, pending, callVars, queue, wt,
                   write_error, rt, abort_reason, server, faults, reused>>

(* Requests are answered in any order, each once, under their own id.      *)
PeerAnswer(c) ==
    /\ peer \in {"serving", "told"}
    /\ \E p \in server, body \in Bodies :
          /\ p.call = c
          /\ server' = server \ {p}
          /\ wire' = Append(wire, Reply(p, body))
    /\ UNCHANGED <<conn, dropped, next_id, pending, callVars, queue, wt,
                   write_error, rt, abort_reason, peer, faults, reused>>

PeerFault ==
    /\ peer \in {"serving", "told"}
    /\ faults < MaxFaults
    /\ faults' = faults + 1
    /\ \E m \in {Garbage, Signal("bad_length")} : wire' = Append(wire, m)
    /\ UNCHANGED <<conn, dropped, next_id, pending, callVars, queue, wt,
                   write_error, rt, abort_reason, peer, server, reused>>

(* The channel ends: the peer closes it, answers our close, or the         *)
(* connection is lost.                                                     *)
PeerClose ==
    /\ peer = "told" \/ (PeerMayClose /\ peer # "closed")
    /\ peer' = "closed"
    /\ server' = {}
    /\ wire' = Append(wire, Signal("close"))
    /\ UNCHANGED <<conn, dropped, next_id, pending, callVars, queue, wt,
                   write_error, rt, abort_reason, faults, reused>>

-----------------------------------------------------------------------------

CallStep(c) ==
    NextRequestId(c) \/ Insert(c) \/ Send(c) \/ Finish(c) \/ Cancel(c)

WriteTask == WtWrite \/ WtWriteFail \/ WtEnd \/ WtClose \/ WtReason \/ WtDrain \/ WtExit

ReadTask == RtDispatch \/ RtBadLength \/ RtDrain \/ RtClosed

Peer ==
    \/ PeerAccept \/ PeerVersion \/ PeerRefuse \/ PeerFault \/ PeerClose
    \/ \E c \in Calls : PeerAnswer(c)

Next ==
    \/ Connect \/ ConnectRead
    \/ \E c \in Calls : CallStep(c)
    \/ DropClient
    \/ WriteTask
    \/ ReadTask
    \/ Peer

Spec == Init /\ [][Next]_vars

(* The runtime polls every task and every future that is not dropped; the  *)
(* peer settles the subsystem request, answers every request it holds and  *)
(* acknowledges a close.  A caller need not call, cancel or drop.          *)
Fairness ==
    /\ WF_vars(ConnectRead)
    /\ \A c \in Calls : WF_vars(Insert(c)) /\ WF_vars(Send(c)) /\ WF_vars(Finish(c))
    /\ WF_vars(WriteTask)
    /\ WF_vars(ReadTask)
    /\ WF_vars(PeerAccept \/ PeerRefuse \/ PeerVersion)
    /\ \A c \in Calls : WF_vars(PeerAnswer(c))
    /\ WF_vars(peer = "told" /\ PeerClose)

FairSpec == Spec /\ Fairness

-----------------------------------------------------------------------------
(* Properties.                                                             *)

ConnStates == {"idle", "negotiating", "running", "failed"}
CallStates == {"idle", "insert", "send", "wait", "done", "cancelled"}
WriteTaskStates == {"recv", "close", "reason", "drain", "exit", "dropped"}
ReadTaskStates == {"running", "drain", "stopped"}
AbortReasons == {"none", "bad length", "write failed", "channel closed"}
PeerStates == {"fresh", "refused", "accepted", "serving", "told", "closed"}
Results == {"none", "Ok"} \cup Errors \cup AllBodies

TypeOK ==
    /\ conn \in ConnStates
    /\ dropped \in BOOLEAN
    /\ next_id \in Ids
    /\ pending \in [Ids -> Calls \cup {NoCall}]
    /\ pc \in [Calls -> CallStates]
    /\ id \in [Calls -> Ids]
    /\ slot \in [Calls -> Slots]
    /\ result \in [Calls -> Results]
    /\ queue \in Seq(Packets)
    /\ wt \in WriteTaskStates
    /\ write_error \in {"None", "Some"}
    /\ rt \in ReadTaskStates
    /\ abort_reason \in AbortReasons
    /\ peer \in PeerStates
    /\ server \subseteq Packets
    /\ wire \in Seq(Messages)
    /\ faults \in Nat
    /\ reused \in BOOLEAN

(* A response reaches the call that asked for it: as long as no id has     *)
(* been filed again while still in use (the condition under which the      *)
(* design calls wrapping ids safe), dispatch_response completes a oneshot  *)
(* only with the reply to that oneshot's own request, however the replies  *)
(* are ordered, whoever cancelled and whichever task has already drained   *)
(* the map.                                                                *)
NoCrossDelivery ==
    ~reused => \A c \in Calls :
                  /\ slot[c].of \in {c, NoCall}
                  /\ slot[c].kind = "ok" => slot[c].of = c

(* No request is lost while both tasks are at work: a call that has filed  *)
(* its oneshot and heard nothing is still filed in `pending` under its id, *)
(* and once sent its packet is in the write queue, at the peer, or         *)
(* answered on the wire.                                                   *)
WaiterIsTracked ==
    \A c \in Calls :
       (/\ pc[c] \in {"send", "wait"} /\ slot[c].kind = "empty"
        /\ rt = "running" /\ wt = "recv")
       => /\ pending[id[c]] = c
          /\ (pc[c] = "wait" /\ peer = "serving")
             => InQueue(c) \/ AtServer(c) \/ OnWire(c)

(* As long as the read task is at work every call returns (or is cancelled *)
(* by its caller): also when another call takes its id over, the write     *)
(* queue is full, or writing has failed.                                   *)
EveryCallReturns ==
    \A c \in Calls : Active(c) ~> (~Active(c) \/ rt # "running")

(* A failed write, and an invalid packet length, release every call that   *)
(* is already waiting for a reply.                                         *)
FailureReleases ==
    \A c \in Calls : (pc[c] = "wait" /\ (wt = "close" \/ rt = "drain")) ~> ~Active(c)

(* What the design says of a connection that drops: the calls waiting when *)
(* the read task meets the end of the channel receive an error.            *)
DisconnectReleases ==
    \A c \in Calls :
       (/\ rt = "running" /\ conn = "running"
        /\ wire # << >> /\ Head(wire).t = "close"
        /\ pc[c] = "wait") ~> ~Active(c)

-----------------------------------------------------------------------------
(* The inductive invariant behind NoCrossDelivery and WaiterIsTracked.     *)

(* Nobody calls before the version exchange is over.                       *)
NoCallBeforeRunning == conn # "running" => \A c \in Calls : pc[c] = "idle"

(* A sender in the map is filed under its call's id and is still unused.   *)
PendingOwner ==
    \A i \in Ids : pending[i] # NoCall =>
       /\ id[pending[i]] = i
       /\ slot[pending[i]].kind = "empty"
       /\ pc[pending[i]] \notin {"idle", "insert"}

(* A oneshot that is not filed yet cannot have been completed.             *)
UnfiledIsEmpty ==
    \A c \in Calls : pc[c] \in {"idle", "insert"} => slot[c].kind = "empty"

(* A packet on its way, in either direction, was sent by its call and      *)
(* carries that call's id.                                                 *)
Sent(c) == pc[c] \in {"wait", "done", "cancelled"}
PacketsAreSent ==
    /\ \A k \in 1 .. Len(queue) : Sent(queue[k].call) /\ queue[k].id = id[queue[k].call]
    /\ \A p \in server : Sent(p.call) /\ p.id = id[p.call]
    /\ \A k \in 1 .. Len(wire) :
          IF wire[k].of = NoCall
          THEN wire[k].body = "malformed"
          ELSE Sent(wire[k].of) /\ wire[k].id = id[wire[k].of]

(* Unless an id was reused, the map entry of a request still under way is  *)
(* that request's or nobody's.                                             *)
UnderWay(c) == pc[c] = "send" \/ InQueue(c) \/ AtServer(c) \/ OnWire(c)
NotStolen ==
    ~reused => \A c \in Calls : UnderWay(c) => pending[id[c]] \in {c, NoCall}

IndInv ==
    /\ TypeOK
    /\ NoCallBeforeRunning
    /\ PendingOwner
    /\ UnfiledIsEmpty
    /\ PacketsAreSent
    /\ NotStolen
    /\ NoCrossDelivery
    /\ WaiterIsTracked

=============================================================================
