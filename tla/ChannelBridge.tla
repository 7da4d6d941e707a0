--------------------------- MODULE ChannelBridge ----------------------------
(***************************************************************************)
(* Streams over one SSH channel: ShellHandle and ShellAsyncIo of           *)
(* crates/russh-extra/src/shell.rs, TunnelStream of tunnel.rs, and the     *)
(* tasks behind the last two, run_channel_bridge and                       *)
(* run_tunnel_stream_bridge.                                               *)
(*                                                                         *)
(* A shell is read through its handle until into_async_io turns it into a  *)
(* stream; a tunnel stream has its bridge from the start.  The bridge task *)
(* owns the channel and is joined to the stream by two unbounded queues,   *)
(* one of chunks to read and one of commands.  Bytes are numbered in the   *)
(* order the peer sends them, writes in the order the user makes them.     *)
(***************************************************************************)
EXTENDS Naturals, Sequences, Functions

CONSTANTS
    MaxBytes,    \* bytes the peer sends
    MaxBlanks,   \* messages without data that it sends
    MaxWrites    \* writes of the user

ASSUME BridgeAssumption ==
    MaxBytes \in Nat /\ MaxBlanks \in Nat /\ MaxWrites \in Nat

VARIABLES
    kind,      \* "shell" or "tunnel"
    user,      \* what the user holds: a "handle", a "stream", or nothing: "gone"
    task,      \* the bridge: "none", "select", "drain" (cmd_closed), or over:
               \* "broken" off by data that nobody reads, otherwise "done"
    chan,      \* messages of the peer that wait() has not returned
    peer,      \* "open", "eof" after its EOF, "closed" after its close
    bytes,     \* how many bytes the peer has sent
    blanks,    \* how many messages without data it has sent
    hbuf,      \* stdout_buf and stderr_buf of a ShellHandle
    closed,    \* the closed flag of a ShellHandle or TunnelStream
    rbuf,      \* read_buf from read_pos on
    rq,        \* chunks the bridge has queued for reading
    cq,        \* commands queued for the bridge
    writes,    \* writes accepted from the user
    eofSent,   \* has the user shut its side down?
    out,       \* what has been issued on the channel
    got,       \* bytes the user has read
    ended,     \* has a read returned 0?
    lost       \* bytes that were buffered in a handle turned into a stream

bridgeVars == <<kind, user, task, chan, peer, bytes, blanks, hbuf, closed, rbuf, rq, cq,
                writes, eofSent, out, got, ended, lost>>

BridgeInit ==
    /\ kind \in {"shell", "tunnel"}
    /\ user = IF kind = "shell" THEN "handle" ELSE "stream"
    /\ task = IF kind = "shell" THEN "none" ELSE "select"
    /\ chan = <<>> /\ peer = "open" /\ bytes = 0 /\ blanks = 0
    /\ hbuf = [stdout |-> <<>>, stderr |-> <<>>]
    /\ closed = FALSE
    /\ rbuf = <<>> /\ rq = <<>> /\ cq = <<>>
    /\ writes = 0 /\ eofSent = FALSE /\ out = <<>>
    /\ got = <<>> /\ ended = FALSE /\ lost = <<>>

Msg(t, d) == [t |-> t, d |-> d]
Min2(a, b) == IF a < b THEN a ELSE b
First(s, n) == SubSeq(s, 1, Min2(n, Len(s)))
Rest(s, n) == SubSeq(s, n + 1, Len(s))

(* A read that returns data, with room for n bytes: of an empty message it *)
(* returns 0, as at the end.                                               *)
Give(data, n) == got' = got \o First(data, n) /\ ended' = (data = <<>>)
GiveEnd == ended' = TRUE /\ UNCHANGED got

(* The user does not read on after a read that returned 0.                 *)
Reading(holds) == user = holds /\ ~ended

-----------------------------------------------------------------------------
(* ShellHandle: the user reads the channel itself.                         *)

(* Mutant: the part of a chunk that does not fit is dropped.               *)
Bug_DropRest(stream, data, n) ==
    /\ Give(data, n)
    /\ UNCHANGED <<hbuf, closed>>

(* A message with data: the part that does not fit is kept.                *)
HandleData(stream, data, n) ==
    /\ Give(data, n)
    /\ hbuf' = [hbuf EXCEPT ![stream] = @ \o Rest(data, n)]
    /\ UNCHANGED closed

(* ShellHandle::read with a buffer of n bytes: stdout_buf, then            *)
(* stderr_buf, then the channel, whose other messages are passed over.     *)
HandleRead(n) ==
    /\ Reading("handle")
    /\ IF hbuf.stdout \o hbuf.stderr # <<>>
       THEN LET s == IF hbuf.stdout # <<>> THEN "stdout" ELSE "stderr" IN
            /\ Give(hbuf[s], n)
            /\ hbuf' = [hbuf EXCEPT ![s] = Rest(@, n)]
            /\ UNCHANGED <<closed, chan>>
       ELSE \/ closed /\ GiveEnd /\ UNCHANGED <<hbuf, closed, chan>>
            \/ /\ ~closed /\ chan # <<>>
               /\ chan' = Tail(chan)
               /\ LET m == Head(chan) IN
                  \/ m.t = "data" /\ HandleData("stdout", m.d, n)
                  \/ m.t = "extended" /\ HandleData("stderr", m.d, n)
                  \/ m.t = "close" /\ closed' = TRUE /\ GiveEnd /\ UNCHANGED hbuf
                  \/ m.t = "eof" /\ UNCHANGED <<hbuf, closed, got, ended>>
    /\ UNCHANGED <<kind, user, task, peer, bytes, blanks, rbuf, rq, cq, writes, eofSent, out, lost>>

(* write, write_all, resize, signal, send_eof and close of a ShellHandle   *)
(* act on the channel directly.                                            *)
HandleWrite ==
    /\ user = "handle" /\ ~eofSent /\ writes < MaxWrites
    /\ writes' = writes + 1
    /\ out' = Append(out, <<"write", writes'>>)
    /\ UNCHANGED <<kind, user, task, chan, peer, bytes, blanks, hbuf, closed, rbuf, rq, cq,
                   eofSent, got, ended, lost>>

HandleEof ==
    /\ user = "handle" /\ ~eofSent
    /\ eofSent' = TRUE
    /\ out' = Append(out, <<"eof", writes>>)
    /\ UNCHANGED <<kind, user, task, chan, peer, bytes, blanks, hbuf, closed, rbuf, rq, cq,
                   writes, got, ended, lost>>

HandleClose ==
    /\ user = "handle"
    /\ user' = "gone"
    /\ out' = Append(out, <<"close", writes>>)
    /\ UNCHANGED <<kind, task, chan, peer, bytes, blanks, hbuf, closed, rbuf, rq, cq, writes,
                   eofSent, got, ended, lost>>

(* into_async_io: the channel goes to the bridge task; what the handle had *)
(* buffered is dropped with it.                                            *)
IntoAsyncIo ==
    /\ user = "handle"
    /\ user' = "stream" /\ task' = "select"
    /\ lost' = hbuf.stdout \o hbuf.stderr
    /\ hbuf' = [stdout |-> <<>>, stderr |-> <<>>]
    /\ closed' = FALSE /\ eofSent' = FALSE /\ ended' = FALSE
    /\ UNCHANGED <<kind, chan, peer, bytes, blanks, rbuf, rq, cq, writes, out, got>>

-----------------------------------------------------------------------------
(* ShellAsyncIo and TunnelStream.                                          *)

(* poll_read: the rest of the last chunk first, then the next; the end of  *)
(* the stream when the bridge is gone and its queue empty.                 *)
PollRead(n) ==
    /\ Reading("stream")
    /\ \/ rbuf # <<>> /\ Give(rbuf, n) /\ rbuf' = Rest(rbuf, n) /\ UNCHANGED <<rq, closed>>
       \/ /\ rbuf = <<>> /\ rq # <<>>
          /\ Give(Head(rq), n) /\ rbuf' = Rest(Head(rq), n) /\ rq' = Tail(rq)
          /\ UNCHANGED closed
       \/ /\ rbuf = <<>> /\ rq = <<>> /\ task = "done"
          /\ GiveEnd /\ closed' = (kind = "tunnel") /\ UNCHANGED <<rbuf, rq>>
    /\ UNCHANGED <<kind, user, task, chan, peer, bytes, blanks, hbuf, cq, writes, eofSent, out, lost>>

(* A command for the bridge; it fails once the bridge is gone.             *)
Queue(c) == task # "done" /\ cq' = Append(cq, c)

(* poll_write, TunnelStream::write, ShellAsyncIo::resize and signal.       *)
StreamWrite ==
    /\ user = "stream" /\ ~eofSent /\ writes < MaxWrites
    /\ Queue(<<"write", writes + 1>>)
    /\ writes' = writes + 1
    /\ UNCHANGED <<kind, user, task, chan, peer, bytes, blanks, hbuf, closed, rbuf, rq,
                   eofSent, out, got, ended, lost>>

(* poll_shutdown, TunnelStream::send_eof.                                  *)
StreamShutdown ==
    /\ user = "stream" /\ ~eofSent
    /\ IF task = "done" THEN UNCHANGED cq ELSE Queue(<<"eof", writes>>)
    /\ eofSent' = TRUE
    /\ UNCHANGED <<kind, user, task, chan, peer, bytes, blanks, hbuf, closed, rbuf, rq,
                   writes, out, got, ended, lost>>

(* The stream is dropped: both its ends of the queues go.                  *)
StreamDrop ==
    /\ user = "stream"
    /\ user' = "gone"
    /\ rbuf' = <<>> /\ rq' = <<>>
    /\ UNCHANGED <<kind, task, chan, peer, bytes, blanks, hbuf, closed, cq, writes, eofSent,
                   out, got, ended, lost>>

(* TunnelStream::close queues the command and drops the stream.            *)
StreamClose ==
    /\ user = "stream" /\ kind = "tunnel" /\ Queue(<<"close", writes>>)
    /\ user' = "gone"
    /\ rbuf' = <<>> /\ rq' = <<>>
    /\ UNCHANGED <<kind, task, chan, peer, bytes, blanks, hbuf, closed, writes, eofSent,
                   out, got, ended, lost>>

-----------------------------------------------------------------------------
(* The bridge task: one of its two sources, whichever is ready.            *)

(* Mutant: the end of the peer's input ends the bridge.                    *)
Bug_StopAtEof ==
    /\ task \in {"select", "drain"} /\ chan # <<>>
    /\ chan' = Tail(chan)
    /\ LET m == Head(chan) IN
       \/ /\ m.t \in {"data", "extended"}
          /\ rq' = IF user = "stream" THEN Append(rq, m.d) ELSE rq
          /\ UNCHANGED task
       \/ m.t \in {"close", "eof"} /\ task' = "done" /\ UNCHANGED rq
    /\ UNCHANGED <<kind, user, peer, bytes, blanks, hbuf, closed, rbuf, cq, writes, eofSent,
                   out, got, ended, lost>>

(* A message of the channel.  Data is passed on; data nobody can read ends *)
(* the bridge, but not in a shell that already waits for the close only.   *)
(* A tunnel passes extended data over, a shell puts it in the same stream. *)
BridgeMessage ==
    /\ task \in {"select", "drain"} /\ chan # <<>>
    /\ chan' = Tail(chan)
    /\ LET m == Head(chan) IN
       \/ /\ m.t = "data"
          /\ IF user = "stream"
             THEN rq' = Append(rq, m.d) /\ UNCHANGED task
             ELSE task' = (IF task = "drain" THEN "drain" ELSE "broken") /\ UNCHANGED rq
       \/ /\ m.t = "extended"
          /\ rq' = IF user = "stream" /\ kind = "shell" THEN Append(rq, m.d) ELSE rq
          /\ UNCHANGED task
       \/ m.t = "eof" /\ UNCHANGED <<rq, task>>
       \/ m.t = "close" /\ task' = "done" /\ UNCHANGED rq
    /\ UNCHANGED <<kind, user, peer, bytes, blanks, hbuf, closed, rbuf, cq, writes, eofSent,
                   out, got, ended, lost>>

(* wait() returns None on a channel whose close was read already: by the   *)
(* handle that became this stream.                                         *)
BridgeEnded ==
    /\ task \in {"select", "drain"} /\ chan = <<>> /\ peer = "closed"
    /\ task' = "done"
    /\ UNCHANGED <<kind, user, chan, peer, bytes, blanks, hbuf, closed, rbuf, rq, cq, writes,
                   eofSent, out, got, ended, lost>>

(* Mutant: a dropped stream leaves its channel to the peer.                *)
Bug_NoClose ==
    /\ task = "select" /\ cq = <<>> /\ user = "gone"
    /\ task' = "drain" /\ UNCHANGED out
    /\ UNCHANGED <<kind, user, chan, peer, bytes, blanks, hbuf, closed, rbuf, rq, cq, writes,
                   eofSent, got, ended, lost>>

(* cmd_rx.recv() returned None: a tunnel closes its channel, a shell waits *)
(* for the peer to do so.                                                  *)
BridgeNoCommands ==
    /\ task = "select" /\ cq = <<>> /\ user = "gone"
    /\ IF kind = "tunnel" THEN task' = "done" /\ out' = Append(out, <<"close", writes>>)
       ELSE task' = "drain" /\ UNCHANGED out
    /\ UNCHANGED <<kind, user, chan, peer, bytes, blanks, hbuf, closed, rbuf, rq, cq, writes,
                   eofSent, got, ended, lost>>

(* Mutant: the newest command is taken first.                              *)
Bug_LastFirst ==
    /\ task = "select" /\ cq # <<>>
    /\ cq' = SubSeq(cq, 1, Len(cq) - 1)
    /\ out' = Append(out, cq[Len(cq)])
    /\ task' = IF cq[Len(cq)][1] = "close" THEN "done" ELSE task
    /\ UNCHANGED <<kind, user, chan, peer, bytes, blanks, hbuf, closed, rbuf, rq, writes,
                   eofSent, got, ended, lost>>

(* A command is issued on the channel.                                     *)
BridgeCommand ==
    /\ task = "select" /\ cq # <<>>
    /\ cq' = Tail(cq)
    /\ out' = Append(out, Head(cq))
    /\ task' = IF Head(cq)[1] = "close" THEN "done" ELSE task
    /\ UNCHANGED <<kind, user, chan, peer, bytes, blanks, hbuf, closed, rbuf, rq, writes,
                   eofSent, got, ended, lost>>

-----------------------------------------------------------------------------
(* The peer: messages of any number of bytes, none included, an EOF, and   *)
(* the close of the channel, for which the end of the connection stands    *)
(* too.  A tunnel's peer has no extended data to send.                     *)
Range2(a, b) == [i \in 1 .. (b - a) |-> a + i]

PeerSend ==
    /\ peer = "open"
    /\ \E n \in 0 .. MaxBytes, t \in {"data", "extended"} :
          /\ bytes + n <= MaxBytes
          /\ t = "extended" => kind = "shell"
          /\ n = 0 => blanks < MaxBlanks
          /\ blanks' = IF n = 0 THEN blanks + 1 ELSE blanks
          /\ bytes' = bytes + n
          /\ chan' = Append(chan, Msg(t, Range2(bytes, bytes + n)))
    /\ UNCHANGED <<kind, user, task, peer, hbuf, closed, rbuf, rq, cq, writes, eofSent,
                   out, got, ended, lost>>

PeerEof ==
    /\ peer = "open" /\ peer' = "eof"
    /\ chan' = Append(chan, Msg("eof", <<>>))
    /\ UNCHANGED <<kind, user, task, bytes, blanks, hbuf, closed, rbuf, rq, cq, writes, eofSent,
                   out, got, ended, lost>>

PeerClose ==
    /\ peer # "closed" /\ peer' = "closed"
    /\ chan' = Append(chan, Msg("close", <<>>))
    /\ UNCHANGED <<kind, user, task, bytes, blanks, hbuf, closed, rbuf, rq, cq, writes, eofSent,
                   out, got, ended, lost>>

-----------------------------------------------------------------------------
Bridge == BridgeMessage \/ BridgeEnded \/ BridgeNoCommands \/ BridgeCommand

BridgeNext ==
    \/ \E n \in 1 .. 2 : HandleRead(n) \/ PollRead(n)
    \/ HandleWrite \/ HandleEof \/ HandleClose \/ IntoAsyncIo
    \/ StreamWrite \/ StreamShutdown \/ StreamDrop \/ StreamClose
    \/ Bridge
    \/ PeerSend \/ PeerEof \/ PeerClose

BridgeSpec == BridgeInit /\ [][BridgeNext]_bridgeVars

(* The bridge is a task of its own and tokio::select! is fair between its  *)
(* two sources; nothing is promised of the user or the peer.               *)
BridgeFairness ==
    /\ WF_bridgeVars(Bridge)
    /\ SF_bridgeVars(BridgeCommand) /\ SF_bridgeVars(BridgeNoCommands)

FairBridgeSpec == BridgeSpec /\ BridgeFairness

-----------------------------------------------------------------------------
(* The bytes on their way, nearest the reader first.                       *)
Data(messages) == [i \in DOMAIN messages |-> messages[i].d]
Path == <<got, hbuf.stdout, hbuf.stderr, rbuf>> \o rq \o Data(chan)

Increasing(s) == \A i, j \in DOMAIN s : i < j => s[i] < s[j]
Below(A, B) == \A x \in A, y \in B : x < y

(* Chunks that make one increasing sequence when put together.             *)
Ordered(chunks) ==
    \A i, j \in DOMAIN chunks :
        /\ Increasing(chunks[i])
        /\ i < j => Below(Range(chunks[i]), Range(chunks[j]))
In(chunks) == UNION {Range(chunks[i]) : i \in DOMAIN chunks}

(* Every byte that was sent, but for what into_async_io drops.             *)
Wanted == 1 .. bytes \ Range(lost)

(* Nothing is lost, doubled or overtaken between the peer and the reader:  *)
(* what was read, what is buffered in the handle, the stream and the       *)
(* queue, and what is still in the channel are the bytes sent, in order.   *)
(* (into_async_io drops what its handle had buffered; see lost.)           *)
StreamIsIntact ==
    user # "gone" => Ordered(Path) /\ In(Path) = Wanted

(* A read returns 0 only when the peer has closed the channel and every    *)
(* byte it sent has been read, in order, as long as the peer sends no      *)
(* empty message: that reads as the end of an open channel too, with data  *)
(* still to come.                                                          *)
EndMeansAll ==
    ended /\ blanks = 0
        => peer = "closed" /\ Increasing(got) /\ Range(got) = Wanted

(* Writes are issued in the order they were accepted, none is left out,    *)
(* and an EOF or close comes after every write accepted before it.         *)
InOrder(issued, last) ==
    \A i \in DOMAIN issued :
        /\ issued[i][2] \in 0 .. last
        /\ issued[i][1] = "write" => issued[i][2] > 0
        /\ \A n \in 1 .. issued[i][2] : \E j \in 1 .. i : issued[j] = <<"write", n>>
        /\ \A j \in DOMAIN issued :
              issued[i][1] = "write" /\ issued[j][1] = "write" /\ i < j
                  => issued[i][2] < issued[j][2]
WritesInOrder == InOrder(out, writes)

Issued(n) == \E i \in DOMAIN out : out[i] = <<"write", n>>
GivenUp ==
    \/ task = "done" /\ peer = "closed"
    \/ task = "broken" /\ user = "gone"
(* A write that was accepted reaches the channel, unless the peer closes   *)
(* the channel or, once the user has dropped the stream, sends data: the   *)
(* bridge breaks off then and leaves on an open channel what is queued.    *)
(* And the bridge of a tunnel stream that is closed or dropped ends,       *)
(* whatever the peer does.                                                 *)
Released ==
    /\ \A n \in 1 .. MaxWrites : writes = n ~> Issued(n) \/ GivenUp
    /\ kind = "tunnel" /\ user = "gone" ~> task \in {"done", "broken"}

=============================================================================
