----------------------------- MODULE SftpServer -----------------------------
(***************************************************************************)
(* SFTP end to end: callers of the SftpClient API (sftp/mod.rs), their     *)
(* file and directory handles (sftp/types.rs), the bytes of sftp/packet.rs *)
(* on the channel, and the server's SftpServerRuntime (sftp/server.rs)     *)
(* with the application's SftpServerHandler behind it.                     *)
(*                                                                         *)
(* A task is one caller running one program: read_to_vec, write_all, a     *)
(* listing, a file used by hand, one operation on a path, or (a peer that  *)
(* is not this client) one packet of its own making.  Requests leave as    *)
(* bytes, which reach the runtime in chunks cut anywhere; replies come     *)
(* back as packets, since the client's own reassembly, its pending map and *)
(* its failures are the subject of SftpClient.                             *)
(*                                                                         *)
(* handle_data holds the runtime, so no second chunk is taken before the   *)
(* packets of the first are dispatched, one after the other.  The handler  *)
(* is external: a small file system which gives out any handle that is not *)
(* open, reads and lists in batches of any size and may answer any request *)
(* with an error.                                                          *)
(***************************************************************************)
EXTENDS SftpCodec

CONSTANTS
    Tasks,        \* callers
    Programs,     \* the programs each task may run
    PathOps,      \* the operations of a "path" program
    Paths,        \* file names, as byte sequences
    Dirs,         \* directories a server may hold: sequences of name entries
    Metas,        \* metadata to set or to be told
    Content,      \* bytes written, and held by every file at the start
    Writes,       \* the data a "file" program may write in one call
    Raws,         \* packets of a foreign client
    Handles,      \* the handles the server may give out
    ChunkSize,    \* SFTP_CHUNK_SIZE
    Cuts,         \* the sizes of the chunks the channel delivers
    Kinds,        \* the error kinds the handler answers with
    MaxErrors     \* how many requests the handler refuses

Requests == DOMAIN DecodeLayout \ {"version", "status", "handle", "data", "name", "attrs"}
Replies == {"status", "handle", "data", "name", "attrs"}

Nobody == "nobody"          \* the spawned task of a Drop: no one awaits it

(* A packet without its length, as its type byte and its decoder see it:   *)
(* [op, ok, out].                                                          *)
Parsed(packet, ops) ==
    LET op == OpOfType(packet[1], ops)
        d  == Decode(op, Tail(packet))
    IN  IF op = "unknown" THEN [op |-> op, ok |-> FALSE, out |-> <<>>]
                          ELSE [op |-> op, ok |-> d.ok, out |-> d.out]

(* A foreign packet is whole, unless its length is out of range, and asks  *)
(* for nothing: it is an init, of an unknown type or cut short.            *)
Foreign(b) ==
    /\ b \in Seq(Nat) /\ Len(b) >= 4
    /\ LET len == Num(SubSeq(b, 1, 4))
       IN  len \in 1..MaxPacket =>
             /\ Len(b) = 4 + len
             /\ \A p \in {Parsed(SubSeq(b, 5, 4 + len), Requests)} : p.op \in {"unknown", "init"} \/ ~p.ok

(* Strings that the decoder accepts, and what they are parts of.           *)
Texts == {s \in Seq(Nat) : IsUtf8(s) /\ Len(s) <= MaxPacket}
Metadata ==
    {m \in [AttrNames -> Int] :
       \A n \in AttrNames :
          m[n] = None \/ m[n] \in (IF n \in {"uid", "gid", "permissions"} THEN u32 ELSE u64)}
DirEntries == [filename : Texts, longname : Texts, metadata : Metadata]

ASSUME SftpServerAssumption ==
    /\ Nobody \notin Tasks
    /\ PathOps \subseteq {"stat", "lstat", "remove", "rename", "mkdir", "rmdir", "realpath",
                          "readlink", "symlink", "setstat"}
    /\ Paths # {} /\ Paths \subseteq Texts
    /\ \A d \in Dirs : d \in Seq(DirEntries) /\ Len(d) <= MaxNames
    /\ Metas \subseteq Metadata
    /\ Content \in Seq(Nat) /\ Len(Content) < U64
    /\ \A d \in Writes : d \in Seq(Nat) /\ 4 * (Len(d) + 64) < U32
    /\ \A b \in Raws : Foreign(b)
    /\ Handles \subseteq Texts \ {<<>>}
    /\ ChunkSize \in 1..MaxPacket
    /\ Cuts \subseteq Nat \ {0}
    /\ Kinds \subseteq ErrorKinds
    /\ MaxErrors \in Nat

VARIABLES
    task,     \* per task: its program and what it holds
    sent,     \* requests in flight by id: the task, the operation, its fields
    nextId,   \* next_id
    c2s,      \* bytes on the channel that the server has not received
    srv,      \* SftpServerRuntime, and the packets handle_data has cut off
    s2c,      \* replies on their way to the client
    fs,       \* the handler's open handles, files and directory
    errors    \* requests the handler has refused

vars == <<task, sent, nextId, c2s, srv, s2c, fs, errors>>

(* meta is the metadata the caller passed.                                 *)
Idle == [prog |-> "none", end |-> "none", id |-> 0, handle |-> <<>>, path |-> <<>>,
         offset |-> 0, got |-> <<>>, entries |-> <<>>, used |-> FALSE, out |-> "none",
         meta |-> NoMetadata]

Init ==
    /\ task = [t \in Tasks |-> Idle]
    /\ sent = <<>>
    /\ nextId = 10
    /\ c2s = <<>>
    /\ srv = [registered |-> TRUE, buffer |-> <<>>, packets |-> <<>>,
              negotiated |-> FALSE, version |-> 3, failed |-> FALSE]
    /\ s2c = <<>>
    /\ \E d \in Dirs : fs = [open |-> <<>>, files |-> [p \in Paths |-> Content], dir |-> d]
    /\ errors = 0

-----------------------------------------------------------------------------
(* Requests.  Calls holds at most one request <<task, operation, fields>>: *)
(* it gets the next id and its packet is written to the channel.  The ids  *)
(* end with u32 here; their reuse after a wrap is the subject of           *)
(* SftpClient.                                                             *)

Without(f, x) == [y \in DOMAIN f \ {x} |-> f[y]]
With(f, x, v) == [y \in DOMAIN f \cup {x} |-> IF y = x THEN v ELSE f[y]]

(* The packet of a request.                                                *)
Bytes(id, q) == Encode(q.op, <<id>> \o q.args)

Issue(calls, done) ==
    IF calls = <<>> THEN sent' = done /\ UNCHANGED <<nextId, c2s>>
    ELSE LET q == [task |-> calls[1][1], op |-> calls[1][2], args |-> calls[1][3]]
         IN  /\ nextId < U32
             /\ nextId' = nextId + 1
             /\ sent' = With(done, nextId, q)
             /\ c2s' = c2s \o Bytes(nextId, q)

(* The id the next request gets.                                           *)
Ask(r) == [r EXCEPT !.id = nextId]

(* The call returns to its caller; the handle it still owns is dropped,    *)
(* and Drop spawns a close.                                                *)
Finish(r, out) == [r EXCEPT !.id = 0, !.out = out, !.handle = <<>>, !.entries = <<>>]
Dropped(h) == <<Nobody, "close", <<h>>>>

-----------------------------------------------------------------------------
(* The programs' first requests.                                           *)

ReadMode == 1
WriteMode == 26             \* WRITE | CREATE | TRUNCATE

(* One path serves all programs but "file", which may meet it or not.      *)
SomePath == CHOOSE p \in Paths : TRUE

PathArgs(op, p, q, m) ==
    CASE op \in {"rename", "symlink"} -> <<p, q>>
      [] op = "setstat" -> <<p, to_packet(m)>>
      [] op = "mkdir" -> <<p, NoAttrs>>
      [] OTHER -> <<p>>

Begin(t, prog, end, p, m, call) ==
    /\ task[t].prog = "none"
    /\ prog \in Programs[t]
    /\ task' = [task EXCEPT ![t] = Ask([Idle EXCEPT !.prog = prog, !.end = end, !.path = p,
                                                    !.meta = m])]
    /\ Issue(<<call>>, sent)
    /\ UNCHANGED <<srv, s2c, fs, errors>>

StartRead(t) ==
    Begin(t, "read", "close", SomePath, NoMetadata, <<t, "open", <<SomePath, ReadMode, NoAttrs>>>>)
StartWrite(t) ==
    Begin(t, "write", "close", SomePath, NoMetadata, <<t, "open", <<SomePath, WriteMode, NoAttrs>>>>)
StartFile(t) ==
    \E p \in Paths, end \in {"close", "close_file", "drop"} :
        Begin(t, "file", end, p, NoMetadata, <<t, "open", <<p, ReadMode, NoAttrs>>>>)
StartList(t) ==
    \E end \in {"close", "close_file", "drop"} :
        Begin(t, "list", end, SomePath, NoMetadata, <<t, "opendir", <<SomePath>>>>)
StartPath(t) ==
    \E op \in PathOps, q \in Paths \ {SomePath}, m \in Metas :
        Begin(t, "path", "close", SomePath, m, <<t, op, PathArgs(op, SomePath, q, m)>>)

(* A foreign client's packet; nobody waits for an answer to it.            *)
SendRaw(t) ==
    /\ task[t].prog = "none"
    /\ "raw" \in Programs[t]
    /\ \E b \in Raws : c2s' = c2s \o b
    /\ task' = [task EXCEPT ![t] = [Idle EXCEPT !.prog = "raw", !.out = "ok"]]
    /\ UNCHANGED <<sent, nextId, srv, s2c, fs, errors>>

-----------------------------------------------------------------------------
(* The runtime: handle_data.                                               *)

(* One turn of the loop over the buffer: [cut, rest, ok], the packets      *)
(* taken off, what is left of the buffer, and FALSE once a length is out   *)
(* of range.                                                               *)
TakeOff(s) ==
    LET len == Num(SubSeq(s.rest, 1, 4))
    IN  CASE ~s.ok \/ Len(s.rest) < 4 -> s
          [] s.ok /\ Len(s.rest) >= 4 /\ len \notin 1..MaxPacket ->
               [cut |-> <<>>, rest |-> <<>>, ok |-> FALSE]
          [] s.ok /\ Len(s.rest) >= 4 /\ len \in 1..MaxPacket ->
               IF Len(s.rest) < 4 + len THEN s
               ELSE [cut |-> Append(s.cut, SubSeq(s.rest, 5, 4 + len)),
                     rest |-> SubSeq(s.rest, 5 + len, Len(s.rest)), ok |-> TRUE]

(* The loop; a packet has five bytes or more.                              *)
Reassemble(buf) ==
    LET after[n \in 0..(Len(buf) \div 5)] ==
            IF n = 0 THEN [cut |-> <<>>, rest |-> buf, ok |-> TRUE] ELSE TakeOff(after[n - 1])
    IN  TakeOff(after[Len(buf) \div 5])

(* An invalid length forgets the channel, and with it the packets this     *)
(* chunk had already completed.                                            *)
HandleData ==
    /\ c2s # <<>>
    /\ srv.registered
    /\ srv.packets = <<>>
    /\ \E n \in {m \in Cuts : m < Len(c2s)} \cup {Len(c2s)} :
       \E r \in {Reassemble(srv.buffer \o SubSeq(c2s, 1, n))} :
        /\ srv' = IF r.ok THEN [srv EXCEPT !.buffer = r.rest,
                                           !.packets = [i \in DOMAIN r.cut |-> Parsed(r.cut[i], Requests)]]
                          ELSE [srv EXCEPT !.registered = FALSE, !.buffer = <<>>]
        /\ c2s' = SubSeq(c2s, n + 1, Len(c2s))
    /\ UNCHANGED <<task, sent, nextId, s2c, fs, errors>>

(* Data on a channel the runtime does not know: the connection handler     *)
(* has no other use for it.                                                *)
IgnoreData ==
    /\ c2s # <<>>
    /\ ~srv.registered
    /\ c2s' = <<>>
    /\ UNCHANGED <<task, sent, nextId, srv, s2c, fs, errors>>

(* handle_channel_close, when the peer closes the channel after its last   *)
(* call has returned.                                                      *)
ChannelClose ==
    /\ srv.registered
    /\ srv.packets = <<>>
    /\ \A t \in Tasks : task[t].out # "none"
    /\ sent = <<>>
    /\ srv' = [srv EXCEPT !.registered = FALSE, !.buffer = <<>>]
    /\ UNCHANGED <<task, sent, nextId, c2s, s2c, fs, errors>>

-----------------------------------------------------------------------------
(* dispatch_packet: the packet at the head of the list.                    *)

Op == srv.packets[1].op
Id == srv.packets[1].out[1]
Args == Tail(srv.packets[1].out)

(* The next packet is a request op the runtime can decode.                 *)
Asked(op) == srv.packets # <<>> /\ Op = op /\ srv.packets[1].ok

status(id, code) == Encode("status", <<id, code, <<1>>, <<2>>>>)
to_name_entry(e) == [filename |-> e.filename, longname |-> e.longname,
                     attrs |-> to_packet(e.metadata)]

(* What handle_init .. handle_symlink make of the handler's answer.        *)
Response(op, id, ans) ==
    CASE ans.is = "err" -> status(id, sftp_status_from_error(ans.v))
      [] ans.is = "ok" -> status(id, SSH_FX.OK)
      [] ans.is = "unknown" -> status(0, SSH_FX.OP_UNSUPPORTED)
      [] ans.is = "version" -> Encode("version", <<ans.v, <<>>>>)
      [] ans.is = "handle" -> Encode("handle", <<id, ans.v>>)
      [] ans.is = "attrs" -> Encode("attrs", <<id, to_packet(ans.v)>>)
      [] ans.is = "data" /\ ans.v = <<>> -> status(id, SSH_FX.EOF)
      [] ans.is = "data" /\ ans.v # <<>> -> Encode("data", <<id, ans.v>>)
      [] ans.is = "names" /\ op = "readdir" /\ ans.v = <<>> -> status(id, SSH_FX.EOF)
      [] OTHER -> Encode("name", <<id, [i \in DOMAIN ans.v |-> to_name_entry(ans.v[i])]>>)

(* The reply on the wire, and as the client's read task parses it.         *)
ReplyBytes(r) == Response(r.op, r.id, r.ans)
Received(r) == LET b == ReplyBytes(r) IN Parsed(SubSeq(b, 5, Len(b)), Replies)

(* The reply to a request.  The queue holds what the reply is made from:   *)
(* the request as the handler saw it and the answer it gave.               *)
Written(op, id, args, ans) ==
    /\ s2c' = Append(s2c, [op |-> op, id |-> id, args |-> args, ans |-> ans])
    /\ UNCHANGED <<task, sent, nextId, c2s>>

(* The runtime goes on to the next packet, or the reply cannot be written: *)
(* handle_data fails, and the session with it, while what the handler did  *)
(* stays done.  The reply that failed stays in the queue as its last one,  *)
(* and is not delivered.                                                   *)
Popped(s) == [s EXCEPT !.packets = Tail(@)]
Failed(s) == [s EXCEPT !.registered = FALSE, !.buffer = <<>>, !.packets = <<>>, !.failed = TRUE]
NextPacket(s) ==
    \/ srv' = Popped(s) /\ UNCHANGED errors
    \/ srv' = Failed(s) /\ errors < MaxErrors /\ errors' = errors + 1

Answer(ans, fs2) ==
    /\ Written(Op, Id, Args, ans)
    /\ NextPacket(srv)
    /\ fs' = fs2

-----------------------------------------------------------------------------
(* The handler's file system (external).                                   *)

IsOpen(h) == h \in DOMAIN fs.open
Opened(h, p) == [fs EXCEPT !.open = With(fs.open, h, [path |-> p, at |-> 0])]
Spliced(c, off, d) ==
    [i \in 1..(IF Len(c) > off + Len(d) THEN Len(c) ELSE off + Len(d)) |->
       IF i > off /\ i <= off + Len(d) THEN d[i - off] ELSE IF i <= Len(c) THEN c[i] ELSE 0]

BadHandle == [is |-> "err", v |-> "Other"]
Done == [is |-> "ok", v |-> <<>>]

-----------------------------------------------------------------------------
(* One action for each handler of the runtime.                             *)

(* A handler with no handle left answers with an error.                    *)
HandleOpen ==
    /\ Asked("open")
    /\ IF Handles \subseteq DOMAIN fs.open THEN Answer(BadHandle, fs)
       ELSE \E h \in Handles \ DOMAIN fs.open :
              LET p == Args[1]
                  f == Opened(h, p)
              IN  Answer([is |-> "handle", v |-> h],
                         IF Args[2] = WriteMode THEN [f EXCEPT !.files[p] = <<>>] ELSE f)

HandleOpendir ==
    /\ Asked("opendir")
    /\ IF Handles \subseteq DOMAIN fs.open THEN Answer(BadHandle, fs)
       ELSE \E h \in Handles \ DOMAIN fs.open :
              Answer([is |-> "handle", v |-> h], Opened(h, Args[1]))

HandleClose ==
    /\ Asked("close")
    /\ IF IsOpen(Args[1])
         THEN Answer(Done, [fs EXCEPT !.open = Without(fs.open, Args[1])])
         ELSE Answer(BadHandle, fs)

(* A read is answered with at least one byte unless it is at the end.      *)
HandleRead ==
    /\ Asked("read")
    /\ IF ~IsOpen(Args[1]) THEN Answer(BadHandle, fs)
       ELSE LET c    == fs.files[fs.open[Args[1]].path]
                off  == Args[2]
                most == AtMost(Args[3], Len(c) - off)
            IN  IF most <= 0 THEN Answer([is |-> "data", v |-> <<>>], fs)
                ELSE \E n \in 1..most : Answer([is |-> "data", v |-> SubSeq(c, off + 1, off + n)], fs)

HandleWrite ==
    /\ Asked("write")
    /\ IF ~IsOpen(Args[1]) THEN Answer(BadHandle, fs)
       ELSE Answer(Done, [fs EXCEPT !.files[fs.open[Args[1]].path] = Spliced(@, Args[2], Args[3])])

(* A listing continues where it stood, in batches of any size.             *)
HandleReaddir ==
    /\ Asked("readdir")
    /\ IF ~IsOpen(Args[1]) THEN Answer(BadHandle, fs)
       ELSE LET at == fs.open[Args[1]].at
            IN  IF at = Len(fs.dir) THEN Answer([is |-> "names", v |-> <<>>], fs)
                ELSE \E n \in (at + 1)..Len(fs.dir) :
                       Answer([is |-> "names", v |-> SubSeq(fs.dir, at + 1, n)],
                              [fs EXCEPT !.open[Args[1]].at = n])

HandleStat ==
    /\ Asked("stat") \/ Asked("lstat") \/ Asked("fstat")
    /\ \E m \in Metas : Answer([is |-> "attrs", v |-> m], fs)

HandleNames ==
    /\ Asked("realpath") \/ Asked("readlink")
    /\ \E n \in 0..AtMost(1, Len(fs.dir)) : Answer([is |-> "names", v |-> SubSeq(fs.dir, 1, n)], fs)

HandleStatusOnly ==
    /\ \E op \in {"remove", "rename", "mkdir", "rmdir", "setstat", "fsetstat", "symlink"} : Asked(op)
    /\ Answer(Done, fs)

(* The handler refuses: what it does not implement is Unsupported, by the  *)
(* methods of the trait.  A handle it was asked to close is gone all the   *)
(* same.                                                                   *)
HandlerErr ==
    /\ \E op \in Requests \ {"init"} : Asked(op)
    /\ errors < MaxErrors
    /\ \E k \in Kinds : Written(Op, Id, Args, [is |-> "err", v |-> k])
    /\ srv' \in {Popped(srv), Failed(srv)}
    /\ fs' = IF Op = "close" THEN [fs EXCEPT !.open = Without(fs.open, Args[1])] ELSE fs
    /\ errors' = errors + 1

(* handle_init: a version below 3 is answered with 3 and not recorded.     *)
HandleInit ==
    /\ Asked("init")
    /\ \/ /\ Id < 3
          /\ Written("init", 0, Args, [is |-> "version", v |-> 3])
          /\ NextPacket(srv)
       \/ /\ Id >= 3
          /\ \E v \in {2, 4} :
               LET version == IF v > 3 THEN v ELSE 3
               IN  /\ Written("init", 0, Args, [is |-> "version", v |-> version])
                   /\ NextPacket([srv EXCEPT !.version = version, !.negotiated = TRUE])
    /\ UNCHANGED fs

HandleUnknown ==
    /\ srv.packets # <<>> /\ Op = "unknown"
    /\ Written("unknown", 0, <<>>, [is |-> "unknown", v |-> <<>>])
    /\ NextPacket(srv)
    /\ UNCHANGED fs

(* A request that does not decode, or an init the handler refuses, is      *)
(* logged and gets no reply.                                               *)
HandleNothing ==
    /\ srv.packets # <<>> /\ Op # "unknown"
    /\ \/ ~srv.packets[1].ok /\ UNCHANGED errors
       \/ /\ Asked("init") /\ Id >= 3 /\ errors < MaxErrors
          /\ errors' = errors + 1
    /\ srv' = Popped(srv)
    /\ UNCHANGED <<task, sent, nextId, c2s, s2c, fs>>

Server ==
    \/ HandleData \/ IgnoreData \/ ChannelClose
    \/ HandleOpen \/ HandleOpendir \/ HandleClose \/ HandleRead \/ HandleWrite
    \/ HandleReaddir \/ HandleStat \/ HandleNames \/ HandleStatusOnly \/ HandleInit
    \/ HandleUnknown \/ HandleNothing \/ HandlerErr

-----------------------------------------------------------------------------
(* The client's side of a reply.                                           *)

Ok(v) == [ok |-> TRUE, v |-> v]
Err(kind) == [ok |-> FALSE, v |-> kind]

IsReply(pkt) == pkt.ok /\ pkt.out[1] \in DOMAIN sent

entry_from_packet(e) == [filename |-> e.filename, longname |-> e.longname,
                         metadata |-> from_packet(e.attrs)]

(* expect_handle, expect_attrs, expect_name_single, expect_status, read    *)
(* and readdir_batch: what the operation op returns for this reply.        *)
Result(op, pkt) ==
    LET kind == pkt.op
        f    == pkt.out
        code == f[2]
        refused == Err(sftp_error_kind_for_code(code))
        check_status(v) == IF code = SSH_FX.OK THEN Ok(v) ELSE refused
    IN  CASE op \in {"open", "opendir"} ->
               IF kind = "handle" THEN Ok(f[2])
               ELSE IF kind = "status" THEN refused ELSE Err("Protocol")
          [] op \in {"stat", "lstat", "fstat"} ->
               IF kind = "attrs" THEN Ok(from_packet(f[2]))
               ELSE IF kind = "status" THEN refused ELSE Err("Protocol")
          [] op \in {"realpath", "readlink"} ->
               IF kind = "name" THEN IF f[2] = <<>> THEN Err("Protocol") ELSE Ok(f[2][1].filename)
               ELSE IF kind = "status" THEN refused ELSE Err("Protocol")
          [] op = "read" ->
               IF kind = "data" THEN Ok(f[2])
               ELSE IF kind # "status" THEN Err("Protocol")
               ELSE IF code = SSH_FX.EOF THEN Ok(<<>>) ELSE check_status(<<>>)
          [] op = "readdir" ->
               IF kind = "name" THEN Ok([i \in DOMAIN f[2] |-> entry_from_packet(f[2][i])])
               ELSE IF kind # "status" THEN Err("Protocol")
               ELSE IF code = SSH_FX.EOF THEN Ok(<<>>) ELSE check_status(<<>>)
          [] OTHER -> IF kind = "status" THEN check_status(<<>>) ELSE Err("Protocol")

(* The reply with this id answers task t's request op.                     *)
Answered(t, op, id) == sent[id].task = t /\ sent[id].op = op

(* Task t goes on as r, after sending the given requests.                  *)
GoOn(t, id, r, calls) ==
    /\ task' = [task EXCEPT ![t] = r]
    /\ Issue(calls, Without(sent, id))
    /\ s2c' = Tail(s2c)
    /\ UNCHANGED <<srv, fs, errors>>

(* Mutant: a file dropped by an early return is not closed.                *)
Bug_NoClose(t, id) == GoOn(t, id, Finish(task[t], "err"), <<>>)
Fails(t, id) == GoOn(t, id, Finish(task[t], "err"), <<Dropped(task[t].handle)>>)
CloseIt(t, id, r) == GoOn(t, id, Ask(r), <<<<t, "close", <<r.handle>>>>>>)
ReadOn(t, id, r) == GoOn(t, id, Ask(r), <<<<t, "read", <<r.handle, r.offset, ChunkSize>>>>>>)

(* write_all: the chunk at the offset reached, or the close.               *)
WriteOn(t, id, r) ==
    IF r.offset = Len(Content) THEN CloseIt(t, id, r)
    ELSE GoOn(t, id, Ask(r),
              <<<<t, "write", <<r.handle, r.offset,
                  SubSeq(Content, r.offset + 1, AtMost(r.offset + ChunkSize, Len(Content)))>>>>>>)

TakeHandle(t, id, res) ==
    /\ Answered(t, "open", id) \/ Answered(t, "opendir", id)
    /\ LET r == [task[t] EXCEPT !.handle = res.v, !.id = 0]
       IN  IF ~res.ok THEN GoOn(t, id, Finish(task[t], "err"), <<>>)
           ELSE CASE r.prog = "read" -> GoOn(t, id, Ask(r), <<<<t, "fstat", <<r.handle>>>>>>)
                  [] r.prog = "write" -> WriteOn(t, id, r)
                  [] OTHER -> GoOn(t, id, r, <<>>)

(* read_to_vec uses the size only to reserve memory.                       *)
TakeAttrs(t, id, res) ==
    /\ Answered(t, "fstat", id)
    /\ IF task[t].prog = "file" THEN GoOn(t, id, [task[t] EXCEPT !.id = 0], <<>>)
       ELSE IF res.ok THEN ReadOn(t, id, task[t]) ELSE Fails(t, id)

(* Mutant: the offset advances by what was asked for.                      *)
Bug_FixedStride(t, id, res) ==
    /\ Answered(t, "read", id)
    /\ CASE ~res.ok -> Fails(t, id)
         [] res.ok /\ res.v = <<>> -> CloseIt(t, id, task[t])
         [] OTHER -> ReadOn(t, id, [task[t] EXCEPT !.got = @ \o res.v, !.offset = (@ + ChunkSize) % U64])

TakeData(t, id, res) ==
    /\ Answered(t, "read", id)
    /\ CASE ~res.ok -> Fails(t, id)
         [] res.ok /\ res.v = <<>> -> CloseIt(t, id, task[t])
         [] OTHER -> ReadOn(t, id, [task[t] EXCEPT !.got = @ \o res.v, !.offset = (@ + Len(res.v)) % U64])

TakeWritten(t, id, res) ==
    /\ Answered(t, "write", id) \/ Answered(t, "fsetstat", id)
    /\ LET n == AtMost(ChunkSize, Len(Content) - task[t].offset)
       IN  CASE task[t].prog = "file" -> GoOn(t, id, [task[t] EXCEPT !.id = 0], <<>>)
             [] task[t].prog = "write" /\ ~res.ok -> Fails(t, id)
             [] OTHER -> WriteOn(t, id, [task[t] EXCEPT !.offset = @ + n])

(* SftpDir::read: the first entry of a batch is returned and the rest      *)
(* kept; an empty batch is the end of the directory.                       *)
TakeBatch(t, id, res) ==
    /\ Answered(t, "readdir", id)
    /\ CASE ~res.ok -> Fails(t, id)
         [] res.ok /\ res.v = <<>> -> GoOn(t, id, [task[t] EXCEPT !.id = 0, !.used = TRUE], <<>>)
         [] OTHER -> GoOn(t, id, [task[t] EXCEPT !.id = 0, !.got = Append(@, res.v[1]),
                                             !.entries = Tail(res.v)], <<>>)

(* close() marks the handle closed first; close_file and closedir only     *)
(* borrow it, so it is dropped, unmarked, when they return.                *)
TakeClosed(t, id, res) ==
    /\ Answered(t, "close", id)
    /\ LET out == IF res.ok \/ task[t].prog = "read" THEN "ok" ELSE "err"
       IN  GoOn(t, id, Finish(task[t], out),
                IF task[t].end = "close_file" THEN <<Dropped(task[t].handle)>> ELSE <<>>)

TakePath(t, id, res) ==
    /\ \E op \in PathOps : Answered(t, op, id)
    /\ GoOn(t, id, Finish(task[t], IF res.ok THEN "ok" ELSE "err"), <<>>)

(* The reply to a close from Drop, which nobody awaits.                    *)
TakeDropped(id) ==
    /\ Answered(Nobody, "close", id)
    /\ sent' = Without(sent, id)
    /\ s2c' = Tail(s2c)
    /\ UNCHANGED <<task, nextId, c2s, srv, fs, errors>>

(* A reply to no request of this client is dropped.                        *)
TakeStray ==
    /\ s2c' = Tail(s2c)
    /\ UNCHANGED <<task, sent, nextId, c2s, srv, fs, errors>>

(* The first reply was written, and its length is one the read task        *)
(* accepts; at another the read task ends, and reads no later reply.       *)
Readable ==
    /\ ~(srv.failed /\ Len(s2c) = 1)
    /\ Len(ReplyBytes(s2c[1])) - 4 <= MaxPacket

Deliver ==
    /\ s2c # <<>>
    /\ Readable
    /\ \E pkt \in {Received(s2c[1])} :
         \/ ~IsReply(pkt) /\ TakeStray
         \/ /\ IsReply(pkt)
            /\ \E id \in {pkt.out[1]} : \E res \in {Result(sent[id].op, pkt)} :
                 \/ TakeDropped(id)
                 \/ \E t \in Tasks :
                      \/ TakeHandle(t, id, res) \/ TakeAttrs(t, id, res) \/ TakeData(t, id, res)
                      \/ TakeWritten(t, id, res) \/ TakeBatch(t, id, res)
                      \/ TakeClosed(t, id, res) \/ TakePath(t, id, res)

-----------------------------------------------------------------------------
(* A caller with an open file or directory.                                *)

Holds(t) == task[t].prog \in {"file", "list"} /\ task[t].handle # <<>> /\ task[t].id = 0

Use(t, r, calls) ==
    /\ task' = [task EXCEPT ![t] = r]
    /\ Issue(calls, sent)
    /\ UNCHANGED <<srv, s2c, fs, errors>>

(* One write, metadata or set_metadata on a file.                          *)
FileCall(t) ==
    /\ Holds(t) /\ task[t].prog = "file" /\ ~task[t].used
    /\ LET r == Ask([task[t] EXCEPT !.used = TRUE])
           h == task[t].handle
       IN  \/ \E d \in Writes : Use(t, r, <<<<t, "write", <<h, 0, d>>>>>>)
           \/ Use(t, r, <<<<t, "fstat", <<h>>>>>>)
           \/ \E m \in Metas :
                Use(t, [r EXCEPT !.meta = m], <<<<t, "fsetstat", <<h, to_packet(m)>>>>>>)

DirRead(t) ==
    /\ Holds(t) /\ task[t].prog = "list" /\ ~task[t].used
    /\ IF task[t].entries # <<>>
         THEN Use(t, [task[t] EXCEPT !.got = Append(@, Head(task[t].entries)),
                                     !.entries = Tail(@)], <<>>)
         ELSE Use(t, Ask(task[t]), <<<<t, "readdir", <<task[t].handle>>>>>>)

(* The caller is finished with it, the listing read to its end or not.     *)
EndUse(t) ==
    /\ Holds(t)
    /\ IF task[t].end = "drop"
         THEN Use(t, Finish(task[t], "ok"), <<Dropped(task[t].handle)>>)
         ELSE Use(t, Ask(task[t]), <<<<t, "close", <<task[t].handle>>>>>>)

Next ==
    \/ Server
    \/ Deliver
    \/ \E t \in Tasks :
         \/ FileCall(t) \/ DirRead(t) \/ EndUse(t)
         \/ StartRead(t) \/ StartWrite(t) \/ StartFile(t) \/ StartList(t) \/ StartPath(t)
         \/ SendRaw(t)

Spec == Init /\ [][Next]_vars

-----------------------------------------------------------------------------
(* Properties.                                                             *)

(* A name entry as large as the decoder's estimate.                        *)
Wide(es) == \A i \in DOMAIN es : Len(push_entry(to_name_entry(es[i]))) >= 16
Filenames(es) == [i \in DOMAIN es |-> es[i].filename]

(* The error kinds that have a status code of their own.                   *)
Coded == {"NoSuchFile", "PermissionDenied", "Unsupported", "Protocol"}

(* The fields sent under one flag.                                         *)
Together == {{"size"}, {"uid", "gid"}, {"permissions"}, Times}

(* g gives every field that is set in m its value, unless it is a time     *)
(* that does not fit a u32, and nothing for a field that is not set and    *)
(* not the other half of a pair that is.                                   *)
Carried(m, g) ==
    /\ \A n \in AttrNames : m[n] # None /\ (n \in Times => m[n] < U32) => g[n] = m[n]
    /\ \A p \in Together : (\A n \in p : m[n] = None) => \A n \in p : g[n] = None

(* What the caller of op should be told when the handler answers ans.      *)
Told(op, ans, r) ==
    CASE ans.is = "err" -> ~r.ok /\ r.v = (IF ans.v \in Coded THEN ans.v ELSE "RemoteStatus")
      [] ans.is = "attrs" -> r.ok /\ Carried(ans.v, r.v)
      [] ans.is = "names" /\ op = "readdir" -> r.ok /\ (Wide(ans.v) => Filenames(r.v) = Filenames(ans.v))
      [] ans.is = "names" /\ op # "readdir" ->
           Wide(ans.v) => (r.ok <=> ans.v # <<>>) /\ (r.ok => r.v = ans.v[1].filename)
      [] OTHER -> r.ok /\ r.v = ans.v

(* AnswersAreTrue: however the bytes are cut into chunks and however the   *)
(* callers' requests mix, a reply with a caller's id answers that caller's *)
(* request: the handler was given the operation and the arguments the      *)
(* caller passed, and the caller is given the handler's answer, an error   *)
(* kind without a status code of its own becoming RemoteStatus.  Metadata  *)
(* arrives as Carried says, either way: `set_stat` promises "Only `Some`   *)
(* fields in the metadata value are applied", and the unset half of a pair *)
(* is the exception, applied as 0, as is a time past u32, applied cut off  *)
(* (the encoders and decoders of packet.rs, to_packet, handle_data,        *)
(* sftp_error_status and the expect_ functions, taken together).           *)
AnswersAreTrue ==
    \A i \in DOMAIN s2c : \A pkt \in {Received(s2c[i])} :
        IsReply(pkt) =>
            LET q == sent[pkt.out[1]]
            IN  /\ <<s2c[i].op, s2c[i].args>> = <<q.op, q.args>>
                /\ q.op \in {"setstat", "fsetstat"}
                     => Carried(task[q.task].meta, from_packet(s2c[i].args[2]))
                /\ Told(q.op, s2c[i].ans, Result(q.op, pkt))

(* Another task that may change t's file, or close t's handle by closing   *)
(* its own twice.                                                          *)
Disturbed(t) ==
    \E u \in Tasks \ {t} : \/ task[u].end = "close_file"
                           \/ task[u].path = task[t].path /\ task[u].prog \in {"write", "file"}

(* TransfersAreWhole: read_to_vec that succeeds returns the whole file,    *)
(* write_all that succeeds has written all of its data, and a listing read *)
(* to its end has every entry once and in order, however short the reads,  *)
(* however large the batches and whatever the other callers do meanwhile   *)
(* (SftpClient::read_to_vec and write_all, SftpDir::read).                 *)
TransfersAreWhole ==
    \A t \in Tasks :
        ~Disturbed(t) =>
            /\ task[t].prog = "read" /\ task[t].out = "ok" => task[t].got = Content
            /\ task[t].prog = "write" /\ task[t].out = "ok" => fs.files[task[t].path] = Content
            /\ task[t].prog = "list" /\ task[t].used /\ Wide(fs.dir)
                 => Filenames(task[t].got) = Filenames(fs.dir)

(* NothingIsStranded: when nothing is on the wire or being served and no   *)
(* caller has a file or directory in its hands, then no call is waiting    *)
(* and every handle the server gave out has been closed, also after a call *)
(* that failed halfway, a file that was only dropped or one closed twice,  *)
(* unless the channel or the client's read task was lost (SftpFile::close, *)
(* SftpClient::close_file, the Drop implementations, and handle_data's one *)
(* reply to each request).                                                 *)
NothingIsStranded ==
    (c2s = <<>> /\ srv.packets = <<>> /\ s2c = <<>> /\ ~\E t \in Tasks : Holds(t)) =>
        \/ /\ sent = <<>> /\ fs.open = <<>>
           /\ \A t \in Tasks : task[t].prog = "none" \/ task[t].out # "none"
        \/ sent # <<>> /\ ~srv.registered

(* EndMeansEnd: SftpDir::read "Returns `Ok(None)` at end of directory."    *)
EndMeansEnd ==
    \A t \in Tasks : task[t].prog = "list" /\ task[t].used
                        => Filenames(task[t].got) = Filenames(fs.dir)

=============================================================================
