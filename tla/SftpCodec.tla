----------------------------- MODULE SftpCodec -----------------------------
(***************************************************************************)
(* The SFTP v3 wire format of sftp/packet.rs, byte by byte: what the       *)
(* encode_ functions put on the wire and what the decode_ functions make   *)
(* of it.  A packet is a sequence of bytes; a string is the sequence of    *)
(* its bytes; an attribute block is its flag set and its optional values.  *)
(*                                                                         *)
(* Every encoder pushes, and every decoder pops, a fixed list of fields:   *)
(* the two tables of layouts say which, and Encode and Decode walk them.   *)
(* TLC counts to 2^31 only, so the number of values of a u32 and of a u64  *)
(* are constants and the flag word, whose top bit is used, is a set.       *)
(***************************************************************************)
EXTENDS Integers, Sequences, SequencesExt, FiniteSets

CONSTANTS
    MaxPacket,    \* MAX_SFTP_PACKET_SIZE
    U32, U64      \* the number of values of a u32 and of a u64: 2^32 and 2^64

MaxNames == 65536           \* the most entries decode_name takes

(* Every length of a packet is a u32, and a number fits its bytes.         *)
ASSUME WidthAssumption ==
    /\ MaxPacket \in Nat \ {0} /\ U32 \in Nat /\ U64 \in Nat
    /\ MaxNames < U32 /\ 4 * (MaxPacket + 64) < U32 /\ U32 <= U64
    /\ (U32 - 1) \div 16777216 < 256
    /\ (((U64 - 1) \div 65536) \div 65536) \div 16777216 < 256

u32 == 0..(U32 - 1)
u64 == 0..(U64 - 1)

(* Option::None; every value on the wire is a natural number.              *)
None == -1
OrZero(v) == IF v = None THEN 0 ELSE v

(* Bytes below 128 are ASCII, hence UTF-8; the model uses no other text.   *)
IsUtf8(s) == \A i \in DOMAIN s : s[i] < 128

FXP == [init |-> 1, version |-> 2, open |-> 3, close |-> 4, read |-> 5,
        write |-> 6, lstat |-> 7, fstat |-> 8, setstat |-> 9,
        fsetstat |-> 10, opendir |-> 11, readdir |-> 12, remove |-> 13,
        mkdir |-> 14, rmdir |-> 15, realpath |-> 16, stat |-> 17,
        rename |-> 18, readlink |-> 19, symlink |-> 20, status |-> 101,
        handle |-> 102, data |-> 103, name |-> 104, attrs |-> 105]

SSH_FX == [OK |-> 0, EOF |-> 1, NO_SUCH_FILE |-> 2, PERMISSION_DENIED |-> 3,
           FAILURE |-> 4, BAD_MESSAGE |-> 5, NO_CONNECTION |-> 6,
           CONNECTION_LOST |-> 7, OP_UNSUPPORTED |-> 8]

-----------------------------------------------------------------------------
(* Attributes.  An attribute block is [flags, v]: v gives every field a    *)
(* number or None.                                                         *)

AttrFields == << [name |-> "size",        flag |-> "SIZE",        width |-> 8],
                 [name |-> "uid",         flag |-> "UIDGID",      width |-> 4],
                 [name |-> "gid",         flag |-> "UIDGID",      width |-> 4],
                 [name |-> "permissions", flag |-> "PERMISSIONS", width |-> 4],
                 [name |-> "atime",       flag |-> "ACMODTIME",   width |-> 4],
                 [name |-> "mtime",       flag |-> "ACMODTIME",   width |-> 4] >>

AttrNames == {AttrFields[i].name : i \in DOMAIN AttrFields}
NoMetadata == [n \in AttrNames |-> None]
NoAttrs == [flags |-> {}, v |-> NoMetadata]

Bit(flags, f, b) == IF f \in flags THEN b ELSE 0
FlagWord(flags) ==
    << Bit(flags, "EXTENDED", 128), 0, 0,
       Bit(flags, "SIZE", 1) + Bit(flags, "UIDGID", 2)
         + Bit(flags, "PERMISSIONS", 4) + Bit(flags, "ACMODTIME", 8) >>
FlagsOf(word) ==
    (IF word[1] >= 128 THEN {"EXTENDED"} ELSE {})
      \cup {f \in {"SIZE", "UIDGID", "PERMISSIONS", "ACMODTIME"} :
              (word[4] \div FlagWord({f})[4]) % 2 = 1}

(* SftpMetadata::to_packet: a pair of fields goes out when either is set,  *)
(* the other half as 0; a time, a u64 of the caller, is cast to u32.       *)
Times == {"atime", "mtime"}
to_packet(m) ==
    LET flags == {AttrFields[i].flag :
                    i \in {j \in DOMAIN AttrFields : m[AttrFields[j].name] # None}}
        sent  == {AttrFields[i].name :
                    i \in {j \in DOMAIN AttrFields : AttrFields[j].flag \in flags}}
    IN  [flags |-> flags,
         v |-> [n \in AttrNames |->
                  CASE n \notin sent -> None
                    [] n \in sent \cap Times -> OrZero(m[n]) % U32
                    [] n \in sent \ Times -> OrZero(m[n])]]

(* SftpMetadata::from_packet.                                              *)
from_packet(a) == a.v

-----------------------------------------------------------------------------
(* Encoding.                                                               *)

push_u32(v) == << (v \div 16777216) % 256, (v \div 65536) % 256, (v \div 256) % 256, v % 256 >>
push_u64(v) == push_u32((v \div 65536) \div 65536) \o push_u32(v)
push_bytes(s) == push_u32(Len(s)) \o s
push_attr(a, f) ==
    CASE f.flag \notin a.flags -> <<>>
      [] f.flag \in a.flags /\ f.width = 8 -> push_u64(OrZero(a.v[f.name]))
      [] f.flag \in a.flags /\ f.width = 4 -> push_u32(OrZero(a.v[f.name]))
push_attrs(a) ==
    FlagWord(a.flags) \o FlattenSeq([i \in DOMAIN AttrFields |-> push_attr(a, AttrFields[i])])
push_entry(e) == push_bytes(e.filename) \o push_bytes(e.longname) \o push_attrs(e.attrs)
push_names(es) ==
    push_u32(Len(es)) \o FlattenSeq([i \in DOMAIN es |-> push_entry(es[i])])
push_extensions(x) ==
    push_u32(Len(x)) \o FlattenSeq([i \in DOMAIN x |-> push_bytes(x[i][1]) \o push_bytes(x[i][2])])

Push(kind, v) ==
    CASE kind = "u32" -> push_u32(v)
      [] kind = "u64" -> push_u64(v)
      [] kind \in {"string", "bytes"} -> push_bytes(v)
      [] kind = "attrs" -> push_attrs(v)
      [] kind = "names" -> push_names(v)
      [] kind = "extensions" -> push_extensions(v)

frame(type, payload) == push_u32(1 + Len(payload)) \o <<type>> \o payload

(* What each encode_ function pushes.                                      *)
EncodeLayout ==
    [init     |-> <<"u32", "extensions">>,
     open     |-> <<"u32", "string", "u32", "attrs">>,
     close    |-> <<"u32", "string">>,
     read     |-> <<"u32", "string", "u64", "u32">>,
     write    |-> <<"u32", "string", "u64", "bytes">>,
     stat     |-> <<"u32", "string">>,
     lstat    |-> <<"u32", "string">>,
     fstat    |-> <<"u32", "string">>,
     setstat  |-> <<"u32", "string", "attrs">>,
     opendir  |-> <<"u32", "string">>,
     readdir  |-> <<"u32", "string">>,
     remove   |-> <<"u32", "string">>,
     mkdir    |-> <<"u32", "string", "attrs">>,
     rmdir    |-> <<"u32", "string">>,
     realpath |-> <<"u32", "string">>,
     rename   |-> <<"u32", "string", "string">>,
     readlink |-> <<"u32", "string">>,
     symlink  |-> <<"u32", "string", "string">>,
     fsetstat |-> <<"u32", "string", "attrs">>,
     version  |-> <<"u32", "extensions">>,
     status   |-> <<"u32", "u32", "string", "string">>,
     handle   |-> <<"u32", "string">>,
     data     |-> <<"u32", "bytes">>,
     name     |-> <<"u32", "names">>,
     attrs    |-> <<"u32", "attrs">>]

Encode(op, fields) ==
    LET layout == EncodeLayout[op]
    IN  frame(FXP[op], FlattenSeq([i \in DOMAIN layout |-> Push(layout[i], fields[i])]))

-----------------------------------------------------------------------------
(* Decoding.  A cursor is [ok, pos, out]: the position reached and the     *)
(* values popped so far; a failed check leaves it failed.                  *)

Start == [ok |-> TRUE, pos |-> 0, out |-> <<>>]
Fail(c) == [c EXCEPT !.ok = FALSE]
check_bounds(d, c, needed) == c.ok /\ c.pos + needed <= Len(d)
Took(c, n, v) == [ok |-> TRUE, pos |-> c.pos + n, out |-> Append(c.out, v)]
Onto(out, c) == [ok |-> c.ok, pos |-> c.pos, out |-> out]
Slice(d, c, n) == SubSeq(d, c.pos + 1, c.pos + n)
Num(b) == 16777216 * b[1] + 65536 * b[2] + 256 * b[3] + b[4]

pop_u32(d, c) == IF check_bounds(d, c, 4) THEN Took(c, 4, Num(Slice(d, c, 4))) ELSE Fail(c)
pop_u64(d, c) ==
    IF check_bounds(d, c, 8)
      THEN LET b == Slice(d, c, 8)
           IN  Took(c, 8, 65536 * (65536 * Num(SubSeq(b, 1, 4))) + Num(SubSeq(b, 5, 8)))
      ELSE Fail(c)
pop_bytes(d, c) ==
    LET n   == pop_u32(d, c)
        len == Last(n.out)
        at  == Onto(c.out, n)
    IN  IF n.ok /\ len <= MaxPacket /\ check_bounds(d, at, len)
          THEN Took(at, len, Slice(d, at, len)) ELSE Fail(c)
pop_string(d, c) ==
    LET s == pop_bytes(d, c)
    IN  IF s.ok /\ IsUtf8(Last(s.out)) THEN s ELSE Fail(c)
pop_attr(flags, f, d, c) ==
    CASE f.flag \notin flags -> IF c.ok THEN Took(c, 0, None) ELSE c
      [] f.flag \in flags /\ f.width = 8 -> pop_u64(d, c)
      [] f.flag \in flags /\ f.width = 4 -> pop_u32(d, c)
pop_attrs(d, c) ==
    LET flags == FlagsOf(Slice(d, c, 4))
        after[i \in 0..Len(AttrFields)] ==
            IF i = 0 THEN [ok |-> TRUE, pos |-> c.pos + 4, out |-> <<>>]
                     ELSE pop_attr(flags, AttrFields[i], d, after[i - 1])
        vals  == after[Len(AttrFields)]
        value(n) == vals.out[CHOOSE i \in DOMAIN AttrFields : AttrFields[i].name = n]
        end   == IF "EXTENDED" \in flags THEN pop_u32(d, vals) ELSE vals
    IN  IF \/ ~check_bounds(d, c, 4) \/ ~end.ok
           \/ "EXTENDED" \in flags /\ Last(end.out) > 0
          THEN Fail(c)
          ELSE [ok |-> TRUE, pos |-> end.pos,
                out |-> Append(c.out, [flags |-> flags, v |-> [n \in AttrNames |-> value(n)]])]

AtMost(a, b) == IF a <= b THEN a ELSE b

(* One name entry, or one pair of an extension.                            *)
pop_item(kind, d, c) ==
    LET two == pop_string(d, pop_string(d, c))
    IN  IF kind = "names" THEN pop_attrs(d, two) ELSE two
Item(kind, o) == IF kind = "names" THEN [filename |-> o[1], longname |-> o[2], attrs |-> o[3]] ELSE o

(* count items, each popped onto an empty output.                          *)
AddItem(kind, at, one) ==
    IF at.ok /\ one.ok THEN Onto(Append(at.out, Item(kind, one.out)), one) ELSE Fail(at)
AddAll(c, all) == IF all.ok THEN Onto(Append(c.out, all.out), all) ELSE Fail(c)
PopMany(kind, d, c, count) ==
    LET after[i \in 0..count] ==
            IF i = 0 THEN Onto(<<>>, c)
            ELSE LET at == after[i - 1]
                 IN  AddItem(kind, at, pop_item(kind, d, Onto(<<>>, at)))
    IN  AddAll(c, after[count])

(* The announced count is capped by the payload, at 16 bytes an entry, and *)
(* by MaxNames (decode_name), or at 8 bytes a pair and by 128              *)
(* (decode_version).                                                       *)
NameBytes == 16
Count(kind, announced, remaining) ==
    IF kind = "names" THEN AtMost(AtMost(announced, remaining \div NameBytes), MaxNames)
                      ELSE AtMost(AtMost(announced, remaining \div 8), 128)
pop_items(kind, d, c) ==
    LET n == pop_u32(d, c)
    IN  IF n.ok THEN PopMany(kind, d, Onto(c.out, n),
                             Count(kind, Last(n.out), Len(d) - n.pos))
                ELSE Fail(c)

Pop(kind, d, c) ==
    CASE ~c.ok -> c
      [] c.ok /\ kind = "u32" -> pop_u32(d, c)
      [] c.ok /\ kind = "u64" -> pop_u64(d, c)
      [] c.ok /\ kind = "string" -> pop_string(d, c)
      [] c.ok /\ kind = "bytes" -> pop_bytes(d, c)
      [] c.ok /\ kind = "attrs" -> pop_attrs(d, c)
      [] c.ok /\ kind \in {"names", "extensions"} -> pop_items(kind, d, c)

(* What each decode_ function pops.                                        *)
DecodeLayout ==
    [init     |-> <<"u32", "extensions">>,
     open     |-> <<"u32", "string", "u32", "attrs">>,
     close    |-> <<"u32", "string">>,
     read     |-> <<"u32", "string", "u64", "u32">>,
     write    |-> <<"u32", "string", "u64", "bytes">>,
     remove   |-> <<"u32", "string">>,
     mkdir    |-> <<"u32", "string", "attrs">>,
     rmdir    |-> <<"u32", "string">>,
     opendir  |-> <<"u32", "string">>,
     readdir  |-> <<"u32", "string">>,
     stat     |-> <<"u32", "string">>,
     lstat    |-> <<"u32", "string">>,
     fstat    |-> <<"u32", "string">>,
     setstat  |-> <<"u32", "string", "attrs">>,
     fsetstat |-> <<"u32", "string", "attrs">>,
     realpath |-> <<"u32", "string">>,
     rename   |-> <<"u32", "string", "string">>,
     readlink |-> <<"u32", "string">>,
     symlink  |-> <<"u32", "string", "string">>,
     version  |-> <<"u32", "extensions">>,
     status   |-> <<"u32", "u32", "string", "string">>,
     handle   |-> <<"u32", "string">>,
     data     |-> <<"u32", "bytes">>,
     name     |-> <<"u32", "names">>,
     attrs    |-> <<"u32", "attrs">>]

Decode(op, payload) ==
    LET layout == DecodeLayout[op]
        after[i \in 0..Len(layout)] ==
            IF i = 0 THEN Start
            ELSE LET c == after[i - 1] IN Pop(layout[i], payload, c)
    IN  after[Len(layout)]

(* The operation a type byte names among ops, or "unknown".                *)
OpOfType(byte, ops) ==
    IF \E op \in ops : FXP[op] = byte THEN CHOOSE op \in ops : FXP[op] = byte ELSE "unknown"

-----------------------------------------------------------------------------
(* Error kinds and status codes.                                           *)

(* The kinds of SftpErrorKind, and "Other" for an error that is not an     *)
(* Error::Sftp.                                                            *)
ErrorKinds == {"NoSuchFile", "PermissionDenied", "Unsupported", "Protocol",
               "UnsupportedVersion", "ChannelIo", "RemoteStatus",
               "UnexpectedResponse", "Other"}

(* Mutant: every refusal is reported as a plain failure.                   *)
Bug_PlainFailure(kind) == SSH_FX.FAILURE

(* sftp_status_from_error.                                                 *)
sftp_status_from_error(kind) ==
    CASE kind = "NoSuchFile" -> SSH_FX.NO_SUCH_FILE
      [] kind = "PermissionDenied" -> SSH_FX.PERMISSION_DENIED
      [] kind = "Unsupported" -> SSH_FX.OP_UNSUPPORTED
      [] kind = "Protocol" -> SSH_FX.BAD_MESSAGE
      [] OTHER -> SSH_FX.FAILURE

(* sftp_error_kind_for_code.                                               *)
sftp_error_kind_for_code(code) ==
    CASE code = SSH_FX.NO_SUCH_FILE -> "NoSuchFile"
      [] code = SSH_FX.PERMISSION_DENIED -> "PermissionDenied"
      [] code = SSH_FX.BAD_MESSAGE -> "Protocol"
      [] code = SSH_FX.OP_UNSUPPORTED -> "Unsupported"
      [] OTHER -> "RemoteStatus"
=============================================================================
