---------------------------- MODULE MCSftpServer ----------------------------
(* Small instances of SftpServer for TLC.                                  *)
EXTENDS SftpServer

CONSTANTS t1, t2

(* One task transfers or lists; the other does anything else meanwhile.    *)
Mixed == [t \in Tasks |-> IF t = t1 THEN {"read", "write", "list"} ELSE {"file", "path", "raw"}]
Lister == [t \in Tasks |-> {"list"}]

PathA == <<97>>
PathB == <<98>>
TwoPaths == {PathA, PathB}

TwoHandles == {<<1>>, <<2>>}

Data3 == <<1, 2, 3>>
AnyWrite == {<<7>>, [i \in 1..80 |-> 7]}

(* Every attribute flag, and of each pair one half only; a time past u32.  *)
PartMeta == [size |-> U32 + 300, uid |-> 7, gid |-> None, permissions |-> 420, atime |-> None, mtime |-> 6]
LateMeta == [NoMetadata EXCEPT !["atime"] = U32 + 5, !["mtime"] = U32 - 1]
SomeMetas == {PartMeta, LateMeta}

Entry(name, meta) == [filename |-> name, longname |-> <<>>, metadata |-> meta]
LongName == <<46, 98, 97, 115, 104>>
ShortName == <<97>>
WideDir == <<Entry(LongName, NoMetadata), Entry(ShortName, PartMeta)>>
NarrowDir == <<Entry(ShortName, NoMetadata), Entry(LongName, NoMetadata)>>
WideOnly == {WideDir}
NarrowOnly == {NarrowDir}

AllPathOps == {"stat", "lstat", "remove", "rename", "mkdir", "rmdir", "realpath",
               "readlink", "symlink", "setstat"}

(* An init of an old and of a new version, an unknown type, a close with   *)
(* no handle, and a length of zero.                                        *)
RawPackets == {Encode("init", <<2, <<>>>>),
               Encode("init", <<3, << <<LongName, ShortName>> >> >>),
               frame(200, push_u32(5)), frame(FXP.close, push_u32(5)), push_u32(0)}
=============================================================================
