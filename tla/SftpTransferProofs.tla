------------------------- MODULE SftpTransferProofs -------------------------
(***************************************************************************)
(* That transfers over SftpServer's files and directories are whole, for   *)
(* any callers, files, sizes and packet limits.  The proof builds on       *)
(* SftpServerProofs, whose invariant says that every call is answered with *)
(* what the server did for it.                                             *)
(***************************************************************************)
EXTENDS SftpServerProofs

LEMMA ContentIs ==
    /\ Content \in Seq(Nat) /\ Len(Content) \in Nat /\ Len(Content) < U64 /\ U64 \in Nat
    /\ ChunkSize \in Nat
  BY SftpServerAssumption, WidthAssumption

LEMMA OffsetIs ==
    ASSUME NEW r \in TaskRecs
    PROVE  r.offset \in u64 /\ r.offset \in Nat
  <1>1. r.offset \in u64
    BY DEF TaskRecs
  <1> QED
    BY <1>1, Widths

-----------------------------------------------------------------------------
(* TransfersAreWhole.                                                      *)

(* What caller t waits for, and what has been answered.                    *)
Nothing == [task |-> Nobody, op |-> "nothing", args |-> <<>>]
Asking(t) == IF task[t].id = 0 THEN Nothing ELSE sent[task[t].id]
Heard(t) == {s2c[i].ans : i \in {j \in 1 .. Len(s2c) : task[t].id # 0 /\ s2c[j].id = task[t].id}}
Same(t) == task'[t] = task[t] /\ Asking(t)' = Asking(t) /\ Heard(t)' = Heard(t)

(* Handle h is t's: t has it, with no close answered, or is being told it. *)
Claim(t, h) ==
    \/ task[t].handle = h /\ (Asking(t).op = "close" => Heard(t) = {})
    \/ \E a \in Heard(t) : a.is = "handle" /\ a.v = h
(* A Drop's close of h has still to be answered.                           *)
Leaving(id, h) ==
    id \in DOMAIN sent /\ sent[id].task = Nobody /\ sent[id].args[1] = h /\ Unanswered(id)
(* A handle closed by close_file is closed again by its Drop.              *)
Twice == \E t \in Tasks : task[t].end = "close_file" /\ task[t].out # "none"

(* What t's program says of how it ends, of its path and of its requests.  *)
Modes(t) ==
    /\ task[t].prog \in {"read", "write"} => task[t].end = "close"
    /\ task[t].prog \in {"read", "write", "file", "list"} => task[t].path \in Paths
    /\ Asking(t).op = "open" => (Asking(t).args[2] = WriteMode <=> task[t].prog = "write")
    /\ Asking(t).op = "readdir" => ~task[t].used

(* A handle is claimed by one caller, for whose path it is open, or is     *)
(* being closed by one Drop.                                               *)
Single ==
    \A h \in Handles :
        /\ \A t, u \in Tasks : Claim(t, h) /\ Claim(u, h) => t = u
        /\ \A t \in Tasks : Claim(t, h) => h \in DOMAIN fs.open /\ fs.open[h].path = task[t].path
        /\ \A i : Leaving(i, h) => h \in DOMAIN fs.open /\ \A t \in Tasks : ~Claim(t, h)
        /\ \A i, j : Leaving(i, h) /\ Leaving(j, h) => i = j
(* A file that nobody has opened for writing holds what it held.           *)
Untouched ==
    \A p \in Paths : fs.files[p] = Content
                       \/ \E t \in Tasks : task[t].prog \in {"write", "file"} /\ task[t].path = p

(* read_to_vec has the bytes up to its offset, and is told the next ones.  *)
Next1(o, v) == \E n \in Nat : /\ o + n <= Len(Content) /\ v = SubSeq(Content, o + 1, o + n)
                              /\ n = 0 => o = Len(Content)
Reading(r, q, H) ==
    r.prog = "read" =>
        /\ q.op \in {"open", "fstat"} => r.got = <<>> /\ r.offset = 0
        /\ q.op = "read" => /\ q.args[2] = r.offset /\ r.offset <= Len(Content)
                            /\ r.got = SubSeq(Content, 1, r.offset)
                            /\ \A a \in H : a.is = "data" => Next1(r.offset, a.v)
        /\ q.op = "close" \/ r.out = "ok" => r.got = Content

(* write_all has written the bytes up to its offset, or past the chunk     *)
(* that was answered.                                                      *)
After(o) == AtMost(o + ChunkSize, Len(Content))
Writing(r, q, H, c) ==
    r.prog = "write" =>
        /\ q.op = "open" => r.offset = 0 /\ \A a \in H : a.is = "handle" => c = <<>>
        /\ q.op = "write" => /\ q.args[2] = r.offset /\ r.offset < Len(Content)
                             /\ q.args[3] = SubSeq(Content, r.offset + 1, After(r.offset))
                             /\ H = {} => c = SubSeq(Content, 1, r.offset)
                             /\ \A a \in H : a.is = "ok" => c = SubSeq(Content, 1, After(r.offset))
        /\ q.op = "close" \/ r.out = "ok" => c = Content

(* s has the names of d from k on.                                         *)
Run(s, d, k) == \A i \in 1 .. Len(s) : s[i].filename = d[k + i].filename
(* What was returned and what is at hand reach to where the server stands. *)
Reaches(got, rest, d, at) ==
    Run(got, d, 0) /\ Run(rest, d, Len(got)) /\ Len(got) + Len(rest) = at
(* A listing has the names up to where the server stands in the directory, *)
(* and ends when the server is at the end.                                 *)
Listing(r, q, H, f) ==
    r.prog = "list" =>
        /\ r.used => Run(r.got, f.dir, 0) /\ Len(r.got) = Len(f.dir)
        /\ ~r.used /\ r.out = "none" =>
             /\ q.op = "opendir" => /\ r.got = <<>> /\ r.entries = <<>>
                                    /\ \A a \in H : a.is = "handle" => f.open[a.v].at = 0
             /\ q.op = "nothing" => Reaches(r.got, r.entries, f.dir, f.open[r.handle].at)
             /\ q.op = "readdir" =>
                  /\ r.entries = <<>>
                  /\ H = {} => Reaches(r.got, <<>>, f.dir, f.open[r.handle].at)
                  /\ \A a \in H : a.is = "names" =>
                       /\ Reaches(r.got, a.v, f.dir, f.open[r.handle].at) /\ a.v \in Seq(DirEntries)
                       /\ \A i \in 1 .. Len(a.v) : a.v[i] = f.dir[Len(r.got) + i]
                       /\ a.v = <<>> => f.open[r.handle].at = Len(f.dir)

(* The inductive invariant, beside Inv: where each transfer stands and, as *)
(* long as no handle was closed twice, whose each handle is.               *)
Whole(t) ==
    ~Disturbed(t) =>
        /\ Reading(task[t], Asking(t), Heard(t))
        /\ Writing(task[t], Asking(t), Heard(t), fs.files[task[t].path])
        /\ Wide(fs.dir) => Listing(task[t], Asking(t), Heard(t), fs)

Track ==
    /\ \A t \in Tasks : Modes(t) /\ Whole(t)
    /\ ~Twice => Single /\ Untouched

LEMMA AskingIs ==
    ASSUME Inv, NEW t \in Tasks, NEW r, r = task[t], NEW q, q = Asking(t)
    PROVE  /\ r \in TaskRecs
           /\ q.op = "nothing" <=> r.id = 0
           /\ r.id = 0 => q = Nothing /\ Heard(t) = {} /\ Rests(r)
           /\ r.id # 0 => /\ r.out = "none" /\ r.id \in DOMAIN sent /\ sent[r.id] = q /\ q.task = t
                          /\ WellAsked(q)
           /\ q.op \in {"open", "opendir"} => r.handle = <<>> /\ q.args[1] = r.path
           /\ q.op = "open" => r.prog \in {"read", "write", "file"}
           /\ q.op = "opendir" => r.prog = "list"
           /\ q.op \in {"fstat", "read", "write", "fsetstat", "readdir", "close"} =>
                 r.handle \in Handles /\ q.args[1] = r.handle
           /\ q.op = "fstat" => r.prog \in {"read", "file"}
           /\ q.op = "read" => r.prog = "read"
           /\ q.op = "write" => r.prog \in {"write", "file"}
           /\ q.op = "readdir" => r.prog = "list"
           /\ q.op = "close" => r.prog \in {"read", "write", "file", "list"}
           /\ r.prog \in {"read", "write", "file", "list"} => q.op \notin PathOps
  <1>1. /\ r \in TaskRecs /\ 0 \notin DOMAIN sent
        /\ Rests(r) \/ (r.id \in DOMAIN sent /\ sent[r.id].task = t)
        /\ \A id \in DOMAIN sent : Owned(task, id, sent[id]) /\ WellAsked(sent[id])
    BY DEF Inv, IInv, Asks, Phases, Owns
  <1>2. Rests(r) => r.id = 0
    BY DEF Rests, Idle
  <1>3. CASE r.id = 0
    <2>1. q = Nothing /\ Heard(t) = {} /\ q.op = "nothing" /\ Rests(r)
      BY <1>1, <1>3 DEF Asking, Heard, Nothing
    <2> QED
      BY <1>1, <1>3, <2>1, SftpServerAssumption
  <1>4. CASE r.id # 0
    <2>1. q = sent[r.id] /\ r.id \in DOMAIN sent /\ q.task = t
      BY <1>1, <1>2, <1>4 DEF Asking
    <2>2. Owned(task, r.id, q) /\ WellAsked(q) /\ t # Nobody
      BY <1>1, <2>1, SftpServerAssumption
    <2>3. r.out = "none" /\ Busy(r, q)
      BY <2>1, <2>2 DEF Owned
    <2> QED
      BY <1>1, <1>4, <2>1, <2>2, <2>3, SftpServerAssumption DEF Busy
  <1> QED
    BY <1>3, <1>4

(* Nothing changed for caller u but who else may have spoken.              *)
LEMMA SameIs ==
    ASSUME Inv, NEW u \in Tasks, task'[u] = task[u],
           task[u].id # 0 => sent'[task[u].id] = sent[task[u].id],
           task[u].id # 0 => \A i \in 1 .. Len(s2c') : s2c'[i].id = task[u].id =>
                                \E j \in 1 .. Len(s2c) : s2c[j] = s2c'[i],
           task[u].id # 0 => \A j \in 1 .. Len(s2c) : s2c[j].id = task[u].id =>
                                \E i \in 1 .. Len(s2c') : s2c'[i] = s2c[j]
    PROVE  Same(u)
  <1>1. Asking(u)' = Asking(u)
    BY DEF Asking, Nothing
  <1>2. Heard(u)' = Heard(u)
    BY DEF Heard
  <1> QED
    BY <1>1, <1>2 DEF Same

LEMMA QuietTracks ==
    ASSUME Inv, Track, \A t \in Tasks : Same(t), fs' = fs,
           \A i, h : Leaving(i, h)' => Leaving(i, h)
    PROVE  Track'
  <1>1. \A t \in Tasks : task'[t] = task[t] /\ Asking(t)' = Asking(t) /\ Heard(t)' = Heard(t)
    BY DEF Same
  <1>2. ASSUME NEW t \in Tasks PROVE Disturbed(t)' <=> Disturbed(t)
    BY <1>1 DEF Disturbed
  <1>3. ASSUME NEW t \in Tasks PROVE Modes(t)'
    BY <1>1 DEF Modes, Track
  <1>4. ASSUME NEW t \in Tasks PROVE Whole(t)'
    <2>1. Whole(t)
      BY DEF Track
    <2> QED
      BY <1>1, <1>2, <2>1 DEF Whole
  <1>5. Twice' <=> Twice
    BY <1>1 DEF Twice
  <1>6. ASSUME NEW t \in Tasks, NEW h PROVE Claim(t, h)' <=> Claim(t, h)
    BY <1>1 DEF Claim
  <1>7. Single => Single'
    <2> HIDE DEF Claim, Leaving
    <2> QED
      BY <1>1, <1>6 DEF Single
  <1>8. Untouched => Untouched'
    BY <1>1 DEF Untouched
  <1> QED
    BY <1>3, <1>4, <1>5, <1>7, <1>8 DEF Track

-----------------------------------------------------------------------------
(* Steps of a caller.                                                      *)

(* Caller t goes on as r with request q, after dropping d if it is one.    *)
Acts(t, S, r, q, d) ==
    \/ Issue(<<>>, S) /\ r.id = 0 /\ q = Nothing /\ d = <<>>
    \/ \E op, args : /\ Issue(<<<<t, op, args>>>>, S) /\ r.id = nextId /\ d = <<>>
                     /\ q = [task |-> t, op |-> op, args |-> args]
    \/ Issue(<<Dropped(d)>>, S) /\ r.id = 0 /\ q = Nothing /\ d \in Handles
Step(t, r, q, d) ==
    /\ task'[t] = r /\ Asking(t)' = q /\ Heard(t)' = {} /\ fs' = fs
    /\ \A u \in Tasks : u # t => Same(u)
    /\ \A i, h : Leaving(i, h)' => Leaving(i, h) \/ (h = d /\ i = nextId)

LEMMA Stepping ==
    ASSUME Inv, NEW t \in Tasks, NEW S, Left(t, S, s2c'), NEW r, NEW q, NEW d, Acts(t, S, r, q, d),
           task' = [task EXCEPT ![t] = r],
           \A i \in 1 .. Len(s2c') : \E j \in 1 .. Len(s2c) : s2c'[i] = s2c[j],
           \A j \in 1 .. Len(s2c) : s2c[j].id = task[t].id \/ \E i \in 1 .. Len(s2c') : s2c'[i] = s2c[j],
           task[t].id = 0 => s2c' = s2c
    PROVE  Step(t, r, q, d)
  <1>1. /\ task \in [Tasks -> TaskRecs] /\ IInv /\ Asks(sent, nextId) /\ nextId \in Nat /\ nextId >= 10
        /\ fs' = fs /\ Keeps(S, sent) /\ \A id \in DOMAIN sent : id \in DOMAIN S <=> sent[id].task # t
    BY DEF Inv, IInv, Left
  <1>2. task'[t] = r /\ \A u \in Tasks : u # t => task'[u] = task[u]
    BY <1>1
  <1>3. nextId \notin DOMAIN sent /\ nextId # 0 /\ 0 \notin DOMAIN sent /\ nextId \notin DOMAIN S
    BY <1>1 DEF Asks, Keeps
  <1>4. \A i \in 1 .. Len(s2c') : s2c'[i].id # nextId
    <2>1. \A j \in 1 .. Len(s2c) : s2c[j].id = 0 \/ s2c[j].id \in DOMAIN sent
      BY <1>1, ReplyIds
    <2> QED
      BY <1>3, <2>1
  <1>5. ASSUME NEW x, Joins(S, x)
        PROVE  DOMAIN sent' = DOMAIN S \cup {nextId} /\ sent'[nextId] = x /\ \A id \in DOMAIN S : sent'[id] = S[id]
    BY <1>3, <1>5 DEF Joins, With
  <1> DEFINE drop == [task |-> Nobody, op |-> "close", args |-> <<d>>]
  <1>6. \/ sent' = S /\ r.id = 0 /\ q = Nothing
        \/ Joins(S, q) /\ r.id = nextId /\ q.task = t
        \/ Joins(S, drop) /\ r.id = 0 /\ q = Nothing
    <2>1. CASE Issue(<<>>, S) /\ r.id = 0 /\ q = Nothing
      BY <2>1 DEF Issue
    <2>2. CASE Issue(<<Dropped(d)>>, S) /\ r.id = 0 /\ q = Nothing
      BY <2>2, IssueIs DEF Dropped
    <2>3. ASSUME NEW op, NEW args, Issue(<<<<t, op, args>>>>, S), r.id = nextId, q = [task |-> t, op |-> op, args |-> args]
          PROVE  Joins(S, q) /\ r.id = nextId /\ q.task = t
      BY <2>3, IssueIs
    <2> QED
      BY <2>1, <2>2, <2>3 DEF Acts
  <1>7. drop.task = Nobody /\ drop.args[1] = d
    BY ThreeSeq
  <1> HIDE DEF drop
  <1>8. \A id \in DOMAIN S : id \in DOMAIN sent /\ sent[id] = S[id] /\ id \in DOMAIN sent' /\ sent'[id] = S[id]
    BY <1>1, <1>5, <1>6 DEF Keeps
  <1>9. Asking(t)' = q
    BY <1>2, <1>3, <1>5, <1>6 DEF Asking, Nothing
  <1>10. Heard(t)' = {}
    BY <1>2, <1>4, <1>6 DEF Heard
  <1>11. task[t].id # 0 => task[t].id \in DOMAIN sent /\ sent[task[t].id].task = t
    BY AskingIs
  <1>12. ASSUME NEW u \in Tasks, u # t PROVE Same(u)
    <2>1. task[u].id # 0 => task[u].id \in DOMAIN sent /\ sent[task[u].id].task = u
      BY AskingIs
    <2>2. task[u].id # 0 => sent'[task[u].id] = sent[task[u].id] /\ task[u].id # task[t].id
      BY <1>1, <1>8, <1>11, <1>12, <2>1
    <2> QED
      BY <1>2, <1>12, <2>2, SameIs
  <1>13. ASSUME NEW i, NEW h, Leaving(i, h)' PROVE Leaving(i, h) \/ (h = d /\ i = nextId)
    <2>1. i \in DOMAIN sent' /\ sent'[i].task = Nobody /\ sent'[i].args[1] = h
          /\ \A j \in 1 .. Len(s2c') : s2c'[j].id # i
      BY <1>13 DEF Leaving, Unanswered
    <2>2. i \in DOMAIN S \/ (i = nextId /\ sent'[i] = drop)
      BY <1>5, <1>6, <2>1, SftpServerAssumption
    <2>3. CASE i \in DOMAIN S
      <3>1. i \in DOMAIN sent /\ sent[i] = sent'[i] /\ i # 0
        BY <1>3, <1>8, <2>3
      <3>2. task[t].id # i
        BY <1>11, <2>1, <3>1, SftpServerAssumption
      <3>3. \A j \in 1 .. Len(s2c) : s2c[j].id # i
        BY <2>1, <3>2
      <3> QED
        BY <2>1, <3>1, <3>3 DEF Leaving, Unanswered
    <2>4. CASE i = nextId /\ sent'[i] = drop
      BY <1>7, <2>1, <2>4
    <2> QED
      BY <2>2, <2>3, <2>4
  <1> QED
    BY <1>1, <1>2, <1>9, <1>10, <1>12, <1>13 DEF Step

LEMMA CallStep ==
    ASSUME Inv, NEW t \in Tasks, NEW r, NEW q, NEW d, Acts(t, sent, r, q, d), task[t].id = 0,
           task' = [task EXCEPT ![t] = r], s2c' = s2c, UNCHANGED <<srv, fs>>
    PROVE  Step(t, r, q, d)
  <1>1. Left(t, sent, s2c')
    BY LeftCall
  <1>2. \A i \in 1 .. Len(s2c') : \E j \in 1 .. Len(s2c) : s2c'[i] = s2c[j]
    OBVIOUS
  <1>3. \A j \in 1 .. Len(s2c) : \E i \in 1 .. Len(s2c') : s2c'[i] = s2c[j]
    OBVIOUS
  <1> QED
    BY <1>1, <1>2, <1>3, Stepping

LEMMA ReplyStep ==
    ASSUME Inv, NEW t \in Tasks, NEW id, NEW res, Replying(t, id, res),
           NEW r, NEW q, NEW d, Acts(t, Without(sent, id), r, q, d),
           task' = [task EXCEPT ![t] = r], s2c' = Tail(s2c), UNCHANGED <<srv, fs>>
    PROVE  Step(t, r, q, d)
  <1>1. s2c # <<>> /\ IsReply(Received(s2c[1])) /\ id = s2c[1].id /\ task[t].id = id /\ id # 0 /\ sent[id].task = t
    BY ReplyingIs DEF Replying
  <1>2. Left(t, Without(sent, id), s2c')
    BY <1>1, LeftReply
  <1> DEFINE R == Tail(s2c)
  <1>3. /\ Len(s2c) \in Nat /\ Len(R) \in Nat /\ Len(s2c) = Len(R) + 1
        /\ \A i \in 1 .. Len(R) : R[i] = s2c[i + 1] /\ i + 1 \in 1 .. Len(s2c)
    BY <1>1, FirstReply
  <1>4. s2c' = R
    OBVIOUS
  <1> HIDE DEF R
  <1>5. \A i \in 1 .. Len(s2c') : \E j \in 1 .. Len(s2c) : s2c'[i] = s2c[j]
    BY <1>3, <1>4
  <1>6. ASSUME NEW j \in 1 .. Len(s2c), s2c[j].id # task[t].id PROVE \E i \in 1 .. Len(s2c') : s2c'[i] = s2c[j]
    <2>1. j - 1 \in 1 .. Len(R) /\ (j - 1) + 1 = j
      BY <1>1, <1>3, <1>6
    <2> QED
      BY <1>3, <1>4, <2>1
  <1> QED
    BY <1>1, <1>2, <1>5, <1>6, Stepping

(* A program, its path and how it ends are chosen once, and so is whether  *)
(* it has ended.                                                           *)
Lasts(r, r2) ==
    \/ r.prog = "none" /\ r.end = "none" /\ r.out = "none"
    \/ r2.prog = r.prog /\ r2.end = r.end /\ r2.path = r.path /\ (r.out # "none" => r2.out # "none")

LEMMA StepTracks ==
    ASSUME Inv, Track, NEW t \in Tasks, NEW r, NEW q, NEW d, Step(t, r, q, d), Lasts(task[t], r),
           r.handle \in Handles => Claim(t, r.handle) /\ r.path = task[t].path,
           d \in Handles => Twice' \/ (Claim(t, d) /\ r.handle = <<>>),
           Modes(t)', Whole(t)'
    PROVE  Track'
  <1>1. /\ task'[t] = r /\ Asking(t)' = q /\ Heard(t)' = {} /\ fs' = fs
        /\ \A u \in Tasks : u # t => task'[u] = task[u] /\ Asking(u)' = Asking(u) /\ Heard(u)' = Heard(u)
    BY DEF Step, Same
  <1>2. ASSUME NEW u \in Tasks, u # t, Disturbed(u) PROVE Disturbed(u)'
    BY <1>1, <1>2 DEF Disturbed, Lasts
  <1>3. ASSUME NEW u \in Tasks PROVE Modes(u)' /\ Whole(u)'
    <2>1. CASE u # t
      <3>1. Modes(u)'
        BY <1>1, <2>1 DEF Modes, Track
      <3>2. Whole(u)
        BY DEF Track
      <3> QED
        BY <1>1, <1>2, <2>1, <3>1, <3>2 DEF Whole
    <2> QED
      BY <2>1
  <1>4. Twice => Twice'
    BY <1>1 DEF Twice, Lasts
  <1>5. ASSUME ~Twice' PROVE Single' /\ Untouched'
    <2>1. Single /\ Untouched
      BY <1>4, <1>5 DEF Track
    <2>2. ASSUME NEW u \in Tasks, u # t, NEW h PROVE Claim(u, h)' <=> Claim(u, h)
      BY <1>1, <2>2 DEF Claim
    <2>3. ASSUME NEW h \in Handles, Claim(t, h)' PROVE r.handle = h /\ Claim(t, h) /\ r.path = task[t].path
      BY <1>1, <2>3 DEF Claim, Lasts
    <2>4. ASSUME NEW i, NEW h \in Handles, Leaving(i, h)'
          PROVE  Leaving(i, h) \/ (h = d /\ i = nextId /\ Claim(t, h) /\ ~Claim(t, h)')
      <3>1. CASE h = d /\ i = nextId
        <4>1. Claim(t, h) /\ r.handle = <<>>
          BY <1>5, <3>1
        <4> QED
          BY <1>1, <2>3, <3>1, <4>1, EmptyText
      <3> QED
        BY <2>4, <3>1 DEF Step
    <2>5. ASSUME NEW h \in Handles
          PROVE  /\ \A v, u \in Tasks : Claim(v, h)' /\ Claim(u, h)' => v = u
                 /\ \A u \in Tasks : Claim(u, h)' => h \in DOMAIN fs'.open /\ fs'.open[h].path = task'[u].path
                 /\ \A i : Leaving(i, h)' => h \in DOMAIN fs'.open /\ \A u \in Tasks : ~Claim(u, h)'
                 /\ \A i, j : Leaving(i, h)' /\ Leaving(j, h)' => i = j
      <3> HIDE DEF Claim, Leaving
      <3>1. \A u \in Tasks : Claim(u, h)' => Claim(u, h) /\ task'[u].path = task[u].path
        BY <1>1, <2>2, <2>3
      <3> QED
        BY <1>1, <2>1, <2>4, <3>1 DEF Single
    <2>6. Single'
      BY <2>5 DEF Single
    <2>7. Untouched'
      BY <1>1, <2>1 DEF Untouched, Lasts
    <2> QED
      BY <2>6, <2>7
  <1> QED
    BY <1>3, <1>5 DEF Track

(* One step on after the start.                                            *)
LEMMA OnStep ==
    ASSUME Inv, Track, NEW t \in Tasks, NEW r, NEW q, NEW d, Step(t, r, q, d),
           r.prog = task[t].prog, r.end = task[t].end, r.path = task[t].path,
           task[t].out # "none" => r.out # "none",
           r.handle \in Handles => Claim(t, r.handle),
           d \in Handles => Twice' \/ (Claim(t, d) /\ r.handle = <<>>),
           q.op # "open", q.op = "readdir" => ~r.used,
           ~Disturbed(t) => /\ Reading(r, q, {})
                            /\ Writing(r, q, {}, fs.files[r.path])
                            /\ Wide(fs.dir) => Listing(r, q, {}, fs)
    PROVE  Track'
  <1>1. /\ task'[t] = r /\ Asking(t)' = q /\ Heard(t)' = {} /\ fs' = fs
        /\ \A u \in Tasks : u # t => task'[u] = task[u]
    BY DEF Step, Same
  <1>2. Disturbed(t)' <=> Disturbed(t)
    BY <1>1 DEF Disturbed
  <1>3. Modes(t)
    BY DEF Track
  <1>4. Modes(t)'
    BY <1>1, <1>3 DEF Modes
  <1>5. Whole(t)'
    BY <1>1, <1>2 DEF Whole
  <1> QED
    BY <1>4, <1>5, StepTracks DEF Lasts

LEMMA GoSteps ==
    ASSUME Inv, NEW t \in Tasks, NEW id, NEW res, Replying(t, id, res), NEW r
    PROVE  /\ GoOn(t, id, r, <<>>) /\ r.id = 0 => Step(t, r, Nothing, <<>>)
           /\ \A op, args : GoOn(t, id, r, <<<<t, op, args>>>>) /\ r.id = nextId =>
                              Step(t, r, [task |-> t, op |-> op, args |-> args], <<>>)
           /\ \A d \in Handles : GoOn(t, id, r, <<Dropped(d)>>) /\ r.id = 0 => Step(t, r, Nothing, d)
  <1>1. ASSUME NEW q, NEW d, NEW calls, GoOn(t, id, r, calls), Acts(t, Without(sent, id), r, q, d) PROVE Step(t, r, q, d)
    BY <1>1, ReplyStep DEF GoOn
  <1>2. ASSUME GoOn(t, id, r, <<>>), r.id = 0 PROVE Step(t, r, Nothing, <<>>)
    <2>1. Acts(t, Without(sent, id), r, Nothing, <<>>)
      BY <1>2 DEF GoOn, Acts
    <2> QED
      BY <1>1, <1>2, <2>1
  <1>3. ASSUME NEW op, NEW args, GoOn(t, id, r, <<<<t, op, args>>>>), r.id = nextId
        PROVE  Step(t, r, [task |-> t, op |-> op, args |-> args], <<>>)
    <2>1. Acts(t, Without(sent, id), r, [task |-> t, op |-> op, args |-> args], <<>>)
      BY <1>3 DEF GoOn, Acts
    <2> QED
      BY <1>1, <1>3, <2>1
  <1>4. ASSUME NEW d \in Handles, GoOn(t, id, r, <<Dropped(d)>>), r.id = 0 PROVE Step(t, r, Nothing, d)
    <2>1. Acts(t, Without(sent, id), r, Nothing, d)
      BY <1>4 DEF GoOn, Acts
    <2> QED
      BY <1>1, <1>4, <2>1
  <1> QED
    BY <1>2, <1>3, <1>4

LEMMA HeardIs ==
    ASSUME Inv, NEW t \in Tasks, NEW id, NEW res, Replying(t, id, res)
    PROVE  /\ Asking(t) = sent[id] /\ s2c[1].ans \in Heard(t) /\ task[t].id = id /\ id # 0
           /\ task[t].handle \in Handles /\ sent[id].op # "close" => Claim(t, task[t].handle)
           /\ s2c[1].ans.is = "handle" => Claim(t, s2c[1].ans.v)
           /\ task[t].out = "none" /\ task[t] \in TaskRecs
  <1>1. s2c # <<>> /\ id = s2c[1].id /\ task[t].id = id /\ id # 0 /\ task[t].out = "none" /\ task[t] \in TaskRecs
    BY ReplyingIs DEF Replying
  <1>2. 1 \in 1 .. Len(s2c)
    BY <1>1, FirstReply
  <1>3. Asking(t) = sent[id] /\ s2c[1].ans \in Heard(t)
    BY <1>1, <1>2 DEF Asking, Heard
  <1> QED
    BY <1>1, <1>3 DEF Claim

LEMMA FinishIs ==
    ASSUME NEW r \in TaskRecs, NEW out \in {"none", "ok", "err"}
    PROVE  LET f == Finish(r, out)
           IN  /\ f.id = 0 /\ f.out = out /\ f.handle = <<>> /\ f.prog = r.prog /\ f.end = r.end
               /\ f.path = r.path /\ f.got = r.got /\ f.used = r.used
  BY DEF Finish, TaskRecs

LEMMA FailsTrack ==
    ASSUME Inv, Track, NEW t \in Tasks, NEW id, NEW res, Replying(t, id, res), Fails(t, id),
           sent[id].op \in {"fstat", "read", "write", "readdir"}
    PROVE  Track'
  <1> DEFINE f == Finish(task[t], "err")
             h == task[t].handle
  <1>1. h \in Handles /\ Claim(t, h) /\ task[t].out = "none" /\ task[t] \in TaskRecs
    BY HeardIs, OnHandleIs
  <1>2. /\ f.id = 0 /\ f.out = "err" /\ f.handle = <<>> /\ f.prog = task[t].prog /\ f.end = task[t].end
        /\ f.path = task[t].path /\ f.got = task[t].got /\ f.used = task[t].used
    BY <1>1, FinishIs
  <1>3. GoOn(t, id, f, <<Dropped(h)>>)
    BY DEF Fails
  <1> HIDE DEF f, h
  <1>4. Step(t, f, Nothing, h) /\ f.handle \notin Handles
    BY <1>1, <1>2, <1>3, GoSteps, EmptyText
  <1>5. Nothing.op = "nothing"
    BY DEF Nothing
  <1>6. Whole(t)
    BY DEF Track
  <1>7. ~Disturbed(t) => /\ Reading(f, Nothing, {})
                         /\ Writing(f, Nothing, {}, fs.files[f.path])
                         /\ Wide(fs.dir) => Listing(f, Nothing, {}, fs)
    BY <1>2, <1>5, <1>6 DEF Whole, Reading, Writing, Listing
  <1> QED
    BY <1>1, <1>2, <1>4, <1>5, <1>7, OnStep

(* The caller goes on with a request on its handle, or with none.          *)
LEMMA AskTracks ==
    ASSUME Inv, Track, NEW t \in Tasks, NEW id, NEW res, Replying(t, id, res), NEW r \in TaskRecs,
           r.prog = task[t].prog, r.end = task[t].end, r.path = task[t].path, r.handle \in Handles, Claim(t, r.handle),
           NEW op, op \in {"fstat", "read", "write", "close"}, NEW args, GoOn(t, id, Ask(r), <<<<t, op, args>>>>),
           NEW q, q = [task |-> t, op |-> op, args |-> args],
           ~Disturbed(t) => /\ Reading(r, q, {})
                            /\ Writing(r, q, {}, fs.files[r.path])
                            /\ Wide(fs.dir) => Listing(r, q, {}, fs)
    PROVE  Track'
  <1> DEFINE a == Ask(r)
  <1>1. task[t].out = "none" /\ nextId \in Nat
    BY ReplyingIs
  <1>2. /\ a.id = nextId /\ a.prog = r.prog /\ a.end = r.end /\ a.handle = r.handle /\ a.path = r.path
        /\ a.offset = r.offset /\ a.got = r.got /\ a.entries = r.entries /\ a.used = r.used /\ a.out = r.out
    BY <1>1, AskType
  <1>3. GoOn(t, id, a, <<<<t, op, args>>>>) /\ q.op = op
    OBVIOUS
  <1> HIDE DEF a
  <1>4. Step(t, a, q, <<>>)
    BY <1>2, <1>3, GoSteps
  <1>5. ~Disturbed(t) => /\ Reading(a, q, {})
                         /\ Writing(a, q, {}, fs.files[a.path])
                         /\ Wide(fs.dir) => Listing(a, q, {}, fs)
    BY <1>2 DEF Reading, Writing, Listing
  <1>6. <<>> \notin Handles
    BY EmptyText
  <1> QED
    BY <1>1, <1>2, <1>3, <1>4, <1>5, <1>6, OnStep

LEMMA RestTracks ==
    ASSUME Inv, Track, NEW t \in Tasks, NEW id, NEW res, Replying(t, id, res), NEW r, r.id = 0,
           r.prog = task[t].prog, r.end = task[t].end, r.path = task[t].path,
           r.handle \in Handles => Claim(t, r.handle), GoOn(t, id, r, <<>>),
           ~Disturbed(t) => /\ Reading(r, Nothing, {})
                            /\ Writing(r, Nothing, {}, fs.files[r.path])
                            /\ Wide(fs.dir) => Listing(r, Nothing, {}, fs)
    PROVE  Track'
  <1>1. task[t].out = "none" /\ <<>> \notin Handles /\ Nothing.op = "nothing"
    BY ReplyingIs, EmptyText DEF Nothing
  <1>2. Step(t, r, Nothing, <<>>)
    BY GoSteps
  <1> QED
    BY <1>1, <1>2, OnStep

LEMMA WriteTracks ==
    ASSUME Inv, Track, NEW t \in Tasks, NEW id, NEW res, Replying(t, id, res), NEW r \in TaskRecs,
           r.prog = "write", r.out = "none", Bounded(r),
           r.prog = task[t].prog, r.end = task[t].end, r.path = task[t].path, r.handle \in Handles, Claim(t, r.handle),
           WriteOn(t, id, r), ~Disturbed(t) => fs.files[r.path] = SubSeq(Content, 1, r.offset)
    PROVE  Track'
  <1>1. r.offset \in Nat /\ r.offset <= Len(Content) /\ Len(Content) \in Nat /\ Content \in Seq(Nat)
    BY OffsetIs, ContentIs DEF Bounded
  <1>2. CASE r.offset = Len(Content)
    <2> DEFINE args == <<r.handle>>
               q == [task |-> t, op |-> "close", args |-> args]
    <2>1. GoOn(t, id, Ask(r), <<<<t, "close", args>>>>)
      BY <1>2 DEF WriteOn, CloseIt
    <2>2. q.op = "close"
      OBVIOUS
    <2>3. SubSeq(Content, 1, Len(Content)) = Content
      BY <1>1
    <2> HIDE DEF args
    <2>4. q = [task |-> t, op |-> "close", args |-> args]
      OBVIOUS
    <2> HIDE DEF q
    <2>5. ~Disturbed(t) => /\ Reading(r, q, {})
                           /\ Writing(r, q, {}, fs.files[r.path])
                           /\ Wide(fs.dir) => Listing(r, q, {}, fs)
      BY <1>2, <2>2, <2>3 DEF Reading, Writing, Listing
    <2> QED
      BY <2>1, <2>4, <2>5, AskTracks
  <1>3. CASE r.offset # Len(Content)
    <2> DEFINE d == SubSeq(Content, r.offset + 1, After(r.offset))
               args == <<r.handle, r.offset, d>>
               q == [task |-> t, op |-> "write", args |-> args]
    <2>1. GoOn(t, id, Ask(r), <<<<t, "write", args>>>>)
      BY <1>3 DEF WriteOn, After
    <2>2. q.op = "write" /\ q.args[2] = r.offset /\ q.args[3] = d
      BY ThreeSeq
    <2>3. q = [task |-> t, op |-> "write", args |-> args]
      OBVIOUS
    <2>4. d = SubSeq(Content, r.offset + 1, After(r.offset))
      OBVIOUS
    <2> HIDE DEF args, q, d
    <2>5. r.offset < Len(Content)
      BY <1>1, <1>3
    <2>6. ~Disturbed(t) => /\ Reading(r, q, {})
                           /\ Writing(r, q, {}, fs.files[r.path])
                           /\ Wide(fs.dir) => Listing(r, q, {}, fs)
      BY <2>2, <2>4, <2>5 DEF Reading, Writing, Listing
    <2> QED
      BY <2>1, <2>3, <2>6, AskTracks
  <1> QED
    BY <1>2, <1>3

LEMMA ReadTracks ==
    ASSUME Inv, Track, NEW t \in Tasks, NEW id, NEW res, Replying(t, id, res), NEW r \in TaskRecs,
           r.prog = "read", r.out = "none",
           r.prog = task[t].prog, r.end = task[t].end, r.path = task[t].path, r.handle \in Handles, Claim(t, r.handle),
           \/ /\ ReadOn(t, id, r)
              /\ ~Disturbed(t) => r.offset <= Len(Content) /\ r.got = SubSeq(Content, 1, r.offset)
           \/ CloseIt(t, id, r) /\ (~Disturbed(t) => r.got = Content)
    PROVE  Track'
  <1>1. CASE CloseIt(t, id, r) /\ (~Disturbed(t) => r.got = Content)
    <2> DEFINE args == <<r.handle>>
               q == [task |-> t, op |-> "close", args |-> args]
    <2>1. GoOn(t, id, Ask(r), <<<<t, "close", args>>>>)
      BY <1>1 DEF CloseIt
    <2>2. q.op = "close"
      OBVIOUS
    <2>3. q = [task |-> t, op |-> "close", args |-> args]
      OBVIOUS
    <2> HIDE DEF args, q
    <2>4. ~Disturbed(t) => /\ Reading(r, q, {})
                           /\ Writing(r, q, {}, fs.files[r.path])
                           /\ Wide(fs.dir) => Listing(r, q, {}, fs)
      BY <1>1, <2>2 DEF Reading, Writing, Listing
    <2> QED
      BY <2>1, <2>3, <2>4, AskTracks
  <1>2. CASE ReadOn(t, id, r) /\ (~Disturbed(t) => r.offset <= Len(Content) /\ r.got = SubSeq(Content, 1, r.offset))
    <2> DEFINE args == <<r.handle, r.offset, ChunkSize>>
               q == [task |-> t, op |-> "read", args |-> args]
    <2>1. GoOn(t, id, Ask(r), <<<<t, "read", args>>>>)
      BY <1>2 DEF ReadOn
    <2>2. q.op = "read" /\ q.args[2] = r.offset
      BY ThreeSeq
    <2>3. q = [task |-> t, op |-> "read", args |-> args]
      OBVIOUS
    <2> HIDE DEF args, q
    <2>4. ~Disturbed(t) => /\ Reading(r, q, {})
                           /\ Writing(r, q, {}, fs.files[r.path])
                           /\ Wide(fs.dir) => Listing(r, q, {}, fs)
      BY <1>2, <2>2 DEF Reading, Writing, Listing
    <2> QED
      BY <2>1, <2>3, <2>4, AskTracks
  <1> QED
    BY <1>1, <1>2

(* A call that returned: what it had told is what it tells.                *)
LEMMA FinishTracks ==
    ASSUME Inv, Track, NEW t \in Tasks, NEW id, NEW res, Replying(t, id, res), NEW out \in {"ok", "err"},
           GoOn(t, id, Finish(task[t], out), <<>>),
           out = "ok" => sent[id].op = "close" \/ sent[id].op \in PathOps
    PROVE  Track'
  <1> DEFINE f == Finish(task[t], out)
  <1>1. task[t].out = "none" /\ task[t] \in TaskRecs /\ Asking(t) = sent[id]
    BY HeardIs
  <1>2. /\ f.id = 0 /\ f.out = out /\ f.handle = <<>> /\ f.prog = task[t].prog /\ f.end = task[t].end
        /\ f.path = task[t].path /\ f.got = task[t].got /\ f.used = task[t].used
    BY <1>1, FinishIs
  <1>3. GoOn(t, id, f, <<>>)
    OBVIOUS
  <1> HIDE DEF f
  <1>4. Nothing.op = "nothing" /\ <<>> \notin Handles
    BY EmptyText DEF Nothing
  <1>5. Whole(t)
    BY DEF Track
  <1>6. sent[id].op \in PathOps => task[t].prog \notin {"read", "write", "list"}
    BY <1>1, AskingIs
  <1>7. ~Disturbed(t) => /\ Reading(f, Nothing, {})
                         /\ Writing(f, Nothing, {}, fs.files[f.path])
                         /\ Wide(fs.dir) => Listing(f, Nothing, {}, fs)
    BY <1>1, <1>2, <1>4, <1>5, <1>6 DEF Whole, Reading, Writing, Listing
  <1> QED
    BY <1>2, <1>3, <1>4, <1>7, RestTracks

LEMMA TakeHandleTracks ==
    ASSUME Inv, Track, NEW t \in Tasks, NEW id, NEW res, Replying(t, id, res), TakeHandle(t, id, res)
    PROVE  Track'
  <1>1. sent[id].op \in {"open", "opendir"}
    BY DEF TakeHandle, Answered
  <1> DEFINE ans == s2c[1].ans
  <1>2. /\ Asking(t) = sent[id] /\ ans \in Heard(t) /\ task[t].out = "none" /\ task[t] \in TaskRecs
        /\ ans.is = "handle" => Claim(t, ans.v) /\ ans.v \in Handles
        /\ Fit(sent[id].op, ans) /\ Told(sent[id].op, ans, res)
    BY HeardIs, ReplyingIs
  <1>3. \/ ans.is = "err" /\ ~res.ok
        \/ ans.is = "handle" /\ res.ok /\ res.v = ans.v
    BY <1>1, <1>2, OpenTold
  <1>4. Whole(t)
    BY DEF Track
  <1> HIDE DEF ans
  <1>5. CASE ~res.ok
    <2>1. GoOn(t, id, Finish(task[t], "err"), <<>>)
      BY <1>5 DEF TakeHandle
    <2> QED
      BY <2>1, FinishTracks
  <1>6. CASE res.ok
    <2> DEFINE r == [task[t] EXCEPT !.handle = res.v, !.id = 0]
    <2>1. res.v \in Handles /\ Claim(t, res.v) /\ ans.is = "handle" /\ ans.v = res.v
      BY <1>2, <1>3, <1>6
    <2>2. /\ r \in TaskRecs /\ r.id = 0 /\ r.handle = res.v /\ r.out = "none" /\ r.prog = task[t].prog
          /\ r.end = task[t].end /\ r.path = task[t].path /\ r.offset = task[t].offset /\ r.got = task[t].got
          /\ r.entries = task[t].entries /\ r.used = task[t].used
      BY <1>2, <2>1 DEF TaskRecs
    <2>3. /\ r.prog = "read" => GoOn(t, id, Ask(r), <<<<t, "fstat", <<r.handle>>>>>>)
          /\ r.prog = "write" => WriteOn(t, id, r)
          /\ r.prog \notin {"read", "write"} => GoOn(t, id, r, <<>>)
      BY <1>6 DEF TakeHandle
    <2> HIDE DEF r
    <2>4. /\ sent[id].op = "open" => r.prog \in {"read", "write", "file"}
          /\ sent[id].op = "opendir" => r.prog = "list"
      BY <1>2, <2>2, AskingIs
    <2>5. CASE r.prog = "read"
      <3> DEFINE args == <<r.handle>>
                 q == [task |-> t, op |-> "fstat", args |-> args]
      <3>1. GoOn(t, id, Ask(r), <<<<t, "fstat", args>>>>) /\ q.op = "fstat"
        BY <2>3, <2>5
      <3>2. q = [task |-> t, op |-> "fstat", args |-> args]
        OBVIOUS
      <3> HIDE DEF args, q
      <3>3. ~Disturbed(t) => /\ Reading(r, q, {})
                             /\ Writing(r, q, {}, fs.files[r.path])
                             /\ Wide(fs.dir) => Listing(r, q, {}, fs)
        BY <1>1, <1>2, <1>4, <2>2, <2>4, <2>5, <3>1 DEF Whole, Reading, Writing, Listing
      <3> QED
        BY <2>1, <2>2, <3>1, <3>2, <3>3, AskTracks
    <2>6. CASE r.prog = "write"
      <3>1. sent[id].op = "open"
        BY <1>1, <2>4, <2>6
      <3>2. ~Disturbed(t) => r.offset = 0 /\ fs.files[r.path] = <<>>
        BY <1>2, <1>4, <2>1, <2>2, <2>6, <3>1 DEF Whole, Writing
      <3>3. SubSeq(Content, 1, 0) = <<>>
        BY SftpServerAssumption
      <3>4. Bounded(task[t])
        BY DEF Inv
      <3>5. Bounded(r)
        BY <2>2, <3>4 DEF Bounded
      <3> QED
        BY <2>1, <2>2, <2>3, <2>6, <3>2, <3>3, <3>5, WriteTracks
    <2>7. CASE r.prog \notin {"read", "write"}
      <3>1. Nothing.op = "nothing"
        BY DEF Nothing
      <3>2. ASSUME ~Disturbed(t), Wide(fs.dir), r.prog = "list", ~r.used, Listing(task[t], Asking(t), Heard(t), fs)
            PROVE  Reaches(r.got, r.entries, fs.dir, fs.open[r.handle].at)
        <4>1. r.got = <<>> /\ r.entries = <<>> /\ fs.open[r.handle].at = 0
          BY <1>1, <1>2, <2>1, <2>2, <2>4, <3>2 DEF Listing
        <4> QED
          BY <4>1 DEF Reaches, Run
      <3>3. ~Disturbed(t) => /\ Reading(r, Nothing, {})
                             /\ Writing(r, Nothing, {}, fs.files[r.path])
        BY <2>7 DEF Reading, Writing
      <3>4. ASSUME ~Disturbed(t), Wide(fs.dir) PROVE Listing(r, Nothing, {}, fs)
        <4>1. Listing(task[t], Asking(t), Heard(t), fs)
          BY <1>4, <3>4 DEF Whole
        <4>2. r.prog = "list" /\ r.used => Run(r.got, fs.dir, 0) /\ Len(r.got) = Len(fs.dir)
          BY <2>2, <4>1 DEF Listing
        <4> QED
          BY <3>1, <3>2, <3>4, <4>1, <4>2 DEF Listing
      <3> QED
        BY <2>1, <2>2, <2>3, <2>7, <3>3, <3>4, RestTracks
    <2> QED
      BY <2>5, <2>6, <2>7
  <1> QED
    BY <1>5, <1>6

(* Bytes up to o, and the ones from there up to m.                         *)
LEMMA PrefixGrows ==
    ASSUME NEW b \in Seq(Nat), NEW o \in Nat, NEW m \in Nat, o <= m, m <= Len(b)
    PROVE  /\ SubSeq(b, 1, o) \o SubSeq(b, o + 1, m) = SubSeq(b, 1, m)
           /\ Spliced(SubSeq(b, 1, o), o, SubSeq(b, o + 1, m)) = SubSeq(b, 1, m)
           /\ Len(SubSeq(b, o + 1, m)) = m - o
  <1> DEFINE s == SubSeq(b, 1, o)
             d == SubSeq(b, o + 1, m)
             u == SubSeq(b, 1, m)
             c == s \o d
             p == Spliced(s, o, d)
  <1>1. 0 \in Nat /\ 0 + 1 = 1 /\ 0 <= o /\ 0 <= m /\ o <= Len(b) /\ o - 0 = o /\ m - 0 = m
    OBVIOUS
  <1>2. s \in Seq(Nat) /\ Len(s) = o /\ \A i \in 1 .. o : s[i] = b[0 + i]
    BY <1>1, Slices
  <1>3. d \in Seq(Nat) /\ Len(d) = m - o /\ \A i \in 1 .. m - o : d[i] = b[o + i]
    BY Slices
  <1>4. u \in Seq(Nat) /\ Len(u) = m /\ \A i \in 1 .. m : u[i] = b[0 + i]
    BY <1>1, Slices
  <1> HIDE DEF s, d, u
  <1>5. /\ c \in Seq(Nat) /\ Len(c) = Len(s) + Len(d)
        /\ \A i \in 1 .. Len(s) : c[i] = s[i]
        /\ \A i \in 1 .. Len(d) : c[Len(s) + i] = d[i]
    BY <1>2, <1>3, CatBytes
  <1> HIDE DEF c
  <1>6. \A i \in 1 .. m : i \in 1 .. o \/ (i - o \in 1 .. m - o /\ o + (i - o) = i /\ i > o)
    OBVIOUS
  <1>7. Len(c) = Len(u) /\ \A i \in 1 .. Len(c) : c[i] = u[i]
    <2>1. Len(c) = m
      BY <1>2, <1>3, <1>5
    <2>2. ASSUME NEW i \in 1 .. m PROVE c[i] = u[i]
      <3>1. CASE i \in 1 .. o
        BY <1>2, <1>4, <1>5, <3>1
      <3>2. CASE i - o \in 1 .. m - o /\ o + (i - o) = i
        <4>1. c[o + (i - o)] = d[i - o] /\ d[i - o] = b[o + (i - o)]
          BY <1>2, <1>3, <1>5, <3>2
        <4>2. u[i] = b[i]
          BY <1>4
        <4> QED
          BY <3>2, <4>1, <4>2
      <3> QED
        BY <1>6, <3>1, <3>2
    <2> QED
      BY <1>4, <2>1, <2>2
  <1>8. c = u
    BY <1>4, <1>5, <1>7, SeqEqual
  <1>9. (IF Len(s) > o + Len(d) THEN Len(s) ELSE o + Len(d)) = m /\ o + Len(d) = m
    BY <1>2, <1>3
  <1>10. p = [i \in 1 .. m |-> IF i > o /\ i <= m THEN d[i - o] ELSE IF i <= o THEN s[i] ELSE 0]
    BY <1>2, <1>9 DEF Spliced
  <1>11. p \in Seq(Nat)
    BY <1>2, <1>3, SplicedType
  <1> HIDE DEF p
  <1>12. ASSUME NEW i \in 1 .. m PROVE p[i] = u[i]
    <2>1. i \in Nat /\ i <= m
      OBVIOUS
    <2>2. CASE i \in 1 .. o
      <3>1. ~(i > o) /\ i <= o
        BY <2>1, <2>2
      <3>2. p[i] = s[i]
        BY <1>10, <3>1
      <3> QED
        BY <1>2, <1>4, <2>2, <3>2
    <2>3. CASE i - o \in 1 .. m - o /\ o + (i - o) = i /\ i > o
      <3>1. p[i] = d[i - o]
        BY <1>10, <2>1, <2>3
      <3> QED
        BY <1>3, <1>4, <2>3, <3>1
    <2> QED
      BY <1>6, <2>2, <2>3
  <1>13. Len(p) = m
    BY <1>10, <1>11
  <1>14. p = u
    BY <1>4, <1>11, <1>12, <1>13, SeqEqual
  <1> QED
    BY <1>3, <1>8, <1>14 DEF c, p, s, d, u

LEMMA NextIs ==
    ASSUME NEW o \in Nat, NEW v, Next1(o, v)
    PROVE  \E m \in Nat : /\ o <= m /\ m <= Len(Content) /\ v = SubSeq(Content, o + 1, m)
                          /\ m = o => o = Len(Content)
  <1>1. PICK n \in Nat : /\ o + n <= Len(Content) /\ v = SubSeq(Content, o + 1, o + n)
                         /\ n = 0 => o = Len(Content)
    BY DEF Next1
  <1>2. o + n \in Nat /\ o <= o + n /\ (o + n = o => n = 0)
    OBVIOUS
  <1> QED
    BY <1>1, <1>2

LEMMA TakeAttrsTracks ==
    ASSUME Inv, Track, NEW t \in Tasks, NEW id, NEW res, Replying(t, id, res), TakeAttrs(t, id, res)
    PROVE  Track'
  <1>1. sent[id].op = "fstat"
    BY DEF TakeAttrs, Answered
  <1>2. /\ task[t].handle \in Handles /\ task[t].prog \in {"read", "file"} /\ Claim(t, task[t].handle)
        /\ task[t].out = "none" /\ task[t] \in TaskRecs /\ Asking(t) = sent[id]
    BY <1>1, OnHandleIs, HeardIs
  <1>3. Whole(t)
    BY DEF Track
  <1>4. CASE task[t].prog = "file"
    <2> DEFINE r == [task[t] EXCEPT !.id = 0]
    <2>1. /\ r.id = 0 /\ r.prog = task[t].prog /\ r.handle = task[t].handle
          /\ r.end = task[t].end /\ r.path = task[t].path
      BY <1>2 DEF TaskRecs
    <2>2. GoOn(t, id, r, <<>>)
      BY <1>4 DEF TakeAttrs
    <2> HIDE DEF r
    <2>3. Reading(r, Nothing, {}) /\ Writing(r, Nothing, {}, fs.files[r.path]) /\ Listing(r, Nothing, {}, fs)
      BY <1>4, <2>1 DEF Reading, Writing, Listing
    <2> QED
      BY <1>2, <2>1, <2>2, <2>3, RestTracks
  <1>5. CASE task[t].prog = "read" /\ res.ok
    <2>1. ReadOn(t, id, task[t])
      BY <1>5 DEF TakeAttrs
    <2>2. ~Disturbed(t) => task[t].got = <<>> /\ task[t].offset = 0
      BY <1>1, <1>2, <1>3, <1>5 DEF Whole, Reading
    <2>3. SubSeq(Content, 1, 0) = <<>> /\ 0 <= Len(Content)
      BY SftpServerAssumption
    <2> QED
      BY <1>2, <1>5, <2>1, <2>2, <2>3, ReadTracks
  <1>6. CASE task[t].prog = "read" /\ ~res.ok
    BY <1>1, <1>6, FailsTrack DEF TakeAttrs
  <1> QED
    BY <1>2, <1>4, <1>5, <1>6

LEMMA TakeDataTracks ==
    ASSUME Inv, Track, NEW t \in Tasks, NEW id, NEW res, Replying(t, id, res), TakeData(t, id, res)
    PROVE  Track'
  <1> DEFINE ans == s2c[1].ans
  <1>0. PICK o : o = task[t].offset
    OBVIOUS
  <1>1. sent[id].op = "read"
    BY DEF TakeData, Answered
  <1>2. /\ task[t].handle \in Handles /\ task[t].prog = "read" /\ Claim(t, task[t].handle)
        /\ task[t].out = "none" /\ task[t] \in TaskRecs /\ Asking(t) = sent[id] /\ ans \in Heard(t)
        /\ Fit("read", ans) /\ Told("read", ans, res)
    BY <1>1, OnHandleIs, HeardIs, ReplyingIs
  <1>3. Whole(t)
    BY DEF Track
  <1>4. o \in Nat /\ task[t].got \in Seq(Nat \cup DirEntries) /\ Content \in Seq(Nat) /\ Len(Content) \in Nat
    <2>1. task[t].got \in Seq(Nat \cup DirEntries)
      BY <1>2 DEF TaskRecs
    <2> QED
      BY <1>0, <1>2, <2>1, OffsetIs, ContentIs
  <1>5. CASE ~res.ok
    BY <1>1, <1>5, FailsTrack DEF TakeData
  <1>6. CASE res.ok
    <2>1. ans.is = "data" /\ res.v = ans.v /\ res.v \in Seq(Nat)
      BY <1>2, <1>6, DataTold
    <2>2. ~Disturbed(t) => o <= Len(Content) /\ task[t].got = SubSeq(Content, 1, o) /\ Next1(o, res.v)
      BY <1>0, <1>1, <1>2, <1>3, <2>1 DEF Whole, Reading
    <2> HIDE DEF ans
    <2>3. CASE res.v = <<>>
      <3>1. CloseIt(t, id, task[t])
        BY <1>6, <2>3 DEF TakeData
      <3>2. ASSUME ~Disturbed(t) PROVE task[t].got = Content
        <4>1. PICK m \in Nat : /\ o <= m /\ m <= Len(Content) /\ res.v = SubSeq(Content, o + 1, m)
                               /\ m = o => o = Len(Content)
          BY <1>4, <2>2, <3>2, NextIs
        <4>2. Len(SubSeq(Content, o + 1, m)) = m - o
          BY <1>4, <4>1, PrefixGrows
        <4>3. Len(res.v) = 0
          BY <2>3
        <4>4. m = o
          BY <1>4, <4>1, <4>2, <4>3
        <4>5. SubSeq(Content, 1, Len(Content)) = Content
          BY <1>4
        <4> QED
          BY <2>2, <3>2, <4>1, <4>4, <4>5
      <3> QED
        BY <1>2, <3>1, <3>2, ReadTracks
    <2>4. CASE res.v # <<>>
      <3> DEFINE r == [task[t] EXCEPT !.got = @ \o res.v, !.offset = (@ + Len(res.v)) % U64]
      <3>1. res.v \in Seq(Nat \cup DirEntries) /\ Len(res.v) \in Nat
        BY <2>1, SeqMonotonic
      <3>2. task[t].got \o res.v \in Seq(Nat \cup DirEntries) /\ o + Len(res.v) \in Nat
        BY <1>4, <3>1
      <3>6. /\ (o + Len(res.v)) % U64 \in u64
            /\ o + Len(res.v) <= Len(Content) => (o + Len(res.v)) % U64 = o + Len(res.v)
        <4>1. PICK n \in Nat : n = o + Len(res.v)
          BY <3>2
        <4>2. n % U64 \in u64 /\ (n < U64 => n % U64 = n)
          BY InU32, Widths, SMT DEF u64
        <4>3. Len(Content) < U64 /\ U64 \in Nat
          BY ContentIs
        <4>4. n <= Len(Content) => n < U64
          BY <1>4, <4>3
        <4> QED
          BY <4>1, <4>2, <4>4
      <3>3. /\ r \in TaskRecs /\ r.out = "none" /\ r.prog = task[t].prog /\ r.handle = task[t].handle
            /\ r.end = task[t].end /\ r.path = task[t].path
            /\ r.got = task[t].got \o res.v /\ r.offset = (o + Len(res.v)) % U64
        BY <1>0, <1>2, <3>2, <3>6 DEF TaskRecs
      <3>4. ReadOn(t, id, r)
        BY <1>6, <2>4 DEF TakeData
      <3> HIDE DEF r
      <3>5. ASSUME ~Disturbed(t) PROVE r.offset <= Len(Content) /\ r.got = SubSeq(Content, 1, r.offset)
        <4>0. Next1(o, res.v)
          BY <2>2, <3>5
        <4>1. PICK m \in Nat : /\ o <= m /\ m <= Len(Content) /\ res.v = SubSeq(Content, o + 1, m)
                               /\ m = o => o = Len(Content)
          BY <1>4, <4>0, NextIs
        <4>2. /\ SubSeq(Content, 1, o) \o SubSeq(Content, o + 1, m) = SubSeq(Content, 1, m)
              /\ Len(SubSeq(Content, o + 1, m)) = m - o
          BY <1>4, <4>1, PrefixGrows
        <4>3. Len(res.v) = m - o /\ SubSeq(Content, 1, o) \o res.v = SubSeq(Content, 1, m)
          BY <4>1, <4>2
        <4>5. o + Len(res.v) = m
          BY <1>4, <4>1, <4>3
        <4>4. r.offset = m
          BY <3>3, <3>6, <4>1, <4>5
        <4> QED
          BY <2>2, <3>3, <3>5, <4>1, <4>3, <4>4
      <3> QED
        BY <1>2, <3>3, <3>4, <3>5, ReadTracks
    <2> QED
      BY <2>3, <2>4
  <1> QED
    BY <1>5, <1>6

LEMMA TakeWrittenTracks ==
    ASSUME Inv, Track, NEW t \in Tasks, NEW id, NEW res, Replying(t, id, res), TakeWritten(t, id, res)
    PROVE  Track'
  <1> DEFINE ans == s2c[1].ans
  <1>1. sent[id].op \in {"write", "fsetstat"}
    BY DEF TakeWritten, Answered
  <1>2. /\ task[t].handle \in Handles /\ Claim(t, task[t].handle)
        /\ task[t].out = "none" /\ task[t] \in TaskRecs /\ Asking(t) = sent[id] /\ ans \in Heard(t)
        /\ Fit(sent[id].op, ans) /\ Told(sent[id].op, ans, res) /\ Bounded(task[t])
    BY <1>1, OnHandleIs, HeardIs, ReplyingIs
  <1>3. task[t].prog \in {"write", "file"} /\ (sent[id].op = "fsetstat" => task[t].prog = "file")
    BY <1>1, ReplyingIs, SftpServerAssumption DEF Busy
  <1>4. Whole(t)
    BY DEF Track
  <1>5. CASE task[t].prog = "file"
    <2> DEFINE r == [task[t] EXCEPT !.id = 0]
    <2>1. /\ r.id = 0 /\ r.prog = task[t].prog /\ r.handle = task[t].handle
          /\ r.end = task[t].end /\ r.path = task[t].path
      BY <1>2 DEF TaskRecs
    <2>2. GoOn(t, id, r, <<>>)
      BY <1>5 DEF TakeWritten
    <2> HIDE DEF r
    <2>3. Reading(r, Nothing, {}) /\ Writing(r, Nothing, {}, fs.files[r.path]) /\ Listing(r, Nothing, {}, fs)
      BY <1>5, <2>1 DEF Reading, Writing, Listing
    <2> QED
      BY <1>2, <2>1, <2>2, <2>3, RestTracks
  <1>6. sent[id].op = "write" \/ task[t].prog = "file"
    BY <1>1, <1>3
  <1>7. CASE task[t].prog = "write" /\ ~res.ok
    BY <1>6, <1>7, FailsTrack DEF TakeWritten
  <1>8. CASE task[t].prog = "write" /\ res.ok
    <2>0. sent[id].op = "write" /\ ans.is = "ok"
      <3>1. sent[id].op = "write"
        BY <1>6, <1>8
      <3>2. Fit("write", ans) /\ Told("write", ans, res)
        BY <1>2, <3>1
      <3> QED
        BY <1>8, <3>1, <3>2, WriteTold
    <2>1. PICK o : o = task[t].offset
      OBVIOUS
    <2> DEFINE n == AtMost(ChunkSize, Len(Content) - task[t].offset)
               r == [task[t] EXCEPT !.offset = @ + n]
    <2>2. WriteOn(t, id, r)
      BY <1>8 DEF TakeWritten
    <2>3. o \in Nat /\ o <= Len(Content) /\ Len(Content) \in Nat /\ ChunkSize \in Nat
      BY <1>2, <1>8, <2>1, OffsetIs, ContentIs DEF Bounded
    <2>4. n \in Nat /\ o + n = After(o) /\ o + n <= Len(Content)
      BY <2>1, <2>3 DEF AtMost, After
    <2> HIDE DEF n
    <2>5. task[t].offset + n \in u64
      <3>1. Len(Content) < U64 /\ U64 \in Nat
        BY ContentIs
      <3> QED
        BY <2>1, <2>3, <2>4, <3>1 DEF u64
    <2>6. /\ r \in TaskRecs /\ r.out = "none" /\ r.prog = task[t].prog /\ r.handle = task[t].handle
          /\ r.end = task[t].end /\ r.path = task[t].path /\ r.offset = task[t].offset + n
      BY <1>2, <2>5 DEF TaskRecs
    <2> HIDE DEF r
    <2>7. Bounded(r) /\ r.offset = After(o)
      BY <2>1, <2>4, <2>6 DEF Bounded
    <2>8. ~Disturbed(t) => fs.files[r.path] = SubSeq(Content, 1, After(o))
      BY <1>2, <1>4, <1>8, <2>0, <2>1, <2>6 DEF Whole, Writing
    <2> QED
      BY <1>2, <1>8, <2>2, <2>6, <2>7, <2>8, WriteTracks
  <1> QED
    BY <1>3, <1>5, <1>7, <1>8

LEMMA FinishedWhole ==
    ASSUME Inv, Track, NEW t \in Tasks, NEW id, NEW res, Replying(t, id, res), NEW out \in {"ok", "err"},
           sent[id].op = "close", NEW f, f = Finish(task[t], out)
    PROVE  ~Disturbed(t) => /\ Reading(f, Nothing, {})
                            /\ Writing(f, Nothing, {}, fs.files[f.path])
                            /\ Wide(fs.dir) => Listing(f, Nothing, {}, fs)
  <1>1. task[t].out = "none" /\ task[t] \in TaskRecs /\ Asking(t) = sent[id]
    BY HeardIs
  <1>2. /\ f.id = 0 /\ f.out = out /\ f.handle = <<>> /\ f.prog = task[t].prog /\ f.end = task[t].end
        /\ f.path = task[t].path /\ f.got = task[t].got /\ f.used = task[t].used
    BY <1>1, FinishIs
  <1>3. Nothing.op = "nothing" /\ Whole(t)
    BY DEF Nothing, Track
  <1> QED
    BY <1>1, <1>2, <1>3 DEF Whole, Reading, Writing, Listing

LEMMA TakeClosedTracks ==
    ASSUME Inv, Track, NEW t \in Tasks, NEW id, NEW res, Replying(t, id, res), TakeClosed(t, id, res)
    PROVE  Track'
  <1>1. sent[id].op = "close"
    BY DEF TakeClosed, Answered
  <1>2. PICK out \in {"ok", "err"} :
           GoOn(t, id, Finish(task[t], out),
                IF task[t].end = "close_file" THEN <<Dropped(task[t].handle)>> ELSE <<>>)
    BY DEF TakeClosed
  <1>3. CASE task[t].end # "close_file"
    BY <1>1, <1>2, <1>3, FinishTracks
  <1>4. CASE task[t].end = "close_file"
    <2> DEFINE f == Finish(task[t], out)
               h == task[t].handle
    <2>1. h \in Handles /\ task[t] \in TaskRecs
      BY <1>1, OnHandleIs, HeardIs
    <2>2. /\ f.id = 0 /\ f.out = out /\ f.handle = <<>> /\ f.prog = task[t].prog /\ f.end = task[t].end
          /\ f.path = task[t].path
      BY <2>1, FinishIs
    <2>3. GoOn(t, id, f, <<Dropped(h)>>)
      BY <1>2, <1>4
    <2>4. ~Disturbed(t) => /\ Reading(f, Nothing, {})
                           /\ Writing(f, Nothing, {}, fs.files[f.path])
                           /\ Wide(fs.dir) => Listing(f, Nothing, {}, fs)
      BY <1>1, FinishedWhole
    <2> HIDE DEF f, h
    <2>5. Step(t, f, Nothing, h) /\ f.handle \notin Handles /\ Nothing.op = "nothing"
      BY <2>1, <2>2, <2>3, GoSteps, EmptyText DEF Nothing
    <2>6. Twice'
      BY <1>4, <2>2, <2>5 DEF Step, Twice
    <2> QED
      BY <2>2, <2>4, <2>5, <2>6, OnStep
  <1> QED
    BY <1>3, <1>4

LEMMA TakePathTracks ==
    ASSUME Inv, Track, NEW t \in Tasks, NEW id, NEW res, Replying(t, id, res), TakePath(t, id, res)
    PROVE  Track'
  <1>1. sent[id].op \in PathOps
    BY DEF TakePath, Answered
  <1>2. PICK out \in {"ok", "err"} : GoOn(t, id, Finish(task[t], out), <<>>)
    BY DEF TakePath
  <1> QED
    BY <1>1, <1>2, FinishTracks

-----------------------------------------------------------------------------
(* Listings.                                                               *)

(* Nobody's handle is closed twice while t is undisturbed.                 *)
LEMMA Calm ==
    ASSUME NEW t \in Tasks, ~Disturbed(t), task[t].out = "none" \/ task[t].end # "close_file"
    PROVE  ~Twice
  BY DEF Disturbed, Twice

LEMMA FilenamesAre ==
    ASSUME NEW w \in Seq(DirEntries), NEW v \in Seq(DirEntries), Filenames(w) = Filenames(v)
    PROVE  Len(w) = Len(v) /\ \A i \in 1 .. Len(w) : w[i].filename = v[i].filename
  <1>1. DOMAIN w = 1 .. Len(w) /\ DOMAIN v = 1 .. Len(v) /\ Len(w) \in Nat /\ Len(v) \in Nat
    OBVIOUS
  <1>2. DOMAIN Filenames(w) = 1 .. Len(w) /\ DOMAIN Filenames(v) = 1 .. Len(v)
    BY <1>1 DEF Filenames
  <1>3. Len(w) = Len(v)
    <2>1. ASSUME NEW a \in Nat, NEW b \in Nat, 1 .. a = 1 .. b PROVE ~(a < b)
      <3>1. a < b => b \in 1 .. b /\ b \notin 1 .. a
        OBVIOUS
      <3> QED
        BY <2>1, <3>1
    <2>2. 1 .. Len(w) = 1 .. Len(v)
      BY <1>2
    <2>3. ~(Len(w) < Len(v)) /\ ~(Len(v) < Len(w))
      BY <1>1, <2>1, <2>2
    <2>4. ASSUME NEW a \in Nat, NEW b \in Nat, ~(a < b), ~(b < a) PROVE a = b
      BY <2>4
    <2> QED
      BY <1>1, <2>3, <2>4
  <1>4. ASSUME NEW i \in 1 .. Len(w) PROVE w[i].filename = v[i].filename
    BY <1>1, <1>3 DEF Filenames
  <1> QED
    BY <1>3, <1>4

LEMMA WidePart ==
    ASSUME NEW v \in Seq(DirEntries), NEW d \in Seq(DirEntries), NEW g \in Nat, g + Len(v) <= Len(d),
           \A i \in 1 .. Len(v) : v[i] = d[g + i], Wide(d)
    PROVE  Wide(v)
  <1>1. DOMAIN v = 1 .. Len(v) /\ DOMAIN d = 1 .. Len(d) /\ Len(v) \in Nat /\ Len(d) \in Nat
    OBVIOUS
  <1>2. ASSUME NEW i \in 1 .. Len(v) PROVE Len(push_entry(to_name_entry(v[i]))) >= 16
    <2>1. g + i \in 1 .. Len(d)
      BY <1>1
    <2> QED
      BY <1>1, <2>1 DEF Wide
  <1> QED
    BY <1>1, <1>2 DEF Wide

(* SftpDir::read takes one entry of the batch.                             *)
LEMMA Advance ==
    ASSUME NEW X, NEW g \in Seq(X), NEW w \in Seq(DirEntries), w # <<>>, w[1] \in X,
           NEW d, NEW at, Reaches(g, w, d, at)
    PROVE  Reaches(Append(g, w[1]), Tail(w), d, at)
  <1> DEFINE g2 == Append(g, w[1])
             w2 == Tail(w)
  <1>1. /\ Len(g) \in Nat /\ Len(w) \in Nat /\ Len(g2) = Len(g) + 1
        /\ g2[Len(g) + 1] = w[1] /\ \A i \in 1 .. Len(g) : g2[i] = g[i]
    OBVIOUS
  <1>2. /\ Len(w2) \in Nat /\ Len(w) = Len(w2) + 1
        /\ \A i \in 1 .. Len(w2) : w2[i] = w[i + 1]
    OBVIOUS
  <1> HIDE DEF g2, w2
  <1>3. Run(g, d, 0) /\ Run(w, d, Len(g)) /\ Len(g) + Len(w) = at
    BY DEF Reaches
  <1>4. Run(g2, d, 0)
    <2> SUFFICES ASSUME NEW i \in 1 .. Len(g2) PROVE g2[i].filename = d[0 + i].filename
      BY DEF Run
    <2>1. i \in 1 .. Len(g) \/ i = Len(g) + 1
      BY <1>1
    <2>2. 1 \in 1 .. Len(w) /\ 0 + i = i
      BY <1>1, <1>2
    <2> QED
      BY <1>1, <1>3, <2>1, <2>2 DEF Run
  <1>5. Run(w2, d, Len(g2))
    <2> SUFFICES ASSUME NEW i \in 1 .. Len(w2) PROVE w2[i].filename = d[Len(g2) + i].filename
      BY DEF Run
    <2>1. i + 1 \in 1 .. Len(w) /\ Len(g) + (i + 1) = Len(g2) + i
      BY <1>1, <1>2
    <2> QED
      BY <1>2, <1>3, <2>1 DEF Run
  <1>6. Len(g2) + Len(w2) = at
    BY <1>1, <1>2, <1>3
  <1> QED
    BY <1>4, <1>5, <1>6 DEF Reaches, g2, w2

(* What the caller of readdir is told, given that t is undisturbed.        *)
LEMMA BatchIs ==
    ASSUME Inv, Track, NEW t \in Tasks, NEW id, NEW res, Replying(t, id, res), sent[id].op = "readdir", res.ok,
           ~Disturbed(t), Wide(fs.dir)
    PROVE  /\ Reaches(task[t].got, res.v, fs.dir, fs.open[task[t].handle].at)
           /\ res.v = <<>> => fs.open[task[t].handle].at = Len(fs.dir)
  <1> DEFINE ans == s2c[1].ans
             r == task[t]
             h == task[t].handle
  <1>1. /\ h \in Handles /\ Claim(t, h) /\ r.out = "none" /\ r \in TaskRecs
        /\ Asking(t) = sent[id] /\ ans \in Heard(t) /\ r.prog = "list"
    BY OnHandleIs, HeardIs, AskingIs
  <1>2. /\ ans.is = "names" /\ res.v \in Seq(DirEntries) /\ ans.v \in Seq(DirEntries)
        /\ Wide(ans.v) => Filenames(res.v) = Filenames(ans.v)
    BY BatchTold
  <1>3. Whole(t) /\ Modes(t)
    BY DEF Track
  <1>4. ~r.used
    BY <1>1, <1>3 DEF Modes
  <1>5. /\ Reaches(r.got, ans.v, fs.dir, fs.open[h].at)
        /\ \A i \in 1 .. Len(ans.v) : ans.v[i] = fs.dir[Len(r.got) + i]
        /\ ans.v = <<>> => fs.open[h].at = Len(fs.dir)
    BY <1>1, <1>2, <1>3, <1>4 DEF Whole, Listing
  <1>6. ~Twice
    BY <1>1, Calm
  <1>7. h \in DOMAIN fs.open
    BY <1>1, <1>6 DEF Track, Single
  <1>8. IsFs(fs)
    BY DEF Inv, IInv
  <1>9. fs.open[h].at <= Len(fs.dir) /\ fs.dir \in Seq(DirEntries)
    BY <1>7, <1>8, FsParts, SftpServerAssumption DEF IsFs
  <1>10. Len(r.got) \in Nat
    BY <1>1 DEF TaskRecs
  <1> HIDE DEF ans, r, h
  <1>11. Len(r.got) + Len(ans.v) <= Len(fs.dir)
    BY <1>5, <1>9 DEF Reaches
  <1>12. Filenames(res.v) = Filenames(ans.v)
    BY <1>2, <1>5, <1>9, <1>10, <1>11, WidePart
  <1>13. Len(res.v) = Len(ans.v) /\ \A i \in 1 .. Len(res.v) : res.v[i].filename = ans.v[i].filename
    BY <1>2, <1>12, FilenamesAre
  <1>14. Reaches(r.got, res.v, fs.dir, fs.open[h].at)
    BY <1>5, <1>13 DEF Reaches, Run
  <1>15. res.v = <<>> => ans.v = <<>>
    <2>1. res.v = <<>> => Len(res.v) = 0
      OBVIOUS
    <2>2. Len(ans.v) = 0 => ans.v = <<>>
      BY <1>2
    <2> QED
      BY <1>13, <2>1, <2>2
  <1> QED
    BY <1>5, <1>14, <1>15 DEF r, h

LEMMA TakeBatchTracks ==
    ASSUME Inv, Track, NEW t \in Tasks, NEW id, NEW res, Replying(t, id, res), TakeBatch(t, id, res)
    PROVE  Track'
  <1>1. sent[id].op = "readdir"
    BY DEF TakeBatch, Answered
  <1>2. /\ task[t].handle \in Handles /\ Claim(t, task[t].handle) /\ task[t].out = "none" /\ task[t] \in TaskRecs
        /\ task[t].prog = "list" /\ Asking(t) = sent[id]
    BY <1>1, OnHandleIs, HeardIs, AskingIs
  <1>3. ~task[t].used /\ Nothing.op = "nothing"
    BY <1>1, <1>2 DEF Track, Modes, Nothing
  <1>4. CASE ~res.ok
    BY <1>1, <1>4, FailsTrack DEF TakeBatch
  <1>5. CASE res.ok /\ res.v = <<>>
    <2> DEFINE r == [task[t] EXCEPT !.id = 0, !.used = TRUE]
    <2>1. /\ r.id = 0 /\ r.prog = task[t].prog /\ r.handle = task[t].handle /\ r.end = task[t].end
          /\ r.path = task[t].path /\ r.used /\ r.got = task[t].got
      BY <1>2 DEF TaskRecs
    <2>2. GoOn(t, id, r, <<>>)
      BY <1>5 DEF TakeBatch
    <2> HIDE DEF r
    <2>3. ASSUME ~Disturbed(t), Wide(fs.dir) PROVE Listing(r, Nothing, {}, fs)
      <3>1. /\ Reaches(r.got, <<>>, fs.dir, fs.open[r.handle].at)
            /\ fs.open[r.handle].at = Len(fs.dir)
        BY <1>1, <1>5, <2>1, <2>3, BatchIs
      <3>2. Len(r.got) \in Nat
        BY <1>2, <2>1 DEF TaskRecs
      <3>3. Run(r.got, fs.dir, 0) /\ Len(r.got) = Len(fs.dir)
        BY <3>1, <3>2 DEF Reaches
      <3> QED
        BY <2>1, <3>3 DEF Listing
    <2>4. Reading(r, Nothing, {}) /\ Writing(r, Nothing, {}, fs.files[r.path])
      BY <1>2, <2>1 DEF Reading, Writing
    <2> QED
      BY <1>2, <2>1, <2>2, <2>3, <2>4, RestTracks
  <1>6. CASE res.ok /\ res.v # <<>>
    <2> DEFINE r == [task[t] EXCEPT !.id = 0, !.got = Append(@, res.v[1]), !.entries = Tail(res.v)]
    <2>1. /\ r.id = 0 /\ r.prog = task[t].prog /\ r.handle = task[t].handle /\ r.end = task[t].end
          /\ r.path = task[t].path /\ ~r.used /\ r.got = Append(task[t].got, res.v[1]) /\ r.entries = Tail(res.v)
      BY <1>2, <1>3 DEF TaskRecs
    <2>2. GoOn(t, id, r, <<>>)
      BY <1>6 DEF TakeBatch
    <2> HIDE DEF r
    <2>3. ASSUME ~Disturbed(t), Wide(fs.dir) PROVE Listing(r, Nothing, {}, fs)
      <3>1. Reaches(task[t].got, res.v, fs.dir, fs.open[r.handle].at)
        BY <1>1, <1>6, <2>1, <2>3, BatchIs
      <3>2. task[t].got \in Seq(Nat \cup DirEntries) /\ res.v \in Seq(DirEntries)
        BY <1>1, <1>2, <1>6, BatchTold DEF TaskRecs
      <3>3. res.v[1] \in Nat \cup DirEntries
        BY <1>6, <3>2
      <3>4. Reaches(r.got, r.entries, fs.dir, fs.open[r.handle].at)
        BY <1>6, <2>1, <3>1, <3>2, <3>3, Advance
      <3> QED
        BY <1>3, <2>1, <3>4 DEF Listing
    <2>4. Reading(r, Nothing, {}) /\ Writing(r, Nothing, {}, fs.files[r.path])
      BY <1>2, <2>1 DEF Reading, Writing
    <2> QED
      BY <1>2, <2>1, <2>2, <2>3, <2>4, RestTracks
  <1> QED
    BY <1>4, <1>5, <1>6

LEMMA TakesTrack ==
    ASSUME Inv, Track, NEW t \in Tasks, NEW id, NEW res, Replying(t, id, res), Takes(t, id, res)
    PROVE  Track'
  BY TakeHandleTracks, TakeAttrsTracks, TakeDataTracks, TakeWrittenTracks, TakeBatchTracks, TakeClosedTracks,
     TakePathTracks DEF Takes

-----------------------------------------------------------------------------
(* A caller that waits for nothing.                                        *)

LEMMA UseTracks ==
    ASSUME Inv, Track, NEW t \in Tasks, Holds(t), NEW r \in TaskRecs, r.prog = task[t].prog, r.end = task[t].end,
           r.path = task[t].path, r.handle = task[t].handle,
           NEW op, NEW args, Use(t, Ask(r), <<<<t, op, args>>>>), op # "open", op = "readdir" => ~r.used,
           NEW q, q = [task |-> t, op |-> op, args |-> args],
           ~Disturbed(t) => /\ Reading(r, q, {})
                            /\ Writing(r, q, {}, fs.files[r.path])
                            /\ Wide(fs.dir) => Listing(r, q, {}, fs)
    PROVE  Track'
  <1> DEFINE a == Ask(r)
  <1>1. task[t].out = "none" /\ nextId \in Nat /\ task[t].id = 0 /\ task[t].handle \in Handles
    BY HoldsIs
  <1>2. /\ a.id = nextId /\ a.prog = r.prog /\ a.end = r.end /\ a.handle = r.handle /\ a.path = r.path
        /\ a.offset = r.offset /\ a.got = r.got /\ a.entries = r.entries /\ a.used = r.used /\ a.out = r.out
    BY <1>1, AskType
  <1>3. Use(t, a, <<<<t, op, args>>>>) /\ q.op = op
    OBVIOUS
  <1> HIDE DEF a
  <1>4. Acts(t, sent, a, q, <<>>)
    BY <1>2, <1>3 DEF Acts, Use
  <1>5. Step(t, a, q, <<>>)
    BY <1>1, <1>3, <1>4, CallStep DEF Use
  <1>6. ~Disturbed(t) => /\ Reading(a, q, {})
                         /\ Writing(a, q, {}, fs.files[a.path])
                         /\ Wide(fs.dir) => Listing(a, q, {}, fs)
    BY <1>2 DEF Reading, Writing, Listing
  <1>7. <<>> \notin Handles /\ Claim(t, task[t].handle)
    BY <1>1, EmptyText, AskingIs DEF Claim, Nothing
  <1> QED
    BY <1>1, <1>2, <1>3, <1>5, <1>6, <1>7, OnStep

LEMMA FileCallTracks ==
    ASSUME Inv, Track, NEW t \in Tasks, FileCall(t)
    PROVE  Track'
  <1>1. Holds(t) /\ task[t].prog = "file"
    BY DEF FileCall
  <1>2. task[t] \in TaskRecs
    BY <1>1, HoldsIs
  <1> DEFINE r == [task[t] EXCEPT !.used = TRUE]
  <1>3. r \in TaskRecs /\ r.prog = task[t].prog /\ r.end = task[t].end /\ r.path = task[t].path /\ r.handle = task[t].handle
    BY <1>2 DEF TaskRecs
  <1> DEFINE h == task[t].handle
  <1>4. \/ \E d \in Writes : Use(t, Ask(r), <<<<t, "write", <<h, 0, d>>>>>>)
        \/ Use(t, Ask(r), <<<<t, "fstat", <<h>>>>>>)
        \/ \E m \in Metas : Use(t, [Ask(r) EXCEPT !.meta = m], <<<<t, "fsetstat", <<h, to_packet(m)>>>>>>)
    BY DEF FileCall
  <1> HIDE DEF r, h
  <1>5. ASSUME NEW s \in TaskRecs, s.prog = r.prog, s.end = r.end, s.path = r.path, s.handle = r.handle,
               NEW op, NEW args, op \in {"write", "fstat", "fsetstat"}, Use(t, Ask(s), <<<<t, op, args>>>>)
        PROVE  Track'
    <2>1. PICK q : q = [task |-> t, op |-> op, args |-> args]
      OBVIOUS
    <2>2. Reading(s, q, {}) /\ Writing(s, q, {}, fs.files[s.path]) /\ Listing(s, q, {}, fs)
      BY <1>1, <1>3, <1>5 DEF Reading, Writing, Listing
    <2> QED
      BY <1>1, <1>3, <1>5, <2>1, <2>2, UseTracks
  <1>6. ASSUME NEW d \in Writes, Use(t, Ask(r), <<<<t, "write", <<h, 0, d>>>>>>) PROVE Track'
    <2>1. PICK args : args = <<h, 0, d>>
      OBVIOUS
    <2> QED
      BY <1>3, <1>5, <1>6, <2>1
  <1>7. ASSUME Use(t, Ask(r), <<<<t, "fstat", <<h>>>>>>) PROVE Track'
    <2>1. PICK args : args = <<h>>
      OBVIOUS
    <2> QED
      BY <1>3, <1>5, <1>7, <2>1
  <1>8. ASSUME NEW m \in Metas,
               Use(t, [Ask(r) EXCEPT !.meta = m], <<<<t, "fsetstat", <<h, to_packet(m)>>>>>>)
        PROVE  Track'
    <2>1. PICK args : args = <<h, to_packet(m)>>
      OBVIOUS
    <2> DEFINE s == [r EXCEPT !.meta = m]
    <2>2. m \in Metadata
      BY SftpServerAssumption
    <2>3. /\ s \in TaskRecs /\ s.prog = r.prog /\ s.end = r.end /\ s.path = r.path /\ s.handle = r.handle
          /\ Ask(s) = [Ask(r) EXCEPT !.meta = m]
      BY <1>3, <2>2 DEF TaskRecs, Ask
    <2> HIDE DEF s
    <2> QED
      BY <1>5, <1>8, <2>1, <2>3
  <1> QED
    BY <1>4, <1>6, <1>7, <1>8

LEMMA DirReadTracks ==
    ASSUME Inv, Track, NEW t \in Tasks, DirRead(t)
    PROVE  Track'
  <1>1. Holds(t) /\ task[t].prog = "list" /\ ~task[t].used
    BY DEF DirRead
  <1>2. /\ task[t] \in TaskRecs /\ task[t].id = 0 /\ task[t].out = "none" /\ task[t].handle \in Handles
        /\ Asking(t) = Nothing /\ Heard(t) = {}
    BY <1>1, HoldsIs, AskingIs
  <1>3. Nothing.op = "nothing" /\ <<>> \notin Handles /\ Claim(t, task[t].handle)
    BY <1>2, EmptyText DEF Nothing, Claim
  <1>4. Whole(t)
    BY DEF Track
  <1>5. ASSUME ~Disturbed(t), Wide(fs.dir)
        PROVE  Reaches(task[t].got, task[t].entries, fs.dir, fs.open[task[t].handle].at)
    BY <1>1, <1>2, <1>3, <1>4, <1>5 DEF Whole, Listing
  <1>6. CASE task[t].entries # <<>>
    <2> DEFINE r == [task[t] EXCEPT !.got = Append(@, Head(task[t].entries)), !.entries = Tail(@)]
    <2>1. task[t].entries \in Seq(DirEntries) /\ task[t].got \in Seq(Nat \cup DirEntries)
      BY <1>2 DEF TaskRecs
    <2>2. Head(task[t].entries) = task[t].entries[1] /\ task[t].entries[1] \in Nat \cup DirEntries
      BY <1>6, <2>1
    <2>3. /\ r.id = 0 /\ r.prog = task[t].prog /\ r.handle = task[t].handle /\ r.end = task[t].end /\ r.out = "none"
          /\ r.path = task[t].path /\ ~r.used /\ r.got = Append(task[t].got, task[t].entries[1])
          /\ r.entries = Tail(task[t].entries)
      BY <1>1, <1>2, <2>2 DEF TaskRecs
    <2>4. Use(t, r, <<>>)
      BY <1>6 DEF DirRead
    <2> HIDE DEF r
    <2>5. Acts(t, sent, r, Nothing, <<>>)
      BY <2>3, <2>4 DEF Acts, Use
    <2>6. Step(t, r, Nothing, <<>>)
      BY <1>2, <2>4, <2>5, CallStep DEF Use
    <2>7. ASSUME ~Disturbed(t), Wide(fs.dir) PROVE Listing(r, Nothing, {}, fs)
      <3>1. Reaches(r.got, r.entries, fs.dir, fs.open[r.handle].at)
        BY <1>5, <1>6, <2>1, <2>2, <2>3, <2>7, Advance
      <3> QED
        BY <1>3, <2>3, <3>1 DEF Listing
    <2>8. Reading(r, Nothing, {}) /\ Writing(r, Nothing, {}, fs.files[r.path])
      BY <1>1, <2>3 DEF Reading, Writing
    <2> QED
      BY <1>2, <1>3, <2>3, <2>6, <2>7, <2>8, OnStep
  <1>7. CASE task[t].entries = <<>>
    <2> DEFINE args == <<task[t].handle>>
    <2>1. PICK q : q = [task |-> t, op |-> "readdir", args |-> args]
      OBVIOUS
    <2>2. Use(t, Ask(task[t]), <<<<t, "readdir", args>>>>)
      BY <1>7 DEF DirRead
    <2> HIDE DEF args
    <2>3. q.op = "readdir"
      BY <2>1
    <2>4. ASSUME ~Disturbed(t), Wide(fs.dir) PROVE Listing(task[t], q, {}, fs)
      <3>1. Reaches(task[t].got, <<>>, fs.dir, fs.open[task[t].handle].at)
        BY <1>5, <1>7, <2>4
      <3> QED
        BY <1>1, <1>7, <2>3, <3>1 DEF Listing
    <2>5. Reading(task[t], q, {}) /\ Writing(task[t], q, {}, fs.files[task[t].path])
      BY <1>1 DEF Reading, Writing
    <2> QED
      BY <1>1, <1>2, <2>1, <2>2, <2>4, <2>5, UseTracks
  <1> QED
    BY <1>6, <1>7

LEMMA EndUseTracks ==
    ASSUME Inv, Track, NEW t \in Tasks, EndUse(t)
    PROVE  Track'
  <1>1. Holds(t)
    BY DEF EndUse
  <1>2. /\ task[t] \in TaskRecs /\ task[t].id = 0 /\ task[t].out = "none" /\ task[t].handle \in Handles
        /\ Asking(t) = Nothing /\ Heard(t) = {} /\ task[t].prog \in {"file", "list"}
    BY <1>1, HoldsIs, AskingIs
  <1>3. Nothing.op = "nothing" /\ <<>> \notin Handles /\ Claim(t, task[t].handle)
    BY <1>2, EmptyText DEF Nothing, Claim
  <1>4. Whole(t)
    BY DEF Track
  <1>5. CASE task[t].end = "drop"
    <2> DEFINE f == Finish(task[t], "ok")
               h == task[t].handle
    <2>1. /\ f.id = 0 /\ f.out = "ok" /\ f.handle = <<>> /\ f.prog = task[t].prog /\ f.end = task[t].end
          /\ f.path = task[t].path /\ f.got = task[t].got /\ f.used = task[t].used
      BY <1>2, FinishIs
    <2>2. Use(t, f, <<Dropped(h)>>) /\ h \in Handles /\ Claim(t, h)
      BY <1>2, <1>3, <1>5 DEF EndUse
    <2> HIDE DEF f, h
    <2>3. Acts(t, sent, f, Nothing, h)
      BY <2>1, <2>2 DEF Acts, Use
    <2>4. Step(t, f, Nothing, h)
      BY <1>2, <2>2, <2>3, CallStep DEF Use
    <2>5. ~Disturbed(t) => /\ Reading(f, Nothing, {})
                           /\ Writing(f, Nothing, {}, fs.files[f.path])
                           /\ Wide(fs.dir) => Listing(f, Nothing, {}, fs)
      BY <1>2, <1>4, <2>1 DEF Whole, Reading, Writing, Listing
    <2> QED
      BY <1>3, <2>1, <2>2, <2>4, <2>5, OnStep
  <1>6. CASE task[t].end # "drop"
    <2> DEFINE args == <<task[t].handle>>
    <2>1. PICK q : q = [task |-> t, op |-> "close", args |-> args]
      OBVIOUS
    <2>2. Use(t, Ask(task[t]), <<<<t, "close", args>>>>)
      BY <1>6 DEF EndUse
    <2> HIDE DEF args
    <2>3. q.op = "close"
      BY <2>1
    <2>4. ~Disturbed(t) => /\ Reading(task[t], q, {})
                           /\ Writing(task[t], q, {}, fs.files[task[t].path])
                           /\ Wide(fs.dir) => Listing(task[t], q, {}, fs)
      BY <1>2, <1>4, <2>3 DEF Whole, Reading, Writing, Listing
    <2> QED
      BY <1>1, <1>2, <2>1, <2>2, <2>4, UseTracks
  <1> QED
    BY <1>5, <1>6

LEMMA BeginTracks ==
    ASSUME Inv, Track, NEW t \in Tasks, NEW prog \in {"read", "write", "file", "list", "path"},
           NEW end \in {"close", "close_file", "drop"}, NEW p \in Paths, NEW m \in Metadata, NEW op, NEW args,
           Begin(t, prog, end, p, m, <<t, op, args>>), prog \in {"read", "write"} => end = "close",
           op = "open" => (args[2] = WriteMode <=> prog = "write"),
           op \notin {"nothing", "fstat", "read", "write", "readdir", "close"}
    PROVE  Track'
  <1> DEFINE b == Begun(prog, end, p, m)
             r == Ask(b)
             q == [task |-> t, op |-> op, args |-> args]
  <1>1. /\ b \in TaskRecs /\ b.prog = prog /\ b.end = end /\ b.path = p /\ b.out = "none" /\ b.handle = <<>>
        /\ b.offset = 0 /\ b.got = <<>> /\ b.entries = <<>> /\ b.used = FALSE
    <2>1. b \in TaskRecs
      BY BegunType
    <2> QED
      BY <2>1 DEF Begun, Idle
  <1>2. task[t] = Idle /\ task[t].id = 0 /\ nextId \in Nat
    BY Unbegun DEF Begin, Inv, IInv
  <1>3. /\ task' = [task EXCEPT ![t] = r] /\ Issue(<<<<t, op, args>>>>, sent)
        /\ UNCHANGED <<srv, s2c, fs>>
    BY DEF Begin, Begun
  <1> HIDE DEF b
  <1>4. /\ r.id = nextId /\ r.prog = prog /\ r.end = end /\ r.path = p /\ r.out = "none" /\ r.handle = <<>>
        /\ r.offset = 0 /\ r.got = <<>> /\ r.entries = <<>> /\ r.used = FALSE
    BY <1>1, <1>2, AskType
  <1> HIDE DEF r
  <1>5. Acts(t, sent, r, q, <<>>) /\ q.op = op /\ q.args = args
    BY <1>3, <1>4 DEF Acts
  <1>6. Step(t, r, q, <<>>)
    BY <1>2, <1>3, <1>5, CallStep
  <1> HIDE DEF q
  <1>7. task'[t] = r /\ Asking(t)' = q /\ Heard(t)' = {}
    BY <1>6 DEF Step
  <1>8. Modes(t)'
    BY <1>4, <1>5, <1>7 DEF Modes
  <1>9. Whole(t)'
    BY <1>4, <1>5, <1>7 DEF Whole, Reading, Writing, Listing
  <1>10. Lasts(task[t], r) /\ <<>> \notin Handles
    BY <1>2, EmptyText DEF Lasts, Idle
  <1> QED
    BY <1>4, <1>6, <1>8, <1>9, <1>10, StepTracks

LEMMA StartsTrack ==
    ASSUME Inv, Track, NEW t \in Tasks, Starts(t)
    PROVE  Track'
  <1>1. SomePath \in Paths /\ ReadMode # WriteMode
    BY SomePathIs DEF ReadMode, WriteMode
  <1>2. \A p, m : <<p, m, NoAttrs>>[2] = m
    BY ThreeSeq
  <1>0. NoMetadata \in Metadata /\ Metas \subseteq Metadata
    BY SftpServerAssumption, NoMetadataIs
  <1>3. CASE StartRead(t)
    <2> DEFINE args == <<SomePath, ReadMode, NoAttrs>>
    <2>1. Begin(t, "read", "close", SomePath, NoMetadata, <<t, "open", args>>) /\ args[2] = ReadMode
      BY <1>2, <1>3 DEF StartRead
    <2> HIDE DEF args
    <2> QED
      BY <1>0, <1>1, <2>1, BeginTracks
  <1>4. CASE StartWrite(t)
    <2> DEFINE args == <<SomePath, WriteMode, NoAttrs>>
    <2>1. Begin(t, "write", "close", SomePath, NoMetadata, <<t, "open", args>>) /\ args[2] = WriteMode
      BY <1>2, <1>4 DEF StartWrite
    <2> HIDE DEF args
    <2> QED
      BY <1>0, <1>1, <2>1, BeginTracks
  <1>5. CASE StartFile(t)
    <2>1. PICK p \in Paths, end \in {"close", "close_file", "drop"} :
            Begin(t, "file", end, p, NoMetadata, <<t, "open", <<p, ReadMode, NoAttrs>>>>)
      BY <1>5 DEF StartFile
    <2> DEFINE args == <<p, ReadMode, NoAttrs>>
    <2>2. Begin(t, "file", end, p, NoMetadata, <<t, "open", args>>) /\ args[2] = ReadMode
      BY <1>2, <2>1
    <2> HIDE DEF args
    <2> QED
      BY <1>0, <1>1, <2>2, BeginTracks
  <1>6. CASE StartList(t)
    <2>1. PICK end \in {"close", "close_file", "drop"} :
            Begin(t, "list", end, SomePath, NoMetadata, <<t, "opendir", <<SomePath>>>>)
      BY <1>6 DEF StartList
    <2> QED
      BY <1>0, <1>1, <2>1, BeginTracks
  <1>7. CASE StartPath(t)
    <2>1. PICK op \in PathOps, q \in Paths \ {SomePath}, m \in Metas :
            Begin(t, "path", "close", SomePath, m, <<t, op, PathArgs(op, SomePath, q, m)>>)
      BY <1>7 DEF StartPath
    <2>2. op \notin {"open", "nothing", "fstat", "read", "write", "readdir", "close"}
      BY SftpServerAssumption
    <2> QED
      BY <1>0, <1>1, <2>1, <2>2, BeginTracks
  <1> QED
    BY <1>3, <1>4, <1>5, <1>6, <1>7 DEF Starts

LEMMA RawTracks ==
    ASSUME Inv, Track, NEW t \in Tasks, SendRaw(t)
    PROVE  Track'
  <1> DEFINE r == [Idle EXCEPT !.prog = "raw", !.out = "ok"]
  <1>1. task' = [task EXCEPT ![t] = r] /\ task[t].prog = "none" /\ UNCHANGED <<sent, s2c, fs>>
    BY DEF SendRaw
  <1>2. /\ r.id = 0 /\ r.prog = "raw" /\ r.end = "none" /\ r.path = <<>> /\ r.out = "ok" /\ r.handle = <<>>
        /\ r.used = FALSE
    BY DEF Idle
  <1> HIDE DEF r
  <1>3. task[t] = Idle /\ task \in [Tasks -> TaskRecs]
    BY <1>1, Unbegun DEF Inv, IInv
  <1>4. task'[t] = r /\ \A u \in Tasks : u # t => task'[u] = task[u]
    BY <1>1, <1>3
  <1>5. Asking(t)' = Nothing /\ Heard(t)' = {} /\ Nothing.op = "nothing"
    BY <1>2, <1>4 DEF Asking, Heard, Nothing
  <1>6. ASSUME NEW u \in Tasks, u # t PROVE Same(u)
    BY <1>1, <1>4, <1>6, SameIs
  <1>7. \A i, h : Leaving(i, h)' => Leaving(i, h)
    BY <1>1 DEF Leaving, Unanswered
  <1>8. Step(t, r, Nothing, <<>>)
    BY <1>1, <1>4, <1>5, <1>6, <1>7 DEF Step
  <1>9. Modes(t)'
    BY <1>2, <1>4, <1>5 DEF Modes
  <1>10. Whole(t)'
    BY <1>2, <1>4, <1>5 DEF Whole, Reading, Writing, Listing
  <1>11. Lasts(task[t], r) /\ <<>> \notin Handles
    BY <1>3, EmptyText DEF Lasts, Idle
  <1> QED
    BY <1>2, <1>8, <1>9, <1>10, <1>11, StepTracks

(* A reply that nobody awaits.                                             *)
LEMMA UnawaitedTracks ==
    ASSUME Inv, Track, s2c # <<>>, s2c' = Tail(s2c), UNCHANGED <<task, nextId, c2s, srv, fs>>,
           \/ ~IsReply(Received(s2c[1])) /\ sent' = sent
           \/ /\ IsReply(Received(s2c[1])) /\ sent[s2c[1].id].task = Nobody /\ sent[s2c[1].id].op = "close"
              /\ sent' = Without(sent, s2c[1].id)
    PROVE  Track'
  <1> DEFINE R == Tail(s2c)
             id == s2c[1].id
  <1>1. /\ Len(s2c) \in Nat /\ 1 \in 1 .. Len(s2c) /\ Len(R) \in Nat /\ Len(s2c) = Len(R) + 1
        /\ \A i \in 1 .. Len(R) : R[i] = s2c[i + 1] /\ i + 1 \in 1 .. Len(s2c)
    BY FirstReply
  <1>2. \A x \in DOMAIN sent : x # id => x \in DOMAIN sent' /\ sent'[x] = sent[x]
    BY DEF Without
  <1>3. \A x \in DOMAIN sent' : x \in DOMAIN sent /\ sent'[x] = sent[x] /\ x # id
    <2>1. ~IsReply(Received(s2c[1])) => id = 0
      BY FirstReply
    <2>2. 0 \notin DOMAIN sent
      BY DEF Inv, IInv, Asks
    <2> QED
      BY <2>1, <2>2 DEF Without
  <1>4. id \in DOMAIN sent => sent[id].task = Nobody
    <2>1. ~IsReply(Received(s2c[1])) => id = 0
      BY FirstReply
    <2>2. 0 \notin DOMAIN sent
      BY DEF Inv, IInv, Asks
    <2> QED
      BY <2>1, <2>2
  <1>5. s2c' = R /\ UNCHANGED <<task, fs>>
    OBVIOUS
  <1>6. id = s2c[1].id
    OBVIOUS
  <1> HIDE DEF R, id
  <1>7. \A j \in 1 .. Len(s2c) : j = 1 \/ (j - 1 \in 1 .. Len(R) /\ R[j - 1] = s2c[j])
    <2>1. ASSUME NEW j \in 1 .. Len(s2c), j # 1 PROVE j - 1 \in 1 .. Len(R) /\ (j - 1) + 1 = j
      BY <1>1, <2>1
    <2> QED
      BY <1>1, <2>1
  <1>8. ASSUME NEW u \in Tasks PROVE Same(u)
    <2>1. task[u].id # 0 => task[u].id \in DOMAIN sent /\ sent[task[u].id].task = u
      BY AskingIs
    <2>2. task[u].id # 0 => task[u].id # id /\ sent'[task[u].id] = sent[task[u].id]
      BY <1>2, <1>4, <2>1, SftpServerAssumption
    <2>3. \A i \in 1 .. Len(s2c') : \E j \in 1 .. Len(s2c) : s2c[j] = s2c'[i]
      BY <1>1, <1>5
    <2>4. task[u].id # 0 => \A j \in 1 .. Len(s2c) : s2c[j].id = task[u].id =>
                               \E i \in 1 .. Len(s2c') : s2c'[i] = s2c[j]
      BY <1>5, <1>6, <1>7, <2>2
    <2> QED
      BY <1>5, <2>2, <2>3, <2>4, SameIs
  <1>9. ASSUME NEW x, NEW h, Leaving(x, h)' PROVE Leaving(x, h)
    <2>1. /\ x \in DOMAIN sent' /\ sent'[x].task = Nobody /\ sent'[x].args[1] = h
          /\ \A i \in 1 .. Len(s2c') : s2c'[i].id # x
      BY <1>9 DEF Leaving, Unanswered
    <2>2. x \in DOMAIN sent /\ sent'[x] = sent[x] /\ x # id
      BY <1>3, <2>1
    <2>3. \A j \in 1 .. Len(s2c) : s2c[j].id # x
      BY <1>5, <1>6, <1>7, <2>1, <2>2
    <2> QED
      BY <2>1, <2>2, <2>3 DEF Leaving, Unanswered
  <1> QED
    BY <1>5, <1>8, <1>9, QuietTracks

-----------------------------------------------------------------------------
(* Steps of the server.                                                    *)

Serving(id, ans) == Tells(id, ans) /\ Does(sent[id], ans) /\ UNCHANGED <<task, sent>>

(* The reply is for its caller alone.                                      *)
LEMMA ServingIs ==
    ASSUME Inv, NEW id, NEW ans, Serving(id, ans)
    PROVE  /\ \A u \in Tasks : task[u].id # id => Same(u)
           /\ \A u \in Tasks : task[u].id = id =>
                 /\ task'[u] = task[u] /\ Asking(u) = sent[id] /\ Asking(u)' = sent[id]
                 /\ Heard(u) = {} /\ Heard(u)' = {ans}
           /\ \A i, h : Leaving(i, h)' => Leaving(i, h) /\ i # id
           /\ \/ sent[id].task = Nobody /\ sent[id].op = "close" /\ Leaving(id, sent[id].args[1])
                 /\ sent[id].args[1] \in Handles /\ \A u \in Tasks : task[u].id # id
              \/ \E t \in Tasks : task[t].id = id /\ \A u \in Tasks : u # t => task[u].id # id
  <1> DEFINE e == [op |-> sent[id].op, id |-> id, args |-> sent[id].args, ans |-> ans]
             n == Len(s2c) + 1
  <1>1. /\ id \in DOMAIN sent /\ Unanswered(id) /\ s2c' = Append(s2c, e) /\ UNCHANGED <<task, sent>>
        /\ e.id = id /\ e.ans = ans
    BY DEF Serving, Tells, Unanswered
  <1>2. IInv /\ id # 0
    BY <1>1 DEF Inv, IInv, Asks
  <1> HIDE DEF e
  <1>3. /\ Len(s2c) \in Nat /\ s2c'[n] = e
        /\ \A i \in 1 .. Len(s2c) : s2c'[i] = s2c[i]
        /\ \A i \in 1 .. Len(s2c') : i = n \/ i \in 1 .. Len(s2c)
        /\ \A i \in 1 .. Len(s2c) : i \in 1 .. Len(s2c')
        /\ n \in 1 .. Len(s2c')
    BY <1>1, <1>2, ReplyIds, AppendIs
  <1> HIDE DEF n
  <1>4. ASSUME NEW u \in Tasks, task[u].id # id PROVE Same(u)
    <2>1. \A i \in 1 .. Len(s2c') : s2c'[i].id = task[u].id => \E j \in 1 .. Len(s2c) : s2c[j] = s2c'[i]
      BY <1>1, <1>3, <1>4
    <2>2. \A j \in 1 .. Len(s2c) : \E i \in 1 .. Len(s2c') : s2c'[i] = s2c[j]
      BY <1>3
    <2> QED
      BY <1>1, <2>1, <2>2, SameIs
  <1>5. ASSUME NEW u \in Tasks, task[u].id = id
        PROVE  /\ task'[u] = task[u] /\ Asking(u) = sent[id] /\ Asking(u)' = sent[id]
               /\ Heard(u) = {} /\ Heard(u)' = {ans}
    <2>1. Asking(u) = sent[id] /\ Asking(u)' = sent[id]
      BY <1>1, <1>2, <1>5 DEF Asking
    <2>2. Heard(u) = {}
      BY <1>1, <1>5 DEF Heard, Unanswered
    <2>3. \A x : x \in Heard(u)' <=> x = ans
      <3>1. \A i \in 1 .. Len(s2c') : s2c'[i].id = id <=> i = n
        BY <1>1, <1>3 DEF Unanswered
      <3>2. Heard(u)' = {s2c'[i].ans : i \in {j \in 1 .. Len(s2c') : id # 0 /\ s2c'[j].id = id}}
        BY <1>1, <1>5 DEF Heard
      <3>3. {j \in 1 .. Len(s2c') : id # 0 /\ s2c'[j].id = id} = {n}
        BY <1>2, <1>3, <3>1
      <3> QED
        BY <1>1, <1>3, <3>2, <3>3
    <2> QED
      BY <1>1, <2>1, <2>2, <2>3
  <1>6. ASSUME NEW i, NEW h, Leaving(i, h)' PROVE Leaving(i, h) /\ i # id
    <2>1. /\ i \in DOMAIN sent /\ sent[i].task = Nobody /\ sent[i].args[1] = h
          /\ \A j \in 1 .. Len(s2c') : s2c'[j].id # i
      BY <1>1, <1>6 DEF Leaving, Unanswered
    <2>2. i # id /\ \A j \in 1 .. Len(s2c) : s2c[j].id # i
      BY <1>1, <1>3, <2>1
    <2> QED
      BY <2>1, <2>2 DEF Leaving, Unanswered
  <1>7. Owned(task, id, sent[id])
    BY <1>1 DEF Inv, Owns
  <1>8. \A u \in Tasks : task[u].id = id => sent[id].task = u
    BY <1>2, AskingIs
  <1>9. CASE sent[id].task = Nobody
    <2>1. sent[id].op = "close" /\ sent[id].args[1] \in Handles
      BY <1>7, <1>9, SftpServerAssumption DEF Owned
    <2>2. Leaving(id, sent[id].args[1])
      BY <1>1, <1>9 DEF Leaving
    <2>3. \A u \in Tasks : task[u].id # id
      BY <1>8, <1>9, SftpServerAssumption
    <2> QED
      BY <1>4, <1>5, <1>6, <1>9, <2>1, <2>2, <2>3
  <1>10. CASE sent[id].task # Nobody
    <2>1. \E t \in Tasks : task[t].id = id /\ \A u \in Tasks : u # t => task[u].id # id
      BY <1>7, <1>8, <1>10 DEF Owned
    <2> QED
      BY <1>4, <1>5, <1>6, <2>1
  <1> QED
    BY <1>9, <1>10

(* The handles the other callers have are left alone.                      *)
LEMMA OthersKept ==
    ASSUME Inv, Track, ~Twice, NEW id, NEW ans, Serving(id, ans), NEW u \in Tasks, task[u].id # id,
           NEW h \in Handles, Claim(u, h)
    PROVE  h \in DOMAIN fs'.open /\ fs'.open[h] = fs.open[h]
  <1>1. Single /\ h \in DOMAIN fs.open
    BY DEF Track, Single
  <1>2. Does(sent[id], ans)
    BY DEF Serving
  <1>3. CASE sent[id].task = Nobody /\ Leaving(id, sent[id].args[1]) /\ sent[id].op = "close"
    <2>1. h # sent[id].args[1]
      BY <1>1, <1>3 DEF Single
    <2> QED
      BY <1>1, <1>2, <1>3, <2>1 DEF Does, Opens, Closes, Writes1, Lists, Reads, Looks
  <1>4. ASSUME NEW t \in Tasks, task[t].id = id PROVE h \in DOMAIN fs'.open /\ fs'.open[h] = fs.open[h]
    <2>1. Asking(t) = sent[id] /\ Heard(t) = {} /\ t # u
      BY <1>4, ServingIs
    <2>2. /\ sent[id].op \in {"fstat", "read", "write", "fsetstat", "readdir", "close"} => task[t].handle = sent[id].args[1]
          /\ sent[id].op \in {"open", "opendir"} => sent[id].args[1] = task[t].path
      BY <2>1, AskingIs
    <2>3. task[t].handle = h => Claim(t, h)
      BY <2>1 DEF Claim
    <2>4. task[t].handle # h
      BY <1>1, <2>1, <2>3 DEF Single
    <2>5. sent[id].op \in {"fstat", "read", "write", "fsetstat", "readdir", "close"} => h # sent[id].args[1]
      BY <2>2, <2>4
    <2> QED
      BY <1>1, <1>2, <2>5 DEF Does, Opens, Closes, Writes1, Lists, Reads, Looks
  <1> QED
    BY <1>3, <1>4, ServingIs

LEMMA ServingSingle ==
    ASSUME Inv, Track, ~Twice, NEW id, NEW ans, Serving(id, ans)
    PROVE  Single'
  <1>1. Single /\ Does(sent[id], ans) /\ task' = task
    BY DEF Track, Serving
  <1>2. ASSUME NEW u \in Tasks, task[u].id # id, NEW h PROVE Claim(u, h)' <=> Claim(u, h)
    BY <1>2, ServingIs DEF Same, Claim
  <1>3. CASE sent[id].task = Nobody /\ sent[id].op = "close" /\ Leaving(id, sent[id].args[1])
             /\ \A u \in Tasks : task[u].id # id
    <2>1. Closes(sent[id], ans)
      BY <1>1, <1>3 DEF Does, Opens, Closes, Writes1, Lists, Reads, Looks
    <2>2. DOMAIN fs'.open = DOMAIN fs.open \ {sent[id].args[1]} /\ \A h \in DOMAIN fs'.open : fs'.open[h] = fs.open[h]
      BY <2>1 DEF Closes
    <2>3. \A u \in Tasks : \A h : Claim(u, h)' <=> Claim(u, h)
      BY <1>2, <1>3
    <2>4. \A i, h : Leaving(i, h)' => Leaving(i, h) /\ i # id
      BY ServingIs
    <2>5. Leaving(id, sent[id].args[1])
      BY <1>3
    <2> SUFFICES ASSUME NEW h \in Handles
                 PROVE  /\ \A v, u \in Tasks : Claim(v, h)' /\ Claim(u, h)' => v = u
                        /\ \A u \in Tasks : Claim(u, h)' => h \in DOMAIN fs'.open /\ fs'.open[h].path = task'[u].path
                        /\ \A i : Leaving(i, h)' => h \in DOMAIN fs'.open /\ \A u \in Tasks : ~Claim(u, h)'
                        /\ \A i, j : Leaving(i, h)' /\ Leaving(j, h)' => i = j
      BY DEF Single
    <2> HIDE DEF Claim, Leaving
    <2>6. \A u \in Tasks : Claim(u, h)' => h \in DOMAIN fs'.open /\ fs'.open[h].path = task'[u].path
      BY <1>1, <2>2, <2>3, <2>5 DEF Single
    <2>7. \A i : Leaving(i, h)' => h \in DOMAIN fs'.open
      BY <1>1, <2>2, <2>4, <2>5 DEF Single
    <2> QED
      BY <1>1, <2>3, <2>4, <2>6, <2>7 DEF Single
  <1>4. ASSUME NEW t \in Tasks, task[t].id = id, \A u \in Tasks : u # t => task[u].id # id PROVE Single'
    <2>1. Asking(t) = sent[id] /\ Asking(t)' = sent[id] /\ Heard(t) = {} /\ Heard(t)' = {ans} /\ task'[t] = task[t]
      BY <1>4, ServingIs
    <2>2. /\ sent[id].op \in {"open", "opendir"} => task[t].handle = <<>> /\ sent[id].args[1] = task[t].path
          /\ sent[id].op = "close" => task[t].handle = sent[id].args[1] /\ task[t].handle \in Handles
      BY <2>1, AskingIs
    <2>3. \A h : Claim(t, h) <=> task[t].handle = h
      BY <2>1 DEF Claim
    <2>4. \A h : Claim(t, h)' <=> \/ task[t].handle = h /\ sent[id].op # "close"
                                  \/ ans.is = "handle" /\ ans.v = h
      BY <2>1 DEF Claim
    <2>5. \A u \in Tasks : u # t => \A h : Claim(u, h)' <=> Claim(u, h)
      BY <1>2, <1>4
    <2>6. \A i, h : Leaving(i, h)' => Leaving(i, h)
      BY ServingIs
    <2> SUFFICES ASSUME NEW h \in Handles
                 PROVE  /\ \A v, u \in Tasks : Claim(v, h)' /\ Claim(u, h)' => v = u
                        /\ \A u \in Tasks : Claim(u, h)' => h \in DOMAIN fs'.open /\ fs'.open[h].path = task'[u].path
                        /\ \A i : Leaving(i, h)' => h \in DOMAIN fs'.open /\ \A u \in Tasks : ~Claim(u, h)'
                        /\ \A i, j : Leaving(i, h)' /\ Leaving(j, h)' => i = j
      BY DEF Single
    <2> HIDE DEF Claim, Leaving
    <2>7. /\ \A v, u \in Tasks : Claim(v, h) /\ Claim(u, h) => v = u
          /\ \A u \in Tasks : Claim(u, h) => h \in DOMAIN fs.open /\ fs.open[h].path = task[u].path
          /\ \A i : Leaving(i, h) => h \in DOMAIN fs.open /\ \A u \in Tasks : ~Claim(u, h)
          /\ \A i, j : Leaving(i, h) /\ Leaving(j, h) => i = j
      BY <1>1 DEF Single
    <2>8. CASE Opens(sent[id], ans)
      <3>1. /\ sent[id].op \in {"open", "opendir"} /\ ans.is = "handle" /\ ans.v \notin DOMAIN fs.open
            /\ DOMAIN fs'.open = DOMAIN fs.open \cup {ans.v}
            /\ fs'.open[ans.v] = [path |-> sent[id].args[1], at |-> 0]
            /\ \A x \in DOMAIN fs.open : fs'.open[x] = fs.open[x]
        BY <2>8 DEF Opens
      <3>2. fs'.open[ans.v].path = task[t].path /\ task[t].handle # h
        BY <2>2, <3>1, EmptyText
      <3>3. Claim(t, h)' <=> ans.v = h
        BY <2>4, <3>1, <3>2
      <3>4. CASE h = ans.v
        BY <1>1, <2>5, <2>6, <2>7, <3>1, <3>2, <3>3, <3>4
      <3>5. CASE h # ans.v
        BY <1>1, <2>5, <2>6, <2>7, <3>1, <3>3, <3>5
      <3> QED
        BY <3>4, <3>5
    <2>9. CASE Closes(sent[id], ans)
      <3>1. /\ sent[id].op = "close" /\ ans.is # "handle"
            /\ DOMAIN fs'.open = DOMAIN fs.open \ {sent[id].args[1]} /\ \A x \in DOMAIN fs'.open : fs'.open[x] = fs.open[x]
        BY <2>9 DEF Closes
      <3>2. ~Claim(t, h)' /\ task[t].handle = sent[id].args[1]
        BY <2>2, <2>4, <3>1
      <3>3. CASE h = sent[id].args[1]
        <4>1. Claim(t, h)
          BY <2>3, <3>2, <3>3
        <4> QED
          BY <1>1, <2>5, <2>6, <2>7, <3>2, <4>1
      <3>4. CASE h # sent[id].args[1]
        BY <1>1, <2>5, <2>6, <2>7, <3>1, <3>2, <3>4
      <3> QED
        BY <3>3, <3>4
    <2>10. CASE ~Opens(sent[id], ans) /\ ~Closes(sent[id], ans)
      <3>1. /\ sent[id].op # "close" /\ ans.is # "handle" /\ DOMAIN fs'.open = DOMAIN fs.open
            /\ \A x \in DOMAIN fs.open : fs'.open[x].path = fs.open[x].path
        <4>1. CASE Writes1(sent[id], ans)
          BY <4>1 DEF Writes1
        <4>2. CASE Reads(sent[id], ans)
          BY <4>2 DEF Reads
        <4>3. CASE Looks(sent[id], ans)
          BY <4>3 DEF Looks
        <4>4. CASE Lists(sent[id], ans)
          <5>1. /\ sent[id].op = "readdir" /\ ans.is = "names" /\ DOMAIN fs'.open = DOMAIN fs.open
                /\ \A x \in DOMAIN fs.open : x # sent[id].args[1] => fs'.open[x] = fs.open[x]
            BY <4>4 DEF Lists
          <5>2. PICK n : fs'.open[sent[id].args[1]] = [path |-> fs.open[sent[id].args[1]].path, at |-> n]
            BY <4>4 DEF Lists
          <5>3. fs'.open[sent[id].args[1]].path = fs.open[sent[id].args[1]].path
            BY <5>2
          <5> QED
            BY <5>1, <5>3
        <4> QED
          BY <1>1, <2>10, <4>1, <4>2, <4>3, <4>4 DEF Does
      <3>2. Claim(t, h)' <=> Claim(t, h)
        BY <2>3, <2>4, <3>1
      <3> QED
        BY <1>1, <2>5, <2>6, <2>7, <3>1, <3>2
    <2> QED
      BY <2>8, <2>9, <2>10
  <1> QED
    BY <1>3, <1>4, ServingIs

(* What the handler may have changed of a file.                            *)
LEMMA ServingFiles ==
    ASSUME Inv, Track, ~Twice, NEW id, NEW ans, Serving(id, ans), NEW p \in Paths, fs'.files[p] # fs.files[p]
    PROVE  \E t \in Tasks : task[t].id = id /\ task[t].prog \in {"write", "file"} /\ task[t].path = p
  <1>1. Single /\ Does(sent[id], ans)
    BY DEF Track, Serving
  <1>2. \/ Opens(sent[id], ans) /\ sent[id].op = "open" /\ sent[id].args[2] = WriteMode /\ sent[id].args[1] = p
        \/ Writes1(sent[id], ans) /\ sent[id].op = "write" /\ fs.open[sent[id].args[1]].path = p
    BY <1>1 DEF Does, Opens, Closes, Writes1, Lists, Reads, Looks
  <1>3. PICK t \in Tasks : task[t].id = id
    BY <1>2, ServingIs
  <1>4. Asking(t) = sent[id] /\ Heard(t) = {}
    BY <1>3, ServingIs
  <1>5. CASE sent[id].op = "open" /\ sent[id].args[2] = WriteMode /\ sent[id].args[1] = p
    <2>1. task[t].path = p
      BY <1>4, <1>5, AskingIs
    <2>2. task[t].prog = "write"
      BY <1>4, <1>5 DEF Track, Modes
    <2> QED
      BY <1>3, <2>1, <2>2
  <1>6. CASE sent[id].op = "write" /\ fs.open[sent[id].args[1]].path = p
    <2>1. task[t].handle \in Handles /\ sent[id].args[1] = task[t].handle /\ task[t].prog \in {"write", "file"}
      BY <1>4, <1>6, AskingIs
    <2>2. Claim(t, task[t].handle)
      BY <1>4 DEF Claim
    <2>3. fs.open[task[t].handle].path = task[t].path
      BY <1>1, <2>1, <2>2 DEF Single
    <2> QED
      BY <1>3, <1>6, <2>1, <2>3
  <1> QED
    BY <1>2, <1>5, <1>6

LEMMA ServingUntouched ==
    ASSUME Inv, Track, ~Twice, NEW id, NEW ans, Serving(id, ans)
    PROVE  Untouched'
  <1>1. Untouched /\ task' = task
    BY DEF Track, Serving
  <1> SUFFICES ASSUME NEW p \in Paths
               PROVE  fs'.files[p] = Content
                        \/ \E t \in Tasks : task[t].prog \in {"write", "file"} /\ task[t].path = p
    BY <1>1 DEF Untouched
  <1>2. CASE fs'.files[p] # fs.files[p]
    BY <1>2, ServingFiles
  <1>3. CASE fs'.files[p] = fs.files[p]
    BY <1>1, <1>3 DEF Untouched
  <1> QED
    BY <1>2, <1>3

LEMMA ServingReads ==
    ASSUME Inv, Track, NEW id, NEW ans, Serving(id, ans), NEW u \in Tasks, ~Disturbed(u)
    PROVE  Reading(task'[u], Asking(u)', Heard(u)')
  <1>1. Whole(u) /\ Modes(u)
    BY DEF Track
  <1>2. Reading(task[u], Asking(u), Heard(u))
    BY <1>1 DEF Whole
  <1>3. CASE task[u].id # id
    BY <1>2, <1>3, ServingIs DEF Same
  <1>4. CASE task[u].id = id
    <2>1. /\ Asking(u) = sent[id] /\ Asking(u)' = sent[id] /\ Heard(u) = {} /\ Heard(u)' = {ans} /\ task'[u] = task[u]
      BY <1>4, ServingIs
    <2>2. ASSUME task[u].prog = "read", sent[id].op = "read", ans.is = "data" PROVE Next1(task[u].offset, ans.v)
      <3>1. task[u].end = "close" /\ task[u].path \in Paths
        BY <1>1, <2>2 DEF Modes
      <3>2. Single /\ Untouched
        BY <3>1, Calm DEF Track
      <3>3. task[u].handle \in Handles /\ sent[id].args[1] = task[u].handle /\ task[u] \in TaskRecs
        BY <2>1, <2>2, AskingIs
      <3>4. Claim(u, task[u].handle)
        BY <2>1 DEF Claim
      <3>5. fs.open[sent[id].args[1]].path = task[u].path
        BY <3>2, <3>3, <3>4 DEF Single
      <3>6. fs.files[task[u].path] = Content
        BY <2>2, <3>1, <3>2 DEF Untouched, Disturbed
      <3>7. Reads(sent[id], ans)
        BY <2>2 DEF Serving, Does, Opens, Closes, Writes1, Lists, Looks
      <3>8. PICK n : Piece(Content, sent[id].args[2], n) /\ ans.v = SubSeq(Content, sent[id].args[2] + 1, sent[id].args[2] + n)
        BY <3>5, <3>6, <3>7 DEF Reads
      <3>9. sent[id].args[2] = task[u].offset /\ task[u].offset <= Len(Content)
        BY <1>2, <2>1, <2>2 DEF Reading
      <3>10. task[u].offset \in Nat /\ Len(Content) \in Nat
        BY <3>3, OffsetIs, ContentIs
      <3>11. /\ n \in Nat /\ task[u].offset + n <= Len(Content) /\ (n = 0 => task[u].offset = Len(Content))
        BY <3>8, <3>9, <3>10 DEF Piece
      <3> QED
        BY <3>8, <3>9, <3>11 DEF Next1
    <2> QED
      BY <1>2, <2>1, <2>2 DEF Reading
  <1> QED
    BY <1>3, <1>4

LEMMA ServingWrites ==
    ASSUME Inv, Track, NEW id, NEW ans, Serving(id, ans), NEW u \in Tasks, ~Disturbed(u)
    PROVE  Writing(task'[u], Asking(u)', Heard(u)', fs'.files[task'[u].path])
  <1> DEFINE p == task[u].path
  <1>1. Whole(u) /\ Modes(u) /\ task' = task
    BY DEF Track, Serving
  <1>2. Writing(task[u], Asking(u), Heard(u), fs.files[p])
    BY <1>1 DEF Whole
  <1>3. CASE task[u].prog # "write"
    BY <1>1, <1>3 DEF Writing
  <1>4. CASE task[u].prog = "write"
    <2>1. task[u].end = "close" /\ p \in Paths
      BY <1>1, <1>4 DEF Modes
    <2>2. ~Twice /\ Single
      BY <2>1, Calm DEF Track
    <2>3. task[u].id # id => fs'.files[p] = fs.files[p]
      BY <2>1, <2>2, ServingFiles DEF Disturbed
    <2>4. CASE task[u].id # id
      BY <1>2, <2>3, <2>4, ServingIs DEF Same
    <2>5. CASE task[u].id = id
      <3>1. /\ Asking(u) = sent[id] /\ Asking(u)' = sent[id] /\ Heard(u) = {} /\ Heard(u)' = {ans} /\ task'[u] = task[u]
        BY <2>5, ServingIs
      <3>2. task[u] \in TaskRecs /\ task[u].out = "none" /\ sent[id].op # "nothing" /\ task[u].id # 0
        BY <2>5, <3>1, AskingIs, ServingIs DEF Serving, Tells, Inv, IInv, Asks
      <3>3. Does(sent[id], ans)
        BY DEF Serving
      <3>4. ASSUME sent[id].op = "open", ans.is = "handle" PROVE fs'.files[p] = <<>>
        <4>1. Opens(sent[id], ans)
          BY <3>3, <3>4 DEF Does, Closes, Writes1, Lists, Reads, Looks
        <4>2. sent[id].args[2] = WriteMode /\ sent[id].args[1] = p
          BY <1>1, <1>4, <3>1, <3>4, AskingIs DEF Modes
        <4> QED
          BY <2>1, <3>4, <4>1, <4>2 DEF Opens
      <3>5. ASSUME sent[id].op = "write", ans.is = "ok"
            PROVE  fs'.files[p] = SubSeq(Content, 1, After(task[u].offset))
        <4>1. Writes1(sent[id], ans)
          BY <3>3, <3>5 DEF Does, Opens, Closes, Lists, Reads, Looks
        <4>2. task[u].handle \in Handles /\ sent[id].args[1] = task[u].handle
          BY <3>1, <3>5, AskingIs
        <4>3. Claim(u, task[u].handle)
          BY <3>1 DEF Claim
        <4>4. fs.open[sent[id].args[1]].path = p
          BY <2>2, <4>2, <4>3 DEF Single
        <4>5. PICK o : o = task[u].offset
          OBVIOUS
        <4>6. /\ sent[id].args[2] = o /\ o < Len(Content) /\ sent[id].args[3] = SubSeq(Content, o + 1, After(o))
              /\ fs.files[p] = SubSeq(Content, 1, o)
          BY <1>2, <1>4, <3>1, <3>5, <4>5 DEF Writing
        <4>7. fs'.files[p] = Spliced(SubSeq(Content, 1, o), o, SubSeq(Content, o + 1, After(o)))
          BY <2>1, <4>1, <4>4, <4>6 DEF Writes1
        <4>8. o \in Nat /\ Content \in Seq(Nat) /\ Len(Content) \in Nat /\ ChunkSize \in Nat
          BY <3>2, <4>5, OffsetIs, ContentIs
        <4>9. After(o) \in Nat /\ o <= After(o) /\ After(o) <= Len(Content)
          BY <4>6, <4>8 DEF After, AtMost
        <4>10. Spliced(SubSeq(Content, 1, o), o, SubSeq(Content, o + 1, After(o))) = SubSeq(Content, 1, After(o))
          BY <4>8, <4>9, PrefixGrows
        <4> QED
          BY <4>5, <4>7, <4>10
      <3>6. sent[id].op = "close" => fs'.files[p] = fs.files[p]
        BY <2>1, <3>3 DEF Does, Opens, Closes, Writes1, Lists, Reads, Looks
      <3> QED
        BY <1>2, <3>1, <3>2, <3>4, <3>5, <3>6 DEF Writing
    <2> QED
      BY <2>4, <2>5
  <1> QED
    BY <1>3, <1>4

(* The batch that a listing is told.                                       *)
LEMMA ServingBatch ==
    ASSUME Inv, NEW q, NEW ans, Lists(q, ans), NEW g, Len(g) \in Nat,
           Reaches(g, <<>>, fs.dir, fs.open[q.args[1]].at)
    PROVE  /\ Reaches(g, ans.v, fs'.dir, fs'.open[q.args[1]].at) /\ ans.v \in Seq(DirEntries)
           /\ \A i \in 1 .. Len(ans.v) : ans.v[i] = fs'.dir[Len(g) + i]
           /\ ans.v = <<>> => fs'.open[q.args[1]].at = Len(fs'.dir)
  <1> DEFINE h == q.args[1]
  <1>1. PICK a : a = fs.open[h].at
    OBVIOUS
  <1>2. PICK d : d = fs.dir
    OBVIOUS
  <1>3. PICK n : /\ Batch(d, a, n) /\ ans.v = SubSeq(d, a + 1, n)
                 /\ fs'.open[h] = [path |-> fs.open[h].path, at |-> n]
    BY <1>1, <1>2 DEF Lists
  <1>4. h \in DOMAIN fs.open /\ fs'.dir = d
    BY <1>2 DEF Lists
  <1>5. a \in Nat /\ d \in Seq(DirEntries) /\ Len(d) \in Nat
    <2>1. IsFs(fs)
      BY DEF Inv, IInv
    <2> QED
      BY <1>1, <1>2, <1>4, <2>1, FsParts
  <1>6. fs'.open[h].at = n
    BY <1>3
  <1>7. n \in Nat /\ a <= n /\ n <= Len(d) /\ (n = a => n = Len(d))
    BY <1>3 DEF Batch
  <1> DEFINE v == SubSeq(d, a + 1, n)
  <1>8. v \in Seq(DirEntries) /\ Len(v) = n - a /\ \A i \in 1 .. n - a : v[i] = d[a + i]
    <2>1. a + 1 \in Nat /\ a + 1 >= 1
      BY <1>5
    <2>2. \A i \in (a + 1) .. n : i \in 1 .. Len(d)
      BY <1>5, <1>7
    <2>3. \A i \in (a + 1) .. n : d[i] \in DirEntries
      BY <1>5, <2>2
    <2>4. /\ v \in Seq(DirEntries) /\ Len(v) = IF a + 1 <= n THEN n - (a + 1) + 1 ELSE 0
          /\ \A i \in 1 .. n - (a + 1) + 1 : v[i] = d[a + 1 + i - 1]
      BY <1>5, <1>7, <2>1, <2>3, SubSeqProperties
    <2>5. (IF a + 1 <= n THEN n - (a + 1) + 1 ELSE 0) = n - a /\ n - (a + 1) + 1 = n - a
          /\ \A i \in 1 .. n - a : a + 1 + i - 1 = a + i
      BY <1>5, <1>7
    <2> HIDE DEF v
    <2> QED
      BY <2>4, <2>5
  <1>9. ans.v = v
    BY <1>3
  <1> HIDE DEF v, h
  <1>10. Run(g, d, 0) /\ Len(g) = a
    <2>1. Run(g, d, 0) /\ Len(g) + Len(<<>>) = a
      BY <1>1, <1>2 DEF Reaches, h
    <2>2. Len(<<>>) = 0
      OBVIOUS
    <2> QED
      BY <2>1, <2>2
  <1>11. \A i \in 1 .. Len(v) : v[i] = d[Len(g) + i]
    BY <1>8, <1>10
  <1>12. Run(v, d, Len(g))
    BY <1>11 DEF Run
  <1>13. Len(g) + Len(v) = n
    BY <1>5, <1>7, <1>8, <1>10
  <1>14. v = <<>> => n = a
    <2>1. v = <<>> => Len(v) = 0
      OBVIOUS
    <2> QED
      BY <1>5, <1>7, <1>8, <2>1
  <1>15. Reaches(g, v, d, n)
    BY <1>10, <1>12, <1>13 DEF Reaches
  <1> QED
    BY <1>4, <1>6, <1>7, <1>8, <1>9, <1>11, <1>14, <1>15 DEF h

LEMMA ServingLists ==
    ASSUME Inv, Track, NEW id, NEW ans, Serving(id, ans), NEW u \in Tasks, ~Disturbed(u), Wide(fs.dir)
    PROVE  Listing(task'[u], Asking(u)', Heard(u)', fs')
  <1>1. Whole(u) /\ Modes(u) /\ task' = task /\ Does(sent[id], ans)
    BY DEF Track, Serving
  <1>2. fs'.dir = fs.dir
    BY <1>1 DEF Does, Opens, Closes, Writes1, Lists, Reads, Looks
  <1>3. Listing(task[u], Asking(u), Heard(u), fs)
    BY <1>1 DEF Whole
  <1>4. CASE task[u].prog # "list" \/ task[u].used \/ task[u].out # "none"
    <2>1. task[u].prog = "list" /\ task[u].used => Run(task[u].got, fs.dir, 0) /\ Len(task[u].got) = Len(fs.dir)
      BY <1>3 DEF Listing
    <2> QED
      BY <1>1, <1>2, <1>4, <2>1 DEF Listing
  <1>5. CASE task[u].prog = "list" /\ ~task[u].used /\ task[u].out = "none"
    <2>1. ~Twice /\ Single
      BY <1>5, Calm DEF Track
    <2>2. CASE task[u].id # id
      <3>1. Asking(u)' = Asking(u) /\ Heard(u)' = Heard(u)
        BY <2>2, ServingIs DEF Same
      <3>2. ASSUME NEW h \in Handles, Claim(u, h) PROVE fs'.open[h].at = fs.open[h].at
        BY <2>1, <2>2, <3>2, OthersKept
      <3>3. ASSUME NEW a \in Heard(u), a.is = "handle" PROVE a.v \in Handles /\ fs'.open[a.v].at = fs.open[a.v].at
        <4>1. Claim(u, a.v)
          BY <3>3 DEF Claim
        <4>2. a.v \in Handles
          <5>1. PICK i \in 1 .. Len(s2c) : a = s2c[i].ans
            BY DEF Heard
          <5> QED
            BY <3>3, <5>1 DEF Inv, IInv, Given
        <4> QED
          BY <3>2, <4>1, <4>2
      <3>4. ASSUME Asking(u).op \in {"nothing", "readdir"} PROVE fs'.open[task[u].handle].at = fs.open[task[u].handle].at
        <4>1. task[u].handle \in Handles
          <5>1. Asking(u).op = "nothing" => Rests(task[u])
            BY AskingIs
          <5>2. Asking(u).op = "readdir" => task[u].handle \in Handles
            BY AskingIs
          <5> QED
            BY <1>5, <3>4, <5>1, <5>2 DEF Rests, Idle
        <4>2. Claim(u, task[u].handle)
          BY <3>4 DEF Claim
        <4> QED
          BY <3>2, <4>1, <4>2
      <3> QED
        BY <1>1, <1>2, <1>3, <1>5, <3>1, <3>3, <3>4 DEF Listing
    <2>3. CASE task[u].id = id
      <3>1. /\ Asking(u) = sent[id] /\ Asking(u)' = sent[id] /\ Heard(u) = {} /\ Heard(u)' = {ans} /\ task'[u] = task[u]
        BY <2>3, ServingIs
      <3>2. sent[id].op # "nothing" /\ task[u] \in TaskRecs
        <4>1. id # 0
          BY DEF Serving, Tells, Inv, IInv, Asks
        <4> QED
          BY <2>3, <3>1, <4>1, AskingIs
      <3>3. ASSUME sent[id].op = "opendir", ans.is = "handle" PROVE fs'.open[ans.v].at = 0
        <4>1. Opens(sent[id], ans)
          BY <1>1, <3>3 DEF Does, Closes, Writes1, Lists, Reads, Looks
        <4>2. fs'.open[ans.v] = [path |-> sent[id].args[1], at |-> 0]
          BY <4>1 DEF Opens
        <4> QED
          BY <4>2
      <3>4. ASSUME sent[id].op = "readdir", ans.is = "names"
            PROVE  /\ Reaches(task[u].got, ans.v, fs'.dir, fs'.open[task[u].handle].at) /\ ans.v \in Seq(DirEntries)
                   /\ \A i \in 1 .. Len(ans.v) : ans.v[i] = fs'.dir[Len(task[u].got) + i]
                   /\ ans.v = <<>> => fs'.open[task[u].handle].at = Len(fs'.dir)
        <4>1. Lists(sent[id], ans)
          BY <1>1, <3>4 DEF Does, Opens, Closes, Writes1, Reads, Looks
        <4>2. sent[id].args[1] = task[u].handle
          BY <3>1, <3>4, AskingIs
        <4>3. Reaches(task[u].got, <<>>, fs.dir, fs.open[task[u].handle].at)
          BY <1>3, <1>5, <3>1, <3>4 DEF Listing
        <4>4. Len(task[u].got) \in Nat
          BY <3>2 DEF TaskRecs
        <4>5. PICK g : g = task[u].got
          OBVIOUS
        <4>6. PICK q : q = sent[id]
          OBVIOUS
        <4>7. Lists(q, ans) /\ Len(g) \in Nat /\ Reaches(g, <<>>, fs.dir, fs.open[q.args[1]].at)
          BY <4>1, <4>2, <4>3, <4>4, <4>5, <4>6
        <4>8. /\ Reaches(g, ans.v, fs'.dir, fs'.open[q.args[1]].at) /\ ans.v \in Seq(DirEntries)
              /\ \A i \in 1 .. Len(ans.v) : ans.v[i] = fs'.dir[Len(g) + i]
              /\ ans.v = <<>> => fs'.open[q.args[1]].at = Len(fs'.dir)
          BY <4>7, ServingBatch
        <4> QED
          BY <4>2, <4>5, <4>6, <4>8
      <3> QED
        BY <1>3, <1>5, <3>1, <3>2, <3>3, <3>4 DEF Listing
    <2> QED
      BY <2>2, <2>3
  <1> QED
    BY <1>4, <1>5

LEMMA ServingTracks ==
    ASSUME Inv, Track, NEW id, NEW ans, Serving(id, ans)
    PROVE  Track'
  <1>1. task' = task /\ fs'.dir = fs.dir
    BY DEF Serving, Does, Opens, Closes, Writes1, Lists, Reads, Looks
  <1>2. ASSUME NEW u \in Tasks PROVE Modes(u)'
    <2>1. Asking(u)' = Asking(u) /\ Modes(u)
      BY ServingIs DEF Same, Track
    <2> QED
      BY <1>1, <2>1 DEF Modes
  <1>3. ASSUME NEW u \in Tasks PROVE Whole(u)'
    <2>1. Disturbed(u)' <=> Disturbed(u)
      BY <1>1 DEF Disturbed
    <2> QED
      BY <1>1, <2>1, ServingReads, ServingWrites, ServingLists DEF Whole
  <1>4. Twice' <=> Twice
    BY <1>1 DEF Twice
  <1> QED
    BY <1>2, <1>3, <1>4, ServingSingle, ServingUntouched DEF Track

LEMMA ServerTracks ==
    ASSUME Inv, Track, Server
    PROVE  Track'
  <1>1. UNCHANGED <<task, sent, nextId>> /\ IInv
    BY ServerKeeps DEF Inv
  <1>2. CASE Silent
    <2>1. \A t \in Tasks : Same(t)
      BY <1>1, <1>2 DEF Silent, Same, Asking, Heard, Nothing
    <2>2. \A i, h : Leaving(i, h)' => Leaving(i, h)
      BY <1>1, <1>2 DEF Silent, Leaving, Unanswered
    <2> QED
      BY <1>2, <2>1, <2>2, QuietTracks DEF Silent
  <1>3. CASE Strays
    <2>1. PICK op, args, ans : s2c' = Append(s2c, [op |-> op, id |-> 0, args |-> args, ans |-> ans])
      BY <1>3 DEF Strays
    <2> DEFINE e == [op |-> op, id |-> 0, args |-> args, ans |-> ans]
               n == Len(s2c) + 1
    <2>2. s2c' = Append(s2c, e) /\ e.id = 0
      BY <2>1
    <2> HIDE DEF e
    <2>3. /\ Len(s2c) \in Nat /\ s2c'[n] = e
          /\ \A i \in 1 .. Len(s2c) : s2c'[i] = s2c[i]
          /\ \A i \in 1 .. Len(s2c') : i = n \/ i \in 1 .. Len(s2c)
          /\ \A i \in 1 .. Len(s2c) : i \in 1 .. Len(s2c')
      BY <1>1, <2>2, ReplyIds, AppendIs
    <2> HIDE DEF n
    <2>4. ASSUME NEW t \in Tasks PROVE Same(t)
      <3>1. task[t].id # 0 => \A i \in 1 .. Len(s2c') : s2c'[i].id = task[t].id =>
                                 \E j \in 1 .. Len(s2c) : s2c[j] = s2c'[i]
        BY <2>2, <2>3
      <3>2. \A j \in 1 .. Len(s2c) : \E i \in 1 .. Len(s2c') : s2c'[i] = s2c[j]
        BY <2>3
      <3> QED
        BY <1>1, <3>1, <3>2, SameIs
    <2>5. \A i, h : Leaving(i, h)' => Leaving(i, h)
      BY <1>1, <2>3 DEF Leaving, Unanswered
    <2> QED
      BY <1>3, <2>4, <2>5, QuietTracks DEF Strays
  <1>4. CASE Answers
    <2>1. PICK id, ans : Tells(id, ans) /\ Does(sent[id], ans)
      BY <1>4 DEF Answers
    <2>2. Serving(id, ans)
      BY <1>1, <2>1 DEF Serving
    <2> QED
      BY <2>2, ServingTracks
  <1> QED
    BY <1>2, <1>3, <1>4, ServerDoes

LEMMA NextTracks ==
    Inv /\ Track /\ [Next]_vars => Track'
  <1> SUFFICES ASSUME Inv, Track, [Next]_vars PROVE Track'
    OBVIOUS
  <1>1. CASE Server
    BY <1>1, ServerTracks
  <1>2. CASE Deliver
    <2>1. ASSUME NEW t \in Tasks, NEW res, Replying(t, s2c[1].id, res), Takes(t, s2c[1].id, res) PROVE Track'
      BY <2>1, TakesTrack
    <2> QED
      BY <1>2, <2>1, DeliverIs, UnawaitedTracks
  <1>3. ASSUME NEW t \in Tasks, Uses(t) PROVE Track'
    BY <1>3, FileCallTracks, DirReadTracks, EndUseTracks DEF Uses
  <1>4. ASSUME NEW t \in Tasks, Starts(t) PROVE Track'
    BY <1>4, StartsTrack
  <1>5. ASSUME NEW t \in Tasks, SendRaw(t) PROVE Track'
    BY <1>5, RawTracks
  <1>6. CASE UNCHANGED vars
    <2>1. UNCHANGED <<task, sent, s2c, fs>>
      BY <1>6 DEF vars
    <2>2. \A t \in Tasks : Same(t)
      BY <2>1 DEF Same, Asking, Heard, Nothing
    <2>3. \A i, h : Leaving(i, h)' => Leaving(i, h)
      BY <2>1 DEF Leaving, Unanswered
    <2> QED
      BY <2>1, <2>2, <2>3, QuietTracks
  <1> QED
    BY <1>1, <1>2, <1>3, <1>4, <1>5, <1>6 DEF Next, Uses, Starts

LEMMA InitTracks ==
    Init => Track
  <1> SUFFICES ASSUME Init PROVE Track
    OBVIOUS
  <1>1. /\ \A t \in Tasks : task[t] = Idle /\ task[t].id = 0 /\ task[t].prog = "none" /\ task[t].out = "none"
                             /\ task[t].end = "none" /\ task[t].handle = <<>>
        /\ sent = <<>> /\ DOMAIN sent = {}
        /\ \A p \in Paths : fs.files[p] = Content
    BY DEF Init, Idle
  <1>2. Nothing.op = "nothing" /\ \A t \in Tasks : Asking(t) = Nothing /\ Heard(t) = {}
    BY <1>1 DEF Nothing, Asking, Heard
  <1>3. ASSUME NEW t \in Tasks PROVE Modes(t) /\ Whole(t)
    BY <1>1, <1>2 DEF Modes, Whole, Reading, Writing, Listing
  <1>4. \A t \in Tasks : \A h \in Handles : ~Claim(t, h)
    BY <1>1, <1>2, EmptyText DEF Claim
  <1>5. \A i, h : ~Leaving(i, h)
    BY <1>1 DEF Leaving
  <1>6. Single
    BY <1>4, <1>5 DEF Single
  <1>7. Untouched
    BY <1>1 DEF Untouched
  <1> QED
    BY <1>3, <1>6, <1>7 DEF Track

LEMMA TracksWhole ==
    ASSUME Inv, Track
    PROVE  TransfersAreWhole
  <1> SUFFICES ASSUME NEW t \in Tasks, ~Disturbed(t)
               PROVE  /\ task[t].prog = "read" /\ task[t].out = "ok" => task[t].got = Content
                      /\ task[t].prog = "write" /\ task[t].out = "ok" => fs.files[task[t].path] = Content
                      /\ task[t].prog = "list" /\ task[t].used /\ Wide(fs.dir)
                           => Filenames(task[t].got) = Filenames(fs.dir)
    BY DEF TransfersAreWhole
  <1>1. Whole(t)
    BY DEF Track
  <1>2. task[t].prog = "read" /\ task[t].out = "ok" => task[t].got = Content
    BY <1>1 DEF Whole, Reading
  <1>3. task[t].prog = "write" /\ task[t].out = "ok" => fs.files[task[t].path] = Content
    BY <1>1 DEF Whole, Writing
  <1>4. ASSUME task[t].prog = "list", task[t].used, Wide(fs.dir) PROVE Filenames(task[t].got) = Filenames(fs.dir)
    <2>1. PICK g : g = task[t].got
      OBVIOUS
    <2>2. PICK d : d = fs.dir
      OBVIOUS
    <2>3. Run(g, d, 0) /\ Len(g) = Len(d)
      BY <1>1, <1>4, <2>1, <2>2 DEF Whole, Listing
    <2>4. task[t] \in TaskRecs /\ IsFs(fs)
      BY DEF Inv, IInv
    <2>5. g \in Seq(Nat \cup DirEntries) /\ d \in Seq(DirEntries)
      BY <2>1, <2>2, <2>4, FsParts DEF TaskRecs
    <2>6. DOMAIN g = 1 .. Len(g) /\ DOMAIN d = 1 .. Len(g)
      BY <2>3, <2>5
    <2>7. ASSUME NEW i \in 1 .. Len(g) PROVE g[i].filename = d[i].filename
      <3>1. 0 + i = i
        OBVIOUS
      <3> QED
        BY <2>3, <3>1 DEF Run
    <2>8. Filenames(g) = Filenames(d)
      BY <2>6, <2>7 DEF Filenames
    <2> QED
      BY <2>1, <2>2, <2>8
  <1> QED
    BY <1>2, <1>3, <1>4

(* A read_to_vec that succeeds returns the whole file, a write_all that    *)
(* succeeds has written all of its data, and a listing read to its end has *)
(* every entry once and in order if the entries are as large as the        *)
(* decoder expects, in every instance of the specification, unless another *)
(* caller may write the file or close a handle twice                       *)
(* (SftpClient::read_to_vec and write_all, SftpDir::read).                 *)
THEOREM TransfersAreWholeHolds ==
    Spec => []TransfersAreWhole
  <1>1. Init => Inv /\ Track
    BY InitInv, InitTracks
  <1>2. Inv /\ Track /\ [Next]_vars => (Inv /\ Track)'
    BY NextKeeps, NextTracks
  <1>3. Inv /\ Track => TransfersAreWhole
    BY TracksWhole
  <1> QED
    BY <1>1, <1>2, <1>3, PTL DEF Spec
=============================================================================
