-------------------------- MODULE SftpServerProofs --------------------------
(***************************************************************************)
(* Theorems about the SFTP packets and the SFTP server runtime.            *)
(***************************************************************************)
EXTENDS SftpServer, SequenceTheorems, WellFoundedInduction, TLAPS

-----------------------------------------------------------------------------
(* Naturals and sequences.                                                 *)

(* A set of naturals with an element has a least one; what follows uses it *)
(* in place of an induction.                                               *)
LEMMA NatMin ==
    ASSUME NEW S \in SUBSET Nat, S # {}
    PROVE  \E x \in S : \A y \in S : x <= y
  <1> DEFINE R == {ss \in Nat \X Nat : ss[1] < ss[2]}
  <1>1. R = OpToRel(<, Nat)
    BY DEF OpToRel
  <1>2. IsWellFoundedOn(R, Nat)
    BY <1>1, NatLessThanWellFounded
  <1>3. PICK x \in S : \A y \in S : ~(<<y, x>> \in R)
    BY <1>2, WFMin
  <1>4. ASSUME NEW y \in S PROVE x <= y
    <2>1. x \in Nat /\ y \in Nat /\ <<y, x>> \notin R
      BY <1>3
    <2>2. ~(<<y, x>>[1] < <<y, x>>[2])
      BY <2>1
    <2> QED
      BY <2>1, <2>2
  <1> QED
    BY <1>4

LEMMA SubBytes ==
    ASSUME NEW d \in Seq(Nat), NEW m \in Nat \ {0}, NEW n \in Nat, n <= Len(d)
    PROVE  /\ SubSeq(d, m, n) \in Seq(Nat)
           /\ Len(SubSeq(d, m, n)) = IF m <= n THEN n - m + 1 ELSE 0
           /\ \A i \in 1 .. n - m + 1 : SubSeq(d, m, n)[i] = d[m + i - 1]
  <1>1. \A i \in m .. n : d[i] \in Nat
    OBVIOUS
  <1> QED
    BY <1>1, SubSeqProperties

LEMMA CatBytes ==
    ASSUME NEW s \in Seq(Nat), NEW t \in Seq(Nat)
    PROVE  /\ s \o t \in Seq(Nat) /\ Len(s \o t) = Len(s) + Len(t)
           /\ \A i \in 1 .. Len(s) : (s \o t)[i] = s[i]
           /\ \A i \in 1 .. Len(t) : (s \o t)[Len(s) + i] = t[i]
  BY ConcatProperties

(* The bytes s stand in d behind the first p.                              *)
At(d, p, s) == p + Len(s) <= Len(d) /\ \A i \in 1 .. Len(s) : d[p + i] = s[i]

LEMMA AtSub ==
    ASSUME NEW d \in Seq(Nat), NEW p \in Nat, NEW s \in Seq(Nat), At(d, p, s)
    PROVE  SubSeq(d, p + 1, p + Len(s)) = s
  <1>1. p + 1 \in Nat \ {0} /\ p + Len(s) \in Nat /\ p + Len(s) <= Len(d) /\ Len(s) \in Nat
    BY DEF At
  <1>2. /\ SubSeq(d, p + 1, p + Len(s)) \in Seq(Nat)
        /\ Len(SubSeq(d, p + 1, p + Len(s))) = Len(s)
        /\ \A i \in 1 .. Len(s) : SubSeq(d, p + 1, p + Len(s))[i] = d[p + i]
    BY <1>1, SubBytes
  <1> QED
    BY <1>2, SeqEqual DEF At

LEMMA AtConcat ==
    ASSUME NEW d \in Seq(Nat), NEW p \in Nat, NEW s \in Seq(Nat), NEW t \in Seq(Nat)
    PROVE  At(d, p, s \o t) <=> At(d, p, s) /\ At(d, p + Len(s), t)
  <1>1. Len(s \o t) = Len(s) + Len(t)
    OBVIOUS
  <1>2. ASSUME At(d, p, s \o t)
        PROVE  At(d, p, s) /\ At(d, p + Len(s), t)
    <2>1. ASSUME NEW i \in 1 .. Len(s)
          PROVE  d[p + i] = s[i]
      <3>1. i \in 1 .. Len(s \o t) /\ (s \o t)[i] = s[i]
        BY <1>1
      <3> QED
        BY <1>2, <3>1 DEF At
    <2>2. ASSUME NEW i \in 1 .. Len(t)
          PROVE  d[p + Len(s) + i] = t[i]
      <3>1. Len(s) + i \in 1 .. Len(s \o t) /\ (s \o t)[Len(s) + i] = t[i]
        BY <1>1
      <3>2. d[p + (Len(s) + i)] = (s \o t)[Len(s) + i]
        BY <1>2, <3>1 DEF At
      <3> QED
        BY <3>1, <3>2
    <2> QED
      BY <1>1, <1>2, <2>1, <2>2 DEF At
  <1>3. ASSUME At(d, p, s), At(d, p + Len(s), t)
        PROVE  At(d, p, s \o t)
    <2>1. ASSUME NEW i \in 1 .. Len(s \o t)
          PROVE  d[p + i] = (s \o t)[i]
      <3>1. CASE i <= Len(s)
        BY <1>1, <1>3, <3>1 DEF At
      <3>2. CASE i > Len(s)
        <4>1. i - Len(s) \in 1 .. Len(t) /\ (s \o t)[i] = t[i - Len(s)]
          BY <1>1, <3>2
        <4>2. d[p + Len(s) + (i - Len(s))] = t[i - Len(s)]
          BY <1>3, <4>1 DEF At
        <4> QED
          BY <4>1, <4>2
      <3> QED
        BY <3>1, <3>2
    <2> QED
      BY <1>1, <1>3, <2>1 DEF At
  <1> QED
    BY <1>2, <1>3

(* What FlattenSeq builds: at[i] bytes come before and within part i.      *)
Laid(bytes, parts, at) ==
    /\ bytes \in Seq(Nat)
    /\ at \in [0 .. Len(parts) -> Nat] /\ at[0] = 0 /\ at[Len(parts)] = Len(bytes)
    /\ \A i \in 1 .. Len(parts) : at[i] = at[i - 1] + Len(parts[i]) /\ At(bytes, at[i - 1], parts[i])

LEMMA FlattenExists ==
    ASSUME NEW parts \in Seq(Seq(Nat)), NEW N \in Nat
    PROVE  \E f : f = [i \in 1 .. N |-> IF i = 1 THEN parts[i] ELSE f[i - 1] \o parts[i]]
  <1> DEFINE Good(n) == \E f : f = [i \in 1 .. n |-> IF i = 1 THEN parts[i] ELSE f[i - 1] \o parts[i]]
             Bad == {n \in Nat : ~Good(n)}
  <1>1. SUFFICES ASSUME Bad # {} PROVE FALSE
    OBVIOUS
  <1>2. PICK n \in Bad : \A y \in Bad : n <= y
    BY <1>1, NatMin
  <1>3. n # 0
    <2>1. Good(0)
      <3>1. [i \in 1 .. 0 |-> parts[i]] =
              [i \in 1 .. 0 |-> IF i = 1 THEN parts[i] ELSE [j \in 1 .. 0 |-> parts[j]][i - 1] \o parts[i]]
        OBVIOUS
      <3> QED
        BY <3>1
    <2> QED
      BY <2>1
  <1>4. n - 1 \in Nat /\ Good(n - 1)
    <2>1. n - 1 \in Nat /\ ~(n <= n - 1)
      BY <1>3
    <2>2. n - 1 \notin Bad
      BY <1>2, <2>1
    <2> QED
      BY <2>1, <2>2
  <1>5. PICK f : f = [i \in 1 .. n - 1 |-> IF i = 1 THEN parts[i] ELSE f[i - 1] \o parts[i]]
    BY <1>4
  <1> DEFINE g == [i \in 1 .. n |-> IF i = n THEN IF n = 1 THEN parts[n] ELSE f[n - 1] \o parts[n]
                                              ELSE f[i]]
  <1>6. ASSUME NEW i \in 1 .. n
        PROVE  g[i] = IF i = 1 THEN parts[i] ELSE g[i - 1] \o parts[i]
    <2>1. CASE i = n
      BY <1>3, <2>1
    <2>2. CASE i # n
      <3>1. i \in 1 .. n - 1 /\ (i # 1 => i - 1 \in 1 .. n /\ i - 1 # n)
        BY <2>2, <1>3
      <3> QED
        BY <1>5, <2>2, <3>1
    <2> QED
      BY <2>1, <2>2
  <1>7. Good(n)
    <2> HIDE DEF g
    <2>1. g = [i \in 1 .. n |-> g[i]]
      BY DEF g
    <2>2. g = [i \in 1 .. n |-> IF i = 1 THEN parts[i] ELSE g[i - 1] \o parts[i]]
      BY <1>6, <2>1
    <2> QED
      BY <2>2
  <1> QED
    BY <1>7

(* A larger sequence still holds what it held.                             *)
LEMMA AtMore ==
    ASSUME NEW d \in Seq(Nat), NEW e \in Seq(Nat), NEW p \in Nat, NEW s \in Seq(Nat), At(d, p, s)
    PROVE  At(d \o e, p, s)
  <1>1. Len(d \o e) = Len(d) + Len(e)
    OBVIOUS
  <1>2. ASSUME NEW i \in 1 .. Len(s)
        PROVE  (d \o e)[p + i] = s[i]
    <2>1. p + i \in 1 .. Len(d) /\ d[p + i] = s[i]
      BY DEF At
    <2> QED
      BY <2>1
  <1> QED
    BY <1>1, <1>2 DEF At

LEMMA AtEnd ==
    ASSUME NEW d \in Seq(Nat), NEW s \in Seq(Nat)
    PROVE  At(d \o s, Len(d), s)
  BY DEF At

LEMMA FlattenLaid ==
    ASSUME NEW parts \in Seq(Seq(Nat))
    PROVE  \E at : Laid(FlattenSeq(parts), parts, at)
  <1> DEFINE N == Len(parts)
             F == CHOOSE f : f = [i \in 1 .. N |-> IF i = 1 THEN parts[i] ELSE f[i - 1] \o parts[i]]
  <1>0. N \in Nat
    OBVIOUS
  <1>1. CASE N = 0
    <2>1. FlattenSeq(parts) = <<>>
      BY <1>1 DEF FlattenSeq
    <2>2. Laid(<<>>, parts, [i \in 0 .. 0 |-> 0])
      BY <1>1 DEF Laid
    <2> QED
      BY <2>1, <2>2
  <1>2. CASE N # 0
    <2>1. FlattenSeq(parts) = F[N]
      BY <1>2 DEF FlattenSeq
    <2>2. F = [i \in 1 .. N |-> IF i = 1 THEN parts[i] ELSE F[i - 1] \o parts[i]]
      <3> HIDE DEF N
      <3> QED
        BY <1>0, FlattenExists
    <2> HIDE DEF F
    <2> DEFINE Upto(n) ==
                 /\ F[n] \in Seq(Nat)
                 /\ \E at \in [0 .. n -> Nat] :
                       /\ at[0] = 0 /\ at[n] = Len(F[n])
                       /\ \A i \in 1 .. n : at[i] = at[i - 1] + Len(parts[i]) /\ At(F[n], at[i - 1], parts[i])
               Bad == {n \in 1 .. N : ~Upto(n)}
    <2>3. Bad = {}
      <3> SUFFICES ASSUME Bad # {} PROVE FALSE
        OBVIOUS
      <3>0. Bad \in SUBSET Nat
        BY <1>0
      <3>1. PICK n \in Bad : \A y \in Bad : n <= y
        <4> HIDE DEF Bad
        <4> QED
          BY <3>0, NatMin
      <3>2. parts[n] \in Seq(Nat) /\ n \in 1 .. N
        OBVIOUS
      <3>3. CASE n = 1
        <4>1. F[n] = parts[n]
          BY <2>2, <3>3
        <4> DEFINE at == [i \in 0 .. 1 |-> IF i = 0 THEN 0 ELSE Len(parts[1])]
        <4>2. at \in [0 .. n -> Nat] /\ at[0] = 0 /\ at[n] = Len(F[n])
          BY <3>2, <3>3, <4>1
        <4>3. ASSUME NEW i \in 1 .. n
              PROVE  at[i] = at[i - 1] + Len(parts[i]) /\ At(F[n], at[i - 1], parts[i])
          BY <3>2, <3>3, <4>1 DEF At
        <4> HIDE DEF at
        <4>4. Upto(n)
          BY <3>2, <4>1, <4>2, <4>3
        <4> QED
          BY <4>4
      <3>4. CASE n # 1
        <4>1. n - 1 \in 1 .. N /\ Upto(n - 1)
          <5>1. n - 1 \in 1 .. N /\ ~(n <= n - 1)
            BY <1>0, <3>2, <3>4
          <5>2. n - 1 \notin Bad
            BY <3>1, <5>1
          <5> QED
            BY <5>1, <5>2
        <4>2. F[n] = F[n - 1] \o parts[n] /\ F[n - 1] \in Seq(Nat)
          BY <2>2, <3>2, <3>4, <4>1
        <4>3. PICK at \in [0 .. n - 1 -> Nat] :
                /\ at[0] = 0 /\ at[n - 1] = Len(F[n - 1])
                /\ \A i \in 1 .. n - 1 : at[i] = at[i - 1] + Len(parts[i]) /\ At(F[n - 1], at[i - 1], parts[i])
          BY <4>1
        <4> DEFINE to == [i \in 0 .. n |-> IF i = n THEN Len(F[n]) ELSE at[i]]
        <4>4. F[n] \in Seq(Nat) /\ Len(F[n]) = at[n - 1] + Len(parts[n])
          BY <3>2, <4>2, <4>3
        <4>5. to \in [0 .. n -> Nat] /\ to[0] = 0 /\ to[n] = Len(F[n])
          <5>1. n \in Nat /\ n # 0 /\ Len(F[n]) \in Nat
            BY <1>0, <3>2, <4>4
          <5>2. ASSUME NEW i \in 0 .. n
                PROVE  (IF i = n THEN Len(F[n]) ELSE at[i]) \in Nat
            BY <4>3, <5>1
          <5> QED
            BY <4>3, <5>1, <5>2
        <4>6. ASSUME NEW i \in 1 .. n
              PROVE  to[i] = to[i - 1] + Len(parts[i]) /\ At(F[n], to[i - 1], parts[i])
          <5>1. CASE i = n
            <6>1. to[i] = Len(F[n]) /\ to[i - 1] = at[n - 1] /\ at[n - 1] = Len(F[n - 1])
              BY <3>2, <4>3, <5>1
            <6> QED
              BY <3>2, <4>2, <4>4, <5>1, <6>1, AtEnd
          <5>2. CASE i # n
            <6>1. i \in 1 .. n - 1 /\ to[i] = at[i] /\ to[i - 1] = at[i - 1] /\ at[i - 1] \in Nat
              BY <3>2, <4>3, <5>2
            <6>2. parts[i] \in Seq(Nat)
              BY <3>2
            <6>3. at[i] = at[i - 1] + Len(parts[i]) /\ At(F[n - 1], at[i - 1], parts[i])
              BY <4>3, <6>1
            <6>4. At(F[n], at[i - 1], parts[i])
              BY <3>2, <4>2, <6>1, <6>2, <6>3, AtMore
            <6> QED
              BY <6>1, <6>3, <6>4
          <5> QED
            BY <5>1, <5>2
        <4> HIDE DEF to
        <4>7. Upto(n)
          BY <4>4, <4>5, <4>6
        <4> QED
          BY <4>7
      <3> QED
        BY <3>3, <3>4
    <2>4. Upto(N)
      <3>1. N \in 1 .. N
        BY <1>0, <1>2
      <3> QED
        BY <2>3, <3>1
    <2> QED
      BY <2>1, <2>4 DEF Laid
  <1> QED
    BY <1>1, <1>2

(* Parts of at most B bytes.                                               *)
LEMMA FlattenShort ==
    ASSUME NEW parts \in Seq(Seq(Nat)), NEW B \in Nat, Len(parts) <= 6,
           \A i \in 1 .. Len(parts) : Len(parts[i]) <= B
    PROVE  Len(FlattenSeq(parts)) <= Len(parts) * B
  <1>1. PICK at : Laid(FlattenSeq(parts), parts, at)
    BY FlattenLaid
  <1> DEFINE N == Len(parts)
  <1>2. N \in 0 .. 6
    <2>1. Len(parts) \in Nat
      OBVIOUS
    <2>2. \A n \in Nat : n <= 6 => n \in 0 .. 6
      OBVIOUS
    <2> QED
      BY <2>1, <2>2
  <1>3. at[0] = 0 /\ at[N] = Len(FlattenSeq(parts))
    BY <1>1 DEF Laid
  <1>4. \A i \in 1 .. N : at[i - 1] \in Nat /\ at[i] \in Nat /\ at[i] <= at[i - 1] + B
    <2> SUFFICES ASSUME NEW i \in 1 .. N PROVE at[i - 1] \in Nat /\ at[i] \in Nat /\ at[i] <= at[i - 1] + B
      OBVIOUS
    <2>0. i \in 1 .. Len(parts) /\ i - 1 \in 0 .. Len(parts) /\ i \in 0 .. Len(parts)
      BY <1>2
    <2>1. at[i - 1] \in Nat /\ at[i] \in Nat /\ at[i] = at[i - 1] + Len(parts[i])
      BY <1>1, <2>0 DEF Laid
    <2>2. parts[i] \in Seq(Nat) /\ Len(parts[i]) <= B
      OBVIOUS
    <2>3. Len(parts[i]) \in Nat
      BY <2>2
    <2> QED
      BY <2>1, <2>2, <2>3
  <1> HIDE DEF N
  <1>5. /\ 1 <= N => at[1] \in Nat /\ at[1] <= B
        /\ 2 <= N => at[2] \in Nat /\ at[2] <= at[1] + B
        /\ 3 <= N => at[3] \in Nat /\ at[3] <= at[2] + B
        /\ 4 <= N => at[4] \in Nat /\ at[4] <= at[3] + B
        /\ 5 <= N => at[5] \in Nat /\ at[5] <= at[4] + B
        /\ 6 <= N => at[6] \in Nat /\ at[6] <= at[5] + B
    <2>1. \A i \in {1, 2, 3, 4, 5, 6} : i <= N => i \in 1 .. N
      BY <1>2
    <2>2. 1 - 1 = 0 /\ 2 - 1 = 1 /\ 3 - 1 = 2 /\ 4 - 1 = 3 /\ 5 - 1 = 4 /\ 6 - 1 = 5
      OBVIOUS
    <2> QED
      BY <1>3, <1>4, <2>1, <2>2
  <1>6. at[N] <= N * B
    <2>1. N = 0 \/ N = 1 \/ N = 2 \/ N = 3 \/ N = 4 \/ N = 5 \/ N = 6
      BY <1>2
    <2>2. N >= 2 => at[2] \in Nat /\ at[2] <= 2 * B
      BY <1>2, <1>5
    <2>3. N >= 3 => at[3] \in Nat /\ at[3] <= 3 * B
      <3>1. N >= 3 => N >= 2 /\ 3 <= N
        BY <1>2
      <3> QED
        BY <1>5, <2>2, <3>1
    <2>4. N >= 4 => at[4] \in Nat /\ at[4] <= 4 * B
      <3>1. N >= 4 => N >= 3 /\ 4 <= N
        BY <1>2
      <3> QED
        BY <1>5, <2>3, <3>1
    <2>5. N >= 5 => at[5] \in Nat /\ at[5] <= 5 * B
      <3>1. N >= 5 => N >= 4 /\ 5 <= N
        BY <1>2
      <3> QED
        BY <1>5, <2>4, <3>1
    <2>6. N >= 6 => at[6] \in Nat /\ at[6] <= 6 * B
      <3>1. N >= 6 => N >= 5 /\ 6 <= N
        BY <1>2
      <3> QED
        BY <1>5, <2>5, <3>1
    <2>7. N = 0 => at[N] <= N * B
      BY <1>3
    <2>8. N = 1 => at[N] <= N * B
      BY <1>5
    <2>9. CASE N = 0 \/ N = 1
      BY <2>7, <2>8, <2>9
    <2>10. CASE N = 2
      BY <2>2, <2>10
    <2>11. CASE N = 3
      BY <2>3, <2>11
    <2>12. CASE N = 4
      BY <2>4, <2>12
    <2>13. CASE N = 5
      BY <2>5, <2>13
    <2>14. CASE N = 6
      BY <2>6, <2>14
    <2> QED
      BY <2>1, <2>9, <2>10, <2>11, <2>12, <2>13, <2>14
  <1> QED
    BY <1>3, <1>6 DEF N

-----------------------------------------------------------------------------
(* Numbers, strings and attributes come back as they went out.             *)

LEMMA Widths ==
    /\ U32 \in Nat /\ U64 \in Nat /\ MaxPacket \in Nat /\ U32 <= U64
    /\ u32 \subseteq u64 /\ u32 \subseteq Nat /\ u64 \subseteq Nat
    /\ \A n \in Nat : n <= MaxNames \/ n <= 4 * (MaxPacket + 64) => n \in u32
  BY WidthAssumption DEF u32, u64, MaxNames

LEMMA FourBytes ==
    ASSUME NEW v \in Nat
    PROVE  push_u32(v) \in Seq(Nat) /\ Len(push_u32(v)) = 4
  <1>1. /\ (v \div 16777216) % 256 \in Nat /\ (v \div 65536) % 256 \in Nat
        /\ (v \div 256) % 256 \in Nat /\ v % 256 \in Nat
    BY SMT
  <1> QED
    BY <1>1, SMT DEF push_u32

(* The high word of v, kept opaque for the provers.                        *)
High(v) == (v \div 65536) \div 65536

LEMMA HighType ==
    ASSUME NEW v \in Nat
    PROVE  High(v) \in Nat
  BY SMT DEF High

LEMMA U64Halves ==
    ASSUME NEW v \in Nat
    PROVE  /\ push_u64(v) \in Seq(Nat) /\ Len(push_u64(v)) = 8
           /\ SubSeq(push_u64(v), 1, 4) = push_u32(High(v))
           /\ SubSeq(push_u64(v), 5, 8) = push_u32(v)
  <1> DEFINE z == push_u32(High(v))
             x == push_u32(v)
  <1>1. z \in Seq(Nat) /\ Len(z) = 4 /\ x \in Seq(Nat) /\ Len(x) = 4
    BY HighType, FourBytes
  <1>2. push_u64(v) = z \o x
    BY DEF push_u64, High
  <1> HIDE DEF z, x
  <1>3. z \o x \in Seq(Nat) /\ Len(z \o x) = 8
    <2>1. z \o x \in Seq(Nat) /\ Len(z \o x) = Len(z) + Len(x)
      BY <1>1, CatBytes
    <2> QED
      BY <1>1, <2>1
  <1>4. At(z \o x, 0, z)
    BY <1>1, <1>3, CatBytes DEF At
  <1>5. SubSeq(z \o x, 0 + 1, 0 + Len(z)) = z
    BY <1>1, <1>3, <1>4, AtSub
  <1>6. At(z \o x, Len(z), x)
    BY <1>1, AtEnd
  <1>7. SubSeq(z \o x, Len(z) + 1, Len(z) + Len(x)) = x
    BY <1>1, <1>3, <1>6, AtSub
  <1>8. 0 + 1 = 1 /\ 0 + 4 = 4 /\ 4 + 1 = 5 /\ 4 + 4 = 8
    OBVIOUS
  <1> QED
    BY <1>1, <1>2, <1>3, <1>5, <1>7, <1>8 DEF z, x

LEMMA U32Type ==
    ASSUME NEW v \in Nat
    PROVE  /\ push_u32(v) \in Seq(Nat) /\ Len(push_u32(v)) = 4
           /\ push_u64(v) \in Seq(Nat) /\ Len(push_u64(v)) = 8
  BY FourBytes, U64Halves

(* A u32 fits its four bytes, the low half of a u64 too.                   *)
LEMMA NumOf ==
    ASSUME NEW v \in Nat
    PROVE  /\ v \div 16777216 < 256 => Num(push_u32(v)) = v
           /\ 65536 * (65536 * ((v \div 65536) \div 65536)) + Num(push_u32(v)) = v
  <1> DEFINE a == v \div 16777216
             low == 65536 * ((v \div 65536) % 256) + 256 * ((v \div 256) % 256) + (v % 256)
  <1>1. v = 16777216 * a + low /\ a \in Nat /\ low \in Nat
    BY SMT
  <1>2. Num(push_u32(v)) = 16777216 * (a % 256) + low
    BY SMT DEF Num, push_u32
  <1>3. a = 256 * ((v \div 65536) \div 65536) + (a % 256)
    BY SMT
  <1>4. a < 256 => a % 256 = a
    BY <1>1, SMT
  <1>5. (v \div 65536) \div 65536 \in Nat /\ a % 256 \in Nat
    BY SMT
  <1> HIDE DEF a, low
  <1> QED
    BY <1>1, <1>2, <1>3, <1>4, <1>5, SMT DEF a

LEMMA NumInverts ==
    ASSUME NEW v \in u32
    PROVE  Num(push_u32(v)) = v
  <1>1. v \in Nat /\ v <= U32 - 1 /\ U32 \in Nat
    BY Widths DEF u32
  <1>2. v \div 16777216 < 256
    BY <1>1, WidthAssumption, SMT
  <1> QED
    BY <1>1, <1>2, NumOf

LEMMA Num64 ==
    ASSUME NEW v \in u64
    PROVE  65536 * (65536 * Num(push_u32(High(v)))) + Num(push_u32(v)) = v
  <1> DEFINE top == High(U64 - 1)
  <1>1. v \in Nat /\ v <= U64 - 1 /\ U64 \in Nat
    BY Widths DEF u64
  <1>2. High(v) \in Nat /\ top \in Nat /\ High(v) <= top
    BY <1>1, SMT DEF High
  <1>3. top \div 16777216 < 256
    BY WidthAssumption DEF High
  <1>4. High(v) \div 16777216 < 256
    <2> HIDE DEF top
    <2> QED
      BY <1>2, <1>3, SMT
  <1>5. Num(push_u32(High(v))) = High(v)
    BY <1>2, <1>4, NumOf
  <1>6. 65536 * (65536 * High(v)) + Num(push_u32(v)) = v
    BY <1>1, NumOf DEF High
  <1> QED
    BY <1>5, <1>6

(* A sequence of anything: the values popped are numbers, strings, blocks. *)
IsSeq(s) == \E S : s \in Seq(S)

LEMMA SeqAppend ==
    ASSUME NEW s, IsSeq(s), NEW v
    PROVE  /\ IsSeq(Append(s, v)) /\ Len(Append(s, v)) = Len(s) + 1
           /\ Last(Append(s, v)) = v /\ Len(s) \in Nat
           /\ \A i \in 1 .. Len(s) : Append(s, v)[i] = s[i]
  <1>1. PICK S : s \in Seq(S)
    BY DEF IsSeq
  <1> DEFINE T == S \cup {v}
  <1>2. \A i \in 1 .. Len(s) : s[i] \in T
    BY <1>1
  <1>3. s \in Seq(T) /\ v \in T
    BY <1>1, <1>2
  <1> HIDE DEF T
  <1>4. Append(s, v) \in Seq(T) /\ Len(Append(s, v)) = Len(s) + 1
    BY <1>3
  <1>5. Append(s, v)[Len(s) + 1] = v /\ \A i \in 1 .. Len(s) : Append(s, v)[i] = s[i]
    BY <1>3
  <1>6. IsSeq(Append(s, v))
    BY <1>4 DEF IsSeq
  <1> QED
    BY <1>3, <1>4, <1>5, <1>6 DEF Last

LEMMA PlusPlus ==
    ASSUME NEW a \in Nat, NEW b \in Nat, NEW c \in Nat
    PROVE  a + b + c = a + (b + c) /\ a + b \in Nat
  OBVIOUS

(* A cursor that is in order.                                              *)
Fine(c) == c.ok = TRUE /\ c.pos \in Nat /\ IsSeq(c.out)

LEMMA TookFine ==
    ASSUME NEW c, Fine(c), NEW n \in Nat, NEW v
    PROVE  Fine(Took(c, n, v)) /\ Last(Took(c, n, v).out) = v
  BY SeqAppend DEF Fine, Took

LEMMA PopU32 ==
    ASSUME NEW d \in Seq(Nat), NEW c, Fine(c), NEW v \in u32, At(d, c.pos, push_u32(v))
    PROVE  pop_u32(d, c) = Took(c, 4, v)
  <1>0. v \in Nat
    BY Widths
  <1>1. c.pos + 4 <= Len(d)
    BY <1>0, U32Type DEF At
  <1>2. Slice(d, c, 4) = push_u32(v)
    BY <1>0, U32Type, AtSub DEF Slice, Fine
  <1> QED
    BY <1>1, <1>2, NumInverts DEF pop_u32, check_bounds, Fine

LEMMA PopU64 ==
    ASSUME NEW d \in Seq(Nat), NEW c, Fine(c), NEW v \in u64, At(d, c.pos, push_u64(v))
    PROVE  pop_u64(d, c) = Took(c, 8, v)
  <1>0. v \in Nat
    BY Widths
  <1>1. c.pos + 8 <= Len(d)
    BY <1>0, U32Type DEF At
  <1>2. Slice(d, c, 8) = push_u64(v)
    BY <1>0, U32Type, AtSub DEF Slice, Fine
  <1>3. 65536 * (65536 * Num(SubSeq(push_u64(v), 1, 4))) + Num(SubSeq(push_u64(v), 5, 8)) = v
    <2> DEFINE Both(x, y) == 65536 * (65536 * Num(x)) + Num(y)
    <2>1. Both(push_u32(High(v)), push_u32(v)) = v
      BY Num64
    <2>2. SubSeq(push_u64(v), 1, 4) = push_u32(High(v)) /\ SubSeq(push_u64(v), 5, 8) = push_u32(v)
      BY <1>0, U64Halves
    <2> HIDE DEF Both
    <2>3. Both(SubSeq(push_u64(v), 1, 4), SubSeq(push_u64(v), 5, 8)) = v
      BY <2>1, <2>2
    <2> QED
      BY <2>3 DEF Both
  <1> QED
    BY <1>1, <1>2, <1>3 DEF pop_u64, check_bounds, Fine

LEMMA BytesType ==
    ASSUME NEW s \in Seq(Nat)
    PROVE  push_bytes(s) \in Seq(Nat) /\ Len(push_bytes(s)) = 4 + Len(s)
  <1>1. Len(s) \in Nat
    OBVIOUS
  <1>2. push_u32(Len(s)) \in Seq(Nat) /\ Len(push_u32(Len(s))) = 4
    BY <1>1, U32Type
  <1>3. push_bytes(s) \in Seq(Nat) /\ Len(push_bytes(s)) = Len(push_u32(Len(s))) + Len(s)
    BY <1>2, CatBytes DEF push_bytes
  <1> QED
    BY <1>2, <1>3

LEMMA PopBytes ==
    ASSUME NEW d \in Seq(Nat), NEW c, Fine(c), NEW s \in Seq(Nat), Len(s) <= MaxPacket,
           At(d, c.pos, push_bytes(s))
    PROVE  pop_bytes(d, c) = Took(c, 4 + Len(s), s)
  <1>0. Len(s) \in Nat /\ c.pos \in Nat
    BY DEF Fine
  <1>1. push_u32(Len(s)) \in Seq(Nat) /\ Len(push_u32(Len(s))) = 4
    BY <1>0, U32Type
  <1>2. At(d, c.pos, push_u32(Len(s))) /\ At(d, c.pos + 4, s)
    BY <1>0, <1>1, AtConcat DEF push_bytes
  <1>3. pop_u32(d, c) = Took(c, 4, Len(s))
    <2>1. Len(s) \in u32
      BY <1>0, Widths
    <2> QED
      BY <1>2, <2>1, PopU32
  <1> DEFINE n == pop_u32(d, c)
             at == Onto(c.out, n)
  <1>4. n.ok /\ Last(n.out) = Len(s)
    <2>1. Fine(Took(c, 4, Len(s))) /\ Last(Took(c, 4, Len(s)).out) = Len(s)
      BY <1>0, TookFine
    <2> QED
      BY <1>3, <2>1 DEF Fine
  <1>5. at = [ok |-> TRUE, pos |-> c.pos + 4, out |-> c.out]
    BY <1>3 DEF Took, Onto
  <1> HIDE DEF at
  <1>6. Slice(d, at, Len(s)) = s
    <2>1. c.pos + 4 \in Nat
      BY <1>0
    <2>2. SubSeq(d, c.pos + 4 + 1, c.pos + 4 + Len(s)) = s
      BY <1>2, <2>1, AtSub
    <2> QED
      BY <1>5, <2>2 DEF Slice
  <1>7. check_bounds(d, at, Len(s))
    BY <1>2, <1>5 DEF check_bounds, At
  <1>8. Took(at, Len(s), s) = Took(c, 4 + Len(s), s)
    <2>1. at.pos = c.pos + 4 /\ at.out = c.out
      BY <1>5
    <2>2. \A p, l \in Nat : p + 4 + l = p + (4 + l)
      BY PlusPlus
    <2>3. c.pos + 4 + Len(s) = c.pos + (4 + Len(s))
      BY <1>0, <2>2
    <2> QED
      BY <2>1, <2>3 DEF Took
  <1> HIDE DEF n
  <1> QED
    BY <1>4, <1>6, <1>7, <1>8 DEF pop_bytes, n, at

LEMMA PopString ==
    ASSUME NEW d \in Seq(Nat), NEW c, Fine(c), NEW s \in Seq(Nat), Len(s) <= MaxPacket, IsUtf8(s),
           At(d, c.pos, push_bytes(s))
    PROVE  pop_string(d, c) = Took(c, 4 + Len(s), s)
  <1>1. pop_bytes(d, c) = Took(c, 4 + Len(s), s)
    BY PopBytes
  <1>2. Took(c, 4 + Len(s), s).ok /\ Last(Took(c, 4 + Len(s), s).out) = s
    <2>1. 4 + Len(s) \in Nat
      OBVIOUS
    <2>2. Fine(Took(c, 4 + Len(s), s)) /\ Last(Took(c, 4 + Len(s), s).out) = s
      BY <2>1, TookFine
    <2> QED
      BY <2>2 DEF Fine
  <1> QED
    BY <1>1, <1>2 DEF pop_string

-----------------------------------------------------------------------------
(* Attribute blocks.                                                       *)

PlainFlags == {"SIZE", "UIDGID", "PERMISSIONS", "ACMODTIME"}

LEMMA FlagBits ==
    ASSUME NEW a \in {0, 1}, NEW b \in {0, 1}, NEW c \in {0, 1}, NEW d \in {0, 1}
    PROVE  /\ ((a + 2 * b + 4 * c + 8 * d) \div 1) % 2 = a
           /\ ((a + 2 * b + 4 * c + 8 * d) \div 2) % 2 = b
           /\ ((a + 2 * b + 4 * c + 8 * d) \div 4) % 2 = c
           /\ ((a + 2 * b + 4 * c + 8 * d) \div 8) % 2 = d
  BY SMT

LEMMA FlagWordInverts ==
    ASSUME NEW flags \in SUBSET PlainFlags
    PROVE  /\ FlagsOf(FlagWord(flags)) = flags
           /\ FlagWord(flags) \in Seq(Nat) /\ Len(FlagWord(flags)) = 4
  <1> DEFINE a == IF "SIZE" \in flags THEN 1 ELSE 0
             b == IF "UIDGID" \in flags THEN 1 ELSE 0
             c == IF "PERMISSIONS" \in flags THEN 1 ELSE 0
             d == IF "ACMODTIME" \in flags THEN 1 ELSE 0
             w == a + 2 * b + 4 * c + 8 * d
  <1>1. FlagWord(flags) = <<0, 0, 0, w>>
    BY DEF FlagWord, Bit, PlainFlags
  <1>2. a \in {0, 1} /\ b \in {0, 1} /\ c \in {0, 1} /\ d \in {0, 1} /\ w \in Nat
    OBVIOUS
  <1>3. /\ FlagWord({"SIZE"})[4] = 1 /\ FlagWord({"UIDGID"})[4] = 2
        /\ FlagWord({"PERMISSIONS"})[4] = 4 /\ FlagWord({"ACMODTIME"})[4] = 8
    BY DEF FlagWord, Bit
  <1>4. /\ (w \div 1) % 2 = a /\ (w \div 2) % 2 = b
        /\ (w \div 4) % 2 = c /\ (w \div 8) % 2 = d
    <2> HIDE DEF a, b, c, d
    <2> QED
      BY <1>2, FlagBits
  <1>5. /\ (w \div 1) % 2 = 1 <=> "SIZE" \in flags
        /\ (w \div 2) % 2 = 1 <=> "UIDGID" \in flags
        /\ (w \div 4) % 2 = 1 <=> "PERMISSIONS" \in flags
        /\ (w \div 8) % 2 = 1 <=> "ACMODTIME" \in flags
    <2> HIDE DEF w
    <2> QED
      BY <1>4
  <1> HIDE DEF w
  <1>6. FlagsOf(FlagWord(flags)) = {f \in PlainFlags : (w \div FlagWord({f})[4]) % 2 = 1}
    BY <1>1 DEF FlagsOf, PlainFlags
  <1>7. \A f \in PlainFlags : (w \div FlagWord({f})[4]) % 2 = 1 <=> f \in flags
    BY <1>3, <1>5 DEF PlainFlags
  <1>8. FlagsOf(FlagWord(flags)) = flags
    BY <1>6, <1>7
  <1>9. FlagWord(flags) \in Seq(Nat) /\ Len(FlagWord(flags)) = 4
    <2>1. <<0, 0, 0, w>> \in Seq(Nat) /\ Len(<<0, 0, 0, w>>) = 4
      BY <1>2
    <2> QED
      BY <1>1, <2>1
  <1> QED
    BY <1>8, <1>9

LEMMA AttrTable ==
    /\ AttrNames = {"size", "uid", "gid", "permissions", "atime", "mtime"}
    /\ \A i \in 1 .. 6 : AttrFields[i].width = 8 <=> AttrFields[i].name = "size"
    /\ \A i, j \in 1 .. 6 : \A p \in Together :
         AttrFields[i].flag = AttrFields[j].flag /\ AttrFields[i].name \in p => AttrFields[j].name \in p
    /\ \A p \in Together : p \subseteq AttrNames
  <1>1. /\ AttrFields[1] = [name |-> "size", flag |-> "SIZE", width |-> 8]
        /\ AttrFields[2] = [name |-> "uid", flag |-> "UIDGID", width |-> 4]
        /\ AttrFields[3] = [name |-> "gid", flag |-> "UIDGID", width |-> 4]
        /\ AttrFields[4] = [name |-> "permissions", flag |-> "PERMISSIONS", width |-> 4]
        /\ AttrFields[5] = [name |-> "atime", flag |-> "ACMODTIME", width |-> 4]
        /\ AttrFields[6] = [name |-> "mtime", flag |-> "ACMODTIME", width |-> 4]
        /\ DOMAIN AttrFields = 1 .. 6
    BY DEF AttrFields
  <1>2. \A i \in 1 .. 6 : i = 1 \/ i = 2 \/ i = 3 \/ i = 4 \/ i = 5 \/ i = 6
    OBVIOUS
  <1>3. AttrNames = {"size", "uid", "gid", "permissions", "atime", "mtime"}
    <2>1. AttrNames = {AttrFields[i].name : i \in 1 .. 6}
      BY <1>1 DEF AttrNames
    <2>2. \A i \in {1, 2, 3, 4, 5, 6} : i \in 1 .. 6
      OBVIOUS
    <2> QED
      BY <1>1, <1>2, <2>1, <2>2
  <1>4. \A i \in 1 .. 6 : AttrFields[i].width = 8 <=> AttrFields[i].name = "size"
    BY <1>1, <1>2
  <1>5. ASSUME NEW i \in 1 .. 6, NEW j \in 1 .. 6, NEW p \in Together,
               AttrFields[i].flag = AttrFields[j].flag, AttrFields[i].name \in p
        PROVE  AttrFields[j].name \in p
    BY <1>1, <1>2, <1>5 DEF Together, Times
  <1>6. \A p \in Together : p \subseteq AttrNames
    BY <1>3 DEF Together, Times
  <1> QED
    BY <1>3, <1>4, <1>5, <1>6

LEMMA AttrFieldsAre ==
    /\ Len(AttrFields) = 6 /\ DOMAIN AttrFields = 1 .. 6
    /\ \A i \in 1 .. 6 : /\ AttrFields[i].flag \in PlainFlags /\ AttrFields[i].width \in {4, 8}
                         /\ AttrFields[i].name \in AttrNames
    /\ \A i, j \in 1 .. 6 : AttrFields[i].name = AttrFields[j].name => i = j
    /\ \A n \in AttrNames : \E i \in 1 .. 6 : AttrFields[i].name = n
  <1>1. Len(AttrFields) = 6 /\ DOMAIN AttrFields = 1 .. 6
    BY DEF AttrFields
  <1>2. /\ AttrFields[1] = [name |-> "size", flag |-> "SIZE", width |-> 8]
        /\ AttrFields[2] = [name |-> "uid", flag |-> "UIDGID", width |-> 4]
        /\ AttrFields[3] = [name |-> "gid", flag |-> "UIDGID", width |-> 4]
        /\ AttrFields[4] = [name |-> "permissions", flag |-> "PERMISSIONS", width |-> 4]
        /\ AttrFields[5] = [name |-> "atime", flag |-> "ACMODTIME", width |-> 4]
        /\ AttrFields[6] = [name |-> "mtime", flag |-> "ACMODTIME", width |-> 4]
    BY DEF AttrFields
  <1>3. \A i \in 1 .. 6 : i = 1 \/ i = 2 \/ i = 3 \/ i = 4 \/ i = 5 \/ i = 6
    OBVIOUS
  <1>4. \A i \in 1 .. 6 : AttrFields[i].flag \in PlainFlags /\ AttrFields[i].width \in {4, 8}
    BY <1>2, <1>3 DEF PlainFlags
  <1>5. \A i, j \in 1 .. 6 : AttrFields[i].name = AttrFields[j].name => i = j
    BY <1>2, <1>3
  <1>6. AttrNames = {AttrFields[i].name : i \in 1 .. 6}
    BY <1>1 DEF AttrNames
  <1> QED
    BY <1>1, <1>4, <1>5, <1>6

(* The blocks that go over the wire: a value for every flag, and no other. *)
OnWire(i) == IF AttrFields[i].width = 8 THEN u64 ELSE u32
Blocks ==
    {a \in [flags : SUBSET PlainFlags, v : Metadata] :
       \A i \in 1 .. 6 : /\ a.v[AttrFields[i].name] # None <=> AttrFields[i].flag \in a.flags
                         /\ a.v[AttrFields[i].name] \in OnWire(i) \cup {None}}

LEMMA NoMetadataIs ==
    NoMetadata \in Metadata /\ NoAttrs \in Blocks
  <1>1. NoMetadata \in [AttrNames -> Int] /\ \A n \in AttrNames : NoMetadata[n] = None
    BY DEF NoMetadata, None
  <1>2. NoMetadata \in Metadata
    BY <1>1 DEF Metadata
  <1>3. \A i \in 1 .. 6 : NoMetadata[AttrFields[i].name] = None
    BY <1>1, AttrFieldsAre
  <1> QED
    BY <1>2, <1>3 DEF NoAttrs, Blocks

LEMMA AttrType ==
    ASSUME NEW a \in Blocks, NEW i \in 1 .. 6
    PROVE  push_attr(a, AttrFields[i]) \in Seq(Nat) /\ Len(push_attr(a, AttrFields[i])) <= 8
  <1> DEFINE f == AttrFields[i]
  <1>1. f.flag \in PlainFlags /\ f.width \in {4, 8} /\ f.name \in AttrNames
    BY AttrFieldsAre
  <1>2. OrZero(a.v[f.name]) \in Nat
    <2>1. a.v[f.name] \in OnWire(i) \cup {None}
      BY DEF Blocks
    <2> QED
      BY <2>1, Widths DEF OnWire, OrZero
  <1> HIDE DEF f
  <1>3. push_attr(a, f) \in Seq(Nat) /\ Len(push_attr(a, f)) <= 8
    <2> DEFINE x == OrZero(a.v[f.name])
    <2>1. push_u32(x) \in Seq(Nat) /\ Len(push_u32(x)) = 4 /\ push_u64(x) \in Seq(Nat) /\ Len(push_u64(x)) = 8
      BY <1>2, U32Type
    <2>2. <<>> \in Seq(Nat) /\ Len(<<>>) = 0
      OBVIOUS
    <2>3. push_attr(a, f) = <<>> \/ push_attr(a, f) = push_u64(x) \/ push_attr(a, f) = push_u32(x)
      BY <1>1 DEF push_attr
    <2> HIDE DEF x
    <2>7. 8 <= 8 /\ 4 <= 8
      OBVIOUS
    <2>4. CASE push_attr(a, f) = <<>>
      BY <2>2, <2>4
    <2>5. CASE push_attr(a, f) = push_u64(x)
      BY <2>1, <2>5, <2>7, Zenon
    <2>6. CASE push_attr(a, f) = push_u32(x)
      BY <2>1, <2>6, <2>7, Zenon
    <2> QED
      BY <2>3, <2>4, <2>5, <2>6
  <1> QED
    BY <1>3 DEF f

LEMMA PopAttr ==
    ASSUME NEW a \in Blocks, NEW i \in 1 .. 6,
           NEW d \in Seq(Nat), NEW c, Fine(c), At(d, c.pos, push_attr(a, AttrFields[i]))
    PROVE  pop_attr(a.flags, AttrFields[i], d, c)
             = Took(c, Len(push_attr(a, AttrFields[i])), a.v[AttrFields[i].name])
  <1> DEFINE f == AttrFields[i]
  <1>1. f.flag \in PlainFlags /\ f.width \in {4, 8} /\ f.name \in AttrNames
    BY AttrFieldsAre
  <1>2. a.v[f.name] \in OnWire(i) \cup {None} /\ (a.v[f.name] # None <=> f.flag \in a.flags)
    BY <1>1 DEF Blocks
  <1>7. OnWire(i) = IF f.width = 8 THEN u64 ELSE u32
    BY DEF OnWire
  <1>0. At(d, c.pos, push_attr(a, f))
    OBVIOUS
  <1> HIDE DEF f
  <1>3. CASE f.flag \notin a.flags
    <2>1. push_attr(a, f) = <<>> /\ a.v[f.name] = None
      BY <1>2, <1>3 DEF push_attr
    <2>2. pop_attr(a.flags, f, d, c) = Took(c, 0, None)
      BY <1>3 DEF pop_attr, Fine
    <2> QED
      BY <2>1, <2>2 DEF f
  <1>4. CASE f.flag \in a.flags
    <2>1. a.v[f.name] \in OnWire(i) /\ a.v[f.name] \in Nat /\ OrZero(a.v[f.name]) = a.v[f.name]
      BY <1>2, <1>4, <1>7, Widths DEF OrZero
    <2>2. CASE f.width = 8
      <3>1. push_attr(a, f) = push_u64(a.v[f.name])
        BY <1>4, <2>1, <2>2 DEF push_attr
      <3>2. pop_attr(a.flags, f, d, c) = pop_u64(d, c)
        BY <1>4, <2>2 DEF pop_attr
      <3> QED
        <4>1. a.v[f.name] \in u64 /\ Len(push_u64(a.v[f.name])) = 8
          BY <1>7, <2>1, <2>2, U32Type
        <4>2. pop_u64(d, c) = Took(c, 8, a.v[f.name])
          BY <1>0, <3>1, <4>1, PopU64
        <4> QED
          BY <3>1, <3>2, <4>1, <4>2 DEF f
    <2>3. CASE f.width = 4
      <3>1. push_attr(a, f) = push_u32(a.v[f.name])
        BY <1>4, <2>1, <2>3 DEF push_attr
      <3>2. pop_attr(a.flags, f, d, c) = pop_u32(d, c)
        BY <1>4, <2>3 DEF pop_attr
      <3> QED
        <4>1. a.v[f.name] \in u32 /\ Len(push_u32(a.v[f.name])) = 4
          BY <1>7, <2>1, <2>3, U32Type
        <4>2. pop_u32(d, c) = Took(c, 4, a.v[f.name])
          BY <1>0, <3>1, <4>1, PopU32
        <4> QED
          BY <3>1, <3>2, <4>1, <4>2 DEF f
    <2> QED
      BY <1>1, <2>2, <2>3
  <1> QED
    BY <1>3, <1>4

(* Two functions with the same recursion agree.                            *)
LEMMA Agree ==
    ASSUME NEW N \in Nat, NEW F, NEW w, F[0] = w[0],
           \A i \in 1 .. N : F[i - 1] = w[i - 1] => F[i] = w[i]
    PROVE  F[N] = w[N]
  <1> DEFINE D == {i \in 0 .. N : F[i] # w[i]}
  <1>1. D = {}
    <2> SUFFICES ASSUME D # {} PROVE FALSE
      OBVIOUS
    <2>1. D \in SUBSET Nat
      OBVIOUS
    <2>2. PICK x \in D : \A y \in D : x <= y
      BY <2>1, NatMin
    <2>3. x # 0 /\ x - 1 \in 0 .. N /\ x \in 1 .. N /\ ~(x <= x - 1)
      OBVIOUS
    <2>4. F[x - 1] = w[x - 1]
      BY <2>2, <2>3
    <2> QED
      BY <2>3, <2>4
  <1> QED
    BY <1>1

LEMMA AtIndex ==
    ASSUME NEW d \in Seq(Nat), NEW p \in Nat, NEW s \in Seq(Nat), At(d, p, s), NEW i \in 1 .. Len(s)
    PROVE  d[p + i] = s[i] /\ p + Len(s) <= Len(d)
  BY DEF At

(* What stands in a part stands in the whole.                              *)
LEMMA AtAt ==
    ASSUME NEW d \in Seq(Nat), NEW p \in Nat, NEW s \in Seq(Nat), At(d, p, s),
           NEW q \in Nat, NEW t \in Seq(Nat), At(s, q, t)
    PROVE  At(d, p + q, t)
  <1>1. ASSUME NEW i \in 1 .. Len(t)
        PROVE  d[p + q + i] = t[i]
    <2>0. q + Len(t) <= Len(s) /\ s[q + i] = t[i]
      BY AtIndex
    <2>1. q + i \in 1 .. Len(s)
      <3>1. Len(t) \in Nat /\ Len(s) \in Nat
        OBVIOUS
      <3> QED
        BY <2>0, <3>1
    <2>2. d[p + (q + i)] = s[q + i]
      BY <2>1, AtIndex
    <2> QED
      BY <2>0, <2>2
  <1>2. p + q + Len(t) <= Len(d)
    BY DEF At
  <1> QED
    BY <1>1, <1>2 DEF At

(* The first i values of f, one more appended.                             *)
FirstOf(f, i) == [j \in 1 .. i |-> f[j]]

LEMMA FrontAppend ==
    ASSUME NEW f, NEW i \in Nat \ {0}
    PROVE  /\ IsSeq(FirstOf(f, i - 1)) /\ IsSeq(FirstOf(f, i))
           /\ Append(FirstOf(f, i - 1), f[i]) = FirstOf(f, i)
           /\ FirstOf(f, 0) = <<>>
  <1> DEFINE S == {f[j] : j \in 1 .. i}
  <1>1. FirstOf(f, i - 1) \in Seq(S) /\ FirstOf(f, i) \in Seq(S) /\ f[i] \in S
    <2>1. \A j \in 1 .. i : f[j] \in S
      OBVIOUS
    <2> HIDE DEF S
    <2> QED
      BY <2>1 DEF FirstOf
  <1> HIDE DEF S
  <1>2. Len(FirstOf(f, i - 1)) = i - 1 /\ Len(FirstOf(f, i)) = i
    BY DEF FirstOf
  <1>3. Append(FirstOf(f, i - 1), f[i]) \in Seq(S) /\ Len(Append(FirstOf(f, i - 1), f[i])) = i
    BY <1>1, <1>2
  <1>4. \A j \in 1 .. i : Append(FirstOf(f, i - 1), f[i])[j] = f[j]
    BY <1>1, <1>2 DEF FirstOf
  <1>5. \A j \in 1 .. i : FirstOf(f, i)[j] = f[j]
    BY DEF FirstOf
  <1>6. Append(FirstOf(f, i - 1), f[i]) = FirstOf(f, i)
    BY <1>1, <1>2, <1>3, <1>4, <1>5, SeqEqual
  <1>7. FirstOf(f, 0) = <<>>
    BY DEF FirstOf
  <1> QED
    BY <1>1, <1>6, <1>7 DEF IsSeq

LEMMA AttrsType ==
    ASSUME NEW a \in Blocks
    PROVE  /\ FlagWord(a.flags) \in Seq(Nat) /\ Len(FlagWord(a.flags)) = 4
           /\ FlagsOf(FlagWord(a.flags)) = a.flags
           /\ [i \in DOMAIN AttrFields |-> push_attr(a, AttrFields[i])] \in Seq(Seq(Nat))
           /\ Len([i \in DOMAIN AttrFields |-> push_attr(a, AttrFields[i])]) = 6
           /\ FlattenSeq([i \in DOMAIN AttrFields |-> push_attr(a, AttrFields[i])]) \in Seq(Nat)
           /\ push_attrs(a) \in Seq(Nat) /\ Len(push_attrs(a)) <= 52
  <1> DEFINE parts == [i \in DOMAIN AttrFields |-> push_attr(a, AttrFields[i])]
  <1>1. FlagWord(a.flags) \in Seq(Nat) /\ Len(FlagWord(a.flags)) = 4 /\ FlagsOf(FlagWord(a.flags)) = a.flags
    BY FlagWordInverts DEF Blocks
  <1>2. \A i \in 1 .. 6 : push_attr(a, AttrFields[i]) \in Seq(Nat) /\ Len(push_attr(a, AttrFields[i])) <= 8
    BY AttrType
  <1>3. parts \in Seq(Seq(Nat)) /\ Len(parts) = 6 /\ \A i \in 1 .. Len(parts) : Len(parts[i]) <= 8
    <2>1. DOMAIN AttrFields = 1 .. 6
      BY AttrFieldsAre
    <2>2. \A i \in 1 .. 6 : parts[i] = push_attr(a, AttrFields[i])
      BY <2>1
    <2>3. parts \in Seq(Seq(Nat)) /\ Len(parts) = 6
      <3>1. parts = [i \in 1 .. 6 |-> push_attr(a, AttrFields[i])]
        BY <2>1
      <3> QED
        BY <1>2, <3>1
    <2> QED
      BY <1>2, <2>2, <2>3
  <1> HIDE DEF parts
  <1>4. FlattenSeq(parts) \in Seq(Nat) /\ Len(FlattenSeq(parts)) <= 6 * 8
    <2>1. FlattenSeq(parts) \in Seq(Nat)
      BY <1>3, FlattenLaid DEF Laid
    <2>2. Len(FlattenSeq(parts)) <= Len(parts) * 8
      <3>1. 8 \in Nat /\ Len(parts) <= 6
        BY <1>3
      <3> QED
        BY <1>3, <3>1, FlattenShort
    <2> QED
      BY <1>3, <2>1, <2>2
  <1>5. push_attrs(a) \in Seq(Nat) /\ Len(push_attrs(a)) <= 52
    <2>1. /\ FlagWord(a.flags) \o FlattenSeq(parts) \in Seq(Nat)
          /\ Len(FlagWord(a.flags) \o FlattenSeq(parts)) = Len(FlagWord(a.flags)) + Len(FlattenSeq(parts))
      BY <1>1, <1>4, CatBytes
    <2>3. Len(FlattenSeq(parts)) \in Nat
      BY <1>4
    <2>2. push_attrs(a) = FlagWord(a.flags) \o FlattenSeq(parts)
      BY DEF push_attrs, parts
    <2> QED
      BY <1>1, <1>4, <2>1, <2>2, <2>3
  <1> QED
    BY <1>1, <1>3, <1>4, <1>5 DEF parts

LEMMA PopAttrs ==
    ASSUME NEW a \in Blocks, NEW d \in Seq(Nat), NEW c, Fine(c), At(d, c.pos, push_attrs(a))
    PROVE  pop_attrs(d, c) = Took(c, Len(push_attrs(a)), a)
  <1> DEFINE parts == [i \in DOMAIN AttrFields |-> push_attr(a, AttrFields[i])]
             bytes == FlattenSeq(parts)
             vals == [i \in 1 .. 6 |-> a.v[AttrFields[i].name]]
  <1>1. /\ FlagWord(a.flags) \in Seq(Nat) /\ Len(FlagWord(a.flags)) = 4
        /\ FlagsOf(FlagWord(a.flags)) = a.flags
        /\ parts \in Seq(Seq(Nat)) /\ Len(parts) = 6 /\ bytes \in Seq(Nat)
    BY AttrsType
  <1>2. \A i \in 1 .. 6 : parts[i] = push_attr(a, AttrFields[i])
    BY AttrFieldsAre
  <1>3. push_attrs(a) = FlagWord(a.flags) \o bytes
    BY DEF push_attrs
  <1> HIDE DEF parts
  <1>4. PICK at : Laid(bytes, parts, at)
    BY <1>1, FlattenLaid
  <1> HIDE DEF bytes
  <1>5. /\ at \in [0 .. 6 -> Nat] /\ at[0] = 0 /\ at[6] = Len(bytes)
        /\ \A i \in 1 .. 6 : at[i] = at[i - 1] + Len(parts[i]) /\ At(bytes, at[i - 1], parts[i])
    BY <1>1, <1>4 DEF Laid
  <1>6. PICK p \in Nat : c.pos = p /\ IsSeq(c.out) /\ c.ok = TRUE
    BY DEF Fine
  <1>7. At(d, c.pos, FlagWord(a.flags)) /\ At(d, p + 4, bytes)
    <2>1. At(d, p, FlagWord(a.flags) \o bytes)
      BY <1>3, <1>6
    <2>2. At(d, p, FlagWord(a.flags)) /\ At(d, p + Len(FlagWord(a.flags)), bytes)
      BY <1>1, <2>1, AtConcat
    <2> QED
      BY <1>1, <1>6, <2>2
  <1>8. Slice(d, c, 4) = FlagWord(a.flags)
    BY <1>1, <1>6, <1>7, AtSub DEF Slice
  <1>9. check_bounds(d, c, 4)
    BY <1>1, <1>6, <1>7 DEF At, check_bounds
  <1>10. Len(push_attrs(a)) = 4 + at[6]
    <2>1. Len(FlagWord(a.flags) \o bytes) = Len(FlagWord(a.flags)) + Len(bytes)
      BY <1>1, CatBytes
    <2> QED
      BY <1>1, <1>3, <1>5, <2>1
  <1> DEFINE w == [i \in 0 .. 6 |-> [ok |-> TRUE, pos |-> p + 4 + at[i], out |-> FirstOf(vals, i)]]
             F == CHOOSE f : f = [i \in 0 .. Len(AttrFields) |->
                      IF i = 0 THEN [ok |-> TRUE, pos |-> c.pos + 4, out |-> <<>>]
                               ELSE pop_attr(FlagsOf(Slice(d, c, 4)), AttrFields[i], d, f[i - 1])]
  <1>11. ASSUME NEW i \in 1 .. 6
         PROVE  pop_attr(a.flags, AttrFields[i], d, w[i - 1]) = w[i]
    <2>1. i - 1 \in 0 .. 6 /\ i \in 0 .. 6 /\ i \in Nat \ {0}
      OBVIOUS
    <2>2. /\ w[i - 1].ok = TRUE /\ w[i - 1].pos = p + 4 + at[i - 1] /\ w[i - 1].out = FirstOf(vals, i - 1)
          /\ w[i] = [ok |-> TRUE, pos |-> p + 4 + at[i], out |-> FirstOf(vals, i)]
      BY <2>1
    <2> HIDE DEF w
    <2>3. at[i - 1] \in Nat /\ at[i] = at[i - 1] + Len(parts[i]) /\ At(bytes, at[i - 1], parts[i])
      BY <1>5, <2>1
    <2>4. parts[i] \in Seq(Nat) /\ Len(parts[i]) \in Nat
      <3>1. i \in 1 .. Len(parts)
        BY <1>1
      <3>2. parts[i] \in Seq(Nat)
        BY <1>1, <3>1, ElementOfSeq
      <3> QED
        BY <3>2
    <2>5. p + 4 \in Nat /\ p + 4 + at[i - 1] \in Nat
      BY <2>3
    <2>6. Fine(w[i - 1])
      BY <2>1, <2>2, <2>5, FrontAppend DEF Fine
    <2>7. At(d, w[i - 1].pos, push_attr(a, AttrFields[i]))
      <3>1. At(d, p + 4 + at[i - 1], parts[i])
        BY <1>1, <1>7, <2>3, <2>4, <2>5, AtAt
      <3> QED
        BY <1>2, <2>2, <3>1
    <2>8. pop_attr(a.flags, AttrFields[i], d, w[i - 1]) = Took(w[i - 1], Len(parts[i]), vals[i])
      BY <1>2, <2>6, <2>7, PopAttr
    <2>9. p + 4 + at[i - 1] + Len(parts[i]) = p + 4 + at[i]
      BY <2>3, <2>4, <2>5, PlusPlus
    <2>10. Append(FirstOf(vals, i - 1), vals[i]) = FirstOf(vals, i)
      BY <2>1, FrontAppend
    <2> QED
      BY <2>2, <2>8, <2>9, <2>10 DEF Took
  <1>12. w[0] = [ok |-> TRUE, pos |-> p + 4, out |-> <<>>]
    <2>1. p + 4 + 0 = p + 4
      OBVIOUS
    <2>2. FirstOf(vals, 0) = <<>>
      BY FrontAppend
    <2>3. w[0] = [ok |-> TRUE, pos |-> p + 4 + at[0], out |-> FirstOf(vals, 0)]
      OBVIOUS
    <2> QED
      BY <1>5, <2>1, <2>2, <2>3
  <1>13. w = [i \in 0 .. 6 |-> w[i]]
    OBVIOUS
  <1> HIDE DEF w, vals
  <1>0. FlagsOf(Slice(d, c, 4)) = a.flags /\ Len(AttrFields) = 6
    BY <1>1, <1>8, AttrFieldsAre
  <1>14. w = [i \in 0 .. Len(AttrFields) |->
                IF i = 0 THEN [ok |-> TRUE, pos |-> c.pos + 4, out |-> <<>>]
                         ELSE pop_attr(FlagsOf(Slice(d, c, 4)), AttrFields[i], d, w[i - 1])]
    <2>1. ASSUME NEW i \in 0 .. 6
          PROVE  w[i] = IF i = 0 THEN [ok |-> TRUE, pos |-> c.pos + 4, out |-> <<>>]
                                 ELSE pop_attr(FlagsOf(Slice(d, c, 4)), AttrFields[i], d, w[i - 1])
      <3>1. i = 0 \/ i \in 1 .. 6
        OBVIOUS
      <3> QED
        BY <1>0, <1>6, <1>11, <1>12, <3>1
    <2> QED
      BY <1>0, <1>13, <2>1
  <1>15. F = [i \in 0 .. Len(AttrFields) |->
                IF i = 0 THEN [ok |-> TRUE, pos |-> c.pos + 4, out |-> <<>>]
                         ELSE pop_attr(FlagsOf(Slice(d, c, 4)), AttrFields[i], d, F[i - 1])]
    BY <1>14
  <1> HIDE DEF F
  <1>16. F[6] = w[6]
    <2>1. F[0] = w[0]
      BY <1>0, <1>6, <1>12, <1>15
    <2>2. ASSUME NEW i \in 1 .. 6, F[i - 1] = w[i - 1]
          PROVE  F[i] = w[i]
      <3>1. i \in 0 .. 6 /\ i # 0
        OBVIOUS
      <3> QED
        BY <1>0, <1>11, <1>15, <2>2, <3>1
    <2> QED
      BY <2>1, <2>2, Agree
  <1>17. w[6].ok = TRUE /\ w[6].pos = p + 4 + at[6] /\ w[6].out = vals
    <2>1. FirstOf(vals, 6) = vals
      BY DEF FirstOf, vals
    <2> QED
      BY <2>1 DEF w
  <1>18. \A n \in AttrNames : w[6].out[CHOOSE i \in DOMAIN AttrFields : AttrFields[i].name = n] = a.v[n]
    <2> SUFFICES ASSUME NEW n \in AttrNames
                 PROVE  vals[CHOOSE i \in DOMAIN AttrFields : AttrFields[i].name = n] = a.v[n]
      BY <1>17
    <2>1. \E i \in DOMAIN AttrFields : AttrFields[i].name = n
      BY AttrFieldsAre
    <2>2. PICK k \in DOMAIN AttrFields :
            k = (CHOOSE i \in DOMAIN AttrFields : AttrFields[i].name = n) /\ AttrFields[k].name = n
      BY <2>1
    <2>3. k \in 1 .. 6
      BY AttrFieldsAre
    <2> QED
      BY <2>2, <2>3 DEF vals
  <1>19. [flags |-> a.flags, v |-> [n \in AttrNames |-> a.v[n]]] = a
    BY DEF Blocks, Metadata
  <1>20. "EXTENDED" \notin a.flags
    BY DEF Blocks, PlainFlags
  <1>21. [n \in AttrNames |-> F[Len(AttrFields)].out[CHOOSE i \in DOMAIN AttrFields : AttrFields[i].name = n]]
           = [n \in AttrNames |-> a.v[n]]
    BY <1>16, <1>18, AttrFieldsAre
  <1>22. pop_attrs(d, c) = [ok |-> TRUE, pos |-> F[Len(AttrFields)].pos, out |-> Append(c.out, a)]
    <2>1. F[Len(AttrFields)].ok = TRUE
      BY <1>16, <1>17, AttrFieldsAre
    <2> QED
      BY <1>1, <1>8, <1>9, <1>19, <1>20, <1>21, <2>1 DEF pop_attrs, F
  <1>23. F[Len(AttrFields)].pos = c.pos + Len(push_attrs(a))
    <2>1. F[Len(AttrFields)].pos = p + 4 + at[6] /\ at[6] \in Nat
      BY <1>5, <1>16, <1>17, AttrFieldsAre
    <2>2. \A l \in Nat : p + 4 + l = p + (4 + l)
      OBVIOUS
    <2> QED
      BY <1>5, <1>6, <1>10, <2>1, <2>2
  <1> QED
    BY <1>22, <1>23 DEF Took
-----------------------------------------------------------------------------
(* Packets of numbers, strings, bytes and attribute blocks.                *)

Simple == {"u32", "u64", "string", "bytes", "attrs"}

Field(kind) ==
    CASE kind = "u32" -> u32
      [] kind = "u64" -> u64
      [] kind = "string" -> {s \in Seq(Nat) : IsUtf8(s)}
      [] kind = "bytes" -> Seq(Nat)
      [] kind = "attrs" -> Blocks

(* A length that the decoder accepts.                                      *)
Short(kind, v) == kind \in {"string", "bytes"} => Len(v) <= MaxPacket

LEMMA PushType ==
    ASSUME NEW kind \in Simple, NEW v \in Field(kind)
    PROVE  /\ Push(kind, v) \in Seq(Nat)
           /\ Len(Push(kind, v)) <= MaxPacket => Short(kind, v)
           /\ Len(Push(kind, v)) <= (IF kind \in {"string", "bytes"} THEN Len(v) ELSE 0) + 52
  <1>1. CASE kind = "u32"
    <2>1. v \in Nat /\ Push(kind, v) = push_u32(v) /\ Short(kind, v)
      BY <1>1, Widths DEF Field, Push, Short
    <2>2. push_u32(v) \in Seq(Nat) /\ Len(push_u32(v)) = 4
      BY <2>1, U32Type
    <2>3. kind \notin {"string", "bytes"}
      BY <1>1
    <2>4. 4 <= 0 + 52
      OBVIOUS
    <2> QED
      BY <2>1, <2>2, <2>3, <2>4
  <1>2. CASE kind = "u64"
    <2>1. v \in Nat /\ Push(kind, v) = push_u64(v) /\ Short(kind, v)
      BY <1>2, Widths DEF Field, Push, Short
    <2>2. push_u64(v) \in Seq(Nat) /\ Len(push_u64(v)) = 8
      BY <2>1, U32Type
    <2>3. kind \notin {"string", "bytes"}
      BY <1>2
    <2>4. 8 <= 0 + 52
      OBVIOUS
    <2> QED
      BY <2>1, <2>2, <2>3, <2>4
  <1>3. CASE kind \in {"string", "bytes"}
    <2>1. v \in Seq(Nat) /\ Push(kind, v) = push_bytes(v)
      BY <1>3 DEF Field, Push
    <2>2. Push(kind, v) \in Seq(Nat) /\ Len(Push(kind, v)) = 4 + Len(v) /\ Len(v) \in Nat
      BY <2>1, BytesType
    <2> QED
      BY <1>3, <2>2, Widths DEF Short
  <1>4. CASE kind = "attrs"
    <2>1. v \in Blocks /\ Push(kind, v) = push_attrs(v) /\ Short(kind, v)
      BY <1>4 DEF Field, Push, Short
    <2>2. push_attrs(v) \in Seq(Nat) /\ Len(push_attrs(v)) <= 52
      BY <2>1, AttrsType
    <2>3. Len(push_attrs(v)) \in Nat
      BY <2>2
    <2> QED
      BY <1>4, <2>1, <2>2, <2>3
  <1> QED
    BY <1>1, <1>2, <1>3, <1>4 DEF Simple

LEMMA PopField ==
    ASSUME NEW kind \in Simple, NEW v \in Field(kind), Short(kind, v),
           NEW d \in Seq(Nat), NEW c, Fine(c), At(d, c.pos, Push(kind, v))
    PROVE  Pop(kind, d, c) = Took(c, Len(Push(kind, v)), v)
  <1>0. c.ok = TRUE
    BY DEF Fine
  <1>1. CASE kind = "u32"
    <2>1. v \in u32 /\ v \in Nat /\ Push(kind, v) = push_u32(v) /\ Pop(kind, d, c) = pop_u32(d, c)
      BY <1>0, <1>1, Widths DEF Field, Push, Pop
    <2> QED
      BY <2>1, U32Type, PopU32
  <1>2. CASE kind = "u64"
    <2>1. v \in u64 /\ v \in Nat /\ Push(kind, v) = push_u64(v) /\ Pop(kind, d, c) = pop_u64(d, c)
      BY <1>0, <1>2, Widths DEF Field, Push, Pop
    <2> QED
      BY <2>1, U32Type, PopU64
  <1>3. CASE kind = "string"
    <2>1. /\ v \in Seq(Nat) /\ IsUtf8(v) /\ Len(v) <= MaxPacket
          /\ Push(kind, v) = push_bytes(v) /\ Pop(kind, d, c) = pop_string(d, c)
      BY <1>0, <1>3 DEF Field, Push, Pop, Short
    <2> QED
      BY <2>1, BytesType, PopString
  <1>4. CASE kind = "bytes"
    <2>1. /\ v \in Seq(Nat) /\ Len(v) <= MaxPacket
          /\ Push(kind, v) = push_bytes(v) /\ Pop(kind, d, c) = pop_bytes(d, c)
      BY <1>0, <1>4 DEF Field, Push, Pop, Short
    <2> QED
      BY <2>1, BytesType, PopBytes
  <1>5. CASE kind = "attrs"
    <2>1. v \in Blocks /\ Push(kind, v) = push_attrs(v) /\ Pop(kind, d, c) = pop_attrs(d, c)
      BY <1>0, <1>5 DEF Field, Push, Pop
    <2> QED
      BY <2>1, PopAttrs
  <1> QED
    BY <1>1, <1>2, <1>3, <1>4, <1>5 DEF Simple

(* The requests of the client and the replies without name entries.        *)
SimpleOps ==
    {"open", "close", "read", "write", "lstat", "fstat", "setstat", "fsetstat", "opendir",
     "readdir", "remove", "mkdir", "rmdir", "realpath", "stat", "rename", "readlink", "symlink",
     "status", "handle", "data", "attrs"}

LEMMA Layouts ==
    ASSUME NEW op \in SimpleOps
    PROVE  /\ DecodeLayout[op] = EncodeLayout[op]
           /\ EncodeLayout[op] \in Seq(Simple)
           /\ EncodeLayout[op][1] = "u32" /\ Len(EncodeLayout[op]) \in 2 .. 4
  <1>1. /\ DecodeLayout[op] = EncodeLayout[op]
        /\ EncodeLayout[op] \in {<<"u32", "string", "u32", "attrs">>, <<"u32", "string">>,
             <<"u32", "string", "u64", "u32">>, <<"u32", "string", "u64", "bytes">>,
             <<"u32", "string", "attrs">>, <<"u32", "string", "string">>,
             <<"u32", "u32", "string", "string">>, <<"u32", "bytes">>, <<"u32", "attrs">>}
    BY DEF SimpleOps, DecodeLayout, EncodeLayout
  <1> DEFINE Fit(l) == l \in Seq(Simple) /\ l[1] = "u32" /\ Len(l) \in 2 .. 4
  <1>2. Fit(<<"u32", "string", "u32", "attrs">>)
    BY DEF Simple
  <1>3. Fit(<<"u32", "string">>)
    BY DEF Simple
  <1>4. Fit(<<"u32", "string", "u64", "u32">>)
    BY DEF Simple
  <1>5. Fit(<<"u32", "string", "u64", "bytes">>)
    BY DEF Simple
  <1>6. Fit(<<"u32", "string", "attrs">>)
    BY DEF Simple
  <1>7. Fit(<<"u32", "string", "string">>)
    BY DEF Simple
  <1>8. Fit(<<"u32", "u32", "string", "string">>)
    BY DEF Simple
  <1>9. Fit(<<"u32", "bytes">>)
    BY DEF Simple
  <1>10. Fit(<<"u32", "attrs">>)
    BY DEF Simple
  <1> HIDE DEF Fit
  <1>20. Fit(EncodeLayout[op])
    BY <1>1, <1>2, <1>3, <1>4, <1>5, <1>6, <1>7, <1>8, <1>9, <1>10
  <1> QED
    BY <1>1, <1>20 DEF Fit
Payload(op, f) == FlattenSeq([i \in DOMAIN EncodeLayout[op] |-> Push(EncodeLayout[op][i], f[i])])

(* The fields of a packet of the operation op.                             *)
Fields(op, f) ==
    /\ IsSeq(f) /\ Len(f) = Len(EncodeLayout[op])
    /\ \A i \in 1 .. Len(f) : f[i] \in Field(EncodeLayout[op][i])

LEMMA PayloadType ==
    ASSUME NEW op \in SimpleOps, NEW f, Fields(op, f)
    PROVE  /\ [i \in DOMAIN EncodeLayout[op] |-> Push(EncodeLayout[op][i], f[i])] \in Seq(Seq(Nat))
           /\ Len([i \in DOMAIN EncodeLayout[op] |-> Push(EncodeLayout[op][i], f[i])]) = Len(f)
           /\ \A i \in 1 .. Len(f) :
                [j \in DOMAIN EncodeLayout[op] |-> Push(EncodeLayout[op][j], f[j])][i] = Push(EncodeLayout[op][i], f[i])
           /\ Payload(op, f) \in Seq(Nat)
           /\ Len(f) \in 2 .. 4 /\ \A i \in 1 .. Len(f) : EncodeLayout[op][i] \in Simple
  <1> DEFINE layout == EncodeLayout[op]
             parts == [i \in DOMAIN layout |-> Push(layout[i], f[i])]
  <1>1. layout \in Seq(Simple) /\ Len(layout) = Len(f) /\ Len(f) \in 2 .. 4
    BY Layouts DEF Fields
  <1>2. ASSUME NEW i \in 1 .. Len(f)
        PROVE  layout[i] \in Simple /\ Push(layout[i], f[i]) \in Seq(Nat)
    <2>1. layout[i] \in Simple /\ f[i] \in Field(layout[i])
      BY <1>1 DEF Fields
    <2> QED
      BY <2>1, PushType
  <1>3. parts \in Seq(Seq(Nat)) /\ Len(parts) = Len(f)
    <2>1. DOMAIN layout = 1 .. Len(f)
      BY <1>1
    <2> HIDE DEF layout
    <2> QED
      BY <1>1, <1>2, <2>1
  <1>4. \A i \in 1 .. Len(f) : parts[i] = Push(layout[i], f[i])
    BY <1>1
  <1>5. FlattenSeq(parts) \in Seq(Nat)
    <2> HIDE DEF parts
    <2> QED
      BY <1>3, FlattenLaid DEF Laid
  <1> QED
    BY <1>1, <1>2, <1>3, <1>4, <1>5 DEF Payload

(* Strings of at most B bytes make a short packet.                         *)
LEMMA PayloadShort ==
    ASSUME NEW op \in SimpleOps, NEW f, Fields(op, f), NEW B \in Nat,
           \A i \in 1 .. Len(f) : EncodeLayout[op][i] \in {"string", "bytes"} => Len(f[i]) <= B
    PROVE  Len(Payload(op, f)) \in Nat /\ Len(Payload(op, f)) <= 4 * (B + 52)
  <1> DEFINE layout == EncodeLayout[op]
             parts == [i \in DOMAIN layout |-> Push(layout[i], f[i])]
  <1>1. /\ parts \in Seq(Seq(Nat)) /\ Len(parts) = Len(f) /\ Len(f) \in 2 .. 4
        /\ \A i \in 1 .. Len(f) : layout[i] \in Simple /\ parts[i] = Push(layout[i], f[i])
    BY PayloadType
  <1>2. Payload(op, f) = FlattenSeq(parts) /\ Payload(op, f) \in Seq(Nat)
    BY PayloadType DEF Payload
  <1> HIDE DEF parts
  <1>3. ASSUME NEW i \in 1 .. Len(f)
        PROVE  Len(parts[i]) <= B + 52
    <2>1. f[i] \in Field(layout[i]) /\ layout[i] \in Simple /\ parts[i] = Push(layout[i], f[i])
      BY <1>1 DEF Fields
    <2>2. Len(Push(layout[i], f[i])) <= (IF layout[i] \in {"string", "bytes"} THEN Len(f[i]) ELSE 0) + 52
      BY <2>1, PushType
    <2>3. parts[i] \in Seq(Nat)
      BY <1>1
    <2>4. Len(parts[i]) \in Nat
      BY <2>3
    <2>5. CASE layout[i] \in {"string", "bytes"}
      <3>1. f[i] \in Seq(Nat) /\ Len(f[i]) <= B
        BY <2>1, <2>5 DEF Field
      <3>2. Len(f[i]) \in Nat
        BY <3>1
      <3> QED
        BY <2>1, <2>2, <2>4, <2>5, <3>1, <3>2
    <2>6. CASE layout[i] \notin {"string", "bytes"}
      BY <2>1, <2>2, <2>4, <2>6
    <2> QED
      BY <2>5, <2>6
  <1> HIDE DEF layout
  <1>4. PICK N \in 2 .. 4 : N = Len(f)
    BY <1>1
  <1>5. Len(FlattenSeq(parts)) <= N * (B + 52)
    <2>1. B + 52 \in Nat /\ Len(parts) <= 6
      <3>1. Len(parts) = N
        BY <1>1, <1>4
      <3>2. N <= 6 /\ B + 52 \in Nat
        OBVIOUS
      <3> QED
        BY <3>1, <3>2
    <2> QED
      BY <1>1, <1>3, <1>4, <2>1, FlattenShort
  <1>6. Len(Payload(op, f)) \in Nat
    BY <1>2
  <1>7. N = 2 \/ N = 3 \/ N = 4
    OBVIOUS
  <1> QED
    BY <1>2, <1>5, <1>6, <1>7

(* A part is no longer than the whole.                                     *)
LEMMA LaidPart ==
    ASSUME NEW bytes, NEW parts \in Seq(Seq(Nat)), NEW at, Laid(bytes, parts, at), NEW i \in 1 .. Len(parts)
    PROVE  /\ at[i - 1] \in Nat /\ at[i] \in Nat /\ parts[i] \in Seq(Nat) /\ Len(parts[i]) \in Nat
           /\ at[i] = at[i - 1] + Len(parts[i]) /\ At(bytes, at[i - 1], parts[i])
           /\ Len(parts[i]) <= Len(bytes)
  <1>1. i - 1 \in 0 .. Len(parts) /\ i \in 0 .. Len(parts)
    OBVIOUS
  <1>2. parts[i] \in Seq(Nat)
    BY ElementOfSeq
  <1>3. Len(parts[i]) \in Nat
    BY <1>2
  <1>4. at[i - 1] \in Nat /\ at[i] \in Nat /\ bytes \in Seq(Nat)
    BY <1>1 DEF Laid
  <1>5. at[i] = at[i - 1] + Len(parts[i]) /\ At(bytes, at[i - 1], parts[i])
    BY DEF Laid
  <1>6. at[i - 1] + Len(parts[i]) <= Len(bytes) /\ Len(bytes) \in Nat
    BY <1>4, <1>5 DEF At
  <1> QED
    BY <1>2, <1>3, <1>4, <1>5, <1>6

(* What a decode_ function makes of what its encode_ function wrote.       *)
LEMMA DecodePayload ==
    ASSUME NEW op \in SimpleOps, NEW f, Fields(op, f),
           \A i \in 1 .. Len(f) : Short(EncodeLayout[op][i], f[i])
    PROVE  Decode(op, Payload(op, f)) = [ok |-> TRUE, pos |-> Len(Payload(op, f)), out |-> f]
  <1> DEFINE layout == EncodeLayout[op]
             parts == [i \in DOMAIN layout |-> Push(layout[i], f[i])]
             d == Payload(op, f)
             N == Len(f)
  <1>1. /\ parts \in Seq(Seq(Nat)) /\ Len(parts) = N /\ N \in 2 .. 4 /\ d \in Seq(Nat)
        /\ \A i \in 1 .. N : layout[i] \in Simple /\ parts[i] = Push(layout[i], f[i])
    BY PayloadType
  <1>2. PICK at : Laid(d, parts, at)
    <2>1. d = FlattenSeq(parts)
      BY DEF Payload
    <2> HIDE DEF parts, d
    <2> QED
      BY <1>1, <2>1, FlattenLaid
  <1>3. \A i \in 1 .. N : f[i] \in Field(layout[i]) /\ Short(layout[i], f[i])
    BY DEF Fields
  <1>4. DecodeLayout[op] = layout /\ Len(layout) = N
    BY Layouts DEF Fields
  <1>5. f = FirstOf(f, N) /\ IsSeq(f)
    <2>1. PICK S : f \in Seq(S)
      BY DEF Fields, IsSeq
    <2>2. f = [j \in 1 .. Len(f) |-> f[j]]
      BY <2>1
    <2> QED
      BY <2>1, <2>2 DEF FirstOf, IsSeq
  <1> HIDE DEF layout, parts, d, N
  <1> DEFINE w == [i \in 0 .. N |-> [ok |-> TRUE, pos |-> at[i], out |-> FirstOf(f, i)]]
             F == CHOOSE g : g = [i \in 0 .. Len(DecodeLayout[op]) |->
                     IF i = 0 THEN Start ELSE Pop(DecodeLayout[op][i], d, g[i - 1])]
  <1>6. ASSUME NEW i \in 1 .. N
        PROVE  Pop(layout[i], d, w[i - 1]) = w[i]
    <2>1. i - 1 \in 0 .. N /\ i \in 0 .. N /\ i \in Nat \ {0} /\ i \in 1 .. Len(parts)
      BY <1>1
    <2>2. /\ w[i - 1].ok = TRUE /\ w[i - 1].pos = at[i - 1] /\ w[i - 1].out = FirstOf(f, i - 1)
          /\ w[i] = [ok |-> TRUE, pos |-> at[i], out |-> FirstOf(f, i)]
      BY <2>1
    <2> HIDE DEF w
    <2>3. at[i - 1] \in Nat /\ at[i] = at[i - 1] + Len(parts[i]) /\ At(d, at[i - 1], parts[i])
      <3>1. parts \in Seq(Seq(Nat)) /\ i \in 1 .. Len(parts)
        BY <1>1, <2>1
      <3>2. \A j \in 1 .. Len(parts) : /\ at[j - 1] \in Nat /\ at[j] = at[j - 1] + Len(parts[j])
                                      /\ At(d, at[j - 1], parts[j])
        BY <1>2, <3>1, LaidPart
      <3> QED
        BY <3>1, <3>2
    <2>4. Fine(w[i - 1])
      BY <2>1, <2>2, <2>3, FrontAppend DEF Fine
    <2>5. Pop(layout[i], d, w[i - 1]) = Took(w[i - 1], Len(parts[i]), f[i])
      <3>1. PICK kind \in Simple : kind = layout[i]
        BY <1>1
      <3>2. PICK v \in Field(kind) : v = f[i] /\ Short(kind, v)
        BY <1>3, <3>1
      <3>3. PICK c : c = w[i - 1]
        OBVIOUS
      <3>4. Fine(c) /\ parts[i] = Push(kind, v) /\ At(d, c.pos, Push(kind, v)) /\ d \in Seq(Nat)
        BY <1>1, <2>2, <2>3, <2>4, <3>1, <3>2, <3>3
      <3>5. Pop(kind, d, c) = Took(c, Len(Push(kind, v)), v)
        BY <3>2, <3>4, PopField
      <3> QED
        BY <3>1, <3>2, <3>3, <3>4, <3>5
    <2>6. Append(FirstOf(f, i - 1), f[i]) = FirstOf(f, i)
      BY <2>1, FrontAppend
    <2> QED
      BY <2>2, <2>3, <2>5, <2>6 DEF Took
  <1>7. w[0] = Start /\ w[N] = [ok |-> TRUE, pos |-> Len(d), out |-> f]
    <2>1. at[0] = 0 /\ at[N] = Len(d) /\ FirstOf(f, 0) = <<>> /\ 0 \in 0 .. N /\ N \in 0 .. N
      <3>1. at[0] = 0 /\ at[N] = Len(d)
        <4>1. Len(parts) = N
          BY <1>1
        <4> QED
          BY <1>2, <4>1 DEF Laid
      <3>2. FirstOf(f, 0) = <<>>
        BY DEF FirstOf
      <3>3. 0 \in 0 .. N /\ N \in 0 .. N
        BY <1>1
      <3> QED
        BY <3>1, <3>2, <3>3
    <2>2. w[0] = [ok |-> TRUE, pos |-> at[0], out |-> FirstOf(f, 0)] /\ w[N] = [ok |-> TRUE, pos |-> at[N], out |-> FirstOf(f, N)]
      BY <2>1
    <2> QED
      BY <1>5, <2>1, <2>2 DEF Start
  <1>8. w = [i \in 0 .. N |-> w[i]]
    OBVIOUS
  <1> HIDE DEF w
  <1>9. w = [i \in 0 .. Len(DecodeLayout[op]) |->
               IF i = 0 THEN Start ELSE Pop(DecodeLayout[op][i], d, w[i - 1])]
    <2>1. ASSUME NEW i \in 0 .. N
          PROVE  w[i] = IF i = 0 THEN Start ELSE Pop(DecodeLayout[op][i], d, w[i - 1])
      <3>1. i = 0 \/ i \in 1 .. N
        BY <1>1
      <3> QED
        BY <1>4, <1>6, <1>7, <3>1
    <2> QED
      BY <1>4, <1>8, <2>1
  <1>10. F = [i \in 0 .. Len(DecodeLayout[op]) |->
                IF i = 0 THEN Start ELSE Pop(DecodeLayout[op][i], d, F[i - 1])]
    BY <1>9
  <1>11. Decode(op, d) = F[Len(DecodeLayout[op])]
    BY DEF Decode
  <1> HIDE DEF F
  <1>12. F[N] = w[N]
    <2>1. F[0] = w[0]
      BY <1>1, <1>4, <1>7, <1>10
    <2>2. ASSUME NEW i \in 1 .. N, F[i - 1] = w[i - 1]
          PROVE  F[i] = w[i]
      <3>1. i \in 0 .. N /\ i # 0
        BY <1>1
      <3> QED
        BY <1>4, <1>6, <1>10, <2>2, <3>1
    <2>3. N \in Nat
      BY <1>1
    <2> QED
      BY <2>1, <2>2, <2>3, Agree
  <1> QED
    BY <1>4, <1>7, <1>11, <1>12 DEF d
-----------------------------------------------------------------------------
(* Packets of name entries: the decoder takes the entries it has counted.  *)

Entries == [filename : Texts, longname : Texts, attrs : Blocks]

LEMMA PopEntry ==
    ASSUME NEW e \in Entries
    PROVE  /\ push_entry(e) \in Seq(Nat)
           /\ \A d \in Seq(Nat) : \A c : Fine(c) /\ c.out = <<>> /\ At(d, c.pos, push_entry(e)) =>
                /\ pop_item("names", d, c).ok = TRUE
                /\ pop_item("names", d, c).pos = c.pos + Len(push_entry(e))
                /\ Item("names", pop_item("names", d, c).out) = e
  <1> DEFINE a == push_bytes(e.filename)
             b == push_bytes(e.longname)
             t == push_attrs(e.attrs)
  <1>1. /\ e.filename \in Texts /\ e.longname \in Texts /\ e.attrs \in Blocks
        /\ e = [filename |-> e.filename, longname |-> e.longname, attrs |-> e.attrs]
    BY DEF Entries
  <1>2. /\ a \in Seq(Nat) /\ Len(a) = 4 + Len(e.filename) /\ Len(e.filename) \in Nat
        /\ b \in Seq(Nat) /\ Len(b) = 4 + Len(e.longname) /\ Len(e.longname) \in Nat
        /\ t \in Seq(Nat)
    <2>1. e.filename \in Seq(Nat) /\ e.longname \in Seq(Nat)
      BY <1>1 DEF Texts
    <2>2. ASSUME NEW x \in Seq(Nat)
          PROVE  push_bytes(x) \in Seq(Nat) /\ Len(push_bytes(x)) = 4 + Len(x) /\ Len(x) \in Nat
      BY BytesType
    <2>3. t \in Seq(Nat)
      BY <1>1, AttrsType
    <2> QED
      BY <2>1, <2>2, <2>3
  <1>3. push_entry(e) = (a \o b) \o t
    BY DEF push_entry
  <1> HIDE DEF a, b, t
  <1>4. /\ a \o b \in Seq(Nat) /\ Len(a \o b) = Len(a) + Len(b)
        /\ (a \o b) \o t \in Seq(Nat) /\ Len((a \o b) \o t) = Len(a \o b) + Len(t)
        /\ Len(a) \in Nat /\ Len(b) \in Nat /\ Len(t) \in Nat
    <2>1. a \o b \in Seq(Nat) /\ Len(a \o b) = Len(a) + Len(b)
      BY <1>2, CatBytes
    <2>2. (a \o b) \o t \in Seq(Nat) /\ Len((a \o b) \o t) = Len(a \o b) + Len(t)
      BY <1>2, <2>1, CatBytes
    <2>3. Len(a) \in Nat /\ Len(b) \in Nat /\ Len(t) \in Nat
      BY <1>2
    <2> QED
      BY <2>1, <2>2, <2>3
  <1>5. ASSUME NEW d \in Seq(Nat), NEW c, Fine(c), c.out = <<>>, At(d, c.pos, push_entry(e))
        PROVE  /\ pop_item("names", d, c).ok = TRUE
               /\ pop_item("names", d, c).pos = c.pos + Len(push_entry(e))
               /\ Item("names", pop_item("names", d, c).out) = e
    <2>0. PICK p \in Nat : c.pos = p
      BY <1>5 DEF Fine
    <2>1. At(d, p, a \o b) /\ At(d, p + Len(a \o b), t)
      <3>1. At(d, p, (a \o b) \o t)
        BY <1>3, <1>5, <2>0
      <3> QED
        BY <1>2, <1>4, <3>1, AtConcat
    <2>2. At(d, p, a) /\ At(d, p + Len(a), b)
      BY <1>2, <2>1, AtConcat
    <2> DEFINE c1 == Took(c, Len(a), e.filename)
               c2 == Took(c1, Len(b), e.longname)
               c3 == Took(c2, Len(t), e.attrs)
    <2>3. pop_string(d, c) = c1 /\ Fine(c1) /\ c1.pos = p + Len(a)
      <3>1. pop_string(d, c) = c1
        BY <1>1, <1>2, <1>5, <2>0, <2>2, PopString DEF Texts, a
      <3>2. Fine(c1)
        BY <1>4, <1>5, TookFine
      <3> QED
        BY <2>0, <3>1, <3>2 DEF Took
    <2>4. pop_string(d, c1) = c2 /\ Fine(c2) /\ c2.pos = p + Len(a \o b)
      <3>1. At(d, c1.pos, b)
        BY <2>2, <2>3
      <3>2. Fine(c2)
        BY <1>4, <2>3, TookFine
      <3>3. c2.pos = p + Len(a) + Len(b)
        BY <2>3 DEF Took
      <3> HIDE DEF c1
      <3>4. pop_string(d, c1) = c2
        BY <1>1, <1>2, <2>3, <3>1, PopString DEF Texts, b
      <3>5. p + Len(a) + Len(b) = p + Len(a \o b)
        BY <1>4
      <3> QED
        BY <3>2, <3>3, <3>4, <3>5
    <2>5. pop_attrs(d, c2) = c3 /\ c3.ok = TRUE /\ c3.pos = p + Len(push_entry(e))
      <3>1. At(d, c2.pos, t)
        BY <2>1, <2>4
      <3>2. c3.ok = TRUE /\ c3.pos = p + Len(a \o b) + Len(t)
        BY <2>4 DEF Took
      <3> HIDE DEF c1, c2
      <3>3. pop_attrs(d, c2) = c3
        BY <1>1, <2>4, <3>1, PopAttrs DEF t
      <3>4. p + Len(a \o b) + Len(t) = p + Len(push_entry(e))
        BY <1>3, <1>4
      <3> QED
        BY <3>2, <3>3, <3>4
    <2>6. c3.out = <<e.filename, e.longname, e.attrs>>
      <3> DEFINE f == <<e.filename, e.longname, e.attrs>>
      <3>1. Append(Append(Append(<<>>, f[1]), f[2]), f[3]) = f
        <4>1. /\ Append(FirstOf(f, 0), f[1]) = FirstOf(f, 1) /\ Append(FirstOf(f, 1), f[2]) = FirstOf(f, 2)
              /\ Append(FirstOf(f, 2), f[3]) = FirstOf(f, 3) /\ FirstOf(f, 0) = <<>>
          <5> HIDE DEF f
          <5>1. 1 \in Nat \ {0} /\ 2 \in Nat \ {0} /\ 3 \in Nat \ {0} /\ 1 - 1 = 0 /\ 2 - 1 = 1 /\ 3 - 1 = 2
            OBVIOUS
          <5> QED
            BY <5>1, FrontAppend
        <4>2. FirstOf(f, 3) = f
          BY DEF FirstOf
        <4> HIDE DEF f
        <4> QED
          BY <4>1, <4>2
      <3>2. c3.out = Append(Append(Append(<<>>, e.filename), e.longname), e.attrs)
        BY <1>5 DEF Took
      <3>3. f[1] = e.filename /\ f[2] = e.longname /\ f[3] = e.attrs
        OBVIOUS
      <3> HIDE DEF c3, f
      <3>4. c3.out = f
        BY <3>1, <3>2, <3>3
      <3> QED
        BY <3>4 DEF f
    <2> HIDE DEF c1, c2, c3
    <2>7. pop_item("names", d, c) = c3
      BY <2>3, <2>4, <2>5 DEF pop_item
    <2> QED
      BY <1>1, <2>0, <2>5, <2>6, <2>7 DEF Item
  <1> QED
    BY <1>3, <1>4, <1>5

(* The entries stand in d behind the first p bytes; at[i] bytes of them    *)
(* come before and within entry i.                                         *)
EntriesAt(d, p, es, at) ==
    /\ at \in [0 .. Len(es) -> Nat] /\ at[0] = 0
    /\ \A i \in 1 .. Len(es) : /\ at[i] = at[i - 1] + Len(push_entry(es[i]))
                               /\ At(d, p + at[i - 1], push_entry(es[i]))

LEMMA PopEntries ==
    ASSUME NEW es \in Seq(Entries), NEW at, NEW d \in Seq(Nat), NEW c, Fine(c),
           NEW count \in 0 .. Len(es), EntriesAt(d, c.pos, es, at)
    PROVE  /\ PopMany("names", d, c, count).ok = TRUE
           /\ PopMany("names", d, c, count).out = Append(c.out, FirstOf(es, count))
  <1>20. /\ at \in [0 .. Len(es) -> Nat] /\ at[0] = 0
         /\ \A i \in 1 .. Len(es) : /\ at[i] = at[i - 1] + Len(push_entry(es[i]))
                                    /\ At(d, c.pos + at[i - 1], push_entry(es[i]))
    BY DEF EntriesAt
  <1>0. PICK p \in Nat : c.pos = p /\ c.ok = TRUE
    BY DEF Fine
  <1>9. count \in Nat /\ 0 \in 0 .. count /\ count \in 0 .. count
    OBVIOUS
  <1> DEFINE w == [i \in 0 .. count |-> [ok |-> TRUE, pos |-> p + at[i], out |-> FirstOf(es, i)]]
             Turn(x) == IF x.ok /\ pop_item("names", d, Onto(<<>>, x)).ok
                          THEN Onto(Append(x.out, Item("names", pop_item("names", d, Onto(<<>>, x)).out)),
                                    pop_item("names", d, Onto(<<>>, x)))
                          ELSE Fail(x)
             F == CHOOSE f : f = [i \in 0 .. count |-> IF i = 0 THEN Onto(<<>>, c) ELSE Turn(f[i - 1])]
  <1>1. ASSUME NEW i \in 1 .. count
        PROVE  Turn(w[i - 1]) = w[i]
    <2>1. /\ i - 1 \in 0 .. count /\ i \in 0 .. count /\ i \in Nat \ {0} /\ i \in 1 .. Len(es)
          /\ i - 1 \in 0 .. Len(es)
      OBVIOUS
    <2>2. /\ w[i - 1].ok = TRUE /\ w[i - 1].pos = p + at[i - 1] /\ w[i - 1].out = FirstOf(es, i - 1)
          /\ w[i] = [ok |-> TRUE, pos |-> p + at[i], out |-> FirstOf(es, i)]
      BY <2>1
    <2> HIDE DEF w
    <2>3. /\ at[i - 1] \in Nat /\ at[i] = at[i - 1] + Len(push_entry(es[i]))
          /\ At(d, p + at[i - 1], push_entry(es[i])) /\ es[i] \in Entries
      BY <1>0, <1>20, <2>1, ElementOfSeq
    <2> DEFINE x == Onto(<<>>, w[i - 1])
               one == pop_item("names", d, x)
    <2>4. Fine(x) /\ x.out = <<>> /\ x.pos = p + at[i - 1]
      <3>1. p + at[i - 1] \in Nat
        BY <2>3
      <3>2. IsSeq(<<>>)
        BY DEF IsSeq
      <3> QED
        BY <2>2, <3>1, <3>2 DEF Fine, Onto
    <2> HIDE DEF x
    <2>5. one.ok = TRUE /\ one.pos = p + at[i - 1] + Len(push_entry(es[i])) /\ Item("names", one.out) = es[i]
      <3>1. At(d, x.pos, push_entry(es[i]))
        BY <2>3, <2>4
      <3>2. one.ok = TRUE /\ one.pos = x.pos + Len(push_entry(es[i])) /\ Item("names", one.out) = es[i]
        <4>1. PICK e \in Entries : e = es[i]
          BY <2>3
        <4>2. /\ pop_item("names", d, x).ok = TRUE
              /\ pop_item("names", d, x).pos = x.pos + Len(push_entry(e))
              /\ Item("names", pop_item("names", d, x).out) = e
          <5>1. At(d, x.pos, push_entry(e))
            BY <3>1, <4>1
          <5>2. \A dd \in Seq(Nat) : \A cc : Fine(cc) /\ cc.out = <<>> /\ At(dd, cc.pos, push_entry(e)) =>
                  /\ pop_item("names", dd, cc).ok = TRUE
                  /\ pop_item("names", dd, cc).pos = cc.pos + Len(push_entry(e))
                  /\ Item("names", pop_item("names", dd, cc).out) = e
            BY <4>1, PopEntry
          <5> QED
            BY <2>4, <5>1, <5>2
        <4> QED
          BY <4>1, <4>2
      <3> QED
        BY <2>4, <3>2
    <2>6. p + at[i - 1] + Len(push_entry(es[i])) = p + at[i]
      <3>1. Len(push_entry(es[i])) \in Nat
        BY <2>3, PopEntry
      <3> QED
        BY <2>3, <3>1
    <2>7. Append(FirstOf(es, i - 1), es[i]) = FirstOf(es, i)
      BY <2>1, FrontAppend
    <2>8. Turn(w[i - 1]) = Onto(Append(w[i - 1].out, Item("names", one.out)), one)
      BY <2>2, <2>5 DEF x
    <2> HIDE DEF one, Turn
    <2> QED
      BY <2>2, <2>5, <2>6, <2>7, <2>8 DEF Onto
  <1>2. w[0] = Onto(<<>>, c)
    <2>1. FirstOf(es, 0) = <<>>
      BY DEF FirstOf
    <2>2. w[0] = [ok |-> TRUE, pos |-> p + at[0], out |-> FirstOf(es, 0)]
      BY <1>9
    <2>3. p + 0 = p
      OBVIOUS
    <2> QED
      BY <1>0, <1>20, <2>1, <2>2, <2>3 DEF Onto
  <1>3. w = [i \in 0 .. count |-> w[i]] /\ w[count].ok = TRUE /\ w[count].out = FirstOf(es, count)
    BY <1>9
  <1> HIDE DEF w
  <1>4. w = [i \in 0 .. count |-> IF i = 0 THEN Onto(<<>>, c) ELSE Turn(w[i - 1])]
    <2>1. ASSUME NEW i \in 0 .. count
          PROVE  w[i] = IF i = 0 THEN Onto(<<>>, c) ELSE Turn(w[i - 1])
      <3>1. i = 0 \/ i \in 1 .. count
        OBVIOUS
      <3> HIDE DEF Turn
      <3> QED
        BY <1>1, <1>2, <3>1
    <2> HIDE DEF Turn
    <2> QED
      BY <1>3, <2>1
  <1>5. F = [i \in 0 .. count |-> IF i = 0 THEN Onto(<<>>, c) ELSE Turn(F[i - 1])]
    <2> HIDE DEF Turn
    <2> QED
      BY <1>4
  <1>6. PopMany("names", d, c, count)
          = IF F[count].ok THEN Onto(Append(c.out, F[count].out), F[count]) ELSE Fail(c)
    BY DEF PopMany, AddItem, AddAll
  <1> HIDE DEF F, Turn
  <1>7. F[count] = w[count]
    <2>1. F[0] = w[0]
      BY <1>2, <1>5
    <2>2. ASSUME NEW i \in 1 .. count, F[i - 1] = w[i - 1]
          PROVE  F[i] = w[i]
      <3>1. i \in 0 .. count /\ i # 0
        OBVIOUS
      <3> QED
        BY <1>1, <1>5, <2>2, <3>1
    <2> QED
      BY <1>9, <2>1, <2>2, Agree
  <1> QED
    BY <1>3, <1>6, <1>7 DEF Onto
(* Parts of sixteen bytes or more.                                         *)
LEMMA LaidWide ==
    ASSUME NEW bytes, NEW parts \in Seq(Seq(Nat)), NEW at, Laid(bytes, parts, at),
           \A i \in 1 .. Len(parts) : Len(parts[i]) >= 16
    PROVE  16 * Len(parts) <= Len(bytes)
  <1>0. Len(parts) \in Nat /\ at[0] = 0 /\ at[Len(parts)] = Len(bytes)
    BY DEF Laid
  <1> DEFINE N == Len(parts)
             D == {i \in 0 .. N : ~(16 * i <= at[i])}
  <1>1. D = {}
    <2> SUFFICES ASSUME D # {} PROVE FALSE
      OBVIOUS
    <2>1. D \in SUBSET Nat
      OBVIOUS
    <2>2. PICK x \in D : \A y \in D : x <= y
      BY <2>1, NatMin
    <2>3. x # 0 /\ x - 1 \in 0 .. N /\ x \in 1 .. N /\ ~(x <= x - 1)
      BY <1>0
    <2>4. 16 * (x - 1) <= at[x - 1]
      BY <2>2, <2>3
    <2>5. /\ at[x - 1] \in Nat /\ Len(parts[x]) \in Nat /\ Len(parts[x]) >= 16
          /\ at[x] = at[x - 1] + Len(parts[x])
      BY <2>3, LaidPart
    <2> QED
      <3>1. PICK u \in Nat, n \in Nat : u = at[x - 1] /\ n = Len(parts[x])
        BY <2>5
      <3>2. PICK k \in Nat : k = x - 1 /\ x = k + 1
        BY <2>3
      <3>3. 16 * k <= u /\ n >= 16 /\ at[x] = u + n
        BY <2>4, <2>5, <3>1, <3>2
      <3>4. 16 * (k + 1) <= u + n
        BY <3>3
      <3> QED
        BY <2>2, <3>2, <3>3, <3>4
  <1>2. N \in 0 .. N
    BY <1>0
  <1> QED
    BY <1>0, <1>1, <1>2

NameCount(es) == Count("names", Len(es), Len(push_names(es)) - 4)

(* at[i] bytes of entries come before and within entry i.                  *)
NamesAt(es, at) ==
    /\ at \in [0 .. Len(es) -> Nat] /\ at[0] = 0
    /\ At(push_names(es), 0, push_u32(Len(es)))
    /\ \A i \in 1 .. Len(es) : /\ at[i] = at[i - 1] + Len(push_entry(es[i]))
                               /\ At(push_names(es), 4 + at[i - 1], push_entry(es[i]))

LEMMA NamesLaid ==
    ASSUME NEW es \in Seq(Entries)
    PROVE  /\ push_names(es) \in Seq(Nat) /\ Len(es) \in Nat
           /\ NameCount(es) \in 0 .. Len(es)
           /\ (Len(es) <= MaxNames /\ \A i \in 1 .. Len(es) : Len(push_entry(es[i])) >= 16) => NameCount(es) = Len(es)
           /\ \E at : NamesAt(es, at)
  <1> DEFINE parts == [i \in DOMAIN es |-> push_entry(es[i])]
             bytes == FlattenSeq(parts)
             N == Len(es)
  <1>1. N \in Nat /\ DOMAIN es = 1 .. N /\ \A i \in 1 .. N : es[i] \in Entries
    BY ElementOfSeq
  <1>2. \A i \in 1 .. N : push_entry(es[i]) \in Seq(Nat)
    BY <1>1, PopEntry
  <1>3. parts \in Seq(Seq(Nat)) /\ Len(parts) = N /\ \A i \in 1 .. N : parts[i] = push_entry(es[i])
    <2> HIDE DEF N
    <2> QED
      BY <1>1, <1>2
  <1>4. push_names(es) = push_u32(N) \o bytes
    BY DEF push_names
  <1> HIDE DEF parts
  <1>5. PICK at : Laid(bytes, parts, at)
    BY <1>3, FlattenLaid
  <1>6. bytes \in Seq(Nat) /\ at \in [0 .. N -> Nat] /\ at[0] = 0 /\ at[N] = Len(bytes) /\ Len(bytes) \in Nat
    BY <1>3, <1>5 DEF Laid
  <1>7. push_u32(N) \in Seq(Nat) /\ Len(push_u32(N)) = 4
    BY <1>1, U32Type
  <1> HIDE DEF bytes, N
  <1>8. push_names(es) \in Seq(Nat) /\ Len(push_names(es)) = 4 + Len(bytes)
    <2>1. push_u32(N) \o bytes \in Seq(Nat) /\ Len(push_u32(N) \o bytes) = Len(push_u32(N)) + Len(bytes)
      BY <1>6, <1>7, CatBytes
    <2> QED
      BY <1>4, <1>7, <2>1
  <1>9. At(push_names(es), 0, push_u32(N)) /\ At(push_names(es), 4, bytes)
    <2>1. At(push_u32(N) \o bytes, Len(push_u32(N)), bytes)
      BY <1>6, <1>7, AtEnd
    <2>2. \A i \in 1 .. Len(push_u32(N)) : (push_u32(N) \o bytes)[i] = push_u32(N)[i]
      BY <1>6, <1>7, CatBytes
    <2>3. At(push_names(es), 0, push_u32(N))
      BY <1>4, <1>6, <1>7, <1>8, <2>2 DEF At
    <2> QED
      BY <1>4, <1>7, <2>1, <2>3
  <1>10. ASSUME NEW i \in 1 .. N
         PROVE  /\ at[i] = at[i - 1] + Len(push_entry(es[i]))
                /\ At(push_names(es), 4 + at[i - 1], push_entry(es[i]))
    <2>1. /\ at[i - 1] \in Nat /\ parts[i] \in Seq(Nat) /\ at[i] = at[i - 1] + Len(parts[i])
          /\ At(bytes, at[i - 1], parts[i])
      BY <1>3, <1>5, LaidPart
    <2>2. At(push_names(es), 4 + at[i - 1], parts[i])
      BY <1>6, <1>8, <1>9, <2>1, AtAt
    <2> QED
      BY <1>3, <2>1, <2>2
  <1>11. NameCount(es) = AtMost(AtMost(N, Len(bytes) \div 16), MaxNames)
    <2>1. (4 + Len(bytes)) - 4 = Len(bytes)
      BY <1>6
    <2> QED
      BY <1>8, <2>1 DEF NameCount, Count, NameBytes, N
  <1>12. NameCount(es) \in 0 .. N
    <2>1. Len(bytes) \div 16 \in Nat /\ MaxNames \in Nat
      BY <1>6, SMT DEF MaxNames
    <2> QED
      BY <1>1, <1>11, <2>1 DEF AtMost
  <1>13. ASSUME N <= MaxNames, \A i \in 1 .. N : Len(push_entry(es[i])) >= 16
         PROVE  NameCount(es) = N
    <2>1. \A i \in 1 .. Len(parts) : Len(parts[i]) >= 16
      BY <1>3, <1>13
    <2>2. 16 * N <= Len(bytes)
      BY <1>3, <1>5, <2>1, LaidWide
    <2>3. Len(bytes) \div 16 >= N /\ Len(bytes) \div 16 \in Nat /\ MaxNames \in Nat
      BY <1>1, <1>6, <2>2, SMT DEF MaxNames
    <2> QED
      BY <1>1, <1>11, <1>13, <2>3 DEF AtMost
  <1>14. NamesAt(es, at)
    BY <1>6, <1>9, <1>10 DEF N, NamesAt
  <1> QED
    BY <1>1, <1>8, <1>12, <1>13, <1>14 DEF N

LEMMA DecodeName ==
    ASSUME NEW id \in u32, NEW es \in Seq(Entries), Len(es) <= MaxNames
    PROVE  LET d == Decode("name", Payload("name", <<id, es>>))
           IN  /\ Payload("name", <<id, es>>) \in Seq(Nat)
               /\ d.ok = TRUE /\ d.out = <<id, FirstOf(es, NameCount(es))>>
  <1> DEFINE f == <<id, es>>
             parts == <<push_u32(id), push_names(es)>>
             d == Payload("name", f)
  <1>1. EncodeLayout["name"] = <<"u32", "names">> /\ DecodeLayout["name"] = <<"u32", "names">>
    BY DEF EncodeLayout, DecodeLayout
  <1>2. push_u32(id) \in Seq(Nat) /\ Len(push_u32(id)) = 4 /\ push_names(es) \in Seq(Nat)
    <2>1. push_names(es) \in Seq(Nat)
      BY NamesLaid
    <2>2. id \in Nat
      BY Widths
    <2> QED
      BY <2>1, <2>2, U32Type
  <1>3. d = FlattenSeq(parts)
    <2>1. Push("u32", id) = push_u32(id) /\ Push("names", es) = push_names(es)
      BY DEF Push
    <2>2. [i \in DOMAIN <<"u32", "names">> |-> Push(<<"u32", "names">>[i], f[i])] = parts
      BY <2>1
    <2> QED
      BY <1>1, <2>2 DEF Payload
  <1>4. parts \in Seq(Seq(Nat)) /\ Len(parts) = 2 /\ parts[1] = push_u32(id) /\ parts[2] = push_names(es)
    BY <1>2
  <1> HIDE DEF parts
  <1>5. PICK at : Laid(d, parts, at)
    BY <1>3, <1>4, FlattenLaid
  <1> HIDE DEF d
  <1>6. d \in Seq(Nat) /\ At(d, 0, push_u32(id)) /\ At(d, 4, push_names(es)) /\ Len(d) = 4 + Len(push_names(es))
    <2>1. /\ d \in Seq(Nat) /\ at[0] = 0 /\ at[2] = Len(d)
          /\ at[1] = at[1 - 1] + Len(parts[1]) /\ At(d, at[1 - 1], parts[1])
          /\ at[2] = at[2 - 1] + Len(parts[2]) /\ At(d, at[2 - 1], parts[2])
      BY <1>4, <1>5 DEF Laid
    <2>2. 1 - 1 = 0 /\ 2 - 1 = 1 /\ 0 + 4 = 4
      OBVIOUS
    <2> QED
      BY <1>2, <1>4, <2>1, <2>2
  <1> DEFINE c1 == Took(Start, 4, id)
             n == Took(c1, 4, Len(es))
             c2 == PopMany("names", d, Onto(c1.out, n), NameCount(es))
  <1>7. Fine(Start) /\ Start.pos = 0
    BY DEF Fine, Start, IsSeq
  <1>8. Pop("u32", d, Start) = c1 /\ Fine(c1) /\ c1.pos = 4 /\ c1.out = <<id>> /\ c1.ok = TRUE
    <2>1. Pop("u32", d, Start) = pop_u32(d, Start)
      BY DEF Pop, Start
    <2>2. pop_u32(d, Start) = c1
      BY <1>6, <1>7, PopU32
    <2>3. Fine(c1)
      BY <1>7, TookFine
    <2> QED
      BY <2>1, <2>2, <2>3 DEF Took, Start
  <1> HIDE DEF c1
  <1>20. PICK ea : NamesAt(es, ea)
    BY NamesLaid
  <1>9. /\ ea \in [0 .. Len(es) -> Nat] /\ ea[0] = 0
        /\ At(push_names(es), 0, push_u32(Len(es)))
        /\ \A i \in 1 .. Len(es) : /\ ea[i] = ea[i - 1] + Len(push_entry(es[i]))
                                   /\ At(push_names(es), 4 + ea[i - 1], push_entry(es[i]))
    BY <1>20 DEF NamesAt
  <1>10. Len(es) \in Nat /\ NameCount(es) \in 0 .. Len(es)
    BY NamesLaid
  <1>11. pop_u32(d, c1) = n /\ Fine(n) /\ n.pos = 8 /\ n.ok = TRUE /\ Last(n.out) = Len(es)
    <2>1. At(d, 4 + 0, push_u32(Len(es)))
      BY <1>2, <1>6, <1>9, <1>10, AtAt, U32Type
    <2>2. At(d, c1.pos, push_u32(Len(es)))
      BY <1>8, <2>1
    <2>3. pop_u32(d, c1) = n
      <3>1. Len(es) \in u32
        BY <1>10, Widths
      <3> QED
        BY <1>6, <1>8, <2>2, <3>1, PopU32
    <2>4. Fine(n) /\ Last(n.out) = Len(es)
      BY <1>8, TookFine
    <2>5. n.pos = 8 /\ n.ok = TRUE
      BY <1>8 DEF Took
    <2> QED
      BY <2>3, <2>4, <2>5
  <1> HIDE DEF n
  <1>12. Pop("names", d, c1) = c2
    <2>1. Len(d) - n.pos = Len(push_names(es)) - 4
      <3>1. Len(push_names(es)) \in Nat
        BY <1>2
      <3> QED
        BY <1>6, <1>11, <3>1
    <2>2. Pop("names", d, c1) = pop_items("names", d, c1)
      BY <1>8 DEF Pop
    <2> QED
      BY <1>11, <2>1, <2>2 DEF pop_items, NameCount
  <1>13. c2.ok = TRUE /\ c2.out = Append(<<id>>, FirstOf(es, NameCount(es)))
    <2> DEFINE c == Onto(c1.out, n)
    <2>1. Fine(c) /\ c.pos = 8 /\ c.out = <<id>>
      BY <1>8, <1>11 DEF Fine, Onto
    <2> HIDE DEF c
    <2>2. ASSUME NEW i \in 1 .. Len(es)
          PROVE  At(d, c.pos + ea[i - 1], push_entry(es[i]))
      <3>1. /\ ea[i - 1] \in Nat /\ At(push_names(es), 4 + ea[i - 1], push_entry(es[i]))
            /\ es[i] \in Entries
        <4>1. i - 1 \in 0 .. Len(es)
          BY <1>10
        <4>2. es[i] \in Entries
          BY ElementOfSeq
        <4> QED
          BY <1>9, <4>1, <4>2
      <3>2. push_entry(es[i]) \in Seq(Nat) /\ 4 + ea[i - 1] \in Nat
        <4>1. 4 + ea[i - 1] \in Nat
          BY <3>1
        <4> QED
          BY <3>1, <4>1, PopEntry
      <3>3. At(d, 4 + (4 + ea[i - 1]), push_entry(es[i]))
        BY <1>2, <1>6, <3>1, <3>2, AtAt
      <3>4. \A x \in Nat : 4 + (4 + x) = 8 + x
        OBVIOUS
      <3> QED
        BY <2>1, <3>1, <3>3, <3>4
    <2>3. /\ PopMany("names", d, c, NameCount(es)).ok = TRUE
          /\ PopMany("names", d, c, NameCount(es)).out = Append(c.out, FirstOf(es, NameCount(es)))
      <3>1. \A i \in 1 .. Len(es) : /\ ea[i] = ea[i - 1] + Len(push_entry(es[i]))
                                    /\ At(d, c.pos + ea[i - 1], push_entry(es[i]))
        BY <1>9, <2>2
      <3>2. ea \in [0 .. Len(es) -> Nat] /\ ea[0] = 0
        BY <1>9
      <3>3. EntriesAt(d, c.pos, es, ea)
        BY <3>1, <3>2 DEF EntriesAt
      <3>4. Fine(c)
        BY <2>1
      <3>5. ASSUME NEW k \in 0 .. Len(es)
            PROVE  PopMany("names", d, c, k).ok = TRUE /\ PopMany("names", d, c, k).out = Append(c.out, FirstOf(es, k))
        BY <1>6, <3>3, <3>4, PopEntries
      <3> QED
        BY <1>10, <3>5
    <2> QED
      BY <2>1, <2>3 DEF c
  <1> HIDE DEF c2
  <1> DEFINE w == [i \in 0 .. 2 |-> IF i = 0 THEN Start ELSE IF i = 1 THEN c1 ELSE c2]
             F == CHOOSE g : g = [i \in 0 .. Len(DecodeLayout["name"]) |->
                     IF i = 0 THEN Start ELSE Pop(DecodeLayout["name"][i], d, g[i - 1])]
  <1>14. Len(DecodeLayout["name"]) = 2 /\ DecodeLayout["name"][1] = "u32" /\ DecodeLayout["name"][2] = "names"
    BY <1>1
  <1>15. w = [i \in 0 .. Len(DecodeLayout["name"]) |->
                IF i = 0 THEN Start ELSE Pop(DecodeLayout["name"][i], d, w[i - 1])]
    <2>1. ASSUME NEW i \in 0 .. 2
          PROVE  w[i] = IF i = 0 THEN Start ELSE Pop(DecodeLayout["name"][i], d, w[i - 1])
      <3>1. i = 0 \/ i = 1 \/ i = 2
        OBVIOUS
      <3> QED
        BY <1>8, <1>12, <1>14, <3>1
    <2>2. w = [i \in 0 .. 2 |-> w[i]]
      OBVIOUS
    <2> HIDE DEF w
    <2> QED
      BY <1>14, <2>1, <2>2
  <1> HIDE DEF w
  <1>16. F = [i \in 0 .. Len(DecodeLayout["name"]) |->
                IF i = 0 THEN Start ELSE Pop(DecodeLayout["name"][i], d, F[i - 1])]
    BY <1>15
  <1>17. Decode("name", d) = F[Len(DecodeLayout["name"])]
    BY DEF Decode
  <1> HIDE DEF F
  <1>18. F[2] = c2
    <2>1. F[0] = Start
      BY <1>14, <1>16
    <2>2. F[1] = Pop("u32", d, F[0])
      BY <1>14, <1>16
    <2>3. F[2] = Pop("names", d, F[1])
      BY <1>14, <1>16
    <2> QED
      BY <1>8, <1>12, <2>1, <2>2, <2>3
  <1>19. Append(<<id>>, FirstOf(es, NameCount(es))) = <<id, FirstOf(es, NameCount(es))>>
    <2> DEFINE z == FirstOf(es, NameCount(es))
               g == <<id, z>>
    <2>1. g[1] = id /\ g[2] = z /\ FirstOf(g, 2) = g /\ FirstOf(g, 1) = <<id>>
      BY DEF FirstOf
    <2> HIDE DEF z, g
    <2>2. 2 \in Nat \ {0} /\ 2 - 1 = 1
      OBVIOUS
    <2>3. Append(FirstOf(g, 1), g[2]) = FirstOf(g, 2)
      BY <2>2, FrontAppend
    <2>4. Append(<<id>>, z) = g
      BY <2>1, <2>3
    <2> QED
      BY <2>4 DEF z, g
  <1> QED
    BY <1>6, <1>13, <1>14, <1>17, <1>18, <1>19 DEF d
-----------------------------------------------------------------------------
(* Frames.                                                                 *)

Packet(type, payload) == <<type>> \o payload

LEMMA FrameShape ==
    ASSUME NEW type \in Nat, NEW payload \in Seq(Nat)
    PROVE  LET b == frame(type, payload)
               p == Packet(type, payload)
           IN  /\ b \in Seq(Nat) /\ p \in Seq(Nat) /\ Len(p) = 1 + Len(payload) /\ Len(b) = 4 + Len(p)
               /\ At(b, 0, push_u32(Len(p))) /\ At(b, 4, p) /\ SubSeq(b, 5, Len(b)) = p
               /\ p[1] = type /\ Tail(p) = payload
  <1> DEFINE p == Packet(type, payload)
             n == push_u32(1 + Len(payload))
             b == frame(type, payload)
  <1>1. /\ p \in Seq(Nat) /\ Len(p) = 1 + Len(payload) /\ p[1] = type /\ Len(payload) \in Nat
        /\ <<type>> \in Seq(Nat) /\ 1 + Len(payload) \in Nat
    BY DEF Packet
  <1>2. Tail(p) = payload
    <2>1. Tail(p) \in Seq(Nat) /\ Len(Tail(p)) = Len(payload)
      BY <1>1
    <2>2. \A i \in 1 .. Len(payload) : Tail(p)[i] = payload[i]
      BY DEF Packet
    <2> QED
      BY <2>1, <2>2, SeqEqual
  <1>3. n \in Seq(Nat) /\ Len(n) = 4
    BY <1>1, U32Type
  <1> HIDE DEF n
  <1>4. b = n \o p
    <2>1. b = (n \o <<type>>) \o payload
      BY DEF frame, n
    <2> QED
      BY <1>1, <1>3, <2>1, ConcatAssociative DEF Packet
  <1> HIDE DEF p, b
  <1>5. b \in Seq(Nat) /\ Len(b) = Len(n) + Len(p) /\ \A i \in 1 .. Len(n) : b[i] = n[i]
    BY <1>1, <1>3, <1>4, CatBytes
  <1>6. At(b, 4, p)
    BY <1>1, <1>3, <1>4, AtEnd
  <1>7. At(b, 0, n)
    BY <1>1, <1>3, <1>5 DEF At
  <1>8. SubSeq(b, 5, Len(b)) = p
    <2>1. SubSeq(b, 4 + 1, 4 + Len(p)) = p
      BY <1>1, <1>5, <1>6, AtSub
    <2> QED
      BY <1>3, <1>5, <2>1
  <1> QED
    BY <1>1, <1>2, <1>3, <1>5, <1>6, <1>7, <1>8 DEF p, n, b

Ops == DOMAIN FXP

LEMMA TypeBytes ==
    /\ \A op \in Ops : FXP[op] \in Nat
    /\ \A a, b \in Ops : FXP[a] = FXP[b] => a = b
    /\ SimpleOps \subseteq Ops /\ Requests \subseteq Ops /\ Replies \subseteq Ops
  <1>1. Ops = {"init", "version", "open", "close", "read", "write", "lstat", "fstat", "setstat",
               "fsetstat", "opendir", "readdir", "remove", "mkdir", "rmdir", "realpath", "stat",
               "rename", "readlink", "symlink", "status", "handle", "data", "name", "attrs"}
    BY DEF Ops, FXP
  <1>2. \A op \in Ops : FXP[op] \in Nat
    BY <1>1 DEF FXP
  <1>3. \A a, b \in Ops : FXP[a] = FXP[b] => a = b
    BY <1>1 DEF FXP
  <1>4. SimpleOps \subseteq Ops /\ Requests \subseteq Ops /\ Replies \subseteq Ops
    BY <1>1 DEF SimpleOps, Requests, Replies, DecodeLayout
  <1> QED
    BY <1>2, <1>3, <1>4

LEMMA ParsedPacket ==
    ASSUME NEW ops \in SUBSET Ops, NEW op \in ops, NEW payload \in Seq(Nat)
    PROVE  Parsed(Packet(FXP[op], payload), ops)
             = [op |-> op, ok |-> Decode(op, payload).ok, out |-> Decode(op, payload).out]
  <1>1. Packet(FXP[op], payload)[1] = FXP[op] /\ Tail(Packet(FXP[op], payload)) = payload
    BY TypeBytes, FrameShape
  <1>2. OpOfType(FXP[op], ops) = op
    BY TypeBytes DEF OpOfType
  <1>3. op # "unknown"
    BY DEF Ops, FXP
  <1> QED
    BY <1>1, <1>2, <1>3 DEF Parsed

(* A simple packet is what its decoder makes it.                           *)
LEMMA ParsedSimple ==
    ASSUME NEW ops \in SUBSET Ops, NEW op \in SimpleOps \cap ops, NEW f, Fields(op, f),
           \A i \in 1 .. Len(f) : Short(EncodeLayout[op][i], f[i])
    PROVE  Parsed(Packet(FXP[op], Payload(op, f)), ops) = [op |-> op, ok |-> TRUE, out |-> f]
  <1>1. Payload(op, f) \in Seq(Nat)
    BY PayloadType
  <1>2. Decode(op, Payload(op, f)) = [ok |-> TRUE, pos |-> Len(Payload(op, f)), out |-> f]
    BY DecodePayload
  <1>3. Parsed(Packet(FXP[op], Payload(op, f)), ops)
          = [op |-> op, ok |-> Decode(op, Payload(op, f)).ok, out |-> Decode(op, Payload(op, f)).out]
    BY <1>1, ParsedPacket
  <1> QED
    BY <1>2, <1>3

LEMMA ShortPacket ==
    ASSUME NEW op \in SimpleOps, NEW f, Fields(op, f), Len(Payload(op, f)) <= MaxPacket
    PROVE  \A i \in 1 .. Len(f) : Short(EncodeLayout[op][i], f[i])
  <1> DEFINE layout == EncodeLayout[op]
             parts == [i \in DOMAIN layout |-> Push(layout[i], f[i])]
  <1>1. /\ parts \in Seq(Seq(Nat)) /\ Len(parts) = Len(f) /\ Payload(op, f) \in Seq(Nat)
        /\ \A i \in 1 .. Len(f) : layout[i] \in Simple /\ parts[i] = Push(layout[i], f[i])
    BY PayloadType
  <1>2. PICK at : Laid(Payload(op, f), parts, at)
    <2>1. Payload(op, f) = FlattenSeq(parts)
      BY DEF Payload
    <2> HIDE DEF parts
    <2> QED
      BY <1>1, <2>1, FlattenLaid
  <1> HIDE DEF parts
  <1> SUFFICES ASSUME NEW i \in 1 .. Len(f)
               PROVE  Short(layout[i], f[i])
    OBVIOUS
  <1>3. Len(parts[i]) <= Len(Payload(op, f)) /\ Len(parts[i]) \in Nat
    BY <1>1, <1>2, LaidPart
  <1>4. Len(Payload(op, f)) \in Nat /\ MaxPacket \in Nat
    BY <1>1, WidthAssumption
  <1>5. Len(Push(layout[i], f[i])) <= MaxPacket
    BY <1>1, <1>3, <1>4
  <1>6. f[i] \in Field(layout[i]) /\ layout[i] \in Simple
    BY <1>1 DEF Fields
  <1> QED
    BY <1>5, <1>6, PushType

(* Theorem, packet.rs: whatever a request or a reply without name entries  *)
(* holds, the bytes that encode_ writes for it come back from decode_ as   *)
(* the same operation with the same fields, as long as its numbers have    *)
(* the width the wire gives them and its strings keep to the size the      *)
(* decoder accepts.                                                        *)
THEOREM PacketsRoundTrip ==
    ASSUME NEW op \in SimpleOps, NEW f, Fields(op, f),
           \A i \in 1 .. Len(f) : Short(EncodeLayout[op][i], f[i])
    PROVE  LET b == Encode(op, f)
           IN  Parsed(SubSeq(b, 5, Len(b)), Requests \cup Replies) = [op |-> op, ok |-> TRUE, out |-> f]
  <1>1. Encode(op, f) = frame(FXP[op], Payload(op, f))
    BY DEF Encode, Payload
  <1>2. Payload(op, f) \in Seq(Nat) /\ FXP[op] \in Nat
    BY PayloadType, TypeBytes
  <1>3. SubSeq(Encode(op, f), 5, Len(Encode(op, f))) = Packet(FXP[op], Payload(op, f))
    BY <1>1, <1>2, FrameShape
  <1>4. op \in Requests \cup Replies /\ Requests \cup Replies \in SUBSET Ops
    <2>1. op \in Requests \cup Replies
      BY DEF SimpleOps, Requests, Replies, DecodeLayout
    <2> QED
      BY <2>1, TypeBytes
  <1>5. op \in SimpleOps \cap (Requests \cup Replies)
    BY <1>4
  <1>6. Parsed(Packet(FXP[op], Payload(op, f)), Requests \cup Replies) = [op |-> op, ok |-> TRUE, out |-> f]
    BY <1>4, <1>5, ParsedSimple
  <1> QED
    BY <1>3, <1>6
-----------------------------------------------------------------------------
(* What the caller is told.                                                *)

LEMMA InU32 ==
    /\ U32 \in Nat \ {0} /\ \A n \in 0 .. 26 : n \in u32 /\ n \in u64
    /\ \A n \in Nat : n % U32 \in u32 /\ (n < U32 => n % U32 = n)
  <1>1. U32 \in Nat \ {0} /\ 26 < U32
    BY WidthAssumption DEF MaxNames
  <1>2. \A n \in 0 .. 26 : n \in u32 /\ n \in u64
    BY <1>1, Widths DEF u32
  <1>3. ASSUME NEW n \in Nat PROVE n % U32 \in u32 /\ (n < U32 => n % U32 = n)
    BY <1>1, SMT DEF u32
  <1> QED
    BY <1>1, <1>2, <1>3

LEMMA ToPacket ==
    ASSUME NEW m \in Metadata
    PROVE  to_packet(m) \in Blocks /\ Carried(m, from_packet(to_packet(m)))
  <1> DEFINE flags == {AttrFields[i].flag : i \in {j \in DOMAIN AttrFields : m[AttrFields[j].name] # None}}
             sents == {AttrFields[i].name : i \in {j \in DOMAIN AttrFields : AttrFields[j].flag \in flags}}
             v == [n \in AttrNames |-> CASE n \notin sents -> None
                                         [] n \in sents \cap Times -> OrZero(m[n]) % U32
                                         [] n \in sents \ Times -> OrZero(m[n])]
             W(n) == IF n = "size" THEN u64 ELSE u32
  <1>1. to_packet(m) = [flags |-> flags, v |-> v]
    BY DEF to_packet
  <1>2. ASSUME NEW n \in AttrNames
        PROVE  /\ OrZero(m[n]) \in (IF n \in {"uid", "gid", "permissions"} THEN u32 ELSE u64)
               /\ OrZero(m[n]) \in Nat
    <2>1. m[n] = None \/ m[n] \in (IF n \in {"uid", "gid", "permissions"} THEN u32 ELSE u64)
      BY DEF Metadata
    <2>2. 0 \in u32 /\ 0 \in u64
      BY InU32
    <2> QED
      BY <2>1, <2>2, Widths DEF OrZero
  <1>3. flags \in SUBSET PlainFlags
    BY AttrFieldsAre
  <1>4. \A i \in 1 .. 6 : AttrFields[i].name \in sents <=> AttrFields[i].flag \in flags
    <2> HIDE DEF flags
    <2> QED
      BY AttrFieldsAre
  <1>5. \A n \in AttrNames : m[n] # None => n \in sents
    <2> SUFFICES ASSUME NEW n \in AttrNames, m[n] # None
                 PROVE  n \in sents
      OBVIOUS
    <2>1. PICK i \in 1 .. 6 : AttrFields[i].name = n
      BY AttrFieldsAre
    <2>2. AttrFields[i].flag \in flags
      BY <2>1, AttrFieldsAre
    <2> QED
      BY <1>4, <2>1, <2>2
  <1>6. ASSUME NEW p \in Together, \A n \in p : m[n] = None, NEW n \in p
        PROVE  n \notin sents /\ n \in AttrNames
    <2>0. n \in AttrNames
      BY AttrTable
    <2>1. PICK i \in 1 .. 6 : AttrFields[i].name = n
      BY <2>0, AttrFieldsAre
    <2>2. ASSUME AttrFields[i].flag \in flags PROVE FALSE
      <3>1. PICK j \in 1 .. 6 : m[AttrFields[j].name] # None /\ AttrFields[j].flag = AttrFields[i].flag
        BY <2>2, AttrFieldsAre
      <3>2. AttrFields[j].name \in p
        BY <2>1, <3>1, AttrTable
      <3> QED
        BY <1>6, <3>1, <3>2
    <2> QED
      BY <1>4, <2>0, <2>1, <2>2
  <1> HIDE DEF flags, sents
  <1>7. ASSUME NEW n \in AttrNames
        PROVE  /\ n \notin sents => v[n] = None
               /\ n \in sents => v[n] \in W(n) /\ v[n] # None
               /\ n \in sents /\ (n \in Times => OrZero(m[n]) < U32) => v[n] = OrZero(m[n])
    <2>1. /\ n \notin sents => v[n] = None
          /\ n \in sents /\ n \in Times => v[n] = OrZero(m[n]) % U32
          /\ n \in sents /\ n \notin Times => v[n] = OrZero(m[n])
      OBVIOUS
    <2>2. OrZero(m[n]) % U32 \in u32 /\ (OrZero(m[n]) < U32 => OrZero(m[n]) % U32 = OrZero(m[n]))
      BY <1>2, InU32
    <2>3. n \in sents => v[n] \in W(n)
      <3>1. n \in Times \/ n = "size" \/ n \in {"uid", "gid", "permissions"}
        BY AttrTable DEF Times
      <3>2. CASE n \in Times
        BY <2>1, <2>2, <3>2 DEF Times
      <3>3. CASE n = "size"
        BY <1>2, <2>1, <3>3 DEF Times
      <3>4. CASE n \in {"uid", "gid", "permissions"}
        BY <1>2, <2>1, <3>4 DEF Times
      <3> QED
        BY <3>1, <3>2, <3>3, <3>4
    <2>4. None \notin W(n)
      BY Widths DEF None
    <2> QED
      BY <2>1, <2>2, <2>3, <2>4
  <1>8. v = [n \in AttrNames |-> v[n]]
    OBVIOUS
  <1> HIDE DEF v
  <1>9. v \in Metadata
    <2>1. ASSUME NEW n \in AttrNames PROVE v[n] \in Int
      <3>1. v[n] = None \/ v[n] \in u64 \/ v[n] \in u32
        BY <1>7
      <3>2. None \in Int /\ u64 \subseteq Int /\ u32 \subseteq Int
        BY Widths DEF None
      <3> QED
        BY <3>1, <3>2
    <2>2. v \in [AttrNames -> Int]
      BY <1>8, <2>1
    <2>3. \A n \in AttrNames :
            v[n] = None \/ v[n] \in (IF n \in {"uid", "gid", "permissions"} THEN u32 ELSE u64)
      BY <1>7, Widths
    <2> QED
      BY <2>2, <2>3 DEF Metadata
  <1>10. ASSUME NEW i \in 1 .. 6
         PROVE  /\ v[AttrFields[i].name] # None <=> AttrFields[i].flag \in flags
                /\ v[AttrFields[i].name] \in OnWire(i) \cup {None}
    <2>1. AttrFields[i].name \in AttrNames
      BY AttrFieldsAre
    <2>2. OnWire(i) = W(AttrFields[i].name)
      BY AttrTable DEF OnWire
    <2> HIDE DEF W
    <2> QED
      BY <1>4, <1>7, <2>1, <2>2
  <1>11. to_packet(m) \in Blocks
    BY <1>1, <1>3, <1>9, <1>10 DEF Blocks
  <1>12. from_packet(to_packet(m)) = v
    BY <1>1 DEF from_packet
  <1>13. \A n \in AttrNames : m[n] # None /\ (n \in Times => m[n] < U32) => v[n] = m[n]
    BY <1>5, <1>7 DEF OrZero
  <1>14. \A p \in Together : (\A n \in p : m[n] = None) => \A n \in p : v[n] = None
    BY <1>6, <1>7
  <1> QED
    BY <1>11, <1>12, <1>13, <1>14 DEF Carried

StatusOps == {"close", "write", "remove", "rename", "mkdir", "rmdir", "setstat", "fsetstat", "symlink"}

(* The answers a handler may give to op.                                   *)
Fit(op, ans) ==
    \/ ans.is = "err" /\ ans.v \in ErrorKinds /\ op \in SimpleOps \ Replies
    \/ ans.is = "ok" /\ ans.v = <<>> /\ op \in StatusOps
    \/ ans.is = "handle" /\ ans.v \in Texts /\ op \in {"open", "opendir"}
    \/ ans.is = "attrs" /\ ans.v \in Metadata /\ op \in {"stat", "lstat", "fstat"}
    \/ ans.is = "data" /\ ans.v \in Seq(Nat) /\ Len(ans.v) <= MaxPacket /\ op = "read"
    \/ /\ ans.is = "names" /\ ans.v \in Seq(DirEntries) /\ Len(ans.v) <= MaxNames
       /\ op \in {"readdir", "realpath", "readlink"}

(* A simple reply as the client parses it.                                 *)
LEMMA ReceivedSimple ==
    ASSUME NEW r, NEW kind \in {"status", "handle", "data", "attrs"}, NEW f, Fields(kind, f),
           \A i \in 1 .. Len(f) : Short(EncodeLayout[kind][i], f[i]), ReplyBytes(r) = Encode(kind, f)
    PROVE  Received(r) = [op |-> kind, ok |-> TRUE, out |-> f]
  <1>0. kind \in SimpleOps /\ kind \in SimpleOps \cap Replies
    BY DEF SimpleOps, Replies
  <1>1. Encode(kind, f) = frame(FXP[kind], Payload(kind, f))
    BY DEF Encode, Payload
  <1>2. Payload(kind, f) \in Seq(Nat) /\ FXP[kind] \in Nat
    BY <1>0, PayloadType, TypeBytes
  <1>3. SubSeq(Encode(kind, f), 5, Len(Encode(kind, f))) = Packet(FXP[kind], Payload(kind, f))
    BY <1>1, <1>2, FrameShape
  <1>4. Parsed(Packet(FXP[kind], Payload(kind, f)), Replies) = [op |-> kind, ok |-> TRUE, out |-> f]
    BY <1>0, TypeBytes, ParsedSimple
  <1> QED
    BY <1>3, <1>4 DEF Received

LEMMA FieldSets ==
    /\ Field("u32") = u32 /\ Field("u64") = u64 /\ Field("attrs") = Blocks
    /\ Field("string") = {s \in Seq(Nat) : IsUtf8(s)} /\ Field("bytes") = Seq(Nat)
    /\ \A v : Short("u32", v) /\ Short("u64", v) /\ Short("attrs", v)
    /\ \A v : (Len(v) <= MaxPacket) => Short("string", v) /\ Short("bytes", v)
  BY DEF Field, Short

LEMMA TupleSeq ==
    /\ \A a, b : IsSeq(<<a, b>>) /\ Len(<<a, b>>) = 2 /\ <<a, b>>[1] = a /\ <<a, b>>[2] = b
    /\ \A a, b, c, d : /\ IsSeq(<<a, b, c, d>>) /\ Len(<<a, b, c, d>>) = 4
                       /\ <<a, b, c, d>>[1] = a /\ <<a, b, c, d>>[2] = b
                       /\ <<a, b, c, d>>[3] = c /\ <<a, b, c, d>>[4] = d
  <1>1. ASSUME NEW a, NEW b PROVE <<a, b>> \in Seq({a, b}) /\ Len(<<a, b>>) = 2
    OBVIOUS
  <1>2. ASSUME NEW a, NEW b, NEW c, NEW d
        PROVE  <<a, b, c, d>> \in Seq({a, b, c, d}) /\ Len(<<a, b, c, d>>) = 4
    OBVIOUS
  <1> QED
    BY <1>1, <1>2 DEF IsSeq

LEMMA ReceivedStatus ==
    ASSUME NEW r, NEW id \in u32, NEW code \in u32, ReplyBytes(r) = status(id, code)
    PROVE  Received(r) = [op |-> "status", ok |-> TRUE, out |-> <<id, code, <<1>>, <<2>>>>]
  <1> DEFINE f == <<id, code, <<1>>, <<2>>>>
  <1>1. EncodeLayout["status"] = <<"u32", "u32", "string", "string">>
    BY DEF EncodeLayout
  <1>2. \A x \in {1, 2} : <<x>> \in Seq(Nat) /\ Len(<<x>>) = 1 /\ IsUtf8(<<x>>)
    BY DEF IsUtf8
  <1>3. Fields("status", f) /\ \A i \in 1 .. Len(f) : Short(EncodeLayout["status"][i], f[i])
    <2>1. /\ f[1] = id /\ f[2] = code /\ f[3] = <<1>> /\ f[4] = <<2>> /\ Len(f) = 4 /\ IsSeq(f)
          /\ EncodeLayout["status"][1] = "u32" /\ EncodeLayout["status"][2] = "u32"
          /\ EncodeLayout["status"][3] = "string" /\ EncodeLayout["status"][4] = "string"
          /\ Len(EncodeLayout["status"]) = 4
      BY <1>1, TupleSeq
    <2>2. 1 <= MaxPacket
      BY WidthAssumption
    <2>3. /\ Short("string", f[3]) /\ Short("string", f[4]) /\ Short("u32", f[1]) /\ Short("u32", f[2])
          /\ f[3] \in Field("string") /\ f[4] \in Field("string") /\ f[1] \in Field("u32") /\ f[2] \in Field("u32")
      BY <1>2, <2>1, <2>2, FieldSets
    <2>4. \A i \in 1 .. 4 : i = 1 \/ i = 2 \/ i = 3 \/ i = 4
      OBVIOUS
    <2> HIDE DEF f
    <2> QED
      BY <2>1, <2>3, <2>4 DEF Fields
  <1>4. ReplyBytes(r) = Encode("status", f)
    BY DEF status
  <1> HIDE DEF f
  <1>5. Received(r) = [op |-> "status", ok |-> TRUE, out |-> f]
    BY <1>3, <1>4, ReceivedSimple
  <1> QED
    BY <1>5 DEF f

LEMMA ReceivedPair ==
    ASSUME NEW r, NEW id \in u32, NEW kind \in {"handle", "data", "attrs"}, NEW v,
           v \in Field(EncodeLayout[kind][2]), Short(EncodeLayout[kind][2], v),
           ReplyBytes(r) = Encode(kind, <<id, v>>)
    PROVE  Received(r) = [op |-> kind, ok |-> TRUE, out |-> <<id, v>>]
  <1> DEFINE f == <<id, v>>
  <1>1. EncodeLayout[kind][1] = "u32" /\ Len(EncodeLayout[kind]) = 2
    BY DEF EncodeLayout
  <1>2. f[1] = id /\ f[2] = v /\ Len(f) = 2 /\ IsSeq(f)
    BY TupleSeq
  <1>3. ReplyBytes(r) = Encode(kind, f)
    OBVIOUS
  <1> HIDE DEF f
  <1>4. Fields(kind, f) /\ \A i \in 1 .. Len(f) : Short(EncodeLayout[kind][i], f[i])
    <2>1. \A i \in 1 .. 2 : i = 1 \/ i = 2
      OBVIOUS
    <2> QED
      BY <1>1, <1>2, <2>1, FieldSets DEF Fields
  <1>5. Received(r) = [op |-> kind, ok |-> TRUE, out |-> f]
    BY <1>3, <1>4, ReceivedSimple
  <1> QED
    BY <1>5 DEF f
Named(v) == [i \in DOMAIN v |-> to_name_entry(v[i])]

LEMMA NamedEntries ==
    ASSUME NEW v \in Seq(DirEntries)
    PROVE  /\ Named(v) \in Seq(Entries) /\ Len(Named(v)) = Len(v) /\ Len(v) \in Nat
           /\ \A i \in 1 .. Len(v) : Named(v)[i] = to_name_entry(v[i]) /\ Named(v)[i].filename = v[i].filename
  <1>1. ASSUME NEW i \in 1 .. Len(v)
        PROVE  to_name_entry(v[i]) \in Entries /\ to_name_entry(v[i]).filename = v[i].filename
    <2>1. PICK e \in DirEntries : e = v[i]
      BY ElementOfSeq
    <2>2. e.filename \in Texts /\ e.longname \in Texts /\ e.metadata \in Metadata
      BY DEF DirEntries
    <2>3. to_packet(e.metadata) \in Blocks
      BY <2>2, ToPacket
    <2> QED
      BY <2>1, <2>2, <2>3 DEF to_name_entry, Entries
  <1> QED
    BY <1>1 DEF Named

LEMMA ReceivedNames ==
    ASSUME NEW r, NEW id \in u32, NEW v \in Seq(DirEntries), Len(v) <= MaxNames, ReplyBytes(r) = Encode("name", <<id, Named(v)>>)
    PROVE  Received(r) = [op |-> "name", ok |-> TRUE, out |-> <<id, FirstOf(Named(v), NameCount(Named(v)))>>]
  <1> DEFINE f == <<id, Named(v)>>
             d == Decode("name", Payload("name", f))
  <1>1. Named(v) \in Seq(Entries) /\ Len(Named(v)) <= MaxNames
    BY NamedEntries
  <1>2. Payload("name", f) \in Seq(Nat) /\ d.ok = TRUE /\ d.out = <<id, FirstOf(Named(v), NameCount(Named(v)))>>
    BY <1>1, DecodeName
  <1>3. ReplyBytes(r) = frame(FXP["name"], Payload("name", f))
    BY DEF Encode, Payload
  <1>4. "name" \in Replies /\ Replies \in SUBSET Ops /\ FXP["name"] \in Nat
    <2>1. "name" \in Replies
      BY DEF Replies
    <2> QED
      BY <2>1, TypeBytes
  <1> HIDE DEF f
  <1>5. SubSeq(ReplyBytes(r), 5, Len(ReplyBytes(r))) = Packet(FXP["name"], Payload("name", f))
    <2> DEFINE b == frame(FXP["name"], Payload("name", f))
    <2>1. SubSeq(b, 5, Len(b)) = Packet(FXP["name"], Payload("name", f))
      BY <1>2, <1>4, FrameShape
    <2> QED
      BY <1>3, <2>1
  <1>6. Parsed(Packet(FXP["name"], Payload("name", f)), Replies) = [op |-> "name", ok |-> d.ok, out |-> d.out]
    BY <1>2, <1>4, ParsedPacket
  <1> QED
    BY <1>2, <1>5, <1>6 DEF Received

(* The entries of a reply to readdir, as the caller gets them.             *)
Listed(v) == [i \in 1 .. NameCount(Named(v)) |-> entry_from_packet(Named(v)[i])]

LEMMA ListedEntries ==
    ASSUME NEW v \in Seq(DirEntries), Len(v) <= MaxNames
    PROVE  /\ Listed(v) \in Seq(DirEntries) /\ NameCount(Named(v)) \in 0 .. Len(v)
           /\ Len(Listed(v)) = NameCount(Named(v))
           /\ Wide(v) => Filenames(Listed(v)) = Filenames(v) /\ NameCount(Named(v)) = Len(v)
  <1> DEFINE es == Named(v)
             k == NameCount(es)
  <1>1. /\ es \in Seq(Entries) /\ Len(es) = Len(v) /\ Len(v) \in Nat
        /\ \A i \in 1 .. Len(v) : es[i] = to_name_entry(v[i]) /\ es[i].filename = v[i].filename
    BY NamedEntries
  <1> HIDE DEF es
  <1>2. k \in 0 .. Len(v) /\ (Len(es) <= MaxNames /\ (\A i \in 1 .. Len(es) : Len(push_entry(es[i])) >= 16) => k = Len(es))
    BY <1>1, NamesLaid
  <1> HIDE DEF k
  <1>3. ASSUME NEW i \in 1 .. k
        PROVE  entry_from_packet(es[i]) \in DirEntries /\ entry_from_packet(es[i]).filename = v[i].filename
    <2>1. i \in 1 .. Len(es) /\ i \in 1 .. Len(v)
      BY <1>1, <1>2
    <2>2. PICK e \in Entries : e = es[i]
      BY <1>1, <2>1, ElementOfSeq
    <2>3. e.filename \in Texts /\ e.longname \in Texts /\ e.attrs \in Blocks
      BY DEF Entries
    <2>4. e.attrs.v \in Metadata
      BY <2>3 DEF Blocks, Metadata
    <2>5. entry_from_packet(e) \in DirEntries /\ entry_from_packet(e).filename = e.filename
      BY <2>3, <2>4 DEF entry_from_packet, from_packet, DirEntries
    <2> QED
      BY <1>1, <2>1, <2>2, <2>5
  <1>4. Listed(v) = [i \in 1 .. k |-> entry_from_packet(es[i])] /\ k \in Nat
    BY <1>1, <1>2 DEF Listed, es, k
  <1>5. Listed(v) \in Seq(DirEntries) /\ Len(Listed(v)) = k
    BY <1>3, <1>4
  <1>6. ASSUME Wide(v)
        PROVE  Filenames(Listed(v)) = Filenames(v) /\ k = Len(v)
    <2>1. \A i \in 1 .. Len(es) : Len(push_entry(es[i])) >= 16
      BY <1>1, <1>6 DEF Wide
    <2>2. k = Len(v)
      BY <1>1, <1>2, <2>1
    <2>3. DOMAIN Listed(v) = 1 .. Len(v) /\ DOMAIN v = 1 .. Len(v)
      BY <1>4, <2>2
    <2>4. \A i \in 1 .. Len(v) : Listed(v)[i].filename = v[i].filename
      BY <1>3, <1>4, <2>2
    <2> QED
      BY <2>2, <2>3, <2>4 DEF Filenames
  <1> QED
    BY <1>2, <1>5, <1>6 DEF es, k
LEMMA StatusCodes ==
    ASSUME NEW k \in ErrorKinds
    PROVE  LET code == sftp_status_from_error(k)
           IN  /\ code \in 0 .. 26 /\ code # SSH_FX.OK /\ code # SSH_FX.EOF
               /\ sftp_error_kind_for_code(code) = IF k \in Coded THEN k ELSE "RemoteStatus"
  BY DEF ErrorKinds, sftp_status_from_error, sftp_error_kind_for_code, SSH_FX, Coded

(* A reply as the client sees it: its id, and what the caller is told.     *)
Read(r) == Result(r.op, Received(r))

LEMMA ToldErr ==
    ASSUME NEW r, r.id \in u32, Fit(r.op, r.ans), r.ans.is = "err"
    PROVE  /\ Received(r).ok = TRUE /\ Received(r).out[1] = r.id
           /\ Read(r) = Err(IF r.ans.v \in Coded THEN r.ans.v ELSE "RemoteStatus")
  <1>1. r.ans.v \in ErrorKinds /\ r.op \in SimpleOps \ Replies
    BY DEF Fit
  <1> DEFINE code == sftp_status_from_error(r.ans.v)
  <1>2. /\ code \in 0 .. 26 /\ code # SSH_FX.OK /\ code # SSH_FX.EOF
        /\ sftp_error_kind_for_code(code) = IF r.ans.v \in Coded THEN r.ans.v ELSE "RemoteStatus"
    BY <1>1, StatusCodes
  <1>3. ReplyBytes(r) = status(r.id, code)
    BY DEF ReplyBytes, Response
  <1> HIDE DEF code
  <1>4. Received(r) = [op |-> "status", ok |-> TRUE, out |-> <<r.id, code, <<1>>, <<2>>>>]
    <2>1. code \in u32
      BY <1>2, InU32
    <2> QED
      BY <1>3, <2>1, ReceivedStatus
  <1>5. /\ Received(r).ok = TRUE /\ Received(r).op = "status"
        /\ Received(r).out[1] = r.id /\ Received(r).out[2] = code
    BY <1>4, TupleSeq
  <1>6. Read(r) = Err(sftp_error_kind_for_code(code))
    BY <1>1, <1>2, <1>5 DEF Read, Result
  <1> QED
    BY <1>2, <1>5, <1>6

LEMMA ToldOk ==
    ASSUME NEW r, r.id \in u32, Fit(r.op, r.ans), r.ans.is \in {"ok", "handle", "data"}
    PROVE  /\ Received(r).ok = TRUE /\ Received(r).out[1] = r.id
           /\ Read(r) = Ok(r.ans.v)
  <1>1. CASE r.ans.is = "ok"
    <2>1. r.ans.v = <<>> /\ r.op \in StatusOps
      BY <1>1 DEF Fit
    <2>2. ReplyBytes(r) = status(r.id, SSH_FX.OK) /\ SSH_FX.OK \in u32
      BY <1>1, InU32 DEF ReplyBytes, Response, SSH_FX
    <2>3. Received(r) = [op |-> "status", ok |-> TRUE, out |-> <<r.id, SSH_FX.OK, <<1>>, <<2>>>>]
      BY <2>2, ReceivedStatus
    <2>4. /\ Received(r).ok = TRUE /\ Received(r).op = "status"
          /\ Received(r).out[1] = r.id /\ Received(r).out[2] = SSH_FX.OK
      BY <2>3, TupleSeq
    <2>5. Read(r) = Ok(<<>>)
      BY <2>1, <2>4 DEF Read, Result, StatusOps
    <2> QED
      BY <2>1, <2>4, <2>5
  <1>2. CASE r.ans.is = "handle"
    <2>1. r.ans.v \in Seq(Nat) /\ IsUtf8(r.ans.v) /\ Len(r.ans.v) <= MaxPacket /\ r.op \in {"open", "opendir"}
      BY <1>2 DEF Fit, Texts
    <2>2. ReplyBytes(r) = Encode("handle", <<r.id, r.ans.v>>) /\ EncodeLayout["handle"][2] = "string"
      BY <1>2 DEF ReplyBytes, Response, EncodeLayout
    <2>3. Received(r) = [op |-> "handle", ok |-> TRUE, out |-> <<r.id, r.ans.v>>]
      BY <2>1, <2>2, FieldSets, ReceivedPair
    <2>4. /\ Received(r).ok = TRUE /\ Received(r).op = "handle"
          /\ Received(r).out[1] = r.id /\ Received(r).out[2] = r.ans.v
      BY <2>3, TupleSeq
    <2> QED
      BY <2>1, <2>4 DEF Read, Result
  <1>3. CASE r.ans.is = "data" /\ r.ans.v = <<>>
    <2>1. r.op = "read"
      BY <1>3 DEF Fit
    <2>2. ReplyBytes(r) = status(r.id, SSH_FX.EOF) /\ SSH_FX.EOF \in u32
      BY <1>3, InU32 DEF ReplyBytes, Response, SSH_FX
    <2>3. Received(r) = [op |-> "status", ok |-> TRUE, out |-> <<r.id, SSH_FX.EOF, <<1>>, <<2>>>>]
      BY <2>2, ReceivedStatus
    <2>4. /\ Received(r).ok = TRUE /\ Received(r).op = "status"
          /\ Received(r).out[1] = r.id /\ Received(r).out[2] = SSH_FX.EOF
      BY <2>3, TupleSeq
    <2> QED
      BY <1>3, <2>1, <2>4 DEF Read, Result
  <1>4. CASE r.ans.is = "data" /\ r.ans.v # <<>>
    <2>1. r.ans.v \in Seq(Nat) /\ Len(r.ans.v) <= MaxPacket /\ r.op = "read"
      BY <1>4 DEF Fit
    <2>2. ReplyBytes(r) = Encode("data", <<r.id, r.ans.v>>) /\ EncodeLayout["data"][2] = "bytes"
      BY <1>4 DEF ReplyBytes, Response, EncodeLayout
    <2>3. Received(r) = [op |-> "data", ok |-> TRUE, out |-> <<r.id, r.ans.v>>]
      BY <2>1, <2>2, FieldSets, ReceivedPair
    <2>4. /\ Received(r).ok = TRUE /\ Received(r).op = "data"
          /\ Received(r).out[1] = r.id /\ Received(r).out[2] = r.ans.v
      BY <2>3, TupleSeq
    <2> QED
      BY <2>1, <2>4 DEF Read, Result
  <1> QED
    BY <1>1, <1>2, <1>3, <1>4

LEMMA ToldAttrs ==
    ASSUME NEW r, r.id \in u32, Fit(r.op, r.ans), r.ans.is = "attrs"
    PROVE  /\ Received(r).ok = TRUE /\ Received(r).out[1] = r.id
           /\ Read(r) = Ok(from_packet(to_packet(r.ans.v)))
  <1>1. r.ans.v \in Metadata /\ r.op \in {"stat", "lstat", "fstat"}
    BY DEF Fit
  <1>2. ReplyBytes(r) = Encode("attrs", <<r.id, to_packet(r.ans.v)>>) /\ EncodeLayout["attrs"][2] = "attrs"
    BY DEF ReplyBytes, Response, EncodeLayout
  <1>3. to_packet(r.ans.v) \in Blocks
    BY <1>1, ToPacket
  <1>4. Received(r) = [op |-> "attrs", ok |-> TRUE, out |-> <<r.id, to_packet(r.ans.v)>>]
    BY <1>2, <1>3, FieldSets, ReceivedPair
  <1>5. /\ Received(r).ok = TRUE /\ Received(r).op = "attrs"
        /\ Received(r).out[1] = r.id /\ Received(r).out[2] = to_packet(r.ans.v)
    BY <1>4, TupleSeq
  <1> QED
    BY <1>1, <1>5 DEF Read, Result

LEMMA ToldNames ==
    ASSUME NEW r, r.id \in u32, Fit(r.op, r.ans), r.ans.is = "names"
    PROVE  /\ Received(r).ok = TRUE /\ Received(r).out[1] = r.id
           /\ r.op = "readdir" => Read(r) = Ok(IF r.ans.v = <<>> THEN <<>> ELSE Listed(r.ans.v))
           /\ r.op # "readdir" => Read(r) = IF NameCount(Named(r.ans.v)) = 0 THEN Err("Protocol")
                                            ELSE Ok(r.ans.v[1].filename)
  <1>1. /\ r.ans.v \in Seq(DirEntries) /\ Len(r.ans.v) <= MaxNames
        /\ r.op \in {"readdir", "realpath", "readlink"}
    BY DEF Fit
  <1>2. CASE r.op = "readdir" /\ r.ans.v = <<>>
    <2>2. ReplyBytes(r) = status(r.id, SSH_FX.EOF) /\ SSH_FX.EOF \in u32
      BY <1>2, InU32 DEF ReplyBytes, Response, SSH_FX
    <2>3. Received(r) = [op |-> "status", ok |-> TRUE, out |-> <<r.id, SSH_FX.EOF, <<1>>, <<2>>>>]
      BY <2>2, ReceivedStatus
    <2>4. /\ Received(r).ok = TRUE /\ Received(r).op = "status"
          /\ Received(r).out[1] = r.id /\ Received(r).out[2] = SSH_FX.EOF
      BY <2>3, TupleSeq
    <2>5. Read(r) = Ok(<<>>)
      BY <1>2, <2>4 DEF Read, Result
    <2> QED
      BY <1>2, <2>4, <2>5
  <1>3. CASE r.op # "readdir" \/ r.ans.v # <<>>
    <2> DEFINE es == Named(r.ans.v)
               k == NameCount(es)
               x == FirstOf(es, k)
    <2>1. ReplyBytes(r) = Encode("name", <<r.id, es>>)
      BY <1>3 DEF ReplyBytes, Response, Named
    <2>2. Received(r) = [op |-> "name", ok |-> TRUE, out |-> <<r.id, x>>]
      BY <1>1, <2>1, ReceivedNames
    <2>3. k \in 0 .. Len(r.ans.v) /\ Len(r.ans.v) \in Nat
      BY <1>1, ListedEntries
    <2>4. DOMAIN x = 1 .. k /\ \A i \in 1 .. k : x[i] = es[i]
      BY DEF FirstOf
    <2>5. k # 0 => 1 \in 1 .. k /\ x[1].filename = r.ans.v[1].filename
      BY <1>1, <2>3, <2>4, NamedEntries
    <2>6. x = <<>> <=> k = 0
      <3>1. k = 0 => x = <<>>
        BY DEF FirstOf
      <3>2. x = <<>> => k = 0
        BY <2>3, <2>4
      <3> QED
        BY <3>1, <3>2
    <2>7. [i \in DOMAIN x |-> entry_from_packet(x[i])] = Listed(r.ans.v)
      <3> HIDE DEF x, es
      <3> QED
        BY <2>4 DEF Listed, es
    <2> HIDE DEF x, k
    <2>8. /\ Received(r).ok = TRUE /\ Received(r).op = "name"
          /\ Received(r).out[1] = r.id /\ Received(r).out[2] = x
      BY <2>2, TupleSeq
    <2>9. CASE r.op = "readdir"
      <3>1. Read(r) = Ok([i \in DOMAIN x |-> entry_from_packet(x[i])])
        BY <2>8, <2>9 DEF Read, Result
      <3> QED
        BY <1>3, <2>7, <2>8, <2>9, <3>1
    <2>10. CASE r.op \in {"realpath", "readlink"}
      <3>1. Read(r) = IF x = <<>> THEN Err("Protocol") ELSE Ok(x[1].filename)
        BY <2>8, <2>10 DEF Read, Result
      <3> QED
        BY <2>5, <2>6, <2>8, <2>10, <3>1 DEF k
    <2>11. r.op = "readdir" \/ r.op \in {"realpath", "readlink"}
      BY <1>1
    <2> HIDE DEF es
    <2> QED
      BY <2>9, <2>10, <2>11
  <1> QED
    BY <1>2, <1>3

(* However the handler answers, the caller is told so.                     *)
LEMMA ReplyTold ==
    ASSUME NEW r, r.id \in u32, Fit(r.op, r.ans)
    PROVE  /\ Received(r).ok = TRUE /\ Received(r).out[1] = r.id
           /\ Told(r.op, r.ans, Read(r))
  <1>1. CASE r.ans.is = "err"
    <2> DEFINE k == IF r.ans.v \in Coded THEN r.ans.v ELSE "RemoteStatus"
    <2>1. Received(r).ok = TRUE /\ Received(r).out[1] = r.id /\ Read(r) = Err(k)
      BY <1>1, ToldErr
    <2>2. Read(r).ok = FALSE /\ Read(r).v = k
      BY <2>1 DEF Err
    <2> QED
      BY <1>1, <2>1, <2>2 DEF Told
  <1>2. CASE r.ans.is \in {"ok", "handle", "data"}
    <2>1. Received(r).ok = TRUE /\ Received(r).out[1] = r.id /\ Read(r) = Ok(r.ans.v)
      BY <1>2, ToldOk
    <2>2. Read(r).ok = TRUE /\ Read(r).v = r.ans.v
      BY <2>1 DEF Ok
    <2> QED
      BY <1>2, <2>1, <2>2 DEF Told
  <1>3. CASE r.ans.is = "attrs"
    <2>1. r.ans.v \in Metadata
      BY <1>3 DEF Fit
    <2>2. Carried(r.ans.v, from_packet(to_packet(r.ans.v)))
      BY <2>1, ToPacket
    <2> QED
      <3>1. Received(r).ok = TRUE /\ Received(r).out[1] = r.id /\ Read(r) = Ok(from_packet(to_packet(r.ans.v)))
        BY <1>3, ToldAttrs
      <3>2. Read(r).ok = TRUE /\ Read(r).v = from_packet(to_packet(r.ans.v))
        BY <3>1 DEF Ok
      <3> QED
        BY <1>3, <2>2, <3>1, <3>2 DEF Told
  <1>4. CASE r.ans.is = "names"
    <2>1. r.ans.v \in Seq(DirEntries) /\ Len(r.ans.v) <= MaxNames /\ Len(r.ans.v) \in Nat
      BY <1>4 DEF Fit
    <2>2. CASE r.op = "readdir" /\ r.ans.v = <<>>
      <3>1. Received(r).ok = TRUE /\ Received(r).out[1] = r.id /\ Read(r) = Ok(<<>>)
        BY <1>4, <2>2, ToldNames
      <3>2. Read(r).ok = TRUE /\ Read(r).v = r.ans.v
        BY <2>2, <3>1 DEF Ok
      <3> QED
        BY <1>4, <2>2, <3>1, <3>2 DEF Told
    <2>3. CASE r.op = "readdir" /\ r.ans.v # <<>>
      <3>1. Read(r) = Ok(Listed(r.ans.v)) /\ Received(r).ok = TRUE /\ Received(r).out[1] = r.id
        BY <1>4, <2>3, ToldNames
      <3>2. Wide(r.ans.v) => Filenames(Listed(r.ans.v)) = Filenames(r.ans.v)
        BY <2>1, ListedEntries
      <3> QED
        BY <1>4, <2>3, <3>1, <3>2 DEF Told, Ok
    <2>4. CASE r.op # "readdir"
      <3>1. /\ Received(r).ok = TRUE /\ Received(r).out[1] = r.id
            /\ Read(r) = IF NameCount(Named(r.ans.v)) = 0 THEN Err("Protocol") ELSE Ok(r.ans.v[1].filename)
        BY <1>4, <2>4, ToldNames
      <3>2. Wide(r.ans.v) => NameCount(Named(r.ans.v)) = Len(r.ans.v)
        BY <2>1, ListedEntries
      <3>3. Len(r.ans.v) = 0 <=> r.ans.v = <<>>
        BY <2>1
      <3> QED
        BY <1>4, <2>4, <3>1, <3>2, <3>3 DEF Told, Ok, Err
    <2> QED
      BY <2>2, <2>3, <2>4
  <1>5. r.ans.is \in {"err", "ok", "handle", "data", "attrs", "names"}
    BY DEF Fit
  <1> QED
    BY <1>1, <1>2, <1>3, <1>4, <1>5
(* The replies to a foreign packet carry no caller's id.                   *)
LEMMA StrayUnknown ==
    ASSUME NEW r, r.ans.is = "unknown"
    PROVE  Received(r).out[1] = 0
  <1>1. ReplyBytes(r) = status(0, SSH_FX.OP_UNSUPPORTED) /\ SSH_FX.OP_UNSUPPORTED \in u32 /\ 0 \in u32
    BY InU32 DEF ReplyBytes, Response, SSH_FX
  <1>2. Received(r) = [op |-> "status", ok |-> TRUE, out |-> <<0, SSH_FX.OP_UNSUPPORTED, <<1>>, <<2>>>>]
    BY <1>1, ReceivedStatus
  <1> QED
    BY <1>2, TupleSeq

LEMMA StrayVersion ==
    ASSUME NEW r, r.ans.is = "version", r.ans.v \in Nat
    PROVE  Received(r).ok = FALSE
  <1> DEFINE f == <<r.ans.v, <<>>>>
             none == push_extensions(<<>>)
             parts == <<push_u32(r.ans.v), none>>
             d == Payload("version", f)
  <1>1. EncodeLayout["version"] = <<"u32", "extensions">>
    BY DEF EncodeLayout
  <1>2. none \in Seq(Nat)
    <2>1. [i \in DOMAIN <<>> |-> push_bytes(<<>>[i][1]) \o push_bytes(<<>>[i][2])] = <<>>
      OBVIOUS
    <2>2. FlattenSeq(<<>>) \in Seq(Nat)
      <3>1. <<>> \in Seq(Seq(Nat))
        OBVIOUS
      <3> QED
        BY <3>1, FlattenLaid DEF Laid
    <2>3. none = push_u32(0) \o FlattenSeq(<<>>)
      BY <2>1 DEF push_extensions
    <2>4. push_u32(0) \in Seq(Nat)
      BY U32Type
    <2> HIDE DEF none
    <2> QED
      BY <2>2, <2>3, <2>4, CatBytes
  <1>3. push_u32(r.ans.v) \in Seq(Nat)
    BY U32Type
  <1>4. d = FlattenSeq(parts)
    <2>1. Push("u32", r.ans.v) = push_u32(r.ans.v) /\ Push("extensions", <<>>) = none
      BY DEF Push
    <2> HIDE DEF none
    <2>2. [i \in DOMAIN <<"u32", "extensions">> |-> Push(<<"u32", "extensions">>[i], f[i])] = parts
      BY <2>1
    <2> QED
      BY <1>1, <2>2 DEF Payload
  <1> HIDE DEF none
  <1>5. parts \in Seq(Seq(Nat))
    BY <1>2, <1>3
  <1> HIDE DEF parts
  <1>6. d \in Seq(Nat)
    BY <1>4, <1>5, FlattenLaid DEF Laid
  <1>7. ReplyBytes(r) = frame(2, d)
    <2>1. ReplyBytes(r) = Encode("version", f)
      BY DEF ReplyBytes, Response
    <2>2. FXP["version"] = 2
      BY DEF FXP
    <2> HIDE DEF f
    <2> QED
      BY <2>1, <2>2 DEF Encode, Payload
  <1> HIDE DEF d
  <1>8. SubSeq(frame(2, d), 5, Len(frame(2, d))) = Packet(2, d) /\ Packet(2, d)[1] = 2
    BY <1>6, FrameShape
  <1>9. OpOfType(2, Replies) = "unknown"
    BY DEF OpOfType, Replies, FXP
  <1> QED
    BY <1>7, <1>8, <1>9 DEF Received, Parsed

-----------------------------------------------------------------------------
(* handle_data puts packets together again, however the bytes were cut.    *)

LenOf(x) == Num(SubSeq(x, 1, 4))

(* The bytes of one packet: whole, unless the length in front is refused.  *)
IsFrame(x) ==
    x \in Seq(Nat) /\ Len(x) >= 4 /\ (LenOf(x) \in 1 .. MaxPacket => Len(x) = 4 + LenOf(x))

LEMMA SubSub ==
    ASSUME NEW b \in Seq(Nat), NEW p \in Nat, NEW m \in Nat, p <= m, m <= Len(b),
           NEW i \in Nat \ {0}, NEW j \in Nat, p + j <= m
    PROVE  SubSeq(SubSeq(b, p + 1, m), i, j) = SubSeq(b, p + i, p + j)
  <1> DEFINE s == SubSeq(b, p + 1, m)
  <1>0. p + 1 \in Nat \ {0} /\ p + i \in Nat \ {0} /\ p + j \in Nat /\ p + j <= Len(b) /\ Len(b) \in Nat
    OBVIOUS
  <1>1. /\ s \in Seq(Nat) /\ Len(s) = m - p
        /\ \A k \in 1 .. m - p : s[k] = b[p + k]
    <2>1. /\ s \in Seq(Nat) /\ Len(s) = IF p + 1 <= m THEN m - (p + 1) + 1 ELSE 0
          /\ \A k \in 1 .. m - (p + 1) + 1 : s[k] = b[p + 1 + k - 1]
      <3>1. PICK q \in Nat \ {0} : q = p + 1
        BY <1>0
      <3>2. /\ SubSeq(b, q, m) \in Seq(Nat)
            /\ Len(SubSeq(b, q, m)) = IF q <= m THEN m - q + 1 ELSE 0
            /\ \A k \in 1 .. m - q + 1 : SubSeq(b, q, m)[k] = b[q + k - 1]
        BY SubBytes
      <3> QED
        BY <3>1, <3>2
    <2>2. (IF p + 1 <= m THEN m - (p + 1) + 1 ELSE 0) = m - p
      OBVIOUS
    <2>3. m - (p + 1) + 1 = m - p /\ \A k \in 1 .. m - p : p + 1 + k - 1 = p + k
      OBVIOUS
    <2> HIDE DEF s
    <2> QED
      BY <2>1, <2>2, <2>3
  <1> HIDE DEF s
  <1>2. j <= Len(s)
    BY <1>1
  <1>3. /\ SubSeq(s, i, j) \in Seq(Nat) /\ Len(SubSeq(s, i, j)) = IF i <= j THEN j - i + 1 ELSE 0
        /\ \A k \in 1 .. j - i + 1 : SubSeq(s, i, j)[k] = s[i + k - 1]
    <2>1. s \in Seq(Nat)
      BY <1>1
    <2> QED
      BY <1>2, <2>1, SubBytes
  <1>4. /\ SubSeq(b, p + i, p + j) \in Seq(Nat)
        /\ Len(SubSeq(b, p + i, p + j)) = IF p + i <= p + j THEN p + j - (p + i) + 1 ELSE 0
        /\ \A k \in 1 .. p + j - (p + i) + 1 : SubSeq(b, p + i, p + j)[k] = b[p + i + k - 1]
    BY <1>0, SubBytes
  <1>5. p + j - (p + i) + 1 = j - i + 1 /\ (p + i <= p + j <=> i <= j)
    OBVIOUS
  <1>6. Len(SubSeq(s, i, j)) = Len(SubSeq(b, p + i, p + j))
    BY <1>3, <1>4, <1>5
  <1>7. ASSUME NEW k \in 1 .. Len(SubSeq(s, i, j))
        PROVE  SubSeq(s, i, j)[k] = SubSeq(b, p + i, p + j)[k]
    <2>1. k \in 1 .. j - i + 1 /\ i <= j
      BY <1>3
    <2>2. i + k - 1 \in 1 .. m - p /\ p + (i + k - 1) = p + i + k - 1
      BY <1>1, <1>2, <2>1
    <2>3. SubSeq(s, i, j)[k] = s[i + k - 1]
      BY <1>3, <2>1
    <2>4. s[i + k - 1] = b[p + (i + k - 1)]
      BY <1>1, <2>2
    <2>5. SubSeq(b, p + i, p + j)[k] = b[p + i + k - 1]
      BY <1>4, <1>5, <2>1
    <2> QED
      BY <2>2, <2>3, <2>4, <2>5
  <1>8. SubSeq(s, i, j) = SubSeq(b, p + i, p + j)
    BY <1>3, <1>4, <1>6, <1>7, SeqEqual
  <1> QED
    BY <1>8 DEF s
(* The bytes b are those of the items, one after the other.                *)
Stream(b, items, at) ==
    items \in Seq(Seq(Nat)) /\ Laid(b, items, at) /\ \A i \in 1 .. Len(items) : IsFrame(items[i])

Body(x) == SubSeq(x, 5, Len(x))
Bodies(items) == [i \in 1 .. Len(items) |-> Body(items[i])]
Broken == [cut |-> <<>>, rest |-> <<>>, ok |-> FALSE]

(* The loop when it has taken k items off the first m bytes of b.          *)
Turned(b, items, at, m, k) ==
    [cut |-> FirstOf(Bodies(items), k), rest |-> SubSeq(b, at[k] + 1, m), ok |-> TRUE]

(* Nothing more can be taken off: what is left is less than an item.       *)
Stuck(items, at, m, k) == k = Len(items) \/ m < at[k + 1]

(* The first k items have a length the runtime accepts.                    *)
Sized(items, k) == \A i \in 1 .. k : LenOf(items[i]) \in 1 .. MaxPacket

LEMMA TurnIs ==
    ASSUME NEW b, NEW items, NEW at, Stream(b, items, at), NEW m \in 0 .. Len(b),
           NEW k \in 0 .. Len(items), at[k] <= m
    PROVE  LET s == Turned(b, items, at, m, k)
               t == TakeOff(s)
           IN  \/ t = s /\ Stuck(items, at, m, k)
               \/ t = Broken /\ ~Sized(items, Len(items))
               \/ /\ t = Turned(b, items, at, m, k + 1) /\ k + 1 \in 0 .. Len(items) /\ at[k + 1] <= m
                  /\ LenOf(items[k + 1]) \in 1 .. MaxPacket
  <1> DEFINE s == Turned(b, items, at, m, k)
             L == Len(items)
  <1>1. /\ items \in Seq(Seq(Nat)) /\ Laid(b, items, at) /\ b \in Seq(Nat) /\ L \in Nat /\ Len(b) \in Nat
        /\ at \in [0 .. L -> Nat] /\ at[L] = Len(b)
    BY DEF Stream, Laid
  <1>2. PICK p \in Nat : at[k] = p
    BY <1>1
  <1>3. /\ s.ok = TRUE /\ s.rest = SubSeq(b, p + 1, m) /\ s.cut = FirstOf(Bodies(items), k)
    BY <1>2 DEF Turned
  <1>4. p <= m /\ m <= Len(b) /\ m \in Nat
    BY <1>1, <1>2
  <1>5. Len(s.rest) = m - p
    <2>1. p + 1 \in Nat \ {0}
      OBVIOUS
    <2>2. Len(SubSeq(b, p + 1, m)) = IF p + 1 <= m THEN m - (p + 1) + 1 ELSE 0
      BY <1>1, <1>4, <2>1, SubBytes
    <2> QED
      BY <1>3, <1>4, <2>2
  <1> DEFINE len == Num(SubSeq(s.rest, 1, 4))
  <1>6. CASE k = L
    <2>1. Len(s.rest) < 4
      BY <1>1, <1>2, <1>4, <1>5, <1>6
    <2>2. TakeOff(s) = s
      BY <2>1 DEF TakeOff
    <2> QED
      BY <1>6, <2>2 DEF Stuck
  <1>7. CASE k # L
    <2> DEFINE x == items[k + 1]
    <2>1. k + 1 \in 1 .. L /\ k \in Nat /\ k + 1 - 1 = k /\ k + 1 \in 0 .. L
      BY <1>1, <1>7
    <2>2. at[k + 1] \in Nat /\ x \in Seq(Nat) /\ at[k + 1] = p + Len(x) /\ At(b, p, x) /\ Len(x) \in Nat
      <3>1. x \in Seq(Nat)
        BY <1>1, <2>1, ElementOfSeq
      <3>2. at[k + 1] = at[k + 1 - 1] + Len(x) /\ At(b, at[k + 1 - 1], x)
        BY <1>1, <2>1 DEF Laid
      <3>3. at[k + 1] = p + Len(x) /\ At(b, p, x)
        BY <1>2, <2>1, <3>2
      <3> QED
        BY <3>1, <3>3
    <2>3. IsFrame(x)
      BY <2>1 DEF Stream
    <2> HIDE DEF x
    <2>4. Len(x) >= 4 /\ (LenOf(x) \in 1 .. MaxPacket => Len(x) = 4 + LenOf(x))
      BY <2>3 DEF IsFrame
    <2>5. CASE m - p < 4
      <3>1. TakeOff(s) = s
        BY <1>5, <2>5 DEF TakeOff
      <3>2. m < at[k + 1]
        BY <1>4, <2>2, <2>4, <2>5
      <3> QED
        BY <3>1, <3>2 DEF Stuck
    <2>6. CASE m - p >= 4
      <3>1. SubSeq(s.rest, 1, 4) = SubSeq(b, p + 1, p + 4)
        BY <1>1, <1>3, <1>4, <2>6, SubSub
      <3>2. SubSeq(b, p + 1, p + 4) = SubSeq(x, 1, 4)
        <4>1. /\ SubSeq(x, 1, 4) \in Seq(Nat) /\ Len(SubSeq(x, 1, 4)) = 4
              /\ \A i \in 1 .. 4 : SubSeq(x, 1, 4)[i] = x[i]
          <5>1. /\ SubSeq(x, 1, 4) \in Seq(Nat) /\ Len(SubSeq(x, 1, 4)) = IF 1 <= 4 THEN 4 - 1 + 1 ELSE 0
                /\ \A i \in 1 .. 4 - 1 + 1 : SubSeq(x, 1, 4)[i] = x[1 + i - 1]
            <6>1. 1 \in Nat \ {0} /\ 4 \in Nat /\ 4 <= Len(x) /\ x \in Seq(Nat)
              BY <2>2, <2>4
            <6> QED
              BY <6>1, SubBytes, SMTT(30)
          <5>2. \A i \in 1 .. 4 : i \in 1 .. 4 - 1 + 1 /\ 1 + i - 1 = i
            OBVIOUS
          <5>3. (IF 1 <= 4 THEN 4 - 1 + 1 ELSE 0) = 4
            OBVIOUS
          <5> QED
            BY <5>1, <5>2, <5>3
        <4>2. At(b, p, SubSeq(x, 1, 4))
          <5> DEFINE y == SubSeq(x, 1, 4)
          <5>1. y \in Seq(Nat) /\ Len(y) = 4 /\ \A i \in 1 .. 4 : y[i] = x[i]
            BY <4>1
          <5> HIDE DEF y
          <5>2. p + Len(x) <= Len(b) /\ \A i \in 1 .. Len(x) : b[p + i] = x[i]
            BY <2>2 DEF At
          <5>3. p + 4 <= Len(b) /\ \A i \in 1 .. 4 : i \in 1 .. Len(x)
            BY <1>1, <2>2, <2>4, <5>2, SMTT(30)
          <5>4. At(b, p, y)
            BY <5>1, <5>2, <5>3 DEF At
          <5> QED
            BY <5>4 DEF y
        <4>3. SubSeq(b, p + 1, p + Len(SubSeq(x, 1, 4))) = SubSeq(x, 1, 4)
          BY <1>1, <4>1, <4>2, AtSub
        <4> QED
          BY <4>1, <4>3
      <3>3. len = LenOf(x)
        BY <3>1, <3>2 DEF LenOf
      <3>4. CASE LenOf(x) \notin 1 .. MaxPacket
        <4>1. len \notin 1 .. MaxPacket /\ Len(s.rest) >= 4 /\ ~(Len(s.rest) < 4)
          BY <1>4, <1>5, <2>6, <3>3, <3>4
        <4>2. TakeOff(s) = Broken
          <5> HIDE DEF s
          <5> QED
            BY <1>3, <4>1 DEF TakeOff, Broken
        <4>3. ~Sized(items, Len(items))
          BY <2>1, <3>4 DEF Sized, x
        <4> QED
          BY <4>2, <4>3
      <3>5. CASE LenOf(x) \in 1 .. MaxPacket
        <4>0. len \in 1 .. MaxPacket /\ Len(s.rest) >= 4 /\ ~(Len(s.rest) < 4) /\ Len(x) = 4 + len /\ len \in Nat
          BY <1>4, <1>5, <2>4, <2>6, <3>3, <3>5, WidthAssumption
        <4>1. CASE m < at[k + 1]
          <5>1. Len(s.rest) < 4 + len
            BY <1>4, <1>5, <2>2, <4>0, <4>1
          <5>2. TakeOff(s) = s
            <6> HIDE DEF s
            <6> QED
              BY <1>3, <4>0, <5>1 DEF TakeOff
          <5> QED
            BY <4>1, <5>2 DEF Stuck
        <4>2. CASE at[k + 1] <= m
          <5>1. ~(Len(s.rest) < 4 + len)
            BY <1>4, <1>5, <2>2, <4>0, <4>2
          <5>2. TakeOff(s) = [cut |-> Append(s.cut, SubSeq(s.rest, 5, 4 + len)),
                              rest |-> SubSeq(s.rest, 5 + len, Len(s.rest)), ok |-> TRUE]
            <6> HIDE DEF s
            <6> QED
              BY <1>3, <4>0, <5>1 DEF TakeOff
          <5>3. SubSeq(s.rest, 5, 4 + len) = Body(x)
            <6>1. p + (4 + len) <= m /\ 4 + len \in Nat /\ p + (4 + len) = p + Len(x)
              BY <2>2, <4>0, <4>2
            <6>2. SubSeq(SubSeq(b, p + 1, m), 5, 4 + len) = SubSeq(b, p + 5, p + (4 + len))
              <7> DEFINE j == 4 + len
              <7>1. j \in Nat /\ p + j <= m /\ 5 \in Nat \ {0}
                BY <6>1
              <7> HIDE DEF j
              <7>2. SubSeq(SubSeq(b, p + 1, m), 5, j) = SubSeq(b, p + 5, p + j)
                BY <1>1, <1>4, <7>1, SubSub
              <7> QED
                BY <7>2 DEF j
            <6>3. SubSeq(SubSeq(b, p + 1, p + Len(x)), 5, Len(x)) = SubSeq(b, p + 5, p + Len(x))
              <7>1. p + Len(x) \in Nat /\ p <= p + Len(x) /\ p + Len(x) <= Len(b)
                BY <1>4, <2>2, <4>2, <1>1
              <7>2. 5 \in Nat \ {0} /\ p + Len(x) <= p + Len(x)
                BY <7>1
              <7> QED
                BY <1>1, <2>2, <7>1, <7>2, SubSub
            <6>4. SubSeq(b, p + 1, p + Len(x)) = x
              BY <1>1, <2>2, AtSub
            <6> QED
              BY <1>3, <4>0, <6>1, <6>2, <6>3, <6>4 DEF Body
          <5>4. SubSeq(s.rest, 5 + len, Len(s.rest)) = SubSeq(b, at[k + 1] + 1, m)
            <6>1. 5 + len \in Nat \ {0} /\ m - p \in Nat /\ p + (m - p) = m /\ p + (5 + len) = at[k + 1] + 1
              <7>1. \A l \in Nat : 5 + l \in Nat \ {0} /\ p + (5 + l) = p + (4 + l) + 1
                OBVIOUS
              <7>2. m - p \in Nat /\ p + (m - p) = m
                BY <1>4
              <7>3. at[k + 1] = p + (4 + len) /\ len \in Nat
                BY <2>2, <4>0
              <7> HIDE DEF len
              <7> QED
                BY <7>1, <7>2, <7>3
            <6>2. SubSeq(SubSeq(b, p + 1, m), 5 + len, m - p) = SubSeq(b, p + (5 + len), p + (m - p))
              <7> DEFINE i == 5 + len
                         j == m - p
              <7>1. i \in Nat \ {0} /\ j \in Nat /\ p + j <= m
                BY <6>1, <1>4
              <7> HIDE DEF i, j
              <7>2. SubSeq(SubSeq(b, p + 1, m), i, j) = SubSeq(b, p + i, p + j)
                BY <1>1, <1>4, <7>1, SubSub
              <7> QED
                BY <7>2 DEF i, j
            <6> QED
              BY <1>3, <1>5, <6>1, <6>2
          <5>5. Append(s.cut, Body(x)) = FirstOf(Bodies(items), k + 1)
            <6>1. Bodies(items)[k + 1] = Body(x)
              BY <2>1 DEF Bodies, x
            <6>2. k + 1 \in Nat \ {0}
              BY <2>1
            <6> QED
              <7>1. Append(FirstOf(Bodies(items), k + 1 - 1), Bodies(items)[k + 1]) = FirstOf(Bodies(items), k + 1)
                <8> DEFINE i == k + 1
                           g == Bodies(items)
                <8>1. i \in Nat \ {0}
                  BY <6>2
                <8> HIDE DEF i, g
                <8>2. Append(FirstOf(g, i - 1), g[i]) = FirstOf(g, i)
                  BY <8>1, FrontAppend
                <8> QED
                  BY <8>2 DEF i, g
              <7>2. Append(FirstOf(Bodies(items), k), Bodies(items)[k + 1]) = FirstOf(Bodies(items), k + 1)
                BY <2>1, <7>1
              <7> QED
                BY <1>3, <6>1, <7>2
          <5>6. TakeOff(s) = Turned(b, items, at, m, k + 1)
            <6> HIDE DEF s, len
            <6> QED
              BY <5>2, <5>3, <5>4, <5>5 DEF Turned
          <5> QED
            BY <2>1, <3>5, <4>2, <5>6 DEF x
        <4> QED
          BY <1>4, <2>2, <4>1, <4>2
      <3> QED
        BY <3>4, <3>5
    <2> QED
      BY <1>4, <2>5, <2>6
  <1> QED
    BY <1>6, <1>7
LEMMA LoopExists ==
    ASSUME NEW buf, NEW N \in Nat
    PROVE  \E f : f = [n \in 0 .. N |-> IF n = 0 THEN [cut |-> <<>>, rest |-> buf, ok |-> TRUE]
                                                 ELSE TakeOff(f[n - 1])]
  <1> DEFINE s == [cut |-> <<>>, rest |-> buf, ok |-> TRUE]
             Good(N1) == \E f : f = [n \in 0 .. N1 |-> IF n = 0 THEN s ELSE TakeOff(f[n - 1])]
             Bad == {n \in Nat : ~Good(n)}
  <1> HIDE DEF s
  <1>1. SUFFICES ASSUME Bad # {} PROVE FALSE
    BY DEF s
  <1>2. PICK N1 \in Bad : \A y \in Bad : N1 <= y
    BY <1>1, NatMin
  <1>3. N1 # 0
    <2>1. Good(0)
      <3> DEFINE f == [n \in 0 .. 0 |-> s]
      <3>1. f = [n \in 0 .. 0 |-> IF n = 0 THEN s ELSE TakeOff(f[n - 1])]
        OBVIOUS
      <3> QED
        BY <3>1
    <2> QED
      BY <2>1
  <1>4. N1 - 1 \in Nat /\ Good(N1 - 1)
    <2>1. N1 - 1 \in Nat /\ ~(N1 <= N1 - 1)
      BY <1>3
    <2>2. N1 - 1 \notin Bad
      BY <1>2, <2>1
    <2> QED
      BY <2>1, <2>2
  <1>5. PICK f : f = [n \in 0 .. N1 - 1 |-> IF n = 0 THEN s ELSE TakeOff(f[n - 1])]
    BY <1>4
  <1> DEFINE g == [n \in 0 .. N1 |-> IF n = N1 THEN TakeOff(f[n - 1]) ELSE f[n]]
  <1>6. ASSUME NEW n \in 0 .. N1
        PROVE  g[n] = IF n = 0 THEN s ELSE TakeOff(g[n - 1])
    <2>1. CASE n = N1
      BY <1>3, <2>1
    <2>2. CASE n # N1
      <3>1. n \in 0 .. N1 - 1 /\ (n # 0 => n - 1 \in 0 .. N1 /\ n - 1 # N1)
        BY <2>2, <1>3
      <3> QED
        BY <1>5, <2>2, <3>1
    <2> QED
      BY <2>1, <2>2
  <1>7. Good(N1)
    <2> HIDE DEF g
    <2>1. g = [n \in 0 .. N1 |-> g[n]]
      BY DEF g
    <2>2. g = [n \in 0 .. N1 |-> IF n = 0 THEN s ELSE TakeOff(g[n - 1])]
      BY <1>6, <2>1
    <2> QED
      BY <2>2
  <1> QED
    BY <1>7

LEMMA SizedOffsets ==
    ASSUME NEW b, NEW items, NEW at, Stream(b, items, at), NEW k \in 0 .. Len(items), Sized(items, k)
    PROVE  at[k] >= 5 * k
  <1> DEFINE L == Len(items)
             Bad == {n \in 0 .. k : ~(at[n] >= 5 * n)}
  <1>1. /\ items \in Seq(Seq(Nat)) /\ L \in Nat /\ at \in [0 .. L -> Nat] /\ at[0] = 0
    BY DEF Stream, Laid
  <1>2. Bad = {}
    <2> SUFFICES ASSUME Bad # {} PROVE FALSE
      OBVIOUS
    <2>1. Bad \in SUBSET Nat
      BY <1>1
    <2>2. PICK n \in Bad : \A y \in Bad : n <= y
      <3> HIDE DEF Bad
      <3> QED
        BY <2>1, NatMin
    <2>3. n # 0 /\ n \in 1 .. k /\ n \in 1 .. L /\ n - 1 \in 0 .. k /\ n - 1 \in 0 .. L
      BY <1>1
    <2>4. at[n - 1] >= 5 * (n - 1)
      <3>1. ~(n <= n - 1)
        BY <2>3
      <3> QED
        BY <2>2, <2>3, <3>1
    <2>5. at[n] = at[n - 1] + Len(items[n]) /\ at[n - 1] \in Nat /\ at[n] \in Nat
      <3>1. at[n] = at[n - 1] + Len(items[n])
        BY <2>3 DEF Stream, Laid
      <3>2. n \in 0 .. L
        BY <2>3
      <3> QED
        BY <1>1, <2>3, <3>1, <3>2
    <2>6. Len(items[n]) >= 5 /\ Len(items[n]) \in Nat
      <3>1. IsFrame(items[n]) /\ LenOf(items[n]) \in 1 .. MaxPacket
        BY <2>3 DEF Stream, Sized
      <3> QED
        BY <3>1, WidthAssumption, SMTT(30) DEF IsFrame
    <2>7. at[n] >= 5 * n
      BY <2>3, <2>4, <2>5, <2>6
    <2> QED
      BY <2>7
  <1> QED
    BY <1>1, <1>2

(* What the loop makes of the first m bytes: the whole items among them,   *)
(* in order, and the rest, or nothing after a length that is refused.      *)
Taken(b, items, at, m, r) ==
    \/ r = Broken /\ ~Sized(items, Len(items))
    \/ \E k \in 0 .. Len(items) :
          /\ r = Turned(b, items, at, m, k) /\ at[k] <= m
          /\ Stuck(items, at, m, k) /\ Sized(items, k)

(* Theorem, handle_data: whatever packets the client has sent, and however *)
(* many of their bytes are in the buffer, the loop takes off exactly the   *)
(* packets that are whole, in the order they were sent and without their   *)
(* lengths, and keeps the beginning of the next; it gives up only when one *)
(* of the packets announces a length that is out of range.                 *)
THEOREM ChunksReassemble ==
    ASSUME NEW b, NEW items, NEW at, Stream(b, items, at), NEW m \in 0 .. Len(b)
    PROVE  Taken(b, items, at, m, Reassemble(SubSeq(b, 1, m)))
  <1> DEFINE buf == SubSeq(b, 1, m)
             L == Len(items)
             N == Len(buf) \div 5
             s == [cut |-> <<>>, rest |-> buf, ok |-> TRUE]
             F == CHOOSE f : f = [n \in 0 .. N |-> IF n = 0 THEN s ELSE TakeOff(f[n - 1])]
             P(n, x) == \/ x = Broken /\ ~Sized(items, L)
                        \/ \E k \in 0 .. L :
                             /\ x = Turned(b, items, at, m, k) /\ at[k] <= m
                             /\ k = n \/ Stuck(items, at, m, k)
                             /\ Sized(items, k)
  <1>1. /\ items \in Seq(Seq(Nat)) /\ L \in Nat /\ at \in [0 .. L -> Nat] /\ at[0] = 0
        /\ b \in Seq(Nat) /\ Len(b) \in Nat
    BY DEF Stream, Laid
  <1>2. Len(buf) = m /\ m \in Nat
    <2>1. 1 \in Nat \ {0} /\ m \in Nat /\ m <= Len(b)
      BY <1>1
    <2>2. Len(SubSeq(b, 1, m)) = IF 1 <= m THEN m - 1 + 1 ELSE 0
      BY <1>1, <2>1, SubBytes
    <2> QED
      BY <2>1, <2>2
  <1>3. N \in Nat /\ m < 5 * (N + 1)
    BY <1>2
  <1>4. Reassemble(SubSeq(b, 1, m)) = TakeOff(F[N])
    BY DEF Reassemble
  <1> HIDE DEF N, buf
  <1>5. F = [n \in 0 .. N |-> IF n = 0 THEN s ELSE TakeOff(F[n - 1])]
    BY <1>3, LoopExists
  <1>6. P(0, s)
    <2>1. FirstOf(Bodies(items), 0) = <<>>
      <3>1. 1 \in Nat \ {0}
        OBVIOUS
      <3> QED
        BY <3>1, FrontAppend
    <2>2. SubSeq(b, at[0] + 1, m) = buf
      BY <1>1 DEF buf
    <2>3. s = Turned(b, items, at, m, 0)
      BY <2>1, <2>2 DEF Turned
    <2>4. 0 \in 0 .. L /\ at[0] <= m /\ Sized(items, 0)
      BY <1>1, <1>2 DEF Sized
    <2> QED
      BY <2>3, <2>4
  <1> HIDE DEF F, s
  <1>7. ASSUME NEW n \in Nat, NEW x, P(n, x)
        PROVE  P(n + 1, TakeOff(x))
    <2>1. CASE x = Broken /\ ~Sized(items, L)
      <3>1. TakeOff(Broken) = Broken
        BY DEF TakeOff, Broken
      <3> QED
        BY <2>1, <3>1
    <2>2. ASSUME NEW k \in 0 .. L, x = Turned(b, items, at, m, k), at[k] <= m,
                 k = n \/ Stuck(items, at, m, k), Sized(items, k)
          PROVE  P(n + 1, TakeOff(x))
      <3> DEFINE t == TakeOff(Turned(b, items, at, m, k))
      <3>1. \/ t = x /\ Stuck(items, at, m, k)
            \/ t = Broken /\ ~Sized(items, L)
            \/ /\ t = Turned(b, items, at, m, k + 1) /\ k + 1 \in 0 .. L /\ at[k + 1] <= m
               /\ LenOf(items[k + 1]) \in 1 .. MaxPacket
        BY <2>2, TurnIs
      <3>2. t = TakeOff(x)
        BY <2>2
      <3> HIDE DEF t
      <3>3. CASE t = x /\ Stuck(items, at, m, k)
        BY <2>2, <3>2, <3>3
      <3>4. CASE t = Broken /\ ~Sized(items, L)
        BY <3>2, <3>4
      <3>5. CASE /\ t = Turned(b, items, at, m, k + 1) /\ k + 1 \in 0 .. L /\ at[k + 1] <= m
                 /\ LenOf(items[k + 1]) \in 1 .. MaxPacket
        <4>1. ~Stuck(items, at, m, k)
          <5>1. PICK q \in Nat : at[k + 1] = q
            BY <1>1, <3>5
          <5>2. k # L /\ q <= m
            BY <1>1, <3>5, <5>1
          <5>3. ~(m < q)
            BY <1>2, <5>2
          <5> QED
            BY <5>1, <5>2, <5>3 DEF Stuck
        <4>2. k + 1 = n + 1
          BY <2>2, <4>1
        <4>3. Sized(items, k + 1)
          <5> SUFFICES ASSUME NEW i \in 1 .. k + 1 PROVE LenOf(items[i]) \in 1 .. MaxPacket
            BY DEF Sized
          <5>1. i = k + 1 \/ i \in 1 .. k
            OBVIOUS
          <5> QED
            BY <2>2, <3>5, <5>1 DEF Sized
        <4> QED
          BY <3>2, <3>5, <4>2, <4>3
      <3> QED
        BY <3>1, <3>3, <3>4, <3>5
    <2> QED
      BY <1>7, <2>1, <2>2
  <1> HIDE DEF P
  <1>8. P(N, F[N])
    <2> DEFINE Bad == {n \in 0 .. N : ~P(n, F[n])}
    <2>1. Bad = {}
      <3> SUFFICES ASSUME Bad # {} PROVE FALSE
        OBVIOUS
      <3>1. Bad \in SUBSET Nat
        BY <1>3
      <3>2. PICK n \in Bad : \A y \in Bad : n <= y
        <4> HIDE DEF Bad
        <4> QED
          BY <3>1, NatMin
      <3>3. n \in 0 .. N /\ n \in Nat /\ F[n] = IF n = 0 THEN s ELSE TakeOff(F[n - 1])
        BY <1>3, <1>5
      <3>4. n # 0
        BY <1>6, <3>3
      <3>5. n - 1 \in Nat /\ n - 1 \in 0 .. N /\ n - 1 + 1 = n /\ ~(n <= n - 1)
        BY <1>3, <3>3, <3>4
      <3>6. P(n - 1, F[n - 1])
        BY <3>2, <3>5
      <3>7. P(n - 1 + 1, TakeOff(F[n - 1]))
        BY <1>7, <3>5, <3>6
      <3> QED
        BY <3>3, <3>4, <3>5, <3>7
    <2> QED
      BY <1>3, <2>1
  <1>9. P(N + 1, TakeOff(F[N]))
    BY <1>3, <1>7, <1>8
  <1> DEFINE r == TakeOff(F[N])
  <1> HIDE DEF r
  <1>10. P(N + 1, r)
    BY <1>9 DEF r
  <1>11. CASE r = Broken /\ ~Sized(items, L)
    BY <1>4, <1>11 DEF Taken, r, buf
  <1>12. ASSUME NEW k \in 0 .. L, r = Turned(b, items, at, m, k), at[k] <= m,
                k = N + 1 \/ Stuck(items, at, m, k), Sized(items, k)
         PROVE  Taken(b, items, at, m, r)
    <2>1. at[k] >= 5 * k
      BY <1>12, SizedOffsets
    <2>2. k # N + 1
      <3>1. PICK q \in Nat : at[k] = q
        BY <1>1, <1>12
      <3>2. q <= m /\ q >= 5 * k
        BY <1>12, <2>1, <3>1
      <3> QED
        BY <1>2, <1>3, <3>2
    <2> QED
      BY <1>12, <2>2 DEF Taken
  <1> QED
    BY <1>4, <1>10, <1>11, <1>12 DEF P, r, buf
-----------------------------------------------------------------------------
(* Streams that grow at the end and lose their first items.                *)

LEMMA StreamAppend ==
    ASSUME NEW b, NEW items, NEW at, Stream(b, items, at), NEW x, IsFrame(x)
    PROVE  \E to : Stream(b \o x, Append(items, x), to)
  <1> DEFINE L == Len(items)
             to == [i \in 0 .. L + 1 |-> IF i = L + 1 THEN Len(b) + Len(x) ELSE at[i]]
             more == Append(items, x)
  <1>1. /\ items \in Seq(Seq(Nat)) /\ L \in Nat /\ at \in [0 .. L -> Nat] /\ at[0] = 0 /\ at[L] = Len(b)
        /\ b \in Seq(Nat) /\ Len(b) \in Nat
    BY DEF Stream, Laid
  <1>2. x \in Seq(Nat) /\ Len(x) \in Nat
    BY DEF IsFrame
  <1>3. /\ more \in Seq(Seq(Nat)) /\ Len(more) = L + 1 /\ more[L + 1] = x
        /\ \A i \in 1 .. L : more[i] = items[i]
    BY <1>1, <1>2
  <1>4. b \o x \in Seq(Nat) /\ Len(b \o x) = Len(b) + Len(x)
    BY <1>1, <1>2
  <1>5. to \in [0 .. L + 1 -> Nat] /\ to[0] = 0 /\ to[L + 1] = Len(b \o x)
    <2>1. ASSUME NEW i \in 0 .. L + 1
          PROVE  (IF i = L + 1 THEN Len(b) + Len(x) ELSE at[i]) \in Nat
      <3>1. i # L + 1 => i \in 0 .. L
        BY <1>1
      <3> QED
        <4>1. i \in 0 .. L => at[i] \in Nat
          BY <1>1
        <4>2. Len(b) + Len(x) \in Nat
          BY <1>1, <1>2
        <4> QED
          BY <3>1, <4>1, <4>2
    <2>2. 0 \in 0 .. L + 1 /\ L + 1 \in 0 .. L + 1 /\ L + 1 # 0
      BY <1>1
    <2> QED
      BY <1>1, <1>4, <2>1, <2>2
  <1>6. \A i \in 0 .. L : to[i] = at[i]
    BY <1>1
  <1> HIDE DEF to, more
  <1>7. ASSUME NEW i \in 1 .. L + 1
        PROVE  to[i] = to[i - 1] + Len(more[i]) /\ At(b \o x, to[i - 1], more[i]) /\ IsFrame(more[i])
    <2>1. CASE i = L + 1
      <3>1. i - 1 = L /\ L \in 0 .. L /\ to[L] = Len(b)
        BY <1>1, <1>6, <2>1, SMTT(30)
      <3>2. At(b \o x, Len(b), x)
        BY <1>1, <1>2, AtEnd
      <3> QED
        BY <1>3, <1>4, <1>5, <2>1, <3>1, <3>2
    <2>2. CASE i # L + 1
      <3>1. i \in 1 .. L /\ i - 1 \in 0 .. L /\ i \in 0 .. L
        BY <1>1, <2>2
      <3>2. PICK y \in Seq(Nat) : items[i] = y
        BY <1>1, <3>1, ElementOfSeq
      <3>3. at[i] = at[i - 1] + Len(y) /\ At(b, at[i - 1], y) /\ IsFrame(y)
        BY <3>1, <3>2 DEF Stream, Laid
      <3>4. PICK p \in Nat : at[i - 1] = p
        BY <1>1, <3>1
      <3>5. At(b \o x, p, y)
        BY <1>1, <1>2, <3>3, <3>4, AtMore
      <3> QED
        BY <1>3, <1>6, <3>1, <3>2, <3>3, <3>4, <3>5
    <2> QED
      BY <2>1, <2>2
  <1>8. Laid(b \o x, more, to)
    BY <1>3, <1>4, <1>5, <1>7 DEF Laid
  <1>9. Stream(b \o x, more, to)
    BY <1>3, <1>7, <1>8 DEF Stream
  <1> QED
    BY <1>9 DEF more

(* The items behind the first k.                                           *)
Behind(items, k) == [i \in 1 .. Len(items) - k |-> items[k + i]]

LEMMA StreamDrop ==
    ASSUME NEW b, NEW items, NEW at, Stream(b, items, at), NEW k \in 0 .. Len(items)
    PROVE  \E to : Stream(SubSeq(b, at[k] + 1, Len(b)), Behind(items, k), to)
  <1> DEFINE L == Len(items)
             M == L - k
             q == at[k]
             to == [i \in 0 .. M |-> at[k + i] - q]
             c == SubSeq(b, q + 1, Len(b))
             rest == Behind(items, k)
  <1>1. /\ items \in Seq(Seq(Nat)) /\ L \in Nat /\ at \in [0 .. L -> Nat] /\ at[0] = 0 /\ at[L] = Len(b)
        /\ b \in Seq(Nat) /\ Len(b) \in Nat
    BY DEF Stream, Laid
  <1>2. M \in Nat /\ k + M = L /\ k \in Nat /\ k + 0 = k /\ q \in Nat
    <2>1. M \in Nat /\ k + M = L /\ k \in Nat /\ k + 0 = k
      BY <1>1
    <2>2. q \in Nat
      BY <1>1
    <2> QED
      BY <2>1, <2>2
  <1>3. ASSUME NEW i \in 1 .. M
        PROVE  /\ k + i \in 1 .. L /\ k + i \in 0 .. L /\ k + (i - 1) \in 0 .. L /\ k + i - 1 = k + (i - 1)
               /\ items[k + i] \in Seq(Nat)
    <2>1. /\ k + i \in 1 .. L /\ k + i \in 0 .. L /\ k + (i - 1) \in 0 .. L /\ k + i - 1 = k + (i - 1)
      BY <1>1, <1>2
    <2> QED
      BY <1>1, <2>1, ElementOfSeq
  <1>4. rest \in Seq(Seq(Nat)) /\ Len(rest) = M /\ \A i \in 1 .. M : rest[i] = items[k + i]
    <2>1. rest = [i \in 1 .. M |-> items[k + i]]
      BY DEF Behind
    <2> HIDE DEF rest, M
    <2>2. M \in Nat /\ \A i \in 1 .. M : items[k + i] \in Seq(Nat)
      BY <1>2, <1>3
    <2>3. rest \in [1 .. M -> Seq(Nat)]
      BY <2>1, <2>2
    <2>4. rest \in Seq(Seq(Nat)) /\ Len(rest) = M
      BY <2>2, <2>3, IsASeq, LenProperties
    <2> QED
      BY <2>1, <2>4
  <1> HIDE DEF M, q, rest
  <1> DEFINE Bad == {n \in 0 .. M : ~(at[k + n] >= q)}
  <1>5. Bad = {}
    <2> SUFFICES ASSUME Bad # {} PROVE FALSE
      OBVIOUS
    <2>1. Bad \in SUBSET Nat
      BY <1>2
    <2>2. PICK n \in Bad : \A y \in Bad : n <= y
      <3> HIDE DEF Bad
      <3> QED
        BY <2>1, NatMin
    <2>3. n \in 0 .. M /\ n # 0 /\ n \in 1 .. M /\ n - 1 \in 0 .. M /\ ~(n <= n - 1)
      BY <1>2 DEF q
    <2>4. at[k + (n - 1)] >= q
      BY <2>2, <2>3
    <2>5. PICK y \in Seq(Nat) : items[k + n] = y
      BY <1>3, <2>3
    <2>6. at[k + n] = at[k + (n - 1)] + Len(y)
      <3>1. at[k + n] = at[k + n - 1] + Len(items[k + n])
        BY <1>3, <2>3 DEF Stream, Laid
      <3> QED
        BY <1>3, <2>3, <2>5, <3>1
    <2>7. at[k + n] \in Nat /\ at[k + (n - 1)] \in Nat /\ Len(y) \in Nat
      <3>1. k + n \in 0 .. L /\ k + (n - 1) \in 0 .. L
        BY <1>3, <2>3
      <3> QED
        <4>1. at[k + n] \in Nat /\ at[k + (n - 1)] \in Nat
          BY <1>1, <3>1
        <4>2. Len(y) \in Nat
          BY <2>5
        <4> QED
          BY <4>1, <4>2
    <2>8. at[k + n] >= q
      BY <1>2, <2>4, <2>6, <2>7
    <2> QED
      BY <2>8
  <1>6. \A i \in 0 .. M : k + i \in 0 .. L /\ at[k + i] \in Nat /\ at[k + i] >= q
    <2>1. \A i \in 0 .. M : k + i \in 0 .. L
      BY <1>1, <1>2
    <2> QED
      BY <1>1, <1>5, <2>1
  <1>7. q <= Len(b)
    <2>1. M \in 0 .. M
      BY <1>2
    <2>2. at[k + M] >= q /\ at[k + M] = Len(b)
      BY <1>1, <1>2, <1>6, <2>1
    <2> QED
      BY <1>1, <1>2, <2>2
  <1>8. /\ c \in Seq(Nat) /\ Len(c) = Len(b) - q
        /\ \A i \in 1 .. Len(b) - q : c[i] = b[q + i]
    <2>1. q + 1 \in Nat \ {0} /\ Len(b) <= Len(b)
      BY <1>1, <1>2
    <2>2. /\ c \in Seq(Nat) /\ Len(c) = IF q + 1 <= Len(b) THEN Len(b) - (q + 1) + 1 ELSE 0
          /\ \A i \in 1 .. Len(b) - (q + 1) + 1 : c[i] = b[q + 1 + i - 1]
      BY <1>1, <2>1, SubBytes
    <2>3. (IF q + 1 <= Len(b) THEN Len(b) - (q + 1) + 1 ELSE 0) = Len(b) - q
      BY <1>1, <1>2, <1>7
    <2>4. \A i \in 1 .. Len(b) - q : i \in 1 .. Len(b) - (q + 1) + 1 /\ q + 1 + i - 1 = q + i
      BY <1>1, <1>2
    <2> HIDE DEF c
    <2> QED
      BY <2>2, <2>3, <2>4
  <1> HIDE DEF c
  <1>9. to \in [0 .. M -> Nat] /\ to[0] = 0 /\ to[M] = Len(c)
    <2>1. \A i \in 0 .. M : at[k + i] - q \in Nat
      <3>1. \A a \in Nat : a >= q => a - q \in Nat
        BY <1>2
      <3> QED
        BY <1>6, <3>1
    <2>2. 0 \in 0 .. M /\ M \in 0 .. M /\ at[k + 0] = q /\ at[k + M] = Len(b)
      <3>1. 0 \in 0 .. M /\ M \in 0 .. M
        BY <1>2
      <3>2. at[k + 0] = q
        BY <1>2 DEF q
      <3>3. at[k + M] = Len(b)
        BY <1>1, <1>2
      <3> QED
        BY <3>1, <3>2, <3>3
    <2>3. q - q = 0
      BY <1>2
    <2> QED
      BY <1>8, <2>1, <2>2, <2>3
  <1>10. ASSUME NEW i \in 1 .. M
         PROVE  to[i] = to[i - 1] + Len(rest[i]) /\ At(c, to[i - 1], rest[i]) /\ IsFrame(rest[i])
    <2>1. PICK y \in Seq(Nat) : rest[i] = y /\ items[k + i] = y
      BY <1>3, <1>4
    <2>2. at[k + i] = at[k + (i - 1)] + Len(y) /\ At(b, at[k + (i - 1)], y) /\ IsFrame(y)
      <3>1. at[k + i] = at[k + i - 1] + Len(items[k + i]) /\ At(b, at[k + i - 1], items[k + i]) /\ IsFrame(items[k + i])
        BY <1>3 DEF Stream, Laid
      <3> QED
        BY <1>3, <2>1, <3>1
    <2>3. i \in 0 .. M /\ i - 1 \in 0 .. M
      BY <1>2
    <2>4. PICK p \in Nat : at[k + (i - 1)] = p /\ p >= q
      BY <1>6, <2>3
    <2>5. to[i - 1] = p - q /\ to[i] = (p + Len(y)) - q /\ Len(y) \in Nat
      <3>1. to[i - 1] = at[k + (i - 1)] - q /\ to[i] = at[k + i] - q
        BY <2>3
      <3>2. Len(y) \in Nat
        BY <2>1
      <3> HIDE DEF to
      <3>3. to[i - 1] = p - q /\ to[i] = (p + Len(y)) - q
        <4> DEFINE a == at[k + (i - 1)]
                   z == at[k + i]
        <4>1. a = p /\ z = a + Len(y) /\ to[i - 1] = a - q /\ to[i] = z - q
          BY <2>2, <2>4, <3>1
        <4> HIDE DEF a, z
        <4> QED
          BY <4>1
      <3> QED
        BY <3>2, <3>3
    <2>6. (p + Len(y)) - q = (p - q) + Len(y)
      BY <1>2, <2>5
    <2>7. At(c, p - q, y)
      <3>1. p + Len(y) <= Len(b) /\ \A j \in 1 .. Len(y) : b[p + j] = y[j]
        BY <2>2, <2>4 DEF At
      <3>2. (p - q) + Len(y) <= Len(c)
        BY <1>1, <1>2, <1>8, <2>4, <2>5, <3>1
      <3>3. ASSUME NEW j \in 1 .. Len(y) PROVE c[(p - q) + j] = y[j]
        <4>1. (p - q) + j \in 1 .. Len(b) - q /\ q + ((p - q) + j) = p + j
          <5>1. \A l, B \in Nat : p + l <= B => \A jj \in 1 .. l :
                   (p - q) + jj \in 1 .. B - q /\ q + ((p - q) + jj) = p + jj
            BY <1>2, <2>4
          <5> QED
            BY <1>1, <2>5, <3>1, <5>1
        <4> QED
          BY <1>8, <3>1, <4>1
      <3> QED
        BY <3>2, <3>3 DEF At
    <2> HIDE DEF to
    <2> QED
      BY <2>1, <2>2, <2>5, <2>6, <2>7
  <1> HIDE DEF to
  <1>11. Laid(c, rest, to)
    BY <1>4, <1>8, <1>9, <1>10 DEF Laid
  <1>12. Stream(c, rest, to)
    BY <1>4, <1>10, <1>11 DEF Stream
  <1> QED
    BY <1>12 DEF c, rest, q

LEMMA SeqTail ==
    ASSUME NEW s, IsSeq(s), s # <<>>
    PROVE  /\ IsSeq(Tail(s)) /\ Len(s) \in Nat \ {0} /\ Len(Tail(s)) = Len(s) - 1 /\ Len(Tail(s)) \in Nat
           /\ \A i \in 1 .. Len(s) - 1 : Tail(s)[i] = s[i + 1]
  <1>1. PICK S : s \in Seq(S)
    BY DEF IsSeq
  <1>2. Tail(s) \in Seq(S) /\ Len(Tail(s)) = Len(s) - 1 /\ Len(s) \in Nat \ {0}
    BY <1>1
  <1>3. \A i \in 1 .. Len(s) - 1 : Tail(s)[i] = s[i + 1]
    BY <1>1, <1>2
  <1> QED
    BY <1>2, <1>3 DEF IsSeq
-----------------------------------------------------------------------------
(* The line of packets under way.  Every packet written to the channel and *)
(* not yet answered is in it once, oldest first: those whose reply R is on *)
(* its way, those the runtime has cut off (P) and those whose bytes are    *)
(* still in its buffer or on the channel.  A foreign packet has the id 0.  *)

Entry == [id : Nat, bytes : Seq(Nat)]
Items(line, k) == [i \in 1 .. Len(line) - k |-> line[k + i].bytes]

(* A packet in line is a foreign one or that of a request in flight.       *)
Known(e, S) ==
    \/ e.id = 0 /\ Foreign(e.bytes)
    \/ e.id \in DOMAIN S /\ e.bytes = Bytes(e.id, S[e.id])
Knows(line, S) == \A i \in 1 .. Len(line) : Known(line[i], S)
Distinct(line) == \A i, j \in 1 .. Len(line) : line[i].id = line[j].id /\ line[i].id # 0 => i = j
Replied(id, S, r) ==
    IF id = 0 THEN r.id = 0 /\ (r.ans.is = "unknown" \/ (r.ans.is = "version" /\ r.ans.v \in Nat))
    ELSE r.id = id /\ r.op = S[id].op /\ r.args = S[id].args /\ Fit(r.op, r.ans)
AllReplied(line, S, R) == \A i \in 1 .. Len(R) : Replied(line[i].id, S, R[i])
CutOff(line, k, P) ==
    \A i \in 1 .. Len(P) : /\ LenOf(line[k + i].bytes) \in 1 .. MaxPacket
                           /\ P[i] = Parsed(Body(line[k + i].bytes), Requests)
Buffered(line, k, C, buf) ==
    /\ \E at : Stream(buf \o C, Items(line, k), at)
    /\ k < Len(line) => Len(buf) < Len(line[k + 1].bytes)
Covered(line, S) == \A id \in DOMAIN S : \E i \in 1 .. Len(line) : line[i].id = id

Line(line, S, C, reg, buf, P, R) ==
    /\ line \in Seq(Entry) /\ IsSeq(P) /\ IsSeq(R) /\ buf \in Seq(Nat) /\ C \in Seq(Nat)
    /\ Len(R) + Len(P) <= Len(line) /\ 0 \notin DOMAIN S
    /\ Knows(line, S) /\ Distinct(line) /\ AllReplied(line, S, R) /\ CutOff(line, Len(R), P)
    /\ reg => Buffered(line, Len(R) + Len(P), C, buf) /\ Covered(line, S)
    /\ ~reg => P = <<>> /\ buf = <<>> /\ Len(line) = Len(R)

LEMMA LineTypes ==
    ASSUME NEW line, NEW S, NEW C, NEW reg, NEW buf, NEW P, NEW R, Line(line, S, C, reg, buf, P, R)
    PROVE  /\ Len(line) \in Nat /\ Len(R) \in Nat /\ Len(P) \in Nat /\ Len(buf) \in Nat /\ Len(C) \in Nat
           /\ \A i \in 1 .. Len(line) : line[i] \in Entry /\ line[i].id \in Nat /\ line[i].bytes \in Seq(Nat)
  <1>1. \A s : IsSeq(s) => Len(s) \in Nat
    BY DEF IsSeq
  <1>2. line \in Seq(Entry) /\ IsSeq(P) /\ IsSeq(R) /\ buf \in Seq(Nat) /\ C \in Seq(Nat)
    BY DEF Line
  <1>3. ASSUME NEW i \in 1 .. Len(line)
        PROVE  line[i] \in Entry /\ line[i].id \in Nat /\ line[i].bytes \in Seq(Nat)
    <2>1. line[i] \in Entry
      BY <1>2, ElementOfSeq
    <2> QED
      BY <2>1 DEF Entry
  <1> QED
    BY <1>1, <1>2, <1>3

LEMMA WithoutIs ==
    ASSUME NEW S, NEW x
    PROVE  /\ DOMAIN Without(S, x) = DOMAIN S \ {x}
           /\ \A y \in DOMAIN S \ {x} : Without(S, x)[y] = S[y]
  BY DEF Without

LEMMA WithIs ==
    ASSUME NEW S, NEW x, NEW v
    PROVE  /\ DOMAIN With(S, x, v) = DOMAIN S \cup {x}
           /\ With(S, x, v)[x] = v
           /\ \A y \in DOMAIN S : y # x => With(S, x, v)[y] = S[y]
  BY DEF With

(* A reply is delivered: the oldest packet leaves the line.                *)
LEMMA LineDeliver ==
    ASSUME NEW line, NEW S, NEW C, NEW reg, NEW buf, NEW P, NEW R, Line(line, S, C, reg, buf, P, R),
           R # <<>>
    PROVE  /\ 1 \in 1 .. Len(line) /\ Known(line[1], S) /\ Replied(line[1].id, S, R[1])
           /\ Line(Tail(line), Without(S, line[1].id), C, reg, buf, P, Tail(R))
  <1> DEFINE x == line[1].id
             S2 == Without(S, x)
             l2 == Tail(line)
             R2 == Tail(R)
             k == Len(R) + Len(P)
             k2 == Len(R2) + Len(P)
  <1>1. /\ line \in Seq(Entry) /\ IsSeq(P) /\ IsSeq(R) /\ buf \in Seq(Nat) /\ C \in Seq(Nat)
        /\ Len(R) + Len(P) <= Len(line) /\ 0 \notin DOMAIN S
        /\ Knows(line, S) /\ Distinct(line) /\ AllReplied(line, S, R) /\ CutOff(line, Len(R), P)
    BY DEF Line
  <1>2. /\ Len(line) \in Nat /\ Len(R) \in Nat /\ Len(P) \in Nat
        /\ \A i \in 1 .. Len(line) : line[i] \in Entry /\ line[i].id \in Nat /\ line[i].bytes \in Seq(Nat)
    BY LineTypes
  <1>3. /\ IsSeq(R2) /\ Len(R) \in Nat \ {0} /\ Len(R2) = Len(R) - 1 /\ Len(R2) \in Nat
        /\ \A i \in 1 .. Len(R) - 1 : R2[i] = R[i + 1]
    BY <1>1, SeqTail
  <1>4. Len(line) \in Nat \ {0} /\ line # <<>> /\ 1 \in 1 .. Len(line) /\ 1 \in 1 .. Len(R)
    <2>1. Len(line) \in Nat \ {0} /\ 1 \in 1 .. Len(line) /\ 1 \in 1 .. Len(R)
      BY <1>1, <1>2, <1>3
    <2> QED
      BY <2>1
  <1>5. /\ l2 \in Seq(Entry) /\ Len(l2) = Len(line) - 1 /\ Len(l2) \in Nat
        /\ \A i \in 1 .. Len(line) - 1 : l2[i] = line[i + 1]
    BY <1>1, <1>4
  <1>6. DOMAIN S2 = DOMAIN S \ {x} /\ \A y \in DOMAIN S \ {x} : S2[y] = S[y]
    BY WithoutIs
  <1> HIDE DEF S2, l2, R2
  <1>7. ASSUME NEW i \in 1 .. Len(line) - 1
        PROVE  i + 1 \in 1 .. Len(line) /\ i + 1 # 1 /\ (line[i + 1].id # 0 => line[i + 1].id # x)
    <2>1. i + 1 \in 1 .. Len(line) /\ i + 1 # 1
      BY <1>4
    <2> QED
      BY <1>1, <1>4, <2>1 DEF Distinct
  <1>8. Knows(l2, S2)
    <2> SUFFICES ASSUME NEW i \in 1 .. Len(l2) PROVE Known(l2[i], S2)
      BY DEF Knows
    <2>1. i \in 1 .. Len(line) - 1 /\ l2[i] = line[i + 1] /\ i + 1 \in 1 .. Len(line)
      BY <1>5, <1>7
    <2>2. Known(line[i + 1], S)
      BY <1>1, <2>1 DEF Knows
    <2>3. line[i + 1].id # 0 => line[i + 1].id # x
      BY <1>7, <2>1
    <2>4. CASE line[i + 1].id = 0 /\ Foreign(line[i + 1].bytes)
      BY <2>1, <2>4 DEF Known
    <2>5. CASE /\ line[i + 1].id # 0 /\ line[i + 1].id \in DOMAIN S
               /\ line[i + 1].bytes = Bytes(line[i + 1].id, S[line[i + 1].id])
      <3>1. line[i + 1].id \in DOMAIN S2 /\ S2[line[i + 1].id] = S[line[i + 1].id]
        BY <1>6, <2>3, <2>5
      <3> QED
        BY <2>1, <2>5, <3>1 DEF Known
    <2> QED
      BY <1>1, <2>2, <2>4, <2>5 DEF Known
  <1>9. Distinct(l2)
    <2> SUFFICES ASSUME NEW i \in 1 .. Len(l2), NEW j \in 1 .. Len(l2), l2[i].id = l2[j].id, l2[i].id # 0
                 PROVE  i = j
      BY DEF Distinct
    <2>1. i \in Nat /\ j \in Nat /\ l2[i] = line[i + 1] /\ l2[j] = line[j + 1] /\ i + 1 \in 1 .. Len(line) /\ j + 1 \in 1 .. Len(line)
      BY <1>5, <1>7
    <2>2. i + 1 = j + 1
      BY <1>1, <2>1 DEF Distinct
    <2> QED
      BY <2>1, <2>2
  <1>10. AllReplied(l2, S2, R2)
    <2> SUFFICES ASSUME NEW i \in 1 .. Len(R2) PROVE Replied(l2[i].id, S2, R2[i])
      BY DEF AllReplied
    <2>1. i \in 1 .. Len(R) - 1 /\ i \in 1 .. Len(line) - 1 /\ i + 1 \in 1 .. Len(R)
      BY <1>1, <1>2, <1>3
    <2>2. l2[i] = line[i + 1] /\ R2[i] = R[i + 1] /\ i + 1 \in 1 .. Len(line)
      BY <1>3, <1>5, <1>7, <2>1
    <2>3. Replied(line[i + 1].id, S, R[i + 1])
      BY <1>1, <2>1 DEF AllReplied
    <2>4. Known(line[i + 1], S)
      BY <1>1, <2>2 DEF Knows
    <2>5. line[i + 1].id # 0 => S2[line[i + 1].id] = S[line[i + 1].id]
      BY <1>6, <1>7, <2>1, <2>4 DEF Known
    <2> QED
      BY <2>2, <2>3, <2>5 DEF Replied
  <1>11. /\ Len(R2) + Len(P) <= Len(l2) /\ k2 \in Nat /\ k \in Nat /\ k <= Len(line) /\ k2 = k - 1
         /\ Len(l2) - k2 = Len(line) - k
    BY <1>1, <1>2, <1>3, <1>5
  <1>12. \A j \in Nat : (Len(R) + j <= Len(line) /\ j # 0) => l2[Len(R2) + j] = line[Len(R) + j]
    <2> SUFFICES ASSUME NEW j \in Nat, Len(R) + j <= Len(line), j # 0
                 PROVE  l2[Len(R2) + j] = line[Len(R) + j]
      OBVIOUS
    <2>1. Len(R2) + j \in 1 .. Len(line) - 1 /\ (Len(R2) + j) + 1 = Len(R) + j
      BY <1>2, <1>3
    <2> QED
      BY <1>5, <2>1
  <1>13. CutOff(l2, Len(R2), P)
    <2> SUFFICES ASSUME NEW i \in 1 .. Len(P)
                 PROVE  /\ LenOf(l2[Len(R2) + i].bytes) \in 1 .. MaxPacket
                        /\ P[i] = Parsed(Body(l2[Len(R2) + i].bytes), Requests)
      BY DEF CutOff
    <2>1. i \in Nat /\ i # 0 /\ Len(R) + i <= Len(line)
      BY <1>1, <1>2
    <2>2. l2[Len(R2) + i] = line[Len(R) + i]
      BY <1>12, <2>1
    <2> QED
      BY <1>1, <2>2 DEF CutOff
  <1>14. ASSUME reg PROVE Buffered(l2, k2, C, buf) /\ Covered(l2, S2)
    <2>1. Buffered(line, k, C, buf) /\ Covered(line, S)
      BY <1>14 DEF Line
    <2>2. ASSUME NEW i \in 1 .. Len(line) - k PROVE l2[k2 + i] = line[k + i]
      <3>1. k2 + i \in 1 .. Len(line) - 1 /\ (k2 + i) + 1 = k + i
        BY <1>2, <1>11
      <3> QED
        BY <1>5, <3>1
    <2> HIDE DEF k, k2
    <2>3. Items(l2, k2) = Items(line, k)
      BY <1>11, <2>2 DEF Items
    <2>4. k2 < Len(l2) => (k < Len(line) /\ l2[k2 + 1] = line[k + 1])
      <3>1. k2 < Len(l2) => (k < Len(line) /\ 1 \in 1 .. Len(line) - k)
        BY <1>2, <1>5, <1>11
      <3> QED
        BY <2>2, <3>1
    <2>5. Buffered(l2, k2, C, buf)
      BY <2>1, <2>3, <2>4 DEF Buffered
    <2>6. Covered(l2, S2)
      <3> SUFFICES ASSUME NEW id \in DOMAIN S2 PROVE \E i \in 1 .. Len(l2) : l2[i].id = id
        BY DEF Covered
      <3>1. id \in DOMAIN S /\ id # x
        BY <1>6
      <3>2. PICK j \in 1 .. Len(line) : line[j].id = id
        BY <2>1, <3>1 DEF Covered
      <3>3. j # 1
        BY <3>1, <3>2
      <3>4. j - 1 \in 1 .. Len(line) - 1 /\ (j - 1) + 1 = j /\ j - 1 \in 1 .. Len(l2)
        BY <1>2, <1>5, <3>3
      <3>5. l2[j - 1] = line[j]
        BY <1>5, <3>4
      <3> QED
        BY <3>2, <3>4, <3>5
    <2> QED
      BY <2>5, <2>6
  <1>15. ASSUME ~reg PROVE P = <<>> /\ buf = <<>> /\ Len(l2) = Len(R2)
    <2>1. P = <<>> /\ buf = <<>> /\ Len(line) = Len(R)
      BY <1>15 DEF Line
    <2> QED
      BY <1>3, <1>5, <2>1
  <1>16. 0 \notin DOMAIN S2
    BY <1>1, <1>6
  <1> HIDE DEF k, x
  <1>17. Line(l2, S2, C, reg, buf, P, R2)
    BY <1>1, <1>3, <1>5, <1>8, <1>9, <1>10, <1>11, <1>13, <1>14, <1>15, <1>16 DEF Line
  <1>18. Known(line[1], S) /\ Replied(line[1].id, S, R[1])
    BY <1>1, <1>4 DEF Knows, AllReplied
  <1> QED
    BY <1>4, <1>17, <1>18 DEF l2, S2, R2, x
(* What is known of the requests in S still holds in S2.                   *)
Keeps(S, S2) == DOMAIN S \subseteq DOMAIN S2 /\ \A y \in DOMAIN S : S2[y] = S[y]

LEMMA StillKnown ==
    ASSUME NEW S, NEW S2, Keeps(S, S2), 0 \notin DOMAIN S
    PROVE  /\ \A e : Known(e, S) => Known(e, S2)
           /\ \A id, r : (Replied(id, S, r) /\ (id = 0 \/ id \in DOMAIN S)) => Replied(id, S2, r)
  <1>1. ASSUME NEW e, Known(e, S) PROVE Known(e, S2)
    BY <1>1 DEF Known, Keeps
  <1>2. ASSUME NEW id, NEW r, Replied(id, S, r), id = 0 \/ id \in DOMAIN S PROVE Replied(id, S2, r)
    BY <1>2 DEF Replied, Keeps
  <1> QED
    BY <1>1, <1>2

(* A packet is written to the channel: it joins the line at its end.       *)
LEMMA LineGrows ==
    ASSUME NEW line, NEW S, NEW C, NEW reg, NEW buf, NEW P, NEW R, Line(line, S, C, reg, buf, P, R),
           NEW e \in Entry, IsFrame(e.bytes), NEW S2, Keeps(S, S2), 0 \notin DOMAIN S2, Known(e, S2),
           DOMAIN S2 \subseteq DOMAIN S \cup {e.id}, e.id \notin DOMAIN S
    PROVE  \E l2 : Line(l2, S2, C \o e.bytes, reg, buf, P, R)
  <1> DEFINE x == e.bytes
             l2 == Append(line, e)
             k == Len(R) + Len(P)
             C2 == C \o x
             n == Len(line)
  <1>1. /\ line \in Seq(Entry) /\ IsSeq(P) /\ IsSeq(R) /\ buf \in Seq(Nat) /\ C \in Seq(Nat)
        /\ Len(R) + Len(P) <= n /\ 0 \notin DOMAIN S
        /\ Knows(line, S) /\ Distinct(line) /\ AllReplied(line, S, R) /\ CutOff(line, Len(R), P)
    BY DEF Line
  <1>2. /\ n \in Nat /\ Len(R) \in Nat /\ Len(P) \in Nat
        /\ \A i \in 1 .. n : line[i] \in Entry /\ line[i].id \in Nat /\ line[i].bytes \in Seq(Nat)
    BY LineTypes
  <1>3. x \in Seq(Nat) /\ C2 \in Seq(Nat) /\ Len(x) \in Nat /\ Len(x) >= 4
    BY <1>1 DEF Entry, IsFrame
  <1>4. ASSUME NEW i \in 1 .. n PROVE Known(line[i], S2)
    BY <1>1, StillKnown DEF Knows
  <1>5. ASSUME NEW i \in 1 .. Len(R) PROVE Replied(line[i].id, S2, R[i])
    <2>1. i \in 1 .. n
      BY <1>1, <1>2
    <2>2. line[i].id = 0 \/ line[i].id \in DOMAIN S
      BY <1>1, <2>1 DEF Knows, Known
    <2>3. Replied(line[i].id, S, R[i])
      BY <1>1 DEF AllReplied
    <2> QED
      BY <1>1, <2>2, <2>3, StillKnown
  <1>6. CASE ~reg
    <2>1. Knows(line, S2) /\ AllReplied(line, S2, R)
      BY <1>4, <1>5 DEF Knows, AllReplied
    <2>2. P = <<>> /\ buf = <<>> /\ Len(line) = Len(R)
      BY <1>6 DEF Line
    <2>3. Line(line, S2, C2, reg, buf, P, R)
      <3> HIDE DEF C2
      <3> QED
        BY <1>1, <1>3, <1>6, <2>1, <2>2 DEF Line
    <2> QED
      BY <2>3
  <1>7. CASE reg
    <2>1. /\ l2 \in Seq(Entry) /\ Len(l2) = n + 1 /\ Len(l2) \in Nat /\ l2[n + 1] = e
          /\ \A i \in 1 .. n : l2[i] = line[i]
      BY <1>1, <1>2
    <2> HIDE DEF l2
    <2>2. \A i \in 1 .. Len(l2) : i \in 1 .. n \/ i = n + 1
      BY <1>2, <2>1
    <2>3. Knows(l2, S2)
      BY <1>4, <2>1, <2>2 DEF Knows
    <2>4. Distinct(l2)
      <3> SUFFICES ASSUME NEW i \in 1 .. Len(l2), NEW j \in 1 .. Len(l2), l2[i].id = l2[j].id, l2[i].id # 0
                   PROVE  i = j
        BY DEF Distinct
      <3>1. \A m \in 1 .. n : line[m].id = 0 \/ line[m].id \in DOMAIN S
        BY <1>1 DEF Knows, Known
      <3>2. \A m \in 1 .. n : line[m].id = e.id => line[m].id = 0
        BY <3>1
      <3>3. CASE i \in 1 .. n /\ j \in 1 .. n
        BY <1>1, <2>1, <3>3 DEF Distinct
      <3>4. CASE i = n + 1 /\ j \in 1 .. n
        BY <2>1, <3>2, <3>4
      <3>5. CASE j = n + 1 /\ i \in 1 .. n
        BY <2>1, <3>2, <3>5
      <3> QED
        BY <2>2, <3>3, <3>4, <3>5
    <2>5. AllReplied(l2, S2, R)
      <3>1. \A i \in 1 .. Len(R) : i \in 1 .. n
        BY <1>1, <1>2
      <3> QED
        BY <1>5, <2>1, <3>1 DEF AllReplied
    <2>6. CutOff(l2, Len(R), P)
      <3>1. \A i \in 1 .. Len(P) : Len(R) + i \in 1 .. n
        BY <1>1, <1>2
      <3> QED
        BY <1>1, <2>1, <3>1 DEF CutOff
    <2>7. k \in Nat /\ k <= n /\ n - k \in Nat /\ Len(l2) - k = (n - k) + 1 /\ k + ((n - k) + 1) = n + 1
      BY <1>1, <1>2, <2>1
    <2>8. Buffered(line, k, C, buf) /\ Covered(line, S)
      BY <1>7 DEF Line
    <2> HIDE DEF k
    <2>9. PICK at : Stream(buf \o C, Items(line, k), at)
      BY <2>8 DEF Buffered
    <2>10. PICK to : Stream((buf \o C) \o x, Append(Items(line, k), x), to)
      BY <2>9, StreamAppend
    <2>11. (buf \o C) \o x = buf \o C2
      <3>1. \A u, v, w \in Seq(Nat) : (u \o v) \o w = u \o (v \o w)
        <4> SUFFICES ASSUME NEW u \in Seq(Nat), NEW v \in Seq(Nat), NEW w \in Seq(Nat)
                     PROVE  (u \o v) \o w = u \o (v \o w)
          OBVIOUS
        <4> DEFINE s == (u \o v) \o w
                   t == u \o (v \o w)
        <4>1. /\ s \in Seq(Nat) /\ t \in Seq(Nat) /\ Len(s) = Len(t)
              /\ \A i \in 1 .. Len(s) : s[i] = t[i]
          BY SMTT(30)
        <4> HIDE DEF s, t
        <4>2. s = t
          BY <4>1, SeqEqual
        <4> QED
          BY <4>2 DEF s, t
      <3> QED
        BY <1>1, <1>3, <3>1
    <2>12. Append(Items(line, k), x) = Items(l2, k)
      <3>1. Items(line, k) \in Seq(Seq(Nat)) /\ Len(Items(line, k)) = n - k
        <4>1. Items(line, k) \in Seq(Seq(Nat))
          BY <2>9 DEF Stream
        <4>2. DOMAIN Items(line, k) = 1 .. n - k
          BY DEF Items
        <4> QED
          BY <2>7, <4>1, <4>2
      <3>2. \A i \in 1 .. n - k : Items(line, k)[i] = line[k + i].bytes
        BY DEF Items
      <3>3. ASSUME NEW i \in 1 .. (n - k) + 1
            PROVE  Append(Items(line, k), x)[i] = l2[k + i].bytes
        <4>1. CASE i = (n - k) + 1
          BY <1>3, <2>1, <2>7, <3>1, <4>1
        <4>2. CASE i # (n - k) + 1
          <5>1. i \in 1 .. n - k /\ k + i \in 1 .. n
            BY <1>2, <2>7, <4>2
          <5>2. l2[k + i] = line[k + i]
            BY <2>1, <5>1
          <5> QED
            BY <1>3, <3>1, <3>2, <5>1, <5>2
        <4> QED
          BY <4>1, <4>2
      <3>4. Append(Items(line, k), x) = [i \in 1 .. (n - k) + 1 |-> l2[k + i].bytes]
        <4> DEFINE z == Append(Items(line, k), x)
        <4>1. z \in Seq(Seq(Nat)) /\ Len(z) = (n - k) + 1
          BY <1>3, <3>1
        <4>2. DOMAIN z = 1 .. (n - k) + 1 /\ z = [i \in DOMAIN z |-> z[i]]
          BY <4>1
        <4>3. \A i \in 1 .. (n - k) + 1 : z[i] = l2[k + i].bytes
          BY <3>3
        <4> HIDE DEF z
        <4>4. z = [i \in 1 .. (n - k) + 1 |-> l2[k + i].bytes]
          BY <4>2, <4>3
        <4> QED
          BY <4>4 DEF z
      <3> QED
        BY <2>7, <3>4 DEF Items
    <2>13. k < Len(l2) => Len(buf) < Len(l2[k + 1].bytes)
      <3>1. CASE k < n
        <4>1. l2[k + 1] = line[k + 1]
          BY <1>2, <2>1, <2>7, <3>1
        <4> QED
          BY <2>8, <3>1, <4>1 DEF Buffered
      <3>2. CASE k = n
        <4>1. Items(line, k) = <<>>
          BY <2>7, <3>2 DEF Items
        <4>2. Len(buf \o C) = 0
          <5>1. Laid(buf \o C, Items(line, k), at)
            BY <2>9 DEF Stream
          <5>2. at[0] = 0 /\ at[Len(Items(line, k))] = Len(buf \o C)
            BY <5>1 DEF Laid
          <5> QED
            BY <4>1, <5>2
        <4>3. Len(buf) = 0
          BY <1>1, <4>2
        <4> QED
          BY <1>3, <2>1, <3>2, <4>3
      <3> QED
        BY <1>2, <2>7, <3>1, <3>2
    <2>14. Buffered(l2, k, C2, buf)
      BY <2>10, <2>11, <2>12, <2>13 DEF Buffered
    <2>15. Covered(l2, S2)
      <3> SUFFICES ASSUME NEW id \in DOMAIN S2 PROVE \E i \in 1 .. Len(l2) : l2[i].id = id
        BY DEF Covered
      <3>1. CASE id = e.id
        <4>1. n + 1 \in 1 .. Len(l2)
          BY <1>2, <2>1
        <4> QED
          BY <2>1, <3>1, <4>1
      <3>2. CASE id \in DOMAIN S
        <4>1. PICK i \in 1 .. n : line[i].id = id
          BY <2>8, <3>2 DEF Covered
        <4>2. i \in 1 .. Len(l2)
          BY <1>2, <2>1
        <4> QED
          BY <2>1, <4>1, <4>2
      <3> QED
        BY <3>1, <3>2
    <2>16. Len(R) + Len(P) <= Len(l2)
      BY <1>1, <1>2, <2>1
    <2>17. Line(l2, S2, C2, reg, buf, P, R)
      <3> HIDE DEF C2
      <3> QED
        BY <1>1, <1>3, <1>7, <2>1, <2>3, <2>4, <2>5, <2>6, <2>14, <2>15, <2>16 DEF Line, k
    <2> QED
      BY <2>17
  <1> QED
    BY <1>6, <1>7
(* The runtime answers the first packet it has cut off.                    *)
LEMMA LineAnswers ==
    ASSUME NEW line, NEW S, NEW C, NEW reg, NEW buf, NEW P, NEW R, Line(line, S, C, reg, buf, P, R),
           P # <<>>, NEW r, Replied(line[Len(R) + 1].id, S, r)
    PROVE  Line(line, S, C, reg, buf, Tail(P), Append(R, r))
  <1> DEFINE n == Len(line)
             P2 == Tail(P)
             R2 == Append(R, r)
  <1>1. /\ line \in Seq(Entry) /\ IsSeq(P) /\ IsSeq(R) /\ buf \in Seq(Nat) /\ C \in Seq(Nat)
        /\ Len(R) + Len(P) <= n /\ 0 \notin DOMAIN S
        /\ Knows(line, S) /\ Distinct(line) /\ AllReplied(line, S, R) /\ CutOff(line, Len(R), P)
    BY DEF Line
  <1>2. n \in Nat /\ Len(R) \in Nat /\ Len(P) \in Nat
    BY LineTypes
  <1>3. /\ IsSeq(P2) /\ Len(P) \in Nat \ {0} /\ Len(P2) = Len(P) - 1 /\ Len(P2) \in Nat
        /\ \A i \in 1 .. Len(P) - 1 : P2[i] = P[i + 1]
    BY <1>1, SeqTail
  <1>4. /\ IsSeq(R2) /\ Len(R2) = Len(R) + 1
        /\ \A i \in 1 .. Len(R) : R2[i] = R[i]
    BY <1>1, SeqAppend
  <1>5. R2[Len(R) + 1] = r
    <2>1. PICK T : R \in Seq(T)
      BY <1>1 DEF IsSeq
    <2> QED
      BY <2>1
  <1> HIDE DEF P2, R2
  <1>6. Len(R2) + Len(P2) = Len(R) + Len(P)
    BY <1>2, <1>3, <1>4
  <1>7. AllReplied(line, S, R2)
    <2> SUFFICES ASSUME NEW i \in 1 .. Len(R2) PROVE Replied(line[i].id, S, R2[i])
      BY DEF AllReplied
    <2>1. i = Len(R) + 1 \/ i \in 1 .. Len(R)
      BY <1>2, <1>4
    <2> QED
      BY <1>1, <1>4, <1>5, <2>1 DEF AllReplied
  <1>8. CutOff(line, Len(R2), P2)
    <2> SUFFICES ASSUME NEW i \in 1 .. Len(P2)
                 PROVE  /\ LenOf(line[Len(R2) + i].bytes) \in 1 .. MaxPacket
                        /\ P2[i] = Parsed(Body(line[Len(R2) + i].bytes), Requests)
      BY DEF CutOff
    <2>1. i \in 1 .. Len(P) - 1 /\ i + 1 \in 1 .. Len(P) /\ Len(R2) + i = Len(R) + (i + 1)
      BY <1>2, <1>3, <1>4
    <2>2. P2[i] = P[i + 1]
      BY <1>3, <2>1
    <2> QED
      BY <1>1, <2>1, <2>2 DEF CutOff
  <1>9. ASSUME reg PROVE Buffered(line, Len(R2) + Len(P2), C, buf) /\ Covered(line, S)
    BY <1>6, <1>9 DEF Line
  <1>10. reg
    <2> SUFFICES ASSUME ~reg PROVE FALSE
      OBVIOUS
    <2> QED
      BY DEF Line
  <1>11. Len(R2) + Len(P2) <= n
    BY <1>1, <1>6
  <1>12. Line(line, S, C, reg, buf, P2, R2)
    BY <1>1, <1>3, <1>4, <1>7, <1>8, <1>9, <1>10, <1>11 DEF Line
  <1> QED
    BY <1>12 DEF P2, R2

(* The runtime drops the first packet it has cut off, a foreign one.       *)
LEMMA LineSkips ==
    ASSUME NEW line, NEW S, NEW C, NEW reg, NEW buf, NEW P, NEW R, Line(line, S, C, reg, buf, P, R),
           P # <<>>, line[Len(R) + 1].id = 0
    PROVE  \E l2 : Line(l2, S, C, reg, buf, Tail(P), R)
  <1> DEFINE n == Len(line)
             P2 == Tail(P)
             m == Len(R)
             At2(i) == IF i <= m THEN i ELSE i + 1
             l2 == [i \in 1 .. n - 1 |-> line[At2(i)]]
  <1>1. /\ line \in Seq(Entry) /\ IsSeq(P) /\ IsSeq(R) /\ buf \in Seq(Nat) /\ C \in Seq(Nat)
        /\ Len(R) + Len(P) <= n /\ 0 \notin DOMAIN S
        /\ Knows(line, S) /\ Distinct(line) /\ AllReplied(line, S, R) /\ CutOff(line, Len(R), P)
    BY DEF Line
  <1>2. n \in Nat /\ m \in Nat /\ Len(P) \in Nat
    BY LineTypes
  <1>3. /\ IsSeq(P2) /\ Len(P) \in Nat \ {0} /\ Len(P2) = Len(P) - 1 /\ Len(P2) \in Nat
        /\ \A i \in 1 .. Len(P) - 1 : P2[i] = P[i + 1]
    BY <1>1, SeqTail
  <1>4. m + 1 <= n /\ n - 1 \in Nat /\ m <= n - 1
    BY <1>1, <1>2, <1>3
  <1> HIDE DEF P2, n, m
  <1>5. ASSUME NEW i \in 1 .. n - 1 PROVE At2(i) \in 1 .. n /\ line[At2(i)] \in Entry /\ l2[i] = line[At2(i)]
    <2>1. At2(i) \in 1 .. n
      BY <1>2, <1>4
    <2> HIDE DEF At2
    <2> QED
      BY <1>1, <2>1, ElementOfSeq DEF n
  <1>6. l2 \in Seq(Entry) /\ Len(l2) = n - 1
    <2> HIDE DEF At2
    <2>1. l2 \in [1 .. n - 1 -> Entry]
      BY <1>5
    <2> HIDE DEF l2
    <2> QED
      BY <1>4, <2>1
  <1>7. \A i \in 1 .. m : i \in 1 .. n - 1 /\ At2(i) = i
    BY <1>2, <1>4
  <1>8. \A i \in 1 .. (n - 1) - m : m + i \in 1 .. n - 1 /\ At2(m + i) = (m + i) + 1
    BY <1>2, <1>4
  <1>9. \A i, j \in 1 .. n - 1 : At2(i) = At2(j) => i = j
    BY <1>2, <1>4
  <1>10. \A j \in 1 .. n : j = m + 1 \/ \E i \in 1 .. n - 1 : At2(i) = j
    <2> SUFFICES ASSUME NEW j \in 1 .. n, j # m + 1 PROVE \E i \in 1 .. n - 1 : At2(i) = j
      OBVIOUS
    <2>1. CASE j <= m
      <3>1. j \in 1 .. n - 1 /\ At2(j) = j
        BY <1>2, <1>4, <2>1
      <3> QED
        BY <3>1
    <2>2. CASE j > m
      <3>1. j - 1 \in 1 .. n - 1 /\ At2(j - 1) = j
        BY <1>2, <1>4, <2>2
      <3> QED
        BY <3>1
    <2> QED
      BY <1>2, <2>1, <2>2
  <1>11. \A i \in 1 .. m : l2[i] = line[i]
    <2> HIDE DEF At2, l2
    <2> QED
      BY <1>5, <1>7
  <1>12. \A i \in 1 .. (n - 1) - m : l2[m + i] = line[(m + i) + 1]
    <2> HIDE DEF At2, l2
    <2> QED
      BY <1>5, <1>8
  <1> HIDE DEF At2, l2
  <1>13. Knows(l2, S)
    BY <1>1, <1>5, <1>6 DEF Knows, n
  <1>14. Distinct(l2)
    <2> SUFFICES ASSUME NEW i \in 1 .. n - 1, NEW j \in 1 .. n - 1, l2[i].id = l2[j].id, l2[i].id # 0
                 PROVE  i = j
      BY <1>6 DEF Distinct
    <2>1. At2(i) = At2(j)
      BY <1>1, <1>5 DEF Distinct, n
    <2> QED
      BY <1>9, <2>1
  <1>15. AllReplied(l2, S, R)
    BY <1>1, <1>11 DEF AllReplied, m
  <1>16. CutOff(l2, Len(R), P2)
    <2> SUFFICES ASSUME NEW i \in 1 .. Len(P2)
                 PROVE  /\ LenOf(l2[m + i].bytes) \in 1 .. MaxPacket
                        /\ P2[i] = Parsed(Body(l2[m + i].bytes), Requests)
      BY DEF CutOff, m
    <2>1. i \in 1 .. Len(P) - 1 /\ i + 1 \in 1 .. Len(P) /\ (m + i) + 1 = m + (i + 1)
      BY <1>2, <1>3
    <2>2. i \in 1 .. (n - 1) - m
      BY <1>1, <1>2, <1>3 DEF m
    <2>3. l2[m + i] = line[m + (i + 1)]
      BY <1>12, <2>1, <2>2
    <2> QED
      BY <1>1, <1>3, <2>1, <2>3 DEF CutOff, m
  <1>17. reg
    <2> SUFFICES ASSUME ~reg PROVE FALSE
      OBVIOUS
    <2> QED
      BY DEF Line
  <1> DEFINE k == m + Len(P)
             k2 == m + Len(P2)
  <1>18. Buffered(line, k, C, buf) /\ Covered(line, S)
    BY <1>17 DEF Line, m
  <1>19. k \in Nat /\ k2 \in Nat /\ k2 = k - 1 /\ k2 >= m /\ Len(l2) - k2 = n - k /\ k2 <= Len(l2)
    BY <1>1, <1>2, <1>3, <1>6 DEF m
  <1>20. ASSUME NEW i \in 1 .. n - k PROVE l2[k2 + i] = line[k + i]
    <2>1. (k2 - m) + i \in 1 .. (n - 1) - m /\ m + ((k2 - m) + i) = k2 + i /\ (k2 + i) + 1 = k + i
      BY <1>2, <1>3, <1>19
    <2> HIDE DEF k, k2
    <2> QED
      BY <1>12, <2>1
  <1> HIDE DEF k, k2
  <1>21. Items(l2, k2) = Items(line, k)
    BY <1>19, <1>20 DEF Items, n
  <1>22. k2 < Len(l2) => (k < n /\ l2[k2 + 1] = line[k + 1])
    <2>1. k2 < Len(l2) => (k < n /\ 1 \in 1 .. n - k)
      BY <1>2, <1>6, <1>19
    <2> QED
      BY <1>20, <2>1
  <1>23. Buffered(l2, k2, C, buf)
    BY <1>18, <1>21, <1>22 DEF Buffered, n
  <1>24. Covered(l2, S)
    <2> SUFFICES ASSUME NEW id \in DOMAIN S PROVE \E i \in 1 .. Len(l2) : l2[i].id = id
      BY DEF Covered
    <2>1. PICK j \in 1 .. n : line[j].id = id
      BY <1>18 DEF Covered, n
    <2>2. id # 0 /\ line[m + 1].id = 0
      BY <1>1 DEF m
    <2>3. PICK i \in 1 .. n - 1 : At2(i) = j
      BY <1>10, <2>1, <2>2
    <2> QED
      BY <1>5, <1>6, <2>1, <2>3
  <1>25. Line(l2, S, C, reg, buf, P2, R)
    BY <1>1, <1>3, <1>6, <1>13, <1>14, <1>15, <1>16, <1>17, <1>19, <1>23, <1>24 DEF Line, k2, m
  <1> QED
    BY <1>25 DEF P2

(* The channel is forgotten, with everything not yet answered.             *)
LEMMA LineLost ==
    ASSUME NEW line, NEW S, NEW C, NEW reg, NEW buf, NEW P, NEW R, Line(line, S, C, reg, buf, P, R),
           NEW C2 \in Seq(Nat)
    PROVE  \E l2 : Line(l2, S, C2, FALSE, <<>>, <<>>, R)
  <1> DEFINE m == Len(R)
             l2 == SubSeq(line, 1, m)
  <1>1. /\ line \in Seq(Entry) /\ IsSeq(P) /\ IsSeq(R) /\ buf \in Seq(Nat) /\ C \in Seq(Nat)
        /\ Len(R) + Len(P) <= Len(line) /\ 0 \notin DOMAIN S
        /\ Knows(line, S) /\ Distinct(line) /\ AllReplied(line, S, R) /\ CutOff(line, Len(R), P)
    BY DEF Line
  <1>2. Len(line) \in Nat /\ m \in Nat /\ Len(P) \in Nat /\ m <= Len(line)
    BY <1>1, LineTypes
  <1>3. l2 \in Seq(Entry) /\ Len(l2) = m /\ \A i \in 1 .. m : l2[i] = line[i] /\ i \in 1 .. Len(line)
    <2>1. \A i \in 1 .. m : i \in 1 .. Len(line) /\ line[i] \in Entry
      BY <1>1, <1>2, ElementOfSeq
    <2>2. /\ l2 \in Seq(Entry) /\ Len(l2) = IF 1 <= m THEN m - 1 + 1 ELSE 0
          /\ \A i \in 1 .. m - 1 + 1 : l2[i] = line[1 + i - 1]
      BY <1>2, <2>1, SubSeqProperties
    <2>3. (IF 1 <= m THEN m - 1 + 1 ELSE 0) = m /\ m - 1 + 1 = m /\ \A i \in 1 .. m : 1 + i - 1 = i
      BY <1>2
    <2> HIDE DEF l2, m
    <2> QED
      BY <2>1, <2>2, <2>3
  <1> HIDE DEF l2, m
  <1>4. Knows(l2, S) /\ Distinct(l2)
    BY <1>1, <1>3 DEF Knows, Distinct
  <1>5. AllReplied(l2, S, R)
    BY <1>1, <1>3 DEF AllReplied, m
  <1>6. Len(<<>>) = 0 /\ IsSeq(<<>>) /\ <<>> \in Seq(Nat)
    <2>1. <<>> \in Seq(Nat)
      OBVIOUS
    <2> QED
      BY <2>1 DEF IsSeq
  <1>7. CutOff(l2, Len(R), <<>>)
    BY <1>6 DEF CutOff
  <1>8. Len(R) + Len(<<>>) <= Len(l2)
    BY <1>2, <1>3, <1>6 DEF m
  <1>9. Line(l2, S, C2, FALSE, <<>>, <<>>, R)
    BY <1>1, <1>3, <1>4, <1>5, <1>6, <1>7, <1>8 DEF Line, m
  <1> QED
    BY <1>9
LEMMA Slices ==
    ASSUME NEW b \in Seq(Nat), NEW p \in Nat, NEW m \in Nat, p <= m, m <= Len(b)
    PROVE  /\ SubSeq(b, p + 1, m) \in Seq(Nat) /\ Len(SubSeq(b, p + 1, m)) = m - p
           /\ \A i \in 1 .. m - p : SubSeq(b, p + 1, m)[i] = b[p + i]
  <1> DEFINE s == SubSeq(b, p + 1, m)
  <1>1. p + 1 \in Nat \ {0}
    OBVIOUS
  <1>2. /\ s \in Seq(Nat) /\ Len(s) = IF p + 1 <= m THEN m - (p + 1) + 1 ELSE 0
        /\ \A k \in 1 .. m - (p + 1) + 1 : s[k] = b[p + 1 + k - 1]
    BY <1>1, SubBytes
  <1>3. (IF p + 1 <= m THEN m - (p + 1) + 1 ELSE 0) = m - p
    OBVIOUS
  <1>4. m - (p + 1) + 1 = m - p /\ \A k \in 1 .. m - p : p + 1 + k - 1 = p + k
    OBVIOUS
  <1> HIDE DEF s
  <1>5. /\ s \in Seq(Nat) /\ Len(s) = m - p
        /\ \A i \in 1 .. m - p : s[i] = b[p + i]
    BY <1>2, <1>3, <1>4
  <1> QED
    BY <1>5 DEF s

LEMMA SlicesMeet ==
    ASSUME NEW b \in Seq(Nat), NEW p \in Nat, NEW m \in Nat, p <= m, m <= Len(b)
    PROVE  SubSeq(b, p + 1, m) \o SubSeq(b, m + 1, Len(b)) = SubSeq(b, p + 1, Len(b))
  <1> DEFINE s == SubSeq(b, p + 1, m)
             t == SubSeq(b, m + 1, Len(b))
             u == SubSeq(b, p + 1, Len(b))
             L == Len(b)
  <1>1. L \in Nat /\ p <= L /\ L <= L
    OBVIOUS
  <1>2. s \in Seq(Nat) /\ Len(s) = m - p /\ \A i \in 1 .. m - p : s[i] = b[p + i]
    BY Slices
  <1>3. t \in Seq(Nat) /\ Len(t) = L - m /\ \A i \in 1 .. L - m : t[i] = b[m + i]
    BY <1>1, Slices
  <1>4. u \in Seq(Nat) /\ Len(u) = L - p /\ \A i \in 1 .. L - p : u[i] = b[p + i]
    BY <1>1, Slices
  <1> HIDE DEF s, t, u
  <1>9. /\ s \o t \in Seq(Nat) /\ Len(s \o t) = Len(s) + Len(t)
        /\ \A i \in 1 .. Len(s) : (s \o t)[i] = s[i]
        /\ \A i \in 1 .. Len(t) : (s \o t)[Len(s) + i] = t[i]
    BY <1>2, <1>3, CatBytes
  <1>5. s \o t \in Seq(Nat) /\ Len(s \o t) = L - p
    <2>1. (m - p) + (L - m) = L - p
      BY <1>1
    <2> QED
      BY <1>2, <1>3, <1>9, <2>1
  <1>6. ASSUME NEW i \in 1 .. L - p PROVE (s \o t)[i] = u[i]
    <2>1. CASE i <= m - p
      <3>1. i \in 1 .. m - p
        BY <2>1
      <3>2. (s \o t)[i] = s[i]
        BY <1>2, <1>3, <3>1
      <3> QED
        BY <1>2, <1>4, <3>1, <3>2
    <2>2. CASE i > m - p
      <3>1. i - (m - p) \in 1 .. L - m /\ m + (i - (m - p)) = p + i
        BY <1>1, <2>2
      <3>2. (s \o t)[i] = t[i - (m - p)]
        <4>1. (m - p) + (i - (m - p)) = i
          BY <1>1
        <4>2. (s \o t)[(m - p) + (i - (m - p))] = t[i - (m - p)]
          BY <1>2, <1>3, <1>9, <3>1
        <4> QED
          BY <4>1, <4>2
      <3> QED
        BY <1>3, <1>4, <3>1, <3>2
    <2>3. i <= m - p \/ i > m - p
      BY <1>1
    <2> QED
      BY <2>1, <2>2, <2>3
  <1>7. s \o t = u
    BY <1>4, <1>5, <1>6, SeqEqual
  <1> QED
    BY <1>7 DEF s, t, u

(* A chunk of n bytes arrives behind those in the buffer.                  *)
LEMMA ChunkSplits ==
    ASSUME NEW buf \in Seq(Nat), NEW C \in Seq(Nat), NEW n \in 1 .. Len(C)
    PROVE  LET b == buf \o C
               m == Len(buf) + n
           IN  /\ b \in Seq(Nat) /\ m \in 0 .. Len(b)
               /\ SubSeq(b, 1, m) = buf \o SubSeq(C, 1, n)
               /\ SubSeq(b, m + 1, Len(b)) = SubSeq(C, n + 1, Len(C))
               /\ SubSeq(C, n + 1, Len(C)) \in Seq(Nat)
  <1> DEFINE b == buf \o C
             L == Len(buf)
             N == Len(C)
             m == L + n
  <1>1. /\ b \in Seq(Nat) /\ Len(b) = L + N /\ L \in Nat /\ N \in Nat
        /\ \A i \in 1 .. L : b[i] = buf[i]
        /\ \A i \in 1 .. N : b[L + i] = C[i]
    BY CatBytes
  <1>2. m \in 0 .. Len(b) /\ m \in Nat /\ n \in Nat /\ n <= N /\ 0 <= m /\ m <= Len(b) /\ Len(b) \in Nat
    BY <1>1
  <1>3. /\ SubSeq(b, 0 + 1, m) \in Seq(Nat) /\ Len(SubSeq(b, 0 + 1, m)) = m - 0
        /\ \A i \in 1 .. m - 0 : SubSeq(b, 0 + 1, m)[i] = b[0 + i]
    <2>1. b \in Seq(Nat) /\ 0 \in Nat /\ m \in Nat /\ 0 <= m /\ m <= Len(b) /\ Len(b) \in Nat /\ Len(b) <= Len(b)
      BY <1>1, <1>2
    <2> HIDE DEF b, m
    <2> QED
      BY <2>1, Slices
  <1>4. /\ SubSeq(C, 0 + 1, n) \in Seq(Nat) /\ Len(SubSeq(C, 0 + 1, n)) = n - 0
        /\ \A i \in 1 .. n - 0 : SubSeq(C, 0 + 1, n)[i] = C[0 + i]
    BY <1>1, <1>2, Slices
  <1>5. /\ SubSeq(b, m + 1, Len(b)) \in Seq(Nat) /\ Len(SubSeq(b, m + 1, Len(b))) = Len(b) - m
        /\ \A i \in 1 .. Len(b) - m : SubSeq(b, m + 1, Len(b))[i] = b[m + i]
    <2>1. b \in Seq(Nat) /\ 0 \in Nat /\ m \in Nat /\ 0 <= m /\ m <= Len(b) /\ Len(b) \in Nat /\ Len(b) <= Len(b)
      BY <1>1, <1>2
    <2> HIDE DEF b, m
    <2> QED
      BY <2>1, Slices
  <1>6. /\ SubSeq(C, n + 1, N) \in Seq(Nat) /\ Len(SubSeq(C, n + 1, N)) = N - n
        /\ \A i \in 1 .. N - n : SubSeq(C, n + 1, N)[i] = C[n + i]
    BY <1>1, <1>2, Slices
  <1>7. SubSeq(b, m + 1, Len(b)) = SubSeq(C, n + 1, N)
    <2> DEFINE s == SubSeq(b, m + 1, Len(b))
               t == SubSeq(C, n + 1, N)
    <2>1. s \in Seq(Nat) /\ t \in Seq(Nat) /\ Len(s) = Len(t) /\ Len(s) = N - n
      <3>1. Len(b) - m = N - n
        BY <1>1, <1>2
      <3> QED
        BY <1>5, <1>6, <3>1
    <2>2. ASSUME NEW i \in 1 .. N - n PROVE s[i] = t[i]
      <3>1. i \in 1 .. Len(b) - m /\ n + i \in 1 .. N /\ m + i = L + (n + i)
        BY <1>1, <1>2
      <3>2. s[i] = b[m + i] /\ t[i] = C[n + i]
        BY <1>5, <1>6, <3>1
      <3>3. b[L + (n + i)] = C[n + i]
        BY <1>1, <3>1
      <3> QED
        BY <3>1, <3>2, <3>3
    <2> HIDE DEF s, t
    <2>3. s = t
      BY <2>1, <2>2, SeqEqual
    <2> QED
      BY <2>3 DEF s, t
  <1>8. SubSeq(b, 1, m) = buf \o SubSeq(C, 1, n)
    <2> DEFINE s == SubSeq(b, 1, m)
               c == SubSeq(C, 1, n)
               t == buf \o c
    <2>1. /\ s \in Seq(Nat) /\ Len(s) = m /\ \A i \in 1 .. m : s[i] = b[i]
          /\ c \in Seq(Nat) /\ Len(c) = n /\ \A i \in 1 .. n : c[i] = C[i]
      <3>1. 0 + 1 = 1 /\ m - 0 = m /\ n - 0 = n /\ \A i \in Nat : 0 + i = i
        BY <1>2
      <3> HIDE DEF b, m
      <3> QED
        BY <1>3, <1>4, <3>1
    <2>2. /\ t \in Seq(Nat) /\ Len(t) = m
          /\ \A i \in 1 .. L : t[i] = buf[i]
          /\ \A i \in 1 .. n : t[L + i] = c[i]
      <3> HIDE DEF c
      <3> QED
        BY <2>1, CatBytes
    <2>3. ASSUME NEW i \in 1 .. m PROVE s[i] = t[i]
      <3>1. CASE i <= L
        <4>1. i \in 1 .. L
          BY <1>1, <3>1
        <4> HIDE DEF s, t, b
        <4> QED
          BY <1>1, <2>1, <2>2, <4>1
      <3>2. CASE i > L
        <4>1. i - L \in 1 .. n /\ L + (i - L) = i /\ i - L \in 1 .. N
          BY <1>1, <1>2, <3>2
        <4> DEFINE j == i - L
        <4>2. j \in 1 .. n /\ L + j = i /\ j \in 1 .. N
          BY <4>1
        <4> HIDE DEF s, t, b, c, j
        <4>3. t[L + j] = c[j] /\ c[j] = C[j] /\ b[L + j] = C[j] /\ s[i] = b[i]
          BY <1>1, <2>1, <2>2, <4>2
        <4> QED
          BY <4>2, <4>3
      <3> QED
        BY <1>1, <3>1, <3>2
    <2> HIDE DEF s, t
    <2>4. s = t
      BY <2>1, <2>2, <2>3, SeqEqual
    <2> QED
      BY <2>4 DEF s, t
  <1> QED
    BY <1>1, <1>2, <1>6, <1>7, <1>8

LEMMA LineReceives ==
    ASSUME NEW line, NEW S, NEW C, NEW reg, NEW buf, NEW P, NEW R, Line(line, S, C, reg, buf, P, R),
           reg, P = <<>>, NEW n \in 1 .. Len(C), NEW r, r = Reassemble(buf \o SubSeq(C, 1, n)), r.ok
    PROVE  Line(line, S, SubSeq(C, n + 1, Len(C)), reg, r.rest,
                [i \in DOMAIN r.cut |-> Parsed(r.cut[i], Requests)], R)
  <1> DEFINE N == Len(line)
             q == Len(R)
             items == Items(line, q)
             b == buf \o C
             m == Len(buf) + n
             C2 == SubSeq(C, n + 1, Len(C))
             P2 == [i \in DOMAIN r.cut |-> Parsed(r.cut[i], Requests)]
  <1>1. /\ line \in Seq(Entry) /\ IsSeq(P) /\ IsSeq(R) /\ buf \in Seq(Nat) /\ C \in Seq(Nat)
        /\ Len(R) + Len(P) <= N /\ 0 \notin DOMAIN S
        /\ Knows(line, S) /\ Distinct(line) /\ AllReplied(line, S, R) /\ CutOff(line, Len(R), P)
        /\ Buffered(line, Len(R) + Len(P), C, buf) /\ Covered(line, S)
    BY DEF Line
  <1>2. N \in Nat /\ q \in Nat /\ Len(P) = 0 /\ q + 0 = q /\ q <= N
    <2>1. N \in Nat /\ q \in Nat
      BY LineTypes
    <2>2. Len(P) = 0
      OBVIOUS
    <2> QED
      BY <1>1, <2>1, <2>2
  <1>3. /\ b \in Seq(Nat) /\ m \in 0 .. Len(b)
        /\ SubSeq(b, 1, m) = buf \o SubSeq(C, 1, n)
        /\ SubSeq(b, m + 1, Len(b)) = C2
        /\ C2 \in Seq(Nat)
    BY <1>1, ChunkSplits
  <1> HIDE DEF b, m, C2, P2, q
  <1>4. PICK at : Stream(b, items, at)
    BY <1>1, <1>2 DEF Buffered, b, q
  <1>5. /\ items \in Seq(Seq(Nat)) /\ Len(items) = N - q /\ Laid(b, items, at)
        /\ \A i \in 1 .. N - q : items[i] = line[q + i].bytes
    <2>1. items \in Seq(Seq(Nat)) /\ Laid(b, items, at)
      BY <1>4 DEF Stream
    <2>2. DOMAIN items = 1 .. N - q /\ N - q \in Nat
      BY <1>2 DEF Items
    <2>3. Len(items) = N - q
      BY <2>1, <2>2
    <2> QED
      BY <2>1, <2>3 DEF Items
  <1> HIDE DEF items
  <1>6. Taken(b, items, at, m, r)
    <2>1. Taken(b, items, at, m, Reassemble(SubSeq(b, 1, m)))
      BY <1>3, <1>4, ChunksReassemble
    <2> QED
      BY <1>3, <2>1
  <1>7. PICK k \in 0 .. Len(items) :
          /\ r = Turned(b, items, at, m, k) /\ at[k] <= m
          /\ Stuck(items, at, m, k) /\ Sized(items, k)
    BY <1>6 DEF Taken, Broken
  <1>8. k \in Nat /\ k <= N - q /\ q + k <= N /\ q + k \in Nat
    BY <1>2, <1>5, <1>7
  <1>9. PICK p \in Nat : at[k] = p
    BY <1>5, <1>7 DEF Laid
  <1>10. r.rest = SubSeq(b, p + 1, m) /\ p <= m /\ m <= Len(b) /\ m \in Nat /\ r.cut = FirstOf(Bodies(items), k)
    BY <1>3, <1>7, <1>9 DEF Turned
  <1>11. P2 = [i \in 1 .. k |-> Parsed(Body(line[q + i].bytes), Requests)]
    <2>1. DOMAIN r.cut = 1 .. k /\ \A i \in 1 .. k : r.cut[i] = Bodies(items)[i]
      BY <1>10 DEF FirstOf
    <2>2. ASSUME NEW i \in 1 .. k PROVE Bodies(items)[i] = Body(line[q + i].bytes)
      <3>1. i \in 1 .. N - q
        BY <1>2, <1>8
      <3> QED
        BY <1>5, <3>1 DEF Bodies
    <2> QED
      BY <2>1, <2>2 DEF P2
  <1>12. IsSeq(P2) /\ Len(P2) = k
    <2> DEFINE T == {Parsed(Body(line[q + i].bytes), Requests) : i \in 1 .. k}
    <2>1. P2 \in [1 .. k -> T]
      BY <1>11
    <2> HIDE DEF T
    <2>2. P2 \in Seq(T) /\ Len(P2) = k
      BY <1>8, <2>1
    <2> QED
      BY <2>2 DEF IsSeq
  <1>13. CutOff(line, q, P2)
    <2> SUFFICES ASSUME NEW i \in 1 .. k
                 PROVE  /\ LenOf(line[q + i].bytes) \in 1 .. MaxPacket
                        /\ P2[i] = Parsed(Body(line[q + i].bytes), Requests)
      BY <1>12 DEF CutOff
    <2>1. i \in 1 .. N - q
      BY <1>2, <1>8
    <2>2. LenOf(items[i]) \in 1 .. MaxPacket
      BY <1>7 DEF Sized
    <2> QED
      BY <1>5, <1>11, <2>1, <2>2
  <1>14. r.rest \o C2 = SubSeq(b, p + 1, Len(b)) /\ r.rest \in Seq(Nat) /\ Len(r.rest) = m - p
    <2>1. SubSeq(b, p + 1, m) \in Seq(Nat) /\ Len(SubSeq(b, p + 1, m)) = m - p
      BY <1>3, <1>10, Slices
    <2>2. SubSeq(b, p + 1, m) \o SubSeq(b, m + 1, Len(b)) = SubSeq(b, p + 1, Len(b))
      BY <1>3, <1>10, SlicesMeet
    <2> QED
      BY <1>3, <1>10, <2>1, <2>2
  <1>15. Behind(items, k) = Items(line, q + k)
    <2>1. Len(items) - k = N - (q + k)
      BY <1>2, <1>5, <1>8
    <2>2. ASSUME NEW i \in 1 .. N - (q + k) PROVE items[k + i] = line[(q + k) + i].bytes
      <3>1. k + i \in 1 .. N - q /\ q + (k + i) = (q + k) + i
        BY <1>2, <1>8
      <3> QED
        BY <1>5, <3>1
    <2> QED
      BY <2>1, <2>2 DEF Behind, Items
  <1>16. \E to : Stream(r.rest \o C2, Items(line, q + k), to)
    <2>1. \E to : Stream(SubSeq(b, at[k] + 1, Len(b)), Behind(items, k), to)
      BY <1>4, <1>7, StreamDrop
    <2> QED
      BY <1>9, <1>14, <1>15, <2>1
  <1>17. q + k < N => Len(r.rest) < Len(line[(q + k) + 1].bytes)
    <2> SUFFICES ASSUME q + k < N PROVE Len(r.rest) < Len(line[(q + k) + 1].bytes)
      OBVIOUS
    <2>1. k + 1 \in 1 .. N - q /\ k # Len(items) /\ q + (k + 1) = (q + k) + 1 /\ (k + 1) - 1 = k
      BY <1>2, <1>5, <1>8
    <2>2. m < at[k + 1]
      BY <1>7, <2>1 DEF Stuck
    <2>3. PICK y \in Seq(Nat) : items[k + 1] = y
      BY <1>5, <2>1, ElementOfSeq
    <2>4. at[k + 1] = p + Len(y)
      <3>1. \A i \in 1 .. N - q : at[i] = at[i - 1] + Len(items[i])
        BY <1>5 DEF Laid
      <3>2. at[k + 1] = at[(k + 1) - 1] + Len(items[k + 1])
        BY <2>1, <3>1
      <3> QED
        BY <1>9, <2>1, <2>3, <3>2
    <2>5. line[(q + k) + 1].bytes = y
      BY <1>5, <2>1, <2>3
    <2>6. Len(y) \in Nat
      BY <2>3
    <2>7. m < p + Len(y)
      BY <2>2, <2>4
    <2>8. m - p < Len(y)
      BY <1>10, <2>6, <2>7
    <2> QED
      BY <1>14, <2>5, <2>8
  <1>18. Buffered(line, q + k, C2, r.rest)
    BY <1>16, <1>17 DEF Buffered
  <1>19. Line(line, S, C2, reg, r.rest, P2, R)
    BY <1>1, <1>3, <1>8, <1>12, <1>13, <1>14, <1>18 DEF Line, q
  <1> QED
    BY <1>19 DEF C2, P2
-----------------------------------------------------------------------------
(* The requests this client makes.                                         *)

OneText == {"opendir", "close", "fstat", "readdir", "stat", "lstat", "remove", "rmdir", "realpath", "readlink"}

(* Data that the length fields of a write request have room for.           *)
Datas == {d \in Seq(Nat) : 4 * (Len(d) + 64) < U32}

Fields3(op, args) ==
    \/ op \in OneText /\ \E h \in Texts : args = <<h>>
    \/ op \in {"setstat", "fsetstat", "mkdir"} /\ \E h \in Texts, a \in Blocks : args = <<h, a>>
    \/ op \in {"rename", "symlink"} /\ \E h, g \in Texts : args = <<h, g>>
    \/ op = "open" /\ \E h \in Texts, m \in u32, a \in Blocks : args = <<h, m, a>>
    \/ op = "read" /\ \E h \in Texts, n \in u64 : args = <<h, n, ChunkSize>>
    \/ op = "write" /\ \E h \in Texts, n \in u64, d \in Datas : args = <<h, n, d>>

WellAsked(q) ==
    /\ q.task \in Tasks \cup {Nobody}
    /\ Fields3(q.op, q.args)
    /\ q.op \in {"open", "opendir"} => q.args[1] \in Paths

LEMMA ThreeSeq ==
    /\ \A a : IsSeq(<<a>>) /\ Len(<<a>>) = 1 /\ <<a>>[1] = a
    /\ \A a, b, c : /\ IsSeq(<<a, b, c>>) /\ Len(<<a, b, c>>) = 3
                    /\ <<a, b, c>>[1] = a /\ <<a, b, c>>[2] = b /\ <<a, b, c>>[3] = c
  <1>1. ASSUME NEW a PROVE <<a>> \in Seq({a}) /\ Len(<<a>>) = 1
    OBVIOUS
  <1>2. ASSUME NEW a, NEW b, NEW c
        PROVE  <<a, b, c>> \in Seq({a, b, c}) /\ Len(<<a, b, c>>) = 3
    OBVIOUS
  <1> QED
    BY <1>1, <1>2 DEF IsSeq

(* An id in front of the other fields.                                     *)
LEMMA IdFirst ==
    ASSUME NEW id, NEW args, IsSeq(args)
    PROVE  /\ IsSeq(<<id>> \o args) /\ Len(<<id>> \o args) = 1 + Len(args) /\ Len(args) \in Nat
           /\ (<<id>> \o args)[1] = id /\ Tail(<<id>> \o args) = args
           /\ \A i \in 1 .. Len(args) : (<<id>> \o args)[1 + i] = args[i]
  <1>1. PICK T : args \in Seq(T)
    BY DEF IsSeq
  <1> DEFINE U == T \cup {id}
             f == <<id>> \o args
  <1>2. args \in Seq(U) /\ <<id>> \in Seq(U)
    BY <1>1, SeqMonotonic
  <1> HIDE DEF U
  <1>3. /\ f \in Seq(U) /\ Len(f) = 1 + Len(args) /\ Len(args) \in Nat /\ f[1] = id
        /\ \A i \in 1 .. Len(args) : f[1 + i] = args[i]
    <2>1. f \in Seq(U) /\ Len(f) = 1 + Len(args) /\ Len(args) \in Nat
      BY <1>2
    <2>2. f[1] = id
      BY <1>2
    <2>3. ASSUME NEW i \in 1 .. Len(args) PROVE f[1 + i] = args[i]
      BY <1>2, <2>1
    <2> QED
      BY <2>1, <2>2, <2>3
  <1> HIDE DEF f
  <1>4. Tail(f) = args
    <2>1. f # <<>>
      BY <1>3
    <2>2. /\ Tail(f) \in Seq(U) /\ Len(Tail(f)) = Len(f) - 1
          /\ \A i \in 1 .. Len(Tail(f)) : Tail(f)[i] = f[i + 1]
      BY <1>3, <2>1, HeadTailProperties
    <2>3. Len(Tail(f)) = Len(args)
      BY <1>3, <2>2
    <2>4. ASSUME NEW i \in 1 .. Len(args) PROVE Tail(f)[i] = args[i]
      <3>1. i + 1 = 1 + i
        BY <1>3
      <3> QED
        BY <1>3, <2>2, <2>3, <3>1
    <2> QED
      BY <1>2, <2>2, <2>3, <2>4, SeqEqual
  <1> QED
    BY <1>3, <1>4 DEF f, IsSeq

LEMMA FieldsOfAsked ==
    ASSUME NEW op, NEW args, Fields3(op, args), NEW id \in u32
    PROVE  op \in SimpleOps \ Replies /\ op \in Requests /\ IsSeq(args) /\ Fields(op, <<id>> \o args)
  <1>0. op \in SimpleOps \ Replies /\ op \in Requests /\ op \in SimpleOps \ {"version", "status", "handle", "data", "name", "attrs"}
    BY DEF Fields3, OneText, SimpleOps, Replies, Requests, DecodeLayout
  <1>1. IsSeq(args) /\ Len(args) \in 1 .. 3
    BY TupleSeq, ThreeSeq DEF Fields3
  <1> DEFINE f == <<id>> \o args
             L == EncodeLayout[op]
  <1>2. /\ IsSeq(f) /\ Len(f) = 1 + Len(args) /\ Len(args) \in Nat /\ f[1] = id
        /\ \A i \in 1 .. Len(args) : f[1 + i] = args[i]
    BY <1>1, IdFirst
  <1>3. /\ Field("u32") = u32 /\ Field("u64") = u64 /\ Field("attrs") = Blocks
        /\ Datas \subseteq Field("bytes") /\ Texts \subseteq Field("string")
    BY FieldSets DEF Texts, Datas
  <1>4. ChunkSize \in u32
    BY SftpServerAssumption, Widths
  <1> HIDE DEF f
  <1> SUFFICES /\ Len(L) = 1 + Len(args) /\ L[1] = "u32"
               /\ \A i \in 1 .. Len(args) : args[i] \in Field(L[1 + i])
    <2>1. ASSUME NEW i \in 1 .. Len(f), Len(L) = 1 + Len(args), L[1] = "u32",
                 \A j \in 1 .. Len(args) : args[j] \in Field(L[1 + j])
          PROVE  f[i] \in Field(L[i])
      <3>1. CASE i = 1
        BY <1>2, <1>3, <2>1, <3>1
      <3>2. CASE i # 1
        <4>1. i - 1 \in 1 .. Len(args) /\ 1 + (i - 1) = i
          BY <1>2, <3>2
        <4> QED
          BY <1>2, <2>1, <4>1
      <3> QED
        BY <3>1, <3>2
    <2> QED
      BY <1>0, <1>1, <1>2, <2>1 DEF Fields, f
  <1>5. CASE op \in OneText /\ \E h \in Texts : args = <<h>>
    <2>1. PICK h \in Texts : args = <<h>>
      BY <1>5
    <2>2. L = <<"u32", "string">>
      BY <1>5 DEF OneText, EncodeLayout
    <2> QED
      BY <1>3, <2>1, <2>2, TupleSeq, ThreeSeq
  <1>6. CASE op \in {"setstat", "fsetstat", "mkdir"} /\ \E h \in Texts, a \in Blocks : args = <<h, a>>
    <2>1. PICK h \in Texts, a \in Blocks : args = <<h, a>>
      BY <1>6
    <2>2. L = <<"u32", "string", "attrs">>
      BY <1>6 DEF EncodeLayout
    <2> QED
      BY <1>3, <2>1, <2>2, TupleSeq, ThreeSeq
  <1>7. CASE op \in {"rename", "symlink"} /\ \E h, g \in Texts : args = <<h, g>>
    <2>1. PICK h \in Texts, g \in Texts : args = <<h, g>>
      BY <1>7
    <2>2. L = <<"u32", "string", "string">>
      BY <1>7 DEF EncodeLayout
    <2> QED
      BY <1>3, <2>1, <2>2, TupleSeq, ThreeSeq
  <1>8. CASE op = "open" /\ \E h \in Texts, m \in u32, a \in Blocks : args = <<h, m, a>>
    <2>1. PICK h \in Texts, m \in u32, a \in Blocks : args = <<h, m, a>>
      BY <1>8
    <2>2. L = <<"u32", "string", "u32", "attrs">>
      BY <1>8 DEF EncodeLayout
    <2> QED
      BY <1>3, <2>1, <2>2, TupleSeq, ThreeSeq
  <1>9. CASE op = "read" /\ \E h \in Texts, n \in u64 : args = <<h, n, ChunkSize>>
    <2>1. PICK h \in Texts, n \in u64 : args = <<h, n, ChunkSize>>
      BY <1>9
    <2>2. L = <<"u32", "string", "u64", "u32">>
      BY <1>9 DEF EncodeLayout
    <2> QED
      BY <1>3, <1>4, <2>1, <2>2, TupleSeq, ThreeSeq
  <1>10. CASE op = "write" /\ \E h \in Texts, n \in u64, d \in Datas : args = <<h, n, d>>
    <2>1. PICK h \in Texts, n \in u64, d \in Datas : args = <<h, n, d>>
      BY <1>10
    <2>2. L = <<"u32", "string", "u64", "bytes">>
      BY <1>10 DEF EncodeLayout
    <2>3. Len(args) = 3 /\ args[1] = h /\ args[2] = n /\ args[3] = d
      BY <2>1, ThreeSeq
    <2>4. Len(L) = 4 /\ L[1] = "u32" /\ L[1 + 1] = "string" /\ L[1 + 2] = "u64" /\ L[1 + 3] = "bytes"
      BY <2>2, TupleSeq
    <2>5. ASSUME NEW i \in 1 .. 3 PROVE args[i] \in Field(L[1 + i])
      <3>1. i = 1 \/ i = 2 \/ i = 3
        OBVIOUS
      <3> QED
        BY <1>3, <2>3, <2>4, <3>1
    <2> QED
      BY <2>3, <2>4, <2>5
  <1> HIDE DEF L
  <1> QED
    BY <1>5, <1>6, <1>7, <1>8, <1>9, <1>10 DEF Fields3

(* The length of a request fits its length field.                          *)
LEMMA AskedShort ==
    ASSUME NEW op, NEW args, Fields3(op, args), NEW id \in u32
    PROVE  1 + Len(Payload(op, <<id>> \o args)) \in u32
  <1> DEFINE f == <<id>> \o args
             L == EncodeLayout[op]
             n == Len(Payload(op, f))
  <1>1. op \in SimpleOps /\ IsSeq(args) /\ Fields(op, f)
    BY FieldsOfAsked
  <1>2. /\ Len(f) = 1 + Len(args) /\ Len(args) \in Nat /\ f[1] = id
        /\ \A i \in 1 .. Len(args) : f[1 + i] = args[i]
    BY <1>1, IdFirst
  <1>3. L[1] = "u32"
    BY <1>1 DEF SimpleOps, EncodeLayout
  <1> SUFFICES \E B \in Nat : /\ 4 * (B + 64) < U32
                             /\ \A i \in 1 .. Len(args) :
                                  L[1 + i] \in {"string", "bytes"} => Len(args[i]) <= B
    <2>1. PICK B \in Nat : /\ 4 * (B + 64) < U32
                          /\ \A i \in 1 .. Len(args) :
                               L[1 + i] \in {"string", "bytes"} => Len(args[i]) <= B
      OBVIOUS
    <2> HIDE DEF f, L
    <2>2. ASSUME NEW i \in 1 .. Len(f), L[i] \in {"string", "bytes"} PROVE Len(f[i]) <= B
      <3>1. i # 1
        BY <1>3, <2>2
      <3>2. i - 1 \in 1 .. Len(args) /\ 1 + (i - 1) = i
        BY <1>2, <3>1
      <3> QED
        BY <1>2, <2>1, <2>2, <3>2
    <2>3. n \in Nat /\ n <= 4 * (B + 52)
      BY <1>1, <2>2, PayloadShort DEF L
    <2> HIDE DEF n
    <2>4. 1 + n \in Nat /\ 1 + n < U32
      BY <2>1, <2>3, Widths
    <2>5. 1 + n \in u32
      BY <2>4, Widths DEF u32
    <2> QED
      BY <2>5 DEF n, f
  <1> HIDE DEF f, L
  <1>4. 4 * (MaxPacket + 64) < U32 /\ MaxPacket \in Nat
    BY WidthAssumption
  <1>5. CASE op # "write"
    <2>1. ASSUME NEW i \in 1 .. Len(args), L[1 + i] \in {"string", "bytes"} PROVE Len(args[i]) <= MaxPacket
      <3>1. CASE op \in OneText /\ \E h \in Texts : args = <<h>>
        BY <3>1, ThreeSeq DEF Texts
      <3>2. CASE op \in {"setstat", "fsetstat", "mkdir"} /\ \E h \in Texts, a \in Blocks : args = <<h, a>>
        <4>1. PICK h \in Texts, a \in Blocks : args = <<h, a>>
          BY <3>2
        <4>2. L[3] = "attrs"
          BY <3>2 DEF L, EncodeLayout
        <4>3. i = 1 \/ i = 2
          BY <4>1, TupleSeq
        <4> QED
          BY <2>1, <4>1, <4>2, <4>3, TupleSeq DEF Texts
      <3>3. CASE op \in {"rename", "symlink"} /\ \E h, g \in Texts : args = <<h, g>>
        <4>1. PICK h \in Texts, g \in Texts : args = <<h, g>>
          BY <3>3
        <4>2. i = 1 \/ i = 2
          BY <4>1, TupleSeq
        <4> QED
          BY <4>1, <4>2, TupleSeq DEF Texts
      <3>4. CASE op = "open" /\ \E h \in Texts, m \in u32, a \in Blocks : args = <<h, m, a>>
        <4>1. PICK h \in Texts, m \in u32, a \in Blocks : args = <<h, m, a>>
          BY <3>4
        <4>2. L[3] = "u32" /\ L[4] = "attrs"
          BY <3>4 DEF L, EncodeLayout
        <4>3. i = 1 \/ i = 2 \/ i = 3
          BY <4>1, ThreeSeq
        <4> QED
          BY <2>1, <4>1, <4>2, <4>3, ThreeSeq DEF Texts
      <3>5. CASE op = "read" /\ \E h \in Texts, m \in u64 : args = <<h, m, ChunkSize>>
        <4>1. PICK h \in Texts, m \in u64 : args = <<h, m, ChunkSize>>
          BY <3>5
        <4>2. L[3] = "u64" /\ L[4] = "u32"
          BY <3>5 DEF L, EncodeLayout
        <4>3. i = 1 \/ i = 2 \/ i = 3
          BY <4>1, ThreeSeq
        <4> QED
          BY <2>1, <4>1, <4>2, <4>3, ThreeSeq DEF Texts
      <3> QED
        BY <1>5, <3>1, <3>2, <3>3, <3>4, <3>5 DEF Fields3
    <2> QED
      BY <1>4, <2>1
  <1>6. CASE op = "write"
    <2>1. PICK h \in Texts, m \in u64, d \in Datas : args = <<h, m, d>>
      BY <1>6 DEF Fields3, OneText
    <2>2. /\ Len(args) = 3 /\ args[1] = h /\ args[2] = m /\ args[3] = d
          /\ L[3] = "u64" /\ Len(h) \in Nat /\ Len(h) <= MaxPacket /\ Len(d) \in Nat /\ 4 * (Len(d) + 64) < U32
      <3>1. Len(args) = 3 /\ args[1] = h /\ args[2] = m /\ args[3] = d
        BY <2>1, ThreeSeq
      <3>2. L[3] = "u64"
        BY <1>6 DEF L, EncodeLayout
      <3>3. Len(h) \in Nat /\ Len(h) <= MaxPacket /\ Len(d) \in Nat /\ 4 * (Len(d) + 64) < U32
        BY DEF Texts, Datas
      <3> QED
        BY <3>1, <3>2, <3>3
    <2> DEFINE B == IF Len(d) <= MaxPacket THEN MaxPacket ELSE Len(d)
    <2>3. B \in Nat /\ 4 * (B + 64) < U32 /\ Len(h) <= B /\ Len(d) <= B
      BY <1>4, <2>2
    <2> HIDE DEF B
    <2>4. ASSUME NEW i \in 1 .. 3, L[1 + i] \in {"string", "bytes"} PROVE Len(args[i]) <= B
      <3>1. i = 1 \/ i = 2 \/ i = 3
        OBVIOUS
      <3> QED
        BY <2>2, <2>3, <2>4, <3>1
    <2> QED
      BY <2>2, <2>3, <2>4
  <1> QED
    BY <1>5, <1>6

(* What the runtime makes of the packet of a request, and of a foreign one.*)
LEMMA BytesOfAsked ==
    ASSUME NEW q, Fields3(q.op, q.args), NEW id \in u32
    PROVE  /\ IsFrame(Bytes(id, q))
           /\ LenOf(Bytes(id, q)) \in 1 .. MaxPacket =>
                Parsed(Body(Bytes(id, q)), Requests) = [op |-> q.op, ok |-> TRUE, out |-> <<id>> \o q.args]
  <1> DEFINE op == q.op
             f == <<id>> \o q.args
             b == Bytes(id, q)
             d == Payload(op, f)
             p == Packet(FXP[op], d)
  <1>1. op \in SimpleOps \ Replies /\ op \in Requests /\ Fields(op, f)
    BY FieldsOfAsked
  <1>2. b = frame(FXP[op], d)
    BY DEF Bytes, Encode, Payload
  <1>0. 1 + Len(d) \in u32
    BY AskedShort
  <1> HIDE DEF op, f, b
  <1>3. d \in Seq(Nat) /\ FXP[op] \in Nat /\ Len(d) \in Nat
    <2>1. d \in Seq(Nat)
      BY <1>1, PayloadType
    <2>2. FXP[op] \in Nat
      BY <1>1, TypeBytes
    <2> QED
      BY <2>1, <2>2
  <1> HIDE DEF d
  <1>4. /\ b \in Seq(Nat) /\ p \in Seq(Nat) /\ Len(p) = 1 + Len(d) /\ Len(b) = 4 + Len(p)
        /\ At(b, 0, push_u32(Len(p))) /\ SubSeq(b, 5, Len(b)) = p
    BY <1>2, <1>3, FrameShape
  <1> HIDE DEF p
  <1>5. LenOf(b) = Len(p)
    <2>1. push_u32(Len(p)) \in Seq(Nat) /\ Len(push_u32(Len(p))) = 4 /\ Len(p) \in u32
      BY <1>0, <1>4, Widths, U32Type
    <2>2. SubSeq(b, 0 + 1, 0 + Len(push_u32(Len(p)))) = push_u32(Len(p))
      BY <1>4, <2>1, AtSub
    <2>3. SubSeq(b, 1, 4) = push_u32(Len(p))
      BY <2>1, <2>2
    <2> QED
      BY <2>1, <2>3, NumInverts DEF LenOf
  <1>6. IsFrame(b)
    BY <1>3, <1>4, <1>5 DEF IsFrame
  <1>7. ASSUME LenOf(b) \in 1 .. MaxPacket
        PROVE  Parsed(Body(b), Requests) = [op |-> op, ok |-> TRUE, out |-> f]
    <2>1. Len(d) <= MaxPacket
      BY <1>3, <1>4, <1>5, <1>7, WidthAssumption
    <2>2. \A i \in 1 .. Len(f) : Short(EncodeLayout[op][i], f[i])
      BY <1>1, <2>1, ShortPacket DEF d
    <2>3. Requests \in SUBSET Ops /\ op \in SimpleOps \cap Requests
      BY <1>1, TypeBytes
    <2>4. Parsed(Packet(FXP[op], Payload(op, f)), Requests) = [op |-> op, ok |-> TRUE, out |-> f]
      BY <1>1, <2>2, <2>3, ParsedSimple
    <2> QED
      BY <1>4, <2>4 DEF Body, p, d
  <1> QED
    BY <1>6, <1>7 DEF b, op, f

LEMMA ForeignFrame ==
    ASSUME NEW b, Foreign(b)
    PROVE  /\ IsFrame(b)
           /\ LenOf(b) \in 1 .. MaxPacket =>
                LET p == Parsed(Body(b), Requests) IN p.op \in {"unknown", "init"} \/ ~p.ok
  <1>1. b \in Seq(Nat) /\ Len(b) >= 4
    BY DEF Foreign
  <1>2. ASSUME LenOf(b) \in 1 .. MaxPacket
        PROVE  /\ Len(b) = 4 + LenOf(b)
               /\ LET p == Parsed(SubSeq(b, 5, 4 + LenOf(b)), Requests) IN p.op \in {"unknown", "init"} \/ ~p.ok
    BY <1>2 DEF Foreign, LenOf
  <1>3. IsFrame(b)
    BY <1>1, <1>2 DEF IsFrame
  <1> QED
    BY <1>2, <1>3 DEF Body
-----------------------------------------------------------------------------
(* The invariant: the types, and everything under way is in line.          *)

TaskRecs ==
    [prog : {"none", "read", "write", "file", "list", "path", "raw"},
     end : {"none", "close", "close_file", "drop"},
     id : Nat, handle : Handles \cup {<<>>}, path : Paths \cup {<<>>}, offset : u64,
     got : Seq(Nat \cup DirEntries), entries : Seq(DirEntries), used : BOOLEAN,
     out : {"none", "ok", "err"}, meta : Metadata]

IsServer(v) ==
    \E T : v \in [registered : BOOLEAN, buffer : Seq(Nat), packets : Seq(T),
                  negotiated : BOOLEAN, version : Nat, failed : BOOLEAN]

Slots == [path : Paths, at : Nat]
IsFs(f) ==
    /\ \E H \in SUBSET Handles :
         f \in [open : [H -> Slots], files : [Paths -> Seq(Nat)], dir : Dirs]
    /\ \A h \in DOMAIN f.open : f.open[h].at <= Len(f.dir)

Asks(S, n) ==
    /\ S = [id \in DOMAIN S |-> S[id]]
    /\ \A id \in DOMAIN S : id \in u32 /\ id \in Nat /\ id >= 10 /\ id < n /\ WellAsked(S[id])

InLine == \E line : Line(line, sent, c2s, srv.registered, srv.buffer, srv.packets, s2c)
Given(R) == \A i \in 1 .. Len(R) : R[i].ans.is = "handle" => R[i].ans.v \in Handles

IInv ==
    /\ task \in [Tasks -> TaskRecs]
    /\ nextId \in Nat /\ nextId >= 10
    /\ Asks(sent, nextId)
    /\ IsServer(srv)
    /\ IsFs(fs)
    /\ InLine
    /\ Given(s2c)

LEMMA EmptyLine ==
    Line(<<>>, <<>>, <<>>, TRUE, <<>>, <<>>, <<>>)
  <1>1. <<>> \in Seq(Entry) /\ IsSeq(<<>>) /\ <<>> \in Seq(Nat) /\ Len(<<>>) = 0 /\ DOMAIN <<>> = {}
    <2>1. <<>> \in Seq(Nat) /\ <<>> \in Seq(Entry) /\ Len(<<>>) = 0 /\ DOMAIN <<>> = {}
      OBVIOUS
    <2> QED
      BY <2>1 DEF IsSeq
  <1>2. /\ Knows(<<>>, <<>>) /\ Distinct(<<>>) /\ AllReplied(<<>>, <<>>, <<>>) /\ CutOff(<<>>, Len(<<>>), <<>>)
        /\ Covered(<<>>, <<>>)
    BY <1>1 DEF Knows, Distinct, AllReplied, CutOff, Covered
  <1>3. Items(<<>>, 0) = <<>> /\ <<>> \o <<>> = <<>>
    BY <1>1 DEF Items
  <1>4. Stream(<<>>, <<>>, [i \in 0 .. 0 |-> 0])
    <2>1. Laid(<<>>, <<>>, [i \in 0 .. 0 |-> 0])
      BY <1>1 DEF Laid
    <2>2. <<>> \in Seq(Seq(Nat)) /\ \A i \in 1 .. Len(<<>>) : IsFrame(<<>>[i])
      OBVIOUS
    <2> QED
      BY <2>1, <2>2 DEF Stream
  <1>5. Buffered(<<>>, 0, <<>>, <<>>)
    BY <1>1, <1>3, <1>4 DEF Buffered
  <1>6. Len(<<>>) + Len(<<>>) = 0
    BY <1>1
  <1> QED
    BY <1>1, <1>2, <1>5, <1>6 DEF Line

LEMMA InitIInv ==
    Init => IInv
  <1> SUFFICES ASSUME Init PROVE IInv
    OBVIOUS
  <1>1. task \in [Tasks -> TaskRecs]
    <2>1. 0 \in u64 /\ NoMetadata \in Metadata
      BY InU32, NoMetadataIs
    <2>2. Idle \in TaskRecs
      BY <2>1 DEF Idle, TaskRecs
    <2> QED
      BY <2>2 DEF Init
  <1>2. nextId \in Nat /\ nextId >= 10
    BY DEF Init
  <1>3. Asks(sent, nextId)
    BY DEF Init, Asks
  <1>4. IsServer(srv)
    <2>1. srv \in [registered : BOOLEAN, buffer : Seq(Nat), packets : Seq({}),
                   negotiated : BOOLEAN, version : Nat, failed : BOOLEAN]
      BY DEF Init
    <2> QED
      BY <2>1 DEF IsServer
  <1>5. IsFs(fs)
    <2>1. PICK d \in Dirs : fs = [open |-> <<>>, files |-> [p \in Paths |-> Content], dir |-> d]
      BY DEF Init
    <2>2. <<>> \in [{} -> Slots] /\ DOMAIN <<>> = {}
      OBVIOUS
    <2>3. [p \in Paths |-> Content] \in [Paths -> Seq(Nat)]
      BY SftpServerAssumption
    <2>4. fs \in [open : [{} -> Slots], files : [Paths -> Seq(Nat)], dir : Dirs] /\ fs.open = <<>>
      BY <2>1, <2>2, <2>3
    <2> QED
      BY <2>2, <2>4 DEF IsFs
  <1>6. InLine
    <2>1. /\ sent = <<>> /\ c2s = <<>> /\ srv.registered = TRUE /\ srv.buffer = <<>> /\ srv.packets = <<>> /\ s2c = <<>>
      BY DEF Init
    <2> QED
      BY <2>1, EmptyLine DEF InLine
  <1>7. Given(s2c)
    BY DEF Init, Given
  <1> QED
    BY <1>1, <1>2, <1>3, <1>4, <1>5, <1>6, <1>7 DEF IInv

(* The packet at the head of the list: a foreign one, or a request.        *)
Head1(line, k) ==
    \/ /\ line[k].id = 0
       /\ Op \in {"unknown", "init"} \/ ~srv.packets[1].ok
    \/ /\ line[k].id # 0 /\ line[k].id \in DOMAIN sent /\ line[k].id = Id
       /\ Op = sent[Id].op /\ Args = sent[Id].args /\ srv.packets[1].ok = TRUE
       /\ Op \in SimpleOps \ Replies /\ Op # "unknown" /\ Op # "init"

LEMMA HeadPacket ==
    ASSUME IInv, NEW line, Line(line, sent, c2s, srv.registered, srv.buffer, srv.packets, s2c),
           srv.packets # <<>>
    PROVE  Head1(line, Len(s2c) + 1)
  <1> DEFINE P == srv.packets
             k == Len(s2c) + 1
             e == line[k]
  <1>1. Len(line) \in Nat /\ Len(s2c) \in Nat /\ Len(P) \in Nat /\ IsSeq(P) /\ Len(s2c) + Len(P) <= Len(line)
    BY LineTypes DEF Line
  <1>2. Len(P) # 0
    BY <1>1, SeqTail
  <1>3. k \in 1 .. Len(line) /\ 1 \in 1 .. Len(P)
    BY <1>1, <1>2
  <1> HIDE DEF P
  <1>4. Known(e, sent) /\ LenOf(e.bytes) \in 1 .. MaxPacket /\ P[1] = Parsed(Body(e.bytes), Requests)
    <2>1. Known(e, sent)
      BY <1>3 DEF Line, Knows
    <2>2. CutOff(line, Len(s2c), P)
      BY DEF Line, P
    <2> QED
      BY <1>3, <2>1, <2>2 DEF CutOff
  <1> HIDE DEF e, k
  <1>5. CASE e.id = 0 /\ Foreign(e.bytes)
    <2>1. P[1].op \in {"unknown", "init"} \/ ~P[1].ok
      BY <1>4, <1>5, ForeignFrame
    <2> QED
      BY <1>5, <2>1 DEF Head1, Op, P, e, k
  <1>6. CASE e.id \in DOMAIN sent /\ e.bytes = Bytes(e.id, sent[e.id])
    <2> DEFINE id == e.id
               q == sent[id]
    <2>1. id \in u32 /\ id # 0 /\ WellAsked(q)
      BY <1>6 DEF IInv, Asks
    <2> HIDE DEF id
    <2>2. Fields3(q.op, q.args)
      BY <2>1 DEF WellAsked
    <2>3. q.op \in SimpleOps \ Replies /\ q.op \in Requests /\ IsSeq(q.args)
      BY <2>1, <2>2, FieldsOfAsked
    <2>4. P[1] = [op |-> q.op, ok |-> TRUE, out |-> <<id>> \o q.args]
      BY <1>4, <1>6, <2>1, <2>2, BytesOfAsked DEF id
    <2>5. (<<id>> \o q.args)[1] = id /\ Tail(<<id>> \o q.args) = q.args
      BY <2>3, IdFirst
    <2>6. Op = q.op /\ Id = id /\ Args = q.args /\ srv.packets[1].ok = TRUE
      BY <2>4, <2>5 DEF Op, Id, Args, P
    <2>7. q.op # "unknown" /\ q.op # "init"
      BY <2>3 DEF SimpleOps
    <2> QED
      BY <1>6, <2>1, <2>3, <2>6, <2>7 DEF Head1, e, k, id
  <1> QED
    BY <1>4, <1>5, <1>6 DEF Known
(* A reply in line, as the client's read task sees it.                     *)
LEMMA ReplyInLine ==
    ASSUME IInv, NEW line, Line(line, sent, c2s, srv.registered, srv.buffer, srv.packets, s2c),
           NEW i \in 1 .. Len(s2c)
    PROVE  LET r == s2c[i]
               id == line[i].id
           IN  /\ id = 0 => ~IsReply(Received(r))
               /\ id # 0 => /\ id \in DOMAIN sent /\ IsReply(Received(r)) /\ Received(r).out[1] = id
                            /\ r.id = id /\ r.op = sent[id].op /\ r.args = sent[id].args
                            /\ Fit(r.op, r.ans) /\ Told(r.op, r.ans, Read(r))
                            /\ Result(sent[id].op, Received(r)) = Read(r)
  <1> DEFINE r == s2c[i]
             id == line[i].id
  <1>1. i \in 1 .. Len(line) /\ id \in Nat
    <2>1. Len(line) \in Nat /\ Len(s2c) \in Nat /\ Len(srv.packets) \in Nat /\ Len(s2c) + Len(srv.packets) <= Len(line)
      BY LineTypes DEF Line
    <2>2. i \in 1 .. Len(line)
      BY <2>1
    <2> QED
      BY <2>2, LineTypes
  <1>2. Known(line[i], sent) /\ Replied(id, sent, r) /\ 0 \notin DOMAIN sent
    BY <1>1 DEF Line, Knows, AllReplied
  <1> HIDE DEF r, id
  <1>3. CASE id = 0
    <2>1. CASE r.ans.is = "unknown"
      <3>1. Received(r).out[1] = 0
        BY <2>1, StrayUnknown
      <3> QED
        BY <1>2, <1>3, <3>1 DEF IsReply, r, id
    <2>2. CASE r.ans.is = "version" /\ r.ans.v \in Nat
      <3>1. Received(r).ok = FALSE
        BY <2>2, StrayVersion
      <3> QED
        BY <1>3, <3>1 DEF IsReply, r, id
    <2> QED
      BY <1>2, <1>3, <2>1, <2>2 DEF Replied
  <1>4. CASE id # 0
    <2>1. id \in DOMAIN sent
      BY <1>2, <1>4 DEF Known, id
    <2>2. r.id = id /\ r.op = sent[id].op /\ r.args = sent[id].args /\ Fit(r.op, r.ans) /\ r.id \in u32
      BY <1>1, <1>2, <1>4, <2>1 DEF Replied, IInv, Asks
    <2>3. Received(r).ok = TRUE /\ Received(r).out[1] = r.id /\ Told(r.op, r.ans, Read(r))
      BY <2>2, ReplyTold
    <2>4. IsReply(Received(r)) /\ Received(r).out[1] = id
      BY <2>1, <2>2, <2>3 DEF IsReply
    <2>5. Result(sent[id].op, Received(r)) = Read(r)
      BY <2>2 DEF Read
    <2> QED
      BY <1>4, <2>1, <2>2, <2>3, <2>4, <2>5 DEF r, id
  <1> QED
    BY <1>3, <1>4

-----------------------------------------------------------------------------
(* The steps of the server keep the invariant.                             *)

LEMMA ServerPops ==
    ASSUME NEW v, IsServer(v), v.packets # <<>>
    PROVE  /\ IsServer(Popped(v)) /\ Popped(v).registered = v.registered /\ Popped(v).buffer = v.buffer
           /\ Popped(v).packets = Tail(v.packets)
  <1>1. PICK T : v \in [registered : BOOLEAN, buffer : Seq(Nat), packets : Seq(T),
                        negotiated : BOOLEAN, version : Nat, failed : BOOLEAN]
    BY DEF IsServer
  <1>2. Tail(v.packets) \in Seq(T)
    BY <1>1
  <1>3. Popped(v) \in [registered : BOOLEAN, buffer : Seq(Nat), packets : Seq(T),
                       negotiated : BOOLEAN, version : Nat, failed : BOOLEAN]
    BY <1>1, <1>2 DEF Popped
  <1> QED
    BY <1>1, <1>3 DEF IsServer, Popped

LEMMA ServerLoses ==
    ASSUME NEW v, IsServer(v)
    PROVE  LET w == [v EXCEPT !.registered = FALSE, !.buffer = <<>>]
               x == Failed(v)
           IN  /\ IsServer(w) /\ w.registered = FALSE /\ w.buffer = <<>> /\ w.packets = v.packets
               /\ IsServer(x) /\ x.registered = FALSE /\ x.buffer = <<>> /\ x.packets = <<>>
  <1>1. PICK T : v \in [registered : BOOLEAN, buffer : Seq(Nat), packets : Seq(T),
                        negotiated : BOOLEAN, version : Nat, failed : BOOLEAN]
    BY DEF IsServer
  <1> DEFINE w == [v EXCEPT !.registered = FALSE, !.buffer = <<>>]
             x == Failed(v)
  <1>2. <<>> \in Seq(Nat) /\ <<>> \in Seq(T) /\ FALSE \in BOOLEAN /\ TRUE \in BOOLEAN
    OBVIOUS
  <1>3. w \in [registered : BOOLEAN, buffer : Seq(Nat), packets : Seq(T),
               negotiated : BOOLEAN, version : Nat, failed : BOOLEAN]
    BY <1>1, <1>2
  <1>4. x \in [registered : BOOLEAN, buffer : Seq(Nat), packets : Seq(T),
               negotiated : BOOLEAN, version : Nat, failed : BOOLEAN]
    BY <1>1, <1>2 DEF Failed
  <1>5. /\ w.registered = FALSE /\ w.buffer = <<>> /\ w.packets = v.packets
        /\ x.registered = FALSE /\ x.buffer = <<>> /\ x.packets = <<>>
    BY <1>1 DEF Failed
  <1> HIDE DEF w, x
  <1>6. IsServer(w) /\ IsServer(x)
    BY <1>3, <1>4 DEF IsServer
  <1> QED
    BY <1>5, <1>6 DEF w, x

(* The runtime has a reply r, which it writes or fails to.                 *)
LEMMA LineMoves ==
    ASSUME NEW line, NEW S, NEW C \in Seq(Nat), NEW v, IsServer(v), v.packets # <<>>, NEW R, NEW r,
           Line(line, S, C, v.registered, v.buffer, v.packets, R), Replied(line[Len(R) + 1].id, S, r),
           NEW w \in {Popped(v), Failed(v)}
    PROVE  IsServer(w) /\ \E l2 : Line(l2, S, C, w.registered, w.buffer, w.packets, Append(R, r))
  <1>1. Line(line, S, C, v.registered, v.buffer, Tail(v.packets), Append(R, r))
    BY LineAnswers
  <1>2. CASE w = Popped(v)
    <2>1. IsServer(w) /\ w.registered = v.registered /\ w.buffer = v.buffer /\ w.packets = Tail(v.packets)
      BY <1>2, ServerPops
    <2> QED
      BY <1>1, <2>1
  <1>3. CASE w = Failed(v)
    <2>1. IsServer(w) /\ w.registered = FALSE /\ w.buffer = <<>> /\ w.packets = <<>>
      BY <1>3, ServerLoses
    <2>2. \E l2 : Line(l2, S, C, FALSE, <<>>, <<>>, Append(R, r))
      BY <1>1, LineLost
    <2> QED
      BY <2>1, <2>2
  <1> QED
    BY <1>2, <1>3

(* The handler's answer to the request at the head of the list is written. *)
Serves(id, ans) ==
    /\ srv.packets # <<>> /\ srv.packets[1].ok
    /\ id \in DOMAIN sent /\ Fit(sent[id].op, ans) /\ (ans.is = "handle" => ans.v \in Handles)
    /\ \A i \in 1 .. Len(s2c) : s2c[i].id # id
    /\ s2c' = Append(s2c, [op |-> sent[id].op, id |-> id, args |-> sent[id].args, ans |-> ans])
    /\ UNCHANGED <<task, sent, nextId, c2s>>

LEMMA HeadServes ==
    ASSUME IInv, NEW op \in Requests \ {"init"}, Asked(op), NEW ans, Written(Op, Id, Args, ans),
           Fit(Op, ans), ans.is = "handle" => ans.v \in Handles
    PROVE  Serves(Id, ans) /\ Op = op /\ Op = sent[Id].op /\ Args = sent[Id].args
  <1>1. PICK line : Line(line, sent, c2s, srv.registered, srv.buffer, srv.packets, s2c)
    BY DEF IInv, InLine
  <1>2. srv.packets # <<>> /\ Op = op /\ srv.packets[1].ok
    BY DEF Asked
  <1> DEFINE k == Len(s2c) + 1
  <1>3. Head1(line, k)
    BY <1>1, <1>2, HeadPacket
  <1>4. op # "unknown" /\ op # "init"
    <2>1. "unknown" \notin Ops
      BY DEF Ops, FXP
    <2> QED
      BY <2>1, TypeBytes
  <1>5. /\ line[k].id # 0 /\ line[k].id \in DOMAIN sent /\ line[k].id = Id
        /\ Op = sent[Id].op /\ Args = sent[Id].args
    BY <1>2, <1>3, <1>4 DEF Head1
  <1>6. \A i \in 1 .. Len(s2c) : s2c[i].id # Id
    <2> SUFFICES ASSUME NEW i \in 1 .. Len(s2c), s2c[i].id = Id PROVE FALSE
      OBVIOUS
    <2>1. Len(line) \in Nat /\ Len(s2c) \in Nat /\ Len(srv.packets) \in Nat /\ Len(s2c) + Len(srv.packets) <= Len(line) /\ IsSeq(srv.packets)
      BY <1>1, LineTypes DEF Line
    <2>2. Len(srv.packets) # 0
      BY <1>2, <2>1, SeqTail
    <2>3. i \in 1 .. Len(line) /\ k \in 1 .. Len(line) /\ i # k
      BY <2>1, <2>2
    <2>4. line[i].id # 0 => s2c[i].id = line[i].id
      BY <1>1 DEF Line, AllReplied, Replied
    <2>5. line[i].id # line[k].id
      BY <1>1, <1>5, <2>3 DEF Line, Distinct
    <2>6. line[i].id = 0
      BY <1>5, <2>4, <2>5
    <2>7. s2c[i].id = 0
      BY <1>1, <2>6 DEF Line, AllReplied, Replied
    <2> QED
      BY <1>5, <2>7
  <1> QED
    BY <1>2, <1>5, <1>6 DEF Serves, Written
LEMMA ServeKeeps ==
    ASSUME IInv, NEW id, NEW ans, Serves(id, ans), id = Id, sent[id].op = Op, Op # "unknown", Op # "init",
           srv' \in {Popped(srv), Failed(srv)}, IsFs(fs')
    PROVE  IInv'
  <1> DEFINE r == [op |-> sent[id].op, id |-> id, args |-> sent[id].args, ans |-> ans]
  <1>1. PICK line : Line(line, sent, c2s, srv.registered, srv.buffer, srv.packets, s2c)
    BY DEF IInv, InLine
  <1>2. srv.packets # <<>> /\ srv.packets[1].ok
    BY DEF Serves
  <1>3. Head1(line, Len(s2c) + 1)
    BY <1>1, <1>2, HeadPacket
  <1>4. line[Len(s2c) + 1].id = id /\ id # 0
    BY <1>2, <1>3 DEF Head1
  <1>5. Replied(line[Len(s2c) + 1].id, sent, r)
    BY <1>4 DEF Replied, Serves
  <1>6. IsServer(srv) /\ c2s \in Seq(Nat)
    BY <1>1 DEF IInv, Line
  <1>7. IsServer(srv') /\ \E l2 : Line(l2, sent, c2s, srv'.registered, srv'.buffer, srv'.packets, Append(s2c, r))
    <2> HIDE DEF r
    <2> QED
      BY <1>1, <1>2, <1>5, <1>6, LineMoves
  <1>8. s2c' = Append(s2c, r) /\ UNCHANGED <<task, sent, nextId, c2s>>
    BY DEF Serves
  <1>9. IsSeq(s2c) /\ Len(s2c) \in Nat
    BY <1>1, LineTypes DEF Line
  <1>10. /\ Len(s2c') = Len(s2c) + 1 /\ \A i \in 1 .. Len(s2c) : s2c'[i] = s2c[i]
         /\ s2c'[Len(s2c) + 1] = r
    <2>1. PICK T : s2c \in Seq(T)
      BY <1>9 DEF IsSeq
    <2> QED
      BY <1>8, <2>1
  <1>11. r.ans = ans /\ (ans.is = "handle" => ans.v \in Handles)
    BY DEF Serves
  <1> HIDE DEF r
  <1>12. Given(s2c')
    <2> SUFFICES ASSUME NEW i \in 1 .. Len(s2c'), s2c'[i].ans.is = "handle" PROVE s2c'[i].ans.v \in Handles
      BY DEF Given
    <2>1. i = Len(s2c) + 1 \/ i \in 1 .. Len(s2c)
      BY <1>9, <1>10
    <2> QED
      BY <1>10, <1>11, <2>1 DEF IInv, Given
  <1>13. InLine'
    BY <1>7, <1>8 DEF InLine
  <1> QED
    BY <1>7, <1>8, <1>12, <1>13 DEF IInv

(* The answers the handler gives.                                          *)
LEMMA BadFits ==
    ASSUME NEW op \in SimpleOps \ Replies
    PROVE  Fit(op, BadHandle) /\ BadHandle.is = "err"
  BY DEF Fit, BadHandle, ErrorKinds

LEMMA FsParts ==
    ASSUME NEW f, IsFs(f)
    PROVE  /\ DOMAIN f.open \subseteq Handles /\ f.files \in [Paths -> Seq(Nat)] /\ f.dir \in Dirs
           /\ f.dir \in Seq(DirEntries) /\ Len(f.dir) \in Nat /\ Len(f.dir) <= MaxNames
           /\ f.open = [h \in DOMAIN f.open |-> f.open[h]]
           /\ \A h \in DOMAIN f.open : f.open[h] \in Slots /\ f.open[h].path \in Paths
                                         /\ f.open[h].at \in Nat /\ f.open[h].at <= Len(f.dir)
  <1>1. PICK H \in SUBSET Handles : f \in [open : [H -> Slots], files : [Paths -> Seq(Nat)], dir : Dirs]
    BY DEF IsFs
  <1>2. f.dir \in Dirs /\ f.files \in [Paths -> Seq(Nat)] /\ f.open \in [H -> Slots]
    BY <1>1
  <1>3. f.dir \in Seq(DirEntries) /\ Len(f.dir) <= MaxNames
    BY <1>2, SftpServerAssumption, Zenon
  <1>4. Len(f.dir) \in Nat
    BY <1>3, LenProperties, Zenon
  <1>5. ASSUME NEW h \in DOMAIN f.open
        PROVE  /\ f.open[h] \in Slots /\ f.open[h].path \in Paths
               /\ f.open[h].at \in Nat /\ f.open[h].at <= Len(f.dir)
    <2>1. f.open[h] \in Slots
      BY <1>2
    <2>2. f.open[h].path \in Paths /\ f.open[h].at \in Nat
      BY <2>1 DEF Slots
    <2>3. f.open[h].at <= Len(f.dir)
      BY Zenon DEF IsFs
    <2> QED
      BY <2>1, <2>2, <2>3, Zenon
  <1>6. DOMAIN f.open = H /\ f.open = [h \in DOMAIN f.open |-> f.open[h]]
    BY <1>2
  <1> QED
    BY <1>2, <1>3, <1>4, <1>5, <1>6, Zenon

(* The file system with other handles or other files.                      *)
LEMMA FsOpen ==
    ASSUME NEW f, IsFs(f), NEW o, DOMAIN o \subseteq Handles, o = [h \in DOMAIN o |-> o[h]],
           \A h \in DOMAIN o : o[h] \in Slots /\ o[h].at <= Len(f.dir)
    PROVE  LET g == [f EXCEPT !.open = o]
           IN  IsFs(g) /\ g.open = o /\ g.files = f.files /\ g.dir = f.dir
  <1>1. PICK H \in SUBSET Handles : f \in [open : [H -> Slots], files : [Paths -> Seq(Nat)], dir : Dirs]
    BY DEF IsFs
  <1> DEFINE g == [f EXCEPT !.open = o]
             K == DOMAIN o
  <1>2. o \in [K -> Slots]
    OBVIOUS
  <1>3. g \in [open : [K -> Slots], files : [Paths -> Seq(Nat)], dir : Dirs]
    BY <1>1, <1>2
  <1>4. g.open = o /\ g.files = f.files /\ g.dir = f.dir
    BY <1>1
  <1> HIDE DEF g
  <1>5. IsFs(g)
    BY <1>3, <1>4 DEF IsFs
  <1> QED
    BY <1>4, <1>5 DEF g

LEMMA FsFiles ==
    ASSUME NEW f, IsFs(f), NEW p \in Paths, NEW c \in Seq(Nat)
    PROVE  LET g == [f EXCEPT !.files[p] = c]
           IN  /\ IsFs(g) /\ g.open = f.open /\ g.dir = f.dir /\ g.files[p] = c
               /\ \A x \in Paths : x # p => g.files[x] = f.files[x]
  <1>1. PICK H \in SUBSET Handles : f \in [open : [H -> Slots], files : [Paths -> Seq(Nat)], dir : Dirs]
    BY DEF IsFs
  <1> DEFINE g == [f EXCEPT !.files[p] = c]
  <1>2. g \in [open : [H -> Slots], files : [Paths -> Seq(Nat)], dir : Dirs]
    BY <1>1
  <1>3. /\ g.open = f.open /\ g.dir = f.dir /\ g.files[p] = c
        /\ \A x \in Paths : x # p => g.files[x] = f.files[x]
    BY <1>1
  <1> HIDE DEF g
  <1>4. \A h \in DOMAIN g.open : g.open[h].at <= Len(g.dir)
    BY <1>3 DEF IsFs
  <1>5. IsFs(g)
    BY <1>2, <1>4 DEF IsFs
  <1> QED
    BY <1>3, <1>5 DEF g

LEMMA NamedRequests ==
    /\ {"open", "opendir", "close", "read", "write", "readdir", "stat", "lstat", "fstat", "realpath", "readlink",
        "remove", "rename", "mkdir", "rmdir", "setstat", "fsetstat", "symlink"} \subseteq Requests \ {"init"}
    /\ {"open", "opendir", "close", "read", "write", "readdir", "stat", "lstat", "fstat", "realpath", "readlink",
        "remove", "rename", "mkdir", "rmdir", "setstat", "fsetstat", "symlink"} \subseteq SimpleOps \ Replies
  BY DEF Requests, DecodeLayout, SimpleOps, Replies

(* The request at the head of the list is one in flight, as it was made.   *)
LEMMA AskedIs ==
    ASSUME IInv, NEW op \in Requests \ {"init"}, Asked(op)
    PROVE  /\ Op = op /\ Id \in DOMAIN sent /\ sent[Id].op = op /\ Args = sent[Id].args
           /\ WellAsked(sent[Id]) /\ op \in SimpleOps \ Replies /\ Id \in Nat /\ srv.packets # <<>>
  <1>1. PICK line : Line(line, sent, c2s, srv.registered, srv.buffer, srv.packets, s2c)
    BY DEF IInv, InLine
  <1>2. srv.packets # <<>> /\ Op = op /\ srv.packets[1].ok
    BY DEF Asked
  <1>3. Head1(line, Len(s2c) + 1)
    BY <1>1, <1>2, HeadPacket
  <1>4. op # "unknown" /\ op # "init"
    <2>1. "unknown" \notin Ops
      BY DEF Ops, FXP
    <2> QED
      BY <2>1, TypeBytes
  <1>5. Id \in DOMAIN sent /\ Op = sent[Id].op /\ Args = sent[Id].args
    BY <1>2, <1>3, <1>4 DEF Head1
  <1>6. WellAsked(sent[Id]) /\ Id \in Nat /\ Id \in u32
    BY <1>5 DEF IInv, Asks
  <1>7. op \in SimpleOps \ Replies
    <2>1. Fields3(sent[Id].op, sent[Id].args)
      BY <1>6 DEF WellAsked
    <2>2. sent[Id].op \in SimpleOps \ Replies
      BY <1>6, <2>1, FieldsOfAsked
    <2> QED
      BY <1>2, <1>5, <2>2
  <1> QED
    BY <1>2, <1>5, <1>6, <1>7

LEMMA AnswerKeeps ==
    ASSUME IInv, NEW op \in Requests \ {"init"}, Asked(op), NEW ans, Written(Op, Id, Args, ans),
           srv' \in {Popped(srv), Failed(srv)}, IsFs(fs'),
           Fit(op, ans), ans.is = "handle" => ans.v \in Handles
    PROVE  IInv'
  <1>1. Op = op /\ sent[Id].op = op /\ op \in SimpleOps \ Replies
    BY AskedIs
  <1>2. Fit(Op, ans)
    BY <1>1
  <1>3. Serves(Id, ans)
    BY <1>2, HeadServes
  <1>4. Op # "unknown" /\ Op # "init"
    BY <1>1 DEF SimpleOps
  <1> QED
    BY <1>1, <1>3, <1>4, ServeKeeps

(* The first field of a request, and the others of a read or a write.      *)
LEMMA FirstField ==
    ASSUME NEW q, WellAsked(q)
    PROVE  /\ q.args[1] \in Texts
           /\ q.op \in {"open", "opendir"} => q.args[1] \in Paths
           /\ q.op = "read" => q.args[2] \in u64 /\ q.args[2] \in Nat /\ q.args[3] = ChunkSize
           /\ q.op = "write" => q.args[2] \in u64 /\ q.args[2] \in Nat /\ q.args[3] \in Seq(Nat)
  <1>1. q.args[1] \in Texts
    <2>1. CASE \E h \in Texts : q.args = <<h>>
      BY <2>1, ThreeSeq
    <2>2. CASE \E h \in Texts, a \in Blocks : q.args = <<h, a>>
      BY <2>2, TupleSeq
    <2>3. CASE \E h, g \in Texts : q.args = <<h, g>>
      BY <2>3, TupleSeq
    <2>4. CASE \E h \in Texts, m \in u32, a \in Blocks : q.args = <<h, m, a>>
      BY <2>4, ThreeSeq
    <2>5. CASE \E h \in Texts, n \in u64 : q.args = <<h, n, ChunkSize>>
      BY <2>5, ThreeSeq
    <2>6. CASE \E h \in Texts, n \in u64, d \in Datas : q.args = <<h, n, d>>
      BY <2>6, ThreeSeq
    <2> QED
      BY <2>1, <2>2, <2>3, <2>4, <2>5, <2>6, Zenon DEF WellAsked, Fields3
  <1>2. ASSUME q.op = "read" PROVE q.args[2] \in u64 /\ q.args[2] \in Nat /\ q.args[3] = ChunkSize
    <2>1. \E h \in Texts, n \in u64 : q.args = <<h, n, ChunkSize>>
      BY <1>2 DEF WellAsked, Fields3, OneText
    <2> QED
      BY <2>1, ThreeSeq, Widths
  <1>3. ASSUME q.op = "write" PROVE q.args[2] \in u64 /\ q.args[2] \in Nat /\ q.args[3] \in Seq(Nat)
    <2>1. \E h \in Texts, n \in u64, d \in Datas : q.args = <<h, n, d>>
      BY <1>3 DEF WellAsked, Fields3, OneText
    <2> QED
      BY <2>1, ThreeSeq, Widths DEF Datas
  <1> QED
    BY <1>1, <1>2, <1>3 DEF WellAsked

LEMMA OpenedFs ==
    ASSUME IsFs(fs), NEW h \in Handles, NEW p \in Paths
    PROVE  /\ IsFs(Opened(h, p)) /\ Opened(h, p).files = fs.files /\ Opened(h, p).dir = fs.dir
           /\ Opened(h, p).open = With(fs.open, h, [path |-> p, at |-> 0])
  <1> DEFINE slot == [path |-> p, at |-> 0]
             o == With(fs.open, h, slot)
  <1>1. /\ DOMAIN fs.open \subseteq Handles /\ Len(fs.dir) \in Nat
        /\ \A x \in DOMAIN fs.open : fs.open[x] \in Slots /\ fs.open[x].at <= Len(fs.dir)
    BY FsParts
  <1>2. slot \in Slots /\ slot.at <= Len(fs.dir)
    BY <1>1 DEF Slots
  <1> HIDE DEF slot
  <1>3. /\ DOMAIN o = DOMAIN fs.open \cup {h} /\ o[h] = slot
        /\ \A y \in DOMAIN fs.open : y # h => o[y] = fs.open[y]
    BY DEF With
  <1>4. o = [y \in DOMAIN o |-> o[y]]
    BY DEF With
  <1> HIDE DEF o
  <1>5. \A y \in DOMAIN o : o[y] \in Slots /\ o[y].at <= Len(fs.dir)
    BY <1>1, <1>2, <1>3
  <1>6. DOMAIN o \subseteq Handles
    BY <1>1, <1>3
  <1> QED
    BY <1>4, <1>5, <1>6, FsOpen DEF Opened, o, slot

LEMMA ClosedFs ==
    ASSUME IsFs(fs), NEW h
    PROVE  LET g == [fs EXCEPT !.open = Without(fs.open, h)]
           IN  IsFs(g) /\ g.files = fs.files /\ g.dir = fs.dir /\ g.open = Without(fs.open, h)
  <1> DEFINE o == Without(fs.open, h)
  <1>1. /\ DOMAIN fs.open \subseteq Handles /\ Len(fs.dir) \in Nat
        /\ \A x \in DOMAIN fs.open : fs.open[x] \in Slots /\ fs.open[x].at <= Len(fs.dir)
    BY FsParts
  <1>3. /\ DOMAIN o = DOMAIN fs.open \ {h}
        /\ \A y \in DOMAIN fs.open \ {h} : o[y] = fs.open[y]
    BY WithoutIs
  <1>4. o = [y \in DOMAIN o |-> o[y]]
    BY DEF Without
  <1> HIDE DEF o
  <1>5. \A y \in DOMAIN o : o[y] \in Slots /\ o[y].at <= Len(fs.dir)
    BY <1>1, <1>3
  <1>6. DOMAIN o \subseteq Handles
    BY <1>1, <1>3
  <1> QED
    BY <1>4, <1>5, <1>6, FsOpen DEF o

LEMMA OpenKeeps ==
    ASSUME IInv, HandleOpen \/ HandleOpendir
    PROVE  IInv'
  <1> USE NamedRequests
  <1>1. PICK op \in {"open", "opendir"} : Asked(op)
    BY DEF HandleOpen, HandleOpendir
  <1>2. Op = op /\ Args = sent[Id].args /\ sent[Id].op = op /\ WellAsked(sent[Id])
    BY <1>1, AskedIs
  <1>3. Args[1] \in Paths /\ IsFs(fs)
    BY <1>2, FirstField DEF IInv
  <1>4. CASE Answer(BadHandle, fs)
    <2>1. Fit(op, BadHandle) /\ BadHandle.is = "err"
      BY BadFits
    <2> QED
      BY <1>1, <1>3, <1>4, <2>1, AnswerKeeps DEF Answer, NextPacket
  <1>5. ASSUME NEW h \in Handles, NEW f2, Answer([is |-> "handle", v |-> h], f2), IsFs(f2)
        PROVE  IInv'
    <2>1. Fit(op, [is |-> "handle", v |-> h])
      BY SftpServerAssumption DEF Fit
    <2> DEFINE ans == [is |-> "handle", v |-> h]
    <2>2. ans.is = "handle" => ans.v \in Handles
      OBVIOUS
    <2>3. /\ Written(Op, Id, Args, ans) /\ srv' \in {Popped(srv), Failed(srv)} /\ IsFs(fs') /\ Fit(op, ans)
      BY <1>5, <2>1 DEF Answer, NextPacket
    <2> HIDE DEF ans
    <2> QED
      BY <1>1, <2>2, <2>3, AnswerKeeps
  <1>6. ASSUME NEW h \in Handles
        PROVE  /\ IsFs(Opened(h, Args[1]))
               /\ IsFs([Opened(h, Args[1]) EXCEPT !.files[Args[1]] = <<>>])
    <2>1. IsFs(Opened(h, Args[1]))
      BY <1>3, OpenedFs
    <2>2. <<>> \in Seq(Nat)
      OBVIOUS
    <2> QED
      BY <1>3, <2>1, <2>2, FsFiles
  <1>7. CASE HandleOpen
    <2>1. CASE \E h \in Handles \ DOMAIN fs.open :
              Answer([is |-> "handle", v |-> h],
                     IF Args[2] = WriteMode THEN [Opened(h, Args[1]) EXCEPT !.files[Args[1]] = <<>>]
                                            ELSE Opened(h, Args[1]))
      <3>1. PICK h \in Handles : 
              Answer([is |-> "handle", v |-> h],
                     IF Args[2] = WriteMode THEN [Opened(h, Args[1]) EXCEPT !.files[Args[1]] = <<>>]
                                            ELSE Opened(h, Args[1]))
        BY <2>1
      <3> DEFINE f2 == IF Args[2] = WriteMode THEN [Opened(h, Args[1]) EXCEPT !.files[Args[1]] = <<>>]
                                              ELSE Opened(h, Args[1])
      <3>2. IsFs(f2)
        BY <1>6
      <3>3. Answer([is |-> "handle", v |-> h], f2)
        BY <3>1
      <3> HIDE DEF f2
      <3> QED
        BY <1>5, <3>2, <3>3
    <2> QED
      BY <1>4, <1>7, <2>1 DEF HandleOpen
  <1>8. CASE HandleOpendir
    <2>1. CASE \E h \in Handles \ DOMAIN fs.open : Answer([is |-> "handle", v |-> h], Opened(h, Args[1]))
      BY <1>5, <1>6, <2>1
    <2> QED
      BY <1>4, <1>8, <2>1 DEF HandleOpendir
  <1> QED
    BY <1>7, <1>8

LEMMA CloseKeeps ==
    ASSUME IInv, HandleClose
    PROVE  IInv'
  <1> USE NamedRequests
  <1>1. Asked("close") /\ IsFs(fs)
    BY DEF HandleClose, IInv
  <1>2. CASE Answer(BadHandle, fs)
    <2>1. Fit("close", BadHandle) /\ BadHandle.is = "err"
      BY BadFits
    <2> QED
      BY <1>1, <1>2, <2>1, AnswerKeeps DEF Answer, NextPacket
  <1>3. CASE Answer(Done, [fs EXCEPT !.open = Without(fs.open, Args[1])])
    <2>1. Fit("close", Done) /\ Done.is = "ok"
      BY DEF Fit, Done, StatusOps
    <2>2. IsFs([fs EXCEPT !.open = Without(fs.open, Args[1])])
      BY <1>1, ClosedFs
    <2> QED
      BY <1>1, <1>3, <2>1, <2>2, AnswerKeeps DEF Answer, NextPacket
  <1> QED
    BY <1>2, <1>3 DEF HandleClose

LEMMA ReadKeeps ==
    ASSUME IInv, HandleRead
    PROVE  IInv'
  <1> USE NamedRequests
  <1>1. Asked("read") /\ IsFs(fs)
    BY DEF HandleRead, IInv
  <1>2. CASE Answer(BadHandle, fs)
    <2>1. Fit("read", BadHandle) /\ BadHandle.is = "err"
      BY BadFits
    <2> QED
      BY <1>1, <1>2, <2>1, AnswerKeeps DEF Answer, NextPacket
  <1>3. ASSUME NEW d \in Seq(Nat), Len(d) <= MaxPacket, Answer([is |-> "data", v |-> d], fs)
        PROVE  IInv'
    <2> DEFINE ans == [is |-> "data", v |-> d]
    <2>1. Fit("read", ans) /\ ans.is # "handle"
      BY <1>3 DEF Fit
    <2>2. /\ Written(Op, Id, Args, ans) /\ srv' \in {Popped(srv), Failed(srv)} /\ IsFs(fs')
      BY <1>1, <1>3 DEF Answer, NextPacket
    <2> HIDE DEF ans
    <2> QED
      BY <1>1, <2>1, <2>2, AnswerKeeps
  <1>4. MaxPacket \in Nat /\ ChunkSize \in Nat /\ ChunkSize <= MaxPacket
    BY SftpServerAssumption, WidthAssumption
  <1>5. CASE Answer([is |-> "data", v |-> <<>>], fs)
    <2>1. <<>> \in Seq(Nat) /\ Len(<<>>) <= MaxPacket
      BY <1>4
    <2> QED
      BY <1>3, <1>5, <2>1
  <1>6. CASE IsOpen(Args[1]) /\ \E n \in 1 .. AtMost(Args[3], Len(fs.files[fs.open[Args[1]].path]) - Args[2]) :
                Answer([is |-> "data", v |-> SubSeq(fs.files[fs.open[Args[1]].path], Args[2] + 1, Args[2] + n)], fs)
    <2> DEFINE c == fs.files[fs.open[Args[1]].path]
               off == Args[2]
    <2>1. PICK n \in 1 .. AtMost(Args[3], Len(c) - off) :
             Answer([is |-> "data", v |-> SubSeq(c, off + 1, off + n)], fs)
      BY <1>6
    <2>2. Args[3] = ChunkSize /\ off \in Nat
      <3>1. Args = sent[Id].args /\ sent[Id].op = "read" /\ WellAsked(sent[Id])
        BY <1>1, AskedIs
      <3> QED
        BY <3>1, FirstField
    <2>3. c \in Seq(Nat)
      <3>1. fs.open[Args[1]].path \in Paths /\ fs.files \in [Paths -> Seq(Nat)]
        BY <1>1, <1>6, FsParts DEF IsOpen
      <3> QED
        BY <3>1
    <2> HIDE DEF c, off
    <2>4. Len(c) \in Nat
      BY <2>3
    <2>5. n \in Nat /\ n >= 1 /\ n <= ChunkSize /\ off + n <= Len(c)
      <3>1. AtMost(ChunkSize, Len(c) - off) \in Int /\ AtMost(ChunkSize, Len(c) - off) <= ChunkSize
              /\ AtMost(ChunkSize, Len(c) - off) <= Len(c) - off
        BY <1>4, <2>2, <2>4 DEF AtMost
      <3> QED
        BY <1>4, <2>1, <2>2, <2>4, <3>1
    <2>6. SubSeq(c, off + 1, off + n) \in Seq(Nat) /\ Len(SubSeq(c, off + 1, off + n)) = n
      BY <2>2, <2>3, <2>4, <2>5, SubBytes
    <2>7. n <= MaxPacket
      BY <1>4, <2>5
    <2> QED
      BY <1>3, <2>1, <2>6, <2>7
  <1> QED
    BY <1>1, <1>2, <1>5, <1>6 DEF HandleRead

LEMMA SplicedType ==
    ASSUME NEW c \in Seq(Nat), NEW off \in Nat, NEW d \in Seq(Nat)
    PROVE  Spliced(c, off, d) \in Seq(Nat)
  <1> DEFINE n == IF Len(c) > off + Len(d) THEN Len(c) ELSE off + Len(d)
  <1>1. n \in Nat /\ Len(c) \in Nat /\ Len(d) \in Nat
    OBVIOUS
  <1>2. ASSUME NEW i \in 1 .. n
        PROVE  (IF i > off /\ i <= off + Len(d) THEN d[i - off] ELSE IF i <= Len(c) THEN c[i] ELSE 0) \in Nat
    <2>1. i \in Nat /\ i >= 1
      BY <1>1
    <2>2. CASE i > off /\ i <= off + Len(d)
      <3>1. i - off \in 1 .. Len(d)
        BY <1>1, <2>1, <2>2
      <3> QED
        BY <2>2, <3>1, ElementOfSeq
    <2>3. CASE ~(i > off /\ i <= off + Len(d)) /\ i <= Len(c)
      <3>1. i \in 1 .. Len(c)
        BY <1>1, <2>1, <2>3
      <3> QED
        BY <2>3, <3>1, ElementOfSeq
    <2> QED
      BY <2>2, <2>3
  <1> HIDE DEF n
  <1>3. [i \in 1 .. n |-> IF i > off /\ i <= off + Len(d) THEN d[i - off] ELSE IF i <= Len(c) THEN c[i] ELSE 0] \in Seq(Nat)
    BY <1>1, <1>2, IsASeq
  <1> QED
    BY <1>3 DEF Spliced, n

LEMMA WriteKeeps ==
    ASSUME IInv, HandleWrite
    PROVE  IInv'
  <1> USE NamedRequests
  <1>1. Asked("write") /\ IsFs(fs)
    BY DEF HandleWrite, IInv
  <1>2. CASE Answer(BadHandle, fs)
    <2>1. Fit("write", BadHandle) /\ BadHandle.is = "err"
      BY BadFits
    <2> QED
      BY <1>1, <1>2, <2>1, AnswerKeeps DEF Answer, NextPacket
  <1>3. CASE IsOpen(Args[1]) /\ Answer(Done, [fs EXCEPT !.files[fs.open[Args[1]].path] = Spliced(@, Args[2], Args[3])])
    <2>1. Fit("write", Done) /\ Done.is = "ok"
      BY DEF Fit, Done, StatusOps
    <2>2. Args = sent[Id].args /\ sent[Id].op = "write" /\ WellAsked(sent[Id])
      BY <1>1, AskedIs
    <2>3. Args[2] \in Nat /\ Args[3] \in Seq(Nat)
      BY <2>2, FirstField
    <2> DEFINE p == fs.open[Args[1]].path
    <2>4. p \in Paths /\ fs.files \in [Paths -> Seq(Nat)]
      BY <1>1, <1>3, FsParts DEF IsOpen
    <2> HIDE DEF p
    <2>5. Spliced(fs.files[p], Args[2], Args[3]) \in Seq(Nat)
      BY <2>3, <2>4, SplicedType
    <2>6. IsFs([fs EXCEPT !.files[p] = Spliced(fs.files[p], Args[2], Args[3])])
      BY <1>1, <2>4, <2>5, FsFiles
    <2>7. fs' = [fs EXCEPT !.files[p] = Spliced(@, Args[2], Args[3])]
      BY <1>3 DEF Answer, p
    <2>8. [fs EXCEPT !.files[p] = Spliced(@, Args[2], Args[3])] = [fs EXCEPT !.files[p] = Spliced(fs.files[p], Args[2], Args[3])]
      OBVIOUS
    <2>9. IsFs(fs')
      BY <2>6, <2>7, <2>8
    <2> QED
      BY <1>1, <1>3, <2>1, <2>9, AnswerKeeps DEF Answer, NextPacket
  <1> QED
    BY <1>2, <1>3 DEF HandleWrite

(* The handle's place in the listing moves.                                *)
MovedTo(f, h, n) == [f EXCEPT !.open[h].at = n]

LEMMA MovedFs ==
    ASSUME NEW f, IsFs(f), NEW h \in DOMAIN f.open, NEW n \in Nat, n <= Len(f.dir),
           NEW g, g = MovedTo(f, h, n)
    PROVE  /\ IsFs(g) /\ g.files = f.files /\ g.dir = f.dir /\ DOMAIN g.open = DOMAIN f.open
           /\ g.open[h] = [path |-> f.open[h].path, at |-> n]
           /\ \A y \in DOMAIN f.open : y # h => g.open[y] = f.open[y]
  <1>1. PICK H \in SUBSET Handles : f \in [open : [H -> Slots], files : [Paths -> Seq(Nat)], dir : Dirs]
    BY DEF IsFs
  <1>2. f.open \in [H -> Slots] /\ DOMAIN f.open = H
    BY <1>1
  <1> DEFINE s == [path |-> f.open[h].path, at |-> n]
             o == [f.open EXCEPT ![h] = s]
  <1>3. [f.open[h] EXCEPT !.at = n] = s /\ s \in Slots /\ s.at = n
    BY <1>2 DEF Slots
  <1>4. g = [f EXCEPT !.open = o]
    BY <1>3 DEF MovedTo
  <1> HIDE DEF s
  <1>5. o \in [H -> Slots] /\ o[h] = s /\ \A y \in DOMAIN f.open : y # h => o[y] = f.open[y]
    BY <1>2, <1>3
  <1> HIDE DEF o
  <1>6. \A y \in DOMAIN o : o[y] \in Slots /\ o[y].at <= Len(f.dir)
    <2>1. \A y \in DOMAIN f.open : f.open[y].at <= Len(f.dir)
      BY DEF IsFs
    <2> QED
      BY <1>2, <1>3, <1>5, <2>1
  <1>7. o = [y \in DOMAIN o |-> o[y]] /\ DOMAIN o \subseteq Handles /\ DOMAIN o = DOMAIN f.open
    BY <1>2, <1>5
  <1>8. IsFs([f EXCEPT !.open = o]) /\ [f EXCEPT !.open = o].open = o
          /\ [f EXCEPT !.open = o].files = f.files /\ [f EXCEPT !.open = o].dir = f.dir
    BY <1>6, <1>7, FsOpen
  <1>9. IsFs(g) /\ g.open = o /\ g.files = f.files /\ g.dir = f.dir
    BY <1>4, <1>8
  <1> QED
    BY <1>5, <1>7, <1>9 DEF s

(* A part of the directory from its place on.                              *)
LEMMA BatchFits ==
    ASSUME IsFs(fs), NEW a \in Nat, NEW n \in Nat, n <= Len(fs.dir), NEW op \in {"readdir", "realpath", "readlink"}
    PROVE  Fit(op, [is |-> "names", v |-> SubSeq(fs.dir, a + 1, n)])
  <1>1. fs.dir \in Seq(DirEntries) /\ Len(fs.dir) \in Nat /\ Len(fs.dir) <= MaxNames
    BY FsParts
  <1>2. MaxNames \in Nat
    BY SMT DEF MaxNames
  <1> DEFINE d == fs.dir
             v == SubSeq(d, a + 1, n)
  <1> HIDE DEF d
  <1>3. v \in Seq(DirEntries) /\ Len(v) <= n /\ Len(v) \in Nat
    <2>1. a + 1 \in Nat \ {0}
      OBVIOUS
    <2>2. ASSUME NEW i \in a + 1 .. n PROVE i \in 1 .. Len(d) /\ d[i] \in DirEntries
      <3>1. i \in 1 .. Len(d)
        BY <1>1 DEF d
      <3> QED
        BY <1>1, <3>1, ElementOfSeq DEF d
    <2>3. v \in Seq(DirEntries) /\ Len(v) = IF a + 1 <= n THEN n - (a + 1) + 1 ELSE 0
      BY <1>1, <2>1, <2>2, SubSeqProperties DEF d
    <2> QED
      BY <2>3
  <1> HIDE DEF v
  <1>4. Len(v) <= MaxNames
    BY <1>1, <1>2, <1>3 DEF d
  <1>5. Fit(op, [is |-> "names", v |-> v])
    BY <1>3, <1>4 DEF Fit
  <1> QED
    BY <1>5 DEF v, d

LEMMA NamesKeeps ==
    ASSUME IInv, HandleReaddir \/ HandleNames
    PROVE  IInv'
  <1> USE NamedRequests
  <1>1. PICK op \in {"readdir", "realpath", "readlink"} : Asked(op) /\ (HandleReaddir => op = "readdir")
    BY DEF HandleReaddir, HandleNames
  <1>2. IsFs(fs) /\ fs.dir \in Seq(DirEntries) /\ Len(fs.dir) \in Nat
    BY FsParts DEF IInv
  <1>3. ASSUME NEW a \in Nat, NEW n \in Nat, n <= Len(fs.dir), NEW f2, IsFs(f2),
               Answer([is |-> "names", v |-> SubSeq(fs.dir, a + 1, n)], f2)
        PROVE  IInv'
    <2> DEFINE ans == [is |-> "names", v |-> SubSeq(fs.dir, a + 1, n)]
    <2>1. Fit(op, ans) /\ ans.is # "handle"
      BY <1>2, <1>3, BatchFits
    <2>2. /\ Written(Op, Id, Args, ans) /\ srv' \in {Popped(srv), Failed(srv)} /\ IsFs(fs')
      BY <1>3 DEF Answer, NextPacket
    <2> HIDE DEF ans
    <2> QED
      BY <1>1, <2>1, <2>2, AnswerKeeps
  <1>4. CASE HandleNames
    <2>1. PICK n \in 0 .. AtMost(1, Len(fs.dir)) : Answer([is |-> "names", v |-> SubSeq(fs.dir, 1, n)], fs)
      BY <1>4 DEF HandleNames
    <2>2. n \in Nat /\ n <= Len(fs.dir) /\ 0 + 1 = 1 /\ 0 \in Nat
      BY <1>2 DEF AtMost
    <2> QED
      BY <1>2, <1>3, <2>1, <2>2
  <1>5. CASE HandleReaddir /\ IsOpen(Args[1]) /\ \E n \in (fs.open[Args[1]].at + 1) .. Len(fs.dir) :
                       Answer([is |-> "names", v |-> SubSeq(fs.dir, fs.open[Args[1]].at + 1, n)],
                              [fs EXCEPT !.open[Args[1]].at = n])
    <2>0. PICK a \in Nat : fs.open[Args[1]].at = a
      BY <1>2, <1>5, FsParts DEF IsOpen
    <2>1. PICK n \in (a + 1) .. Len(fs.dir) :
             Answer([is |-> "names", v |-> SubSeq(fs.dir, a + 1, n)], [fs EXCEPT !.open[Args[1]].at = n])
      BY <1>5, <2>0
    <2>2. n \in Nat /\ n <= Len(fs.dir)
      BY <1>2, <2>0
    <2>3. IsFs([fs EXCEPT !.open[Args[1]].at = n])
      <3>1. PICK h \in DOMAIN fs.open : h = Args[1]
        BY <1>5 DEF IsOpen
      <3>2. PICK g : g = MovedTo(fs, h, n)
        OBVIOUS
      <3>3. IsFs(g)
        BY <1>2, <2>2, <3>1, <3>2, MovedFs
      <3> QED
        BY <3>1, <3>2, <3>3 DEF MovedTo
    <2> QED
      BY <1>3, <2>1, <2>2, <2>3
  <1>6. CASE Answer(BadHandle, fs)
    <2>1. Fit(op, BadHandle) /\ BadHandle.is = "err"
      BY BadFits
    <2> QED
      BY <1>1, <1>2, <1>6, <2>1, AnswerKeeps DEF Answer, NextPacket
  <1>7. CASE Answer([is |-> "names", v |-> <<>>], fs)
    <2> DEFINE ans == [is |-> "names", v |-> <<>>]
    <2>1. Fit(op, ans) /\ ans.is # "handle"
      <3>1. <<>> \in Seq(DirEntries) /\ Len(<<>>) = 0
        OBVIOUS
      <3>2. 0 <= MaxNames
        BY SMT DEF MaxNames
      <3> QED
        BY <3>1, <3>2 DEF Fit
    <2>2. /\ Written(Op, Id, Args, ans) /\ srv' \in {Popped(srv), Failed(srv)} /\ IsFs(fs')
      BY <1>2, <1>7 DEF Answer, NextPacket
    <2> HIDE DEF ans
    <2> QED
      BY <1>1, <2>1, <2>2, AnswerKeeps
  <1>8. CASE HandleReaddir
    BY <1>5, <1>6, <1>7, <1>8 DEF HandleReaddir
  <1> QED
    BY <1>4, <1>8

LEMMA OthersKeep ==
    ASSUME IInv, HandleStat \/ HandleStatusOnly
    PROVE  IInv'
  <1> USE NamedRequests
  <1>0. IsFs(fs)
    BY DEF IInv
  <1>1. CASE HandleStat
    <2>1. PICK op \in {"stat", "lstat", "fstat"} : Asked(op)
      BY <1>1 DEF HandleStat
    <2>2. PICK m \in Metas : Answer([is |-> "attrs", v |-> m], fs)
      BY <1>1 DEF HandleStat
    <2> DEFINE ans == [is |-> "attrs", v |-> m]
    <2>3. Fit(op, ans) /\ ans.is # "handle"
      BY SftpServerAssumption DEF Fit
    <2>4. /\ Written(Op, Id, Args, ans) /\ srv' \in {Popped(srv), Failed(srv)} /\ IsFs(fs')
      BY <1>0, <2>2 DEF Answer, NextPacket
    <2> HIDE DEF ans
    <2> QED
      BY <2>1, <2>3, <2>4, AnswerKeeps
  <1>2. CASE HandleStatusOnly
    <2>1. PICK op \in {"remove", "rename", "mkdir", "rmdir", "setstat", "fsetstat", "symlink"} : Asked(op)
      BY <1>2 DEF HandleStatusOnly
    <2>2. Answer(Done, fs)
      BY <1>2 DEF HandleStatusOnly
    <2>3. Fit(op, Done) /\ Done.is # "handle"
      BY DEF Fit, Done, StatusOps
    <2>4. /\ Written(Op, Id, Args, Done) /\ srv' \in {Popped(srv), Failed(srv)} /\ IsFs(fs')
      BY <1>0, <2>2 DEF Answer, NextPacket
    <2> QED
      BY <2>1, <2>3, <2>4, AnswerKeeps
  <1> QED
    BY <1>1, <1>2

LEMMA ErrKeeps ==
    ASSUME IInv, HandlerErr
    PROVE  IInv'
  <1>1. PICK op \in Requests \ {"init"} : Asked(op)
    BY DEF HandlerErr
  <1>2. PICK k \in Kinds : Written(Op, Id, Args, [is |-> "err", v |-> k])
    BY DEF HandlerErr
  <1> DEFINE ans == [is |-> "err", v |-> k]
  <1>3. op \in SimpleOps \ Replies /\ IsFs(fs)
    BY <1>1, AskedIs DEF IInv
  <1>4. Fit(op, ans) /\ ans.is # "handle"
    BY <1>3, SftpServerAssumption DEF Fit
  <1>5. IsFs([fs EXCEPT !.open = Without(fs.open, Args[1])])
    BY <1>3, ClosedFs
  <1>6. IsFs(fs')
    BY <1>3, <1>5 DEF HandlerErr
  <1>7. /\ Written(Op, Id, Args, ans) /\ srv' \in {Popped(srv), Failed(srv)}
    BY <1>2 DEF HandlerErr
  <1> HIDE DEF ans
  <1> QED
    BY <1>1, <1>4, <1>6, <1>7, AnswerKeeps

(* A packet of a foreign client is answered, or dropped.                   *)
LEMMA StrayKeeps ==
    ASSUME IInv, HandleInit \/ HandleUnknown
    PROVE  IInv'
  <1>1. PICK line : Line(line, sent, c2s, srv.registered, srv.buffer, srv.packets, s2c)
    BY DEF IInv, InLine
  <1>2. srv.packets # <<>> /\ Op \in {"unknown", "init"}
    BY DEF HandleInit, HandleUnknown, Asked
  <1>3. line[Len(s2c) + 1].id = 0
    <2>1. Head1(line, Len(s2c) + 1)
      BY <1>1, <1>2, HeadPacket
    <2> QED
      BY <1>2, <2>1 DEF Head1
  <1>4. PICK op, args, ans : /\ Written(op, 0, args, ans)
                             /\ ans.is = "unknown" \/ (ans.is = "version" /\ ans.v \in Nat)
    <2>1. CASE HandleUnknown
      BY <2>1 DEF HandleUnknown
    <2>2. CASE HandleInit
      <3>1. PICK v \in Nat : Written("init", 0, Args, [is |-> "version", v |-> v])
        BY <2>2 DEF HandleInit
      <3> QED
        BY <3>1
    <2> QED
      BY <2>1, <2>2
  <1> DEFINE r == [op |-> op, id |-> 0, args |-> args, ans |-> ans]
  <1>5. Replied(line[Len(s2c) + 1].id, sent, r)
    BY <1>3, <1>4 DEF Replied
  <1>6. c2s \in Seq(Nat)
    BY <1>1 DEF Line
  <1>7. s2c' = Append(s2c, r) /\ UNCHANGED <<task, sent, nextId, c2s>>
    BY <1>4 DEF Written
  <1>8. IsServer(srv') /\ \E l2 : Line(l2, sent, c2s, srv'.registered, srv'.buffer, srv'.packets, Append(s2c, r))
    <2>1. PICK T : srv \in [registered : BOOLEAN, buffer : Seq(Nat), packets : Seq(T),
                            negotiated : BOOLEAN, version : Nat, failed : BOOLEAN]
      BY DEF IInv, IsServer
    <2>2. PICK v : /\ IsServer(v) /\ srv' \in {Popped(v), Failed(v)}
                   /\ v.registered = srv.registered /\ v.buffer = srv.buffer /\ v.packets = srv.packets
      <3>1. CASE srv' \in {Popped(srv), Failed(srv)}
        BY <3>1 DEF IInv
      <3>2. CASE \E n \in Nat : NextPacket([srv EXCEPT !.version = n, !.negotiated = TRUE])
        <4>1. PICK n \in Nat : NextPacket([srv EXCEPT !.version = n, !.negotiated = TRUE])
          BY <3>2
        <4>2. PICK v : v = [srv EXCEPT !.version = n, !.negotiated = TRUE]
          OBVIOUS
        <4>3. v \in [registered : BOOLEAN, buffer : Seq(Nat), packets : Seq(T),
                     negotiated : BOOLEAN, version : Nat, failed : BOOLEAN]
          BY <2>1, <4>2
        <4>4. v.registered = srv.registered /\ v.buffer = srv.buffer /\ v.packets = srv.packets
          BY <2>1, <4>2
        <4>5. srv' \in {Popped(v), Failed(v)}
          BY <4>1, <4>2 DEF NextPacket
        <4>6. IsServer(v)
          BY <4>3 DEF IsServer
        <4> QED
          BY <4>4, <4>5, <4>6
      <3>3. \/ NextPacket(srv)
            \/ \E n \in Nat : NextPacket([srv EXCEPT !.version = n, !.negotiated = TRUE])
        BY DEF HandleInit, HandleUnknown
      <3> QED
        BY <3>1, <3>2, <3>3 DEF NextPacket
    <2>3. v.packets # <<>> /\ Line(line, sent, c2s, v.registered, v.buffer, v.packets, s2c)
      BY <1>1, <1>2, <2>2
    <2> HIDE DEF r
    <2> QED
      BY <1>5, <1>6, <2>2, <2>3, LineMoves
  <1>9. IsSeq(s2c) /\ Len(s2c) \in Nat
    BY <1>1, LineTypes DEF Line
  <1>10. /\ Len(s2c') = Len(s2c) + 1 /\ \A i \in 1 .. Len(s2c) : s2c'[i] = s2c[i]
         /\ s2c'[Len(s2c) + 1] = r
    <2>1. PICK T : s2c \in Seq(T)
      BY <1>9 DEF IsSeq
    <2> QED
      BY <1>7, <2>1
  <1>11. r.ans.is # "handle"
    BY <1>4
  <1> HIDE DEF r
  <1>12. Given(s2c')
    <2> SUFFICES ASSUME NEW i \in 1 .. Len(s2c'), s2c'[i].ans.is = "handle" PROVE s2c'[i].ans.v \in Handles
      BY DEF Given
    <2>1. i = Len(s2c) + 1 \/ i \in 1 .. Len(s2c)
      BY <1>9, <1>10
    <2> QED
      BY <1>10, <1>11, <2>1 DEF IInv, Given
  <1>13. InLine'
    BY <1>7, <1>8 DEF InLine
  <1>14. fs' = fs
    BY DEF HandleInit, HandleUnknown
  <1> QED
    BY <1>7, <1>8, <1>12, <1>13, <1>14 DEF IInv

LEMMA NothingKeeps ==
    ASSUME IInv, HandleNothing
    PROVE  IInv'
  <1>1. PICK line : Line(line, sent, c2s, srv.registered, srv.buffer, srv.packets, s2c)
    BY DEF IInv, InLine
  <1>2. /\ srv.packets # <<>> /\ (~srv.packets[1].ok \/ Op = "init")
        /\ srv' = Popped(srv) /\ UNCHANGED <<task, sent, nextId, c2s, s2c, fs>>
    BY DEF HandleNothing, Asked
  <1>3. line[Len(s2c) + 1].id = 0
    <2>1. Head1(line, Len(s2c) + 1)
      BY <1>1, <1>2, HeadPacket
    <2> QED
      BY <1>2, <2>1 DEF Head1
  <1>4. PICK l2 : Line(l2, sent, c2s, srv.registered, srv.buffer, Tail(srv.packets), s2c)
    BY <1>1, <1>2, <1>3, LineSkips
  <1>5. IsServer(srv') /\ srv'.registered = srv.registered /\ srv'.buffer = srv.buffer /\ srv'.packets = Tail(srv.packets)
    BY <1>2, ServerPops DEF IInv
  <1>6. InLine'
    BY <1>2, <1>4, <1>5 DEF InLine
  <1> QED
    BY <1>2, <1>5, <1>6 DEF IInv

(* The runtime forgets the channel.                                        *)
LEMMA LostKeeps ==
    ASSUME IInv, NEW C2 \in Seq(Nat), c2s' = C2, UNCHANGED <<task, sent, nextId, s2c, fs>>,
           IsServer(srv'), srv'.registered = FALSE, srv'.buffer = <<>>, srv'.packets = <<>>
    PROVE  IInv'
  <1>1. PICK line : Line(line, sent, c2s, srv.registered, srv.buffer, srv.packets, s2c)
    BY DEF IInv, InLine
  <1>2. PICK l2 : Line(l2, sent, C2, FALSE, <<>>, <<>>, s2c)
    BY <1>1, LineLost
  <1>3. InLine'
    BY <1>2 DEF InLine
  <1> QED
    BY <1>3 DEF IInv

LEMMA LosesKeeps ==
    ASSUME IInv, IgnoreData \/ ChannelClose
    PROVE  IInv'
  <1>1. PICK line : Line(line, sent, c2s, srv.registered, srv.buffer, srv.packets, s2c)
    BY DEF IInv, InLine
  <1>2. c2s \in Seq(Nat) /\ <<>> \in Seq(Nat) /\ IsServer(srv)
    BY <1>1 DEF IInv, Line
  <1>3. srv.registered \in BOOLEAN
    BY <1>2 DEF IsServer
  <1>4. CASE IgnoreData
    <2>1. srv.registered = FALSE /\ srv' = srv /\ c2s' = <<>> /\ UNCHANGED <<task, sent, nextId, s2c, fs>>
      BY <1>3, <1>4 DEF IgnoreData
    <2>2. srv.packets = <<>> /\ srv.buffer = <<>>
      BY <1>1, <2>1 DEF Line
    <2> QED
      BY <1>2, <2>1, <2>2, LostKeeps
  <1>5. CASE ChannelClose
    <2>1. /\ srv' = [srv EXCEPT !.registered = FALSE, !.buffer = <<>>] /\ srv.packets = <<>>
          /\ c2s' = c2s /\ UNCHANGED <<task, sent, nextId, s2c, fs>>
      BY <1>5 DEF ChannelClose
    <2>2. IsServer(srv') /\ srv'.registered = FALSE /\ srv'.buffer = <<>> /\ srv'.packets = <<>>
      BY <1>2, <2>1, ServerLoses
    <2> QED
      BY <1>2, <2>1, <2>2, LostKeeps
  <1> QED
    BY <1>4, <1>5

LEMMA DataKeeps ==
    ASSUME IInv, HandleData
    PROVE  IInv'
  <1>1. PICK line : Line(line, sent, c2s, srv.registered, srv.buffer, srv.packets, s2c)
    BY DEF IInv, InLine
  <1>2. c2s \in Seq(Nat) /\ Len(c2s) \in Nat /\ c2s # <<>> /\ srv.packets = <<>> /\ srv.registered
          /\ UNCHANGED <<task, sent, nextId, s2c, fs>>
    BY <1>1 DEF HandleData, Line
  <1>3. PICK n \in {m \in Cuts : m < Len(c2s)} \cup {Len(c2s)} :
          \E r \in {Reassemble(srv.buffer \o SubSeq(c2s, 1, n))} :
             /\ srv' = IF r.ok THEN [srv EXCEPT !.buffer = r.rest,
                                                !.packets = [i \in DOMAIN r.cut |-> Parsed(r.cut[i], Requests)]]
                               ELSE [srv EXCEPT !.registered = FALSE, !.buffer = <<>>]
             /\ c2s' = SubSeq(c2s, n + 1, Len(c2s))
    BY DEF HandleData
  <1> DEFINE r == Reassemble(srv.buffer \o SubSeq(c2s, 1, n))
             P2 == [i \in DOMAIN r.cut |-> Parsed(r.cut[i], Requests)]
  <1>4. /\ srv' = IF r.ok THEN [srv EXCEPT !.buffer = r.rest, !.packets = P2]
                          ELSE [srv EXCEPT !.registered = FALSE, !.buffer = <<>>]
        /\ c2s' = SubSeq(c2s, n + 1, Len(c2s))
    BY <1>3
  <1>5. n \in 1 .. Len(c2s) /\ n + 1 \in Nat \ {0}
    <2>1. Len(c2s) # 0
      BY <1>2, EmptySeq
    <2>2. n \in Nat \ {0} /\ n <= Len(c2s)
      BY <1>2, <2>1, SftpServerAssumption
    <2> QED
      BY <1>2, <2>2
  <1>6. IsServer(srv)
    BY DEF IInv
  <1>7. CASE r.ok
    <2>0. r = Reassemble(srv.buffer \o SubSeq(c2s, 1, n))
      OBVIOUS
    <2> HIDE DEF r
    <2>1. Line(line, sent, SubSeq(c2s, n + 1, Len(c2s)), srv.registered, r.rest, P2, s2c)
      BY <1>1, <1>2, <1>5, <1>7, <2>0, LineReceives
    <2> HIDE DEF P2
    <2>2. IsSeq(P2) /\ r.rest \in Seq(Nat)
      BY <2>1 DEF Line
    <2>3. PICK T : P2 \in Seq(T)
      BY <2>2 DEF IsSeq
    <2>4. PICK U : srv \in [registered : BOOLEAN, buffer : Seq(Nat), packets : Seq(U),
                            negotiated : BOOLEAN, version : Nat, failed : BOOLEAN]
      BY <1>6 DEF IsServer
    <2>5. srv' = [srv EXCEPT !.buffer = r.rest, !.packets = P2]
      BY <1>4, <1>7
    <2>6. srv' \in [registered : BOOLEAN, buffer : Seq(Nat), packets : Seq(T),
                    negotiated : BOOLEAN, version : Nat, failed : BOOLEAN]
      BY <2>2, <2>3, <2>4, <2>5
    <2>7. srv'.registered = srv.registered /\ srv'.buffer = r.rest /\ srv'.packets = P2
      BY <2>4, <2>5
    <2>8. IsServer(srv')
      BY <2>6 DEF IsServer
    <2>9. InLine'
      BY <1>2, <1>4, <2>1, <2>7 DEF InLine
    <2> QED
      BY <1>2, <2>8, <2>9 DEF IInv
  <1>8. CASE ~r.ok
    <2>1. srv' = [srv EXCEPT !.registered = FALSE, !.buffer = <<>>]
      BY <1>4, <1>8
    <2>2. IsServer(srv') /\ srv'.registered = FALSE /\ srv'.buffer = <<>> /\ srv'.packets = <<>>
      BY <1>2, <1>6, <2>1, ServerLoses
    <2>3. SubSeq(c2s, n + 1, Len(c2s)) \in Seq(Nat)
      BY <1>2, <1>5, SubBytes
    <2> QED
      BY <1>2, <1>4, <2>2, <2>3, LostKeeps
  <1> QED
    BY <1>7, <1>8

-----------------------------------------------------------------------------
(* The callers.  A request in flight is that of a caller who waits for it, *)
(* or the close of a dropped handle.                                       *)

Busy(r, q) ==
    \/ q.op = "open" /\ r.prog \in {"read", "write", "file"} /\ r.handle = <<>> /\ q.args[1] = r.path
    \/ q.op = "opendir" /\ r.prog = "list" /\ r.handle = <<>> /\ q.args[1] = r.path
    \/ /\ r.handle \in Handles /\ q.args[1] = r.handle
       /\ \/ q.op = "fstat" /\ r.prog \in {"read", "file"}
          \/ q.op = "read" /\ r.prog = "read"
          \/ q.op = "write" /\ r.prog \in {"write", "file"}
          \/ q.op = "fsetstat" /\ r.prog = "file" /\ q.args[2] = to_packet(r.meta)
          \/ q.op = "readdir" /\ r.prog = "list"
          \/ q.op = "close" /\ r.prog \in {"read", "write", "file", "list"}
    \/ /\ q.op \in PathOps /\ r.prog = "path" /\ r.handle = <<>>
       /\ q.op = "setstat" => q.args[2] = to_packet(r.meta)

(* A caller that waits for nothing: not begun, returned, or with a handle  *)
(* in its hands.                                                           *)
Rests(r) ==
    \/ r = Idle
    \/ r.out # "none" /\ r.id = 0 /\ r.handle = <<>> /\ r.prog # "none"
    \/ r.out = "none" /\ r.id = 0 /\ r.handle \in Handles /\ r.prog \in {"file", "list"}

Phases(T, S) == \A t \in Tasks : Rests(T[t]) \/ (T[t].id \in DOMAIN S /\ S[T[t].id].task = t)
Owned(T, id, q) ==
    \/ q.task = Nobody /\ q.op = "close" /\ q.args[1] \in Handles
    \/ q.task \in Tasks /\ T[q.task].id = id /\ T[q.task].out = "none" /\ Busy(T[q.task], q)
Owns(T, S) == \A id \in DOMAIN S : Owned(T, id, S[id])
Bounded(r) == r.prog = "write" => r.offset <= Len(Content)

Inv == IInv /\ Phases(task, sent) /\ Owns(task, sent) /\ \A t \in Tasks : Bounded(task[t])

LEMMA InitInv ==
    Init => Inv
  <1> SUFFICES ASSUME Init PROVE Inv
    OBVIOUS
  <1>1. IInv
    BY InitIInv
  <1>2. sent = <<>> /\ DOMAIN sent = {} /\ \A t \in Tasks : task[t] = Idle
    BY DEF Init
  <1>3. Phases(task, sent) /\ Owns(task, sent)
    BY <1>2 DEF Phases, Owns, Rests
  <1>4. \A t \in Tasks : Bounded(task[t])
    BY <1>2 DEF Bounded, Idle
  <1> QED
    BY <1>1, <1>3, <1>4 DEF Inv

LEMMA AnswersTrue ==
    Inv => AnswersAreTrue
  <1> SUFFICES ASSUME Inv PROVE AnswersAreTrue
    OBVIOUS
  <1>0. IInv /\ Owns(task, sent)
    BY DEF Inv
  <1>1. PICK line : Line(line, sent, c2s, srv.registered, srv.buffer, srv.packets, s2c)
    BY <1>0 DEF IInv, InLine
  <1>2. DOMAIN s2c = 1 .. Len(s2c)
    BY <1>1 DEF Line, IsSeq
  <1>3. ASSUME NEW i \in DOMAIN s2c, IsReply(Received(s2c[i]))
        PROVE  LET q == sent[Received(s2c[i]).out[1]]
               IN  /\ <<s2c[i].op, s2c[i].args>> = <<q.op, q.args>>
                   /\ q.op \in {"setstat", "fsetstat"}
                        => Carried(task[q.task].meta, from_packet(s2c[i].args[2]))
                   /\ Told(q.op, s2c[i].ans, Result(q.op, Received(s2c[i])))
    <2> DEFINE r == s2c[i]
               id == line[i].id
    <2>1. /\ id = 0 => ~IsReply(Received(r))
          /\ id # 0 => /\ id \in DOMAIN sent /\ IsReply(Received(r)) /\ Received(r).out[1] = id
                       /\ r.id = id /\ r.op = sent[id].op /\ r.args = sent[id].args
                       /\ Fit(r.op, r.ans) /\ Told(r.op, r.ans, Read(r))
                       /\ Result(sent[id].op, Received(r)) = Read(r)
      BY <1>0, <1>1, <1>2, ReplyInLine
    <2> HIDE DEF r, id
    <2>2. id # 0
      BY <1>3, <2>1 DEF r
    <2>3. ASSUME sent[id].op \in {"setstat", "fsetstat"}
          PROVE  Carried(task[sent[id].task].meta, from_packet(r.args[2]))
      <3> DEFINE q == sent[id]
                 m == task[q.task].meta
      <3>1. q.task \in Tasks /\ Busy(task[q.task], q)
        BY <1>0, <2>1, <2>2, <2>3 DEF Owns, Owned
      <3>2. q.args[2] = to_packet(m)
        <4>1. "fsetstat" \notin PathOps
          BY SftpServerAssumption
        <4> QED
          BY <2>3, <3>1, <4>1 DEF Busy
      <3>3. m \in Metadata
        BY <1>0, <3>1 DEF IInv, TaskRecs
      <3> QED
        BY <2>1, <2>2, <3>2, <3>3, ToPacket
    <2> QED
      BY <2>1, <2>2, <2>3 DEF r
  <1> QED
    BY <1>3 DEF AnswersAreTrue

(* A request is made: it joins the line.                                   *)
Joins(S, q) ==
    /\ nextId < U32 /\ nextId' = nextId + 1 /\ sent' = With(S, nextId, q) /\ c2s' = c2s \o Bytes(nextId, q)

LEMMA IssueIs ==
    ASSUME NEW t, NEW op, NEW args, NEW S, Issue(<<<<t, op, args>>>>, S)
    PROVE  Joins(S, [task |-> t, op |-> op, args |-> args])
  <1> DEFINE c == <<t, op, args>>
             calls == <<c>>
  <1>1. c[1] = t /\ c[2] = op /\ c[3] = args
    BY ThreeSeq
  <1> HIDE DEF c
  <1>2. calls[1] = c /\ calls # <<>>
    BY ThreeSeq
  <1>3. Issue(calls, S)
    BY DEF c
  <1> HIDE DEF calls
  <1> QED
    BY <1>1, <1>2, <1>3 DEF Issue, Joins

LEMMA JoinsLine ==
    ASSUME nextId \in Nat, nextId >= 10, NEW S, Asks(S, nextId), NEW q, WellAsked(q), Joins(S, q),
           NEW R, NEW l, Line(l, S, c2s, srv.registered, srv.buffer, srv.packets, R)
    PROVE  /\ Asks(sent', nextId') /\ nextId' \in Nat /\ nextId' >= 10 /\ nextId \notin DOMAIN S
           /\ DOMAIN sent' = DOMAIN S \cup {nextId} /\ sent'[nextId] = q /\ Keeps(S, sent')
           /\ \E l2 : Line(l2, sent', c2s', srv.registered, srv.buffer, srv.packets, R)
  <1>1. nextId' = nextId + 1 /\ sent' = With(S, nextId, q) /\ c2s' = c2s \o Bytes(nextId, q)
    BY DEF Joins
  <1>0. nextId \in u32
    BY Widths DEF Joins, u32
  <1>2. nextId \notin DOMAIN S
    BY DEF Asks
  <1>3. /\ DOMAIN sent' = DOMAIN S \cup {nextId} /\ sent'[nextId] = q
        /\ \A y \in DOMAIN S : y # nextId => sent'[y] = S[y]
    BY <1>1 DEF With
  <1>4. sent' = [id \in DOMAIN sent' |-> sent'[id]]
    BY <1>1 DEF With
  <1>5. Asks(sent', nextId')
    <2>1. ASSUME NEW id \in DOMAIN sent'
          PROVE  id \in u32 /\ id \in Nat /\ id >= 10 /\ id < nextId + 1 /\ WellAsked(sent'[id])
      <3>1. CASE id = nextId
        BY <1>0, <1>3, <3>1
      <3>2. CASE id \in DOMAIN S /\ id # nextId
        <4>1. id \in u32 /\ id \in Nat /\ id >= 10 /\ id < nextId /\ WellAsked(S[id])
          BY <3>2 DEF Asks
        <4>2. sent'[id] = S[id]
          BY <1>3, <3>2
        <4>3. id < nextId + 1
          BY <4>1
        <4> QED
          BY <4>1, <4>2, <4>3
      <3> QED
        BY <1>3, <3>1, <3>2
    <2> QED
      BY <1>1, <1>4, <2>1 DEF Asks
  <1>6. Keeps(S, sent')
    BY <1>2, <1>3 DEF Keeps
  <1> DEFINE b == Bytes(nextId, q)
             e == [id |-> nextId, bytes |-> b]
  <1>7. IsFrame(b)
    <2>1. Fields3(q.op, q.args)
      BY DEF WellAsked
    <2> QED
      BY <1>0, <2>1, BytesOfAsked
  <1>8. b \in Seq(Nat)
    BY <1>7 DEF IsFrame
  <1>9. e \in Entry /\ e.bytes = b /\ e.id = nextId
    BY <1>8 DEF Entry
  <1>10. Known(e, sent')
    BY <1>3, <1>9 DEF Known
  <1>11. 0 \notin DOMAIN sent'
    <2>1. nextId # 0 /\ 0 \notin DOMAIN S
      BY DEF Line
    <2> QED
      BY <1>3, <2>1
  <1> HIDE DEF e
  <1>12. \E l2 : Line(l2, sent', c2s \o e.bytes, srv.registered, srv.buffer, srv.packets, R)
    BY <1>2, <1>3, <1>6, <1>7, <1>9, <1>10, <1>11, LineGrows
  <1>13. \E l2 : Line(l2, sent', c2s', srv.registered, srv.buffer, srv.packets, R)
    BY <1>1, <1>9, <1>12
  <1>14. nextId' \in Nat /\ nextId' >= 10
    BY <1>1
  <1> QED
    BY <1>2, <1>3, <1>5, <1>6, <1>13, <1>14

(* The requests in flight without that of t, and the replies without the   *)
(* one to it, if it was answered.                                          *)
Left(t, S, R) ==
    /\ Keeps(S, sent) /\ S = [id \in DOMAIN S |-> S[id]]
    /\ \A id \in DOMAIN sent : id \in DOMAIN S <=> sent[id].task # t
    /\ Given(R) /\ s2c' = R
    /\ \E l : Line(l, S, c2s, srv.registered, srv.buffer, srv.packets, R)
    /\ UNCHANGED <<srv, fs>>

(* What a step of caller t may come to, h0 being the handle it must not    *)
(* lose.                                                                   *)
Sends(t, S, r, h0, op, args) ==
    /\ Issue(<<<<t, op, args>>>>, S)
    /\ r.id = nextId /\ r.out = "none"
    /\ WellAsked([task |-> t, op |-> op, args |-> args]) /\ Busy(r, [task |-> t, op |-> op, args |-> args])
    /\ h0 # <<>> => r.handle = h0
Drops(S, r, h0, h) ==
    /\ Issue(<<Dropped(h)>>, S)
    /\ Rests(r) /\ r.handle = <<>> /\ h \in Handles
    /\ h0 # <<>> => h = h0
Goes(t, S, r, h0) ==
    /\ r \in TaskRecs /\ Bounded(r) /\ task' = [task EXCEPT ![t] = r]
    /\ \/ Issue(<<>>, S) /\ Rests(r) /\ (h0 # <<>> => r.handle = h0)
       \/ \E op, args : Sends(t, S, r, h0, op, args)
       \/ \E h : Drops(S, r, h0, h)

LEMMA EmptyText ==
    <<>> \in Texts /\ Handles \subseteq Texts /\ <<>> \notin Handles
  <1>1. <<>> \in Seq(Nat) /\ Len(<<>>) = 0 /\ DOMAIN <<>> = {}
    OBVIOUS
  <1>2. 0 <= MaxPacket
    BY WidthAssumption
  <1> QED
    BY <1>1, <1>2, SftpServerAssumption DEF Texts, IsUtf8

LEMMA DropAsked ==
    ASSUME NEW h \in Handles
    PROVE  WellAsked([task |-> Nobody, op |-> "close", args |-> <<h>>])
  BY EmptyText DEF WellAsked, Fields3, OneText

LEMMA GoesKeeps ==
    ASSUME Inv, NEW t \in Tasks, NEW S, NEW R, Left(t, S, R), NEW r, NEW h0, Goes(t, S, r, h0)
    PROVE  Inv'
  <1>1. PICK l : Line(l, S, c2s, srv.registered, srv.buffer, srv.packets, R)
    BY DEF Left
  <1>2. /\ nextId \in Nat /\ nextId >= 10 /\ task \in [Tasks -> TaskRecs] /\ Asks(sent, nextId)
        /\ UNCHANGED <<srv, fs>> /\ s2c' = R /\ Given(R) /\ IsServer(srv) /\ IsFs(fs)
    BY DEF Inv, IInv, Left
  <1>3. Asks(S, nextId)
    BY <1>2 DEF Asks, Left, Keeps
  <1>4. task' \in [Tasks -> TaskRecs] /\ task'[t] = r /\ \A u \in Tasks : u # t => task'[u] = task[u]
    BY <1>2 DEF Goes
  <1>5. \A u \in Tasks : Bounded(task'[u])
    BY <1>4 DEF Goes, Inv
  <1>6. Nobody \notin Tasks
    BY SftpServerAssumption
  <1>7. ASSUME NEW S2, Keeps(S, S2),
               Rests(r) \/ (r.id \in DOMAIN S2 /\ S2[r.id].task = t)
        PROVE  Phases(task', S2)
    <2> SUFFICES ASSUME NEW u \in Tasks
                 PROVE  Rests(task'[u]) \/ (task'[u].id \in DOMAIN S2 /\ S2[task'[u].id].task = u)
      BY DEF Phases
    <2>1. CASE u = t
      BY <1>4, <1>7, <2>1
    <2>2. CASE u # t
      <3>1. task'[u] = task[u]
        BY <1>4, <2>2
      <3>2. Rests(task[u]) \/ (task[u].id \in DOMAIN sent /\ sent[task[u].id].task = u)
        BY DEF Inv, Phases
      <3>3. CASE task[u].id \in DOMAIN sent /\ sent[task[u].id].task = u
        <4>1. task[u].id \in DOMAIN S
          BY <2>2, <3>3 DEF Left
        <4>2. task[u].id \in DOMAIN S2 /\ S2[task[u].id] = sent[task[u].id]
          BY <1>7, <4>1 DEF Keeps, Left
        <4> QED
          BY <3>1, <3>3, <4>2
      <3> QED
        BY <3>1, <3>2, <3>3
    <2> QED
      BY <2>1, <2>2
  <1>8. \A id \in DOMAIN S : Owned(task', id, S[id])
    <2> SUFFICES ASSUME NEW id \in DOMAIN S PROVE Owned(task', id, S[id])
      OBVIOUS
    <2>1. id \in DOMAIN sent /\ sent[id] = S[id] /\ sent[id].task # t
      BY DEF Left, Keeps
    <2>2. Owned(task, id, S[id])
      BY <2>1 DEF Inv, Owns
    <2>3. S[id].task \in Tasks => task'[S[id].task] = task[S[id].task]
      BY <1>4, <2>1
    <2> QED
      BY <2>2, <2>3 DEF Owned
  <1>9. ASSUME NEW q, WellAsked(q), Joins(S, q), Owned(task', nextId, q),
               Rests(r) \/ (r.id = nextId /\ q.task = t)
        PROVE  Inv'
    <2>1. /\ Asks(sent', nextId') /\ nextId' \in Nat /\ nextId' >= 10 /\ nextId \notin DOMAIN S
          /\ DOMAIN sent' = DOMAIN S \cup {nextId} /\ sent'[nextId] = q /\ Keeps(S, sent')
          /\ \E l2 : Line(l2, sent', c2s', srv.registered, srv.buffer, srv.packets, R)
      BY <1>1, <1>2, <1>3, <1>9, JoinsLine
    <2>2. InLine'
      BY <1>2, <2>1 DEF InLine
    <2>3. IInv'
      BY <1>2, <1>4, <2>1, <2>2 DEF IInv
    <2>4. Phases(task', sent')
      BY <1>7, <1>9, <2>1
    <2>5. Owns(task', sent')
      <3> SUFFICES ASSUME NEW id \in DOMAIN sent' PROVE Owned(task', id, sent'[id])
        BY DEF Owns
      <3>1. CASE id = nextId
        BY <1>9, <2>1, <3>1
      <3>2. CASE id \in DOMAIN S
        BY <1>8, <2>1, <3>2 DEF Keeps
      <3> QED
        BY <2>1, <3>1, <3>2
    <2> QED
      BY <1>5, <2>3, <2>4, <2>5 DEF Inv
  <1>10. CASE Issue(<<>>, S) /\ Rests(r)
    <2>1. sent' = S /\ nextId' = nextId /\ c2s' = c2s
      BY <1>10 DEF Issue
    <2>2. InLine'
      BY <1>1, <1>2, <2>1 DEF InLine
    <2>3. IInv'
      BY <1>2, <1>3, <1>4, <2>1, <2>2 DEF IInv
    <2>4. Keeps(S, S)
      BY DEF Keeps
    <2>5. Phases(task', sent')
      BY <1>7, <1>10, <2>1, <2>4
    <2>6. Owns(task', sent')
      BY <1>8, <2>1 DEF Owns
    <2> QED
      BY <1>5, <2>3, <2>5, <2>6 DEF Inv
  <1>11. ASSUME NEW op, NEW args, Sends(t, S, r, h0, op, args) PROVE Inv'
    <2> DEFINE q == [task |-> t, op |-> op, args |-> args]
    <2>1. WellAsked(q) /\ q.task = t /\ Busy(r, q) /\ r.id = nextId /\ r.out = "none" /\ Issue(<<<<t, op, args>>>>, S)
      BY <1>11 DEF Sends
    <2>2. Joins(S, q)
      BY <2>1, IssueIs
    <2> HIDE DEF q
    <2>3. Owned(task', nextId, q)
      BY <1>4, <2>1 DEF Owned
    <2> QED
      BY <1>9, <2>1, <2>2, <2>3
  <1>12. ASSUME NEW h, Drops(S, r, h0, h) PROVE Inv'
    <2> DEFINE q == [task |-> Nobody, op |-> "close", args |-> <<h>>]
    <2>1. Issue(<<<<Nobody, "close", <<h>>>>>>, S) /\ h \in Handles /\ Rests(r)
      BY <1>12 DEF Drops, Dropped
    <2>2. Joins(S, q) /\ WellAsked(q)
      BY <2>1, IssueIs, DropAsked
    <2>3. q.task = Nobody /\ q.op = "close" /\ q.args[1] = h
      BY ThreeSeq
    <2> HIDE DEF q
    <2>4. Owned(task', nextId, q)
      BY <2>1, <2>3 DEF Owned
    <2> QED
      BY <1>9, <2>1, <2>2, <2>4
  <1> QED
    BY <1>10, <1>11, <1>12 DEF Goes

(* A caller that waits for nothing calls.                                  *)
LEMMA LeftCall ==
    ASSUME Inv, NEW t \in Tasks, task[t].id = 0, s2c' = s2c, UNCHANGED <<srv, fs>>
    PROVE  Left(t, sent, s2c)
  <1>1. PICK line : Line(line, sent, c2s, srv.registered, srv.buffer, srv.packets, s2c)
    BY DEF Inv, IInv, InLine
  <1>2. Asks(sent, nextId) /\ Owns(task, sent) /\ Given(s2c)
    BY DEF Inv, IInv
  <1>3. Keeps(sent, sent) /\ sent = [id \in DOMAIN sent |-> sent[id]]
    BY <1>2 DEF Keeps, Asks
  <1>4. ASSUME NEW id \in DOMAIN sent PROVE sent[id].task # t
    <2>1. id \in Nat /\ id >= 10 /\ Owned(task, id, sent[id]) /\ Nobody \notin Tasks
      BY <1>2, SftpServerAssumption DEF Owns, Asks
    <2>2. sent[id].task = t => task[t].id = id
      BY <2>1 DEF Owned
    <2> QED
      BY <2>1, <2>2
  <1> QED
    BY <1>1, <1>2, <1>3, <1>4 DEF Left

(* The first reply, and what is left when it has been taken.               *)
LEMMA FirstReply ==
    ASSUME Inv, s2c # <<>>
    PROVE  LET r == s2c[1]
               R == Tail(s2c)
           IN  /\ Len(s2c) \in Nat /\ 1 \in 1 .. Len(s2c) /\ IsSeq(s2c) /\ IsSeq(R)
               /\ Len(R) \in Nat /\ Len(s2c) = Len(R) + 1
               /\ \A i \in 1 .. Len(R) : R[i] = s2c[i + 1] /\ i + 1 \in 1 .. Len(s2c)
               /\ Given(R)
               /\ ~IsReply(Received(r)) => /\ r.id = 0 /\ r.ans.is # "handle"
                                           /\ \E l : Line(l, sent, c2s, srv.registered, srv.buffer, srv.packets, R)
               /\ IsReply(Received(r)) =>
                    /\ r.id \in DOMAIN sent /\ Received(r).out[1] = r.id
                    /\ r.op = sent[r.id].op /\ r.args = sent[r.id].args
                    /\ Fit(r.op, r.ans) /\ Told(r.op, r.ans, Read(r))
                    /\ Result(sent[r.id].op, Received(r)) = Read(r)
                    /\ \A i \in 1 .. Len(R) : R[i].id # r.id
                    /\ \E l : Line(l, Without(sent, r.id), c2s, srv.registered, srv.buffer, srv.packets, R)
  <1> DEFINE r == s2c[1]
             R == Tail(s2c)
  <1>1. PICK line : Line(line, sent, c2s, srv.registered, srv.buffer, srv.packets, s2c)
    BY DEF Inv, IInv, InLine
  <1>2. /\ 1 \in 1 .. Len(line) /\ Known(line[1], sent) /\ Replied(line[1].id, sent, r)
        /\ Line(Tail(line), Without(sent, line[1].id), c2s, srv.registered, srv.buffer, srv.packets, R)
    BY <1>1, LineDeliver
  <1>3. IsSeq(s2c) /\ Len(s2c) \in Nat /\ Len(line) \in Nat /\ Len(s2c) <= Len(line)
    <2>1. IsSeq(s2c) /\ Len(s2c) \in Nat /\ Len(line) \in Nat /\ Len(srv.packets) \in Nat /\ Len(s2c) + Len(srv.packets) <= Len(line)
      BY <1>1, LineTypes DEF Line
    <2> QED
      BY <2>1
  <1>4. /\ IsSeq(R) /\ Len(s2c) \in Nat \ {0} /\ Len(R) = Len(s2c) - 1 /\ Len(R) \in Nat
        /\ \A i \in 1 .. Len(s2c) - 1 : R[i] = s2c[i + 1]
    BY <1>3, SeqTail
  <1> HIDE DEF R
  <1>5. \A i \in 1 .. Len(R) : R[i] = s2c[i + 1] /\ i + 1 \in 1 .. Len(s2c)
    BY <1>3, <1>4
  <1>6. Given(R)
    <2>1. Given(s2c)
      BY DEF Inv, IInv
    <2> QED
      BY <1>5, <2>1 DEF Given
  <1>7. 1 \in 1 .. Len(s2c)
    BY <1>4
  <1>8. /\ line[1].id = 0 => ~IsReply(Received(r))
        /\ line[1].id # 0 => /\ line[1].id \in DOMAIN sent /\ IsReply(Received(r)) /\ Received(r).out[1] = line[1].id
                             /\ r.id = line[1].id /\ r.op = sent[line[1].id].op /\ r.args = sent[line[1].id].args
                             /\ Fit(r.op, r.ans) /\ Told(r.op, r.ans, Read(r))
                             /\ Result(sent[line[1].id].op, Received(r)) = Read(r)
    BY <1>1, <1>7, ReplyInLine DEF Inv
  <1>9. line[1].id = 0 => r.id = 0 /\ r.ans.is # "handle" /\ Without(sent, 0) = sent
    <2>1. 0 \notin DOMAIN sent /\ sent = [id \in DOMAIN sent |-> sent[id]]
      BY <1>1 DEF Line, Inv, IInv, Asks
    <2>2. Without(sent, 0) = [id \in DOMAIN sent |-> sent[id]]
      BY <2>1 DEF Without
    <2> QED
      BY <1>2, <2>1, <2>2 DEF Replied
  <1>10. ASSUME line[1].id # 0, NEW i \in 1 .. Len(R) PROVE R[i].id # line[1].id
    <2>1. i + 1 \in 1 .. Len(s2c) /\ i + 1 \in 1 .. Len(line) /\ i + 1 # 1 /\ R[i] = s2c[i + 1]
      BY <1>3, <1>5
    <2>2. Replied(line[i + 1].id, sent, s2c[i + 1]) /\ line[i + 1].id # line[1].id
      BY <1>1, <1>2, <1>10, <2>1 DEF Line, AllReplied, Distinct
    <2>3. s2c[i + 1].id = line[i + 1].id
      BY <2>2 DEF Replied
    <2> QED
      BY <2>1, <2>2, <2>3
  <1> HIDE DEF r
  <1>11. ~IsReply(Received(r)) => /\ r.id = 0 /\ r.ans.is # "handle"
                                  /\ \E l : Line(l, sent, c2s, srv.registered, srv.buffer, srv.packets, R)
    BY <1>2, <1>8, <1>9
  <1>12. IsReply(Received(r)) =>
                    /\ r.id \in DOMAIN sent /\ Received(r).out[1] = r.id
                    /\ r.op = sent[r.id].op /\ r.args = sent[r.id].args
                    /\ Fit(r.op, r.ans) /\ Told(r.op, r.ans, Read(r))
                    /\ Result(sent[r.id].op, Received(r)) = Read(r)
                    /\ \A i \in 1 .. Len(R) : R[i].id # r.id
                    /\ \E l : Line(l, Without(sent, r.id), c2s, srv.registered, srv.buffer, srv.packets, R)
    BY <1>2, <1>8, <1>10
  <1>13. Len(s2c) = Len(R) + 1
    BY <1>4
  <1> QED
    BY <1>3, <1>4, <1>5, <1>6, <1>7, <1>11, <1>12, <1>13 DEF r, R

(* A caller's reply has been taken.                                        *)
LEMMA LeftReply ==
    ASSUME Inv, s2c # <<>>, IsReply(Received(s2c[1])), NEW t \in Tasks, sent[s2c[1].id].task = t,
           s2c' = Tail(s2c), UNCHANGED <<srv, fs>>
    PROVE  Left(t, Without(sent, s2c[1].id), Tail(s2c)) /\ task[t].id = s2c[1].id
  <1> DEFINE id == s2c[1].id
             S == Without(sent, id)
             R == Tail(s2c)
  <1>1. /\ id \in DOMAIN sent /\ Given(R)
        /\ \E l : Line(l, S, c2s, srv.registered, srv.buffer, srv.packets, R)
    BY FirstReply
  <1> HIDE DEF id, R
  <1>2. Asks(sent, nextId) /\ Owns(task, sent)
    BY DEF Inv, IInv
  <1>3. /\ DOMAIN S = DOMAIN sent \ {id} /\ \A y \in DOMAIN sent \ {id} : S[y] = sent[y]
        /\ S = [x \in DOMAIN S |-> S[x]]
    BY DEF Without
  <1> HIDE DEF S
  <1>4. Keeps(S, sent)
    BY <1>3 DEF Keeps
  <1>5. ASSUME NEW x \in DOMAIN sent, sent[x].task = t PROVE task[t].id = x
    <2>1. Owned(task, x, sent[x]) /\ Nobody \notin Tasks
      BY <1>2, SftpServerAssumption DEF Owns
    <2> QED
      BY <1>5, <2>1 DEF Owned
  <1>6. sent[id].task = t /\ task[t].id = id
    BY <1>1, <1>5 DEF id
  <1>7. \A x \in DOMAIN sent : x \in DOMAIN S <=> sent[x].task # t
    BY <1>3, <1>5, <1>6
  <1>8. Left(t, S, R)
    BY <1>1, <1>3, <1>4, <1>7 DEF Left, R
  <1> QED
    BY <1>6, <1>8 DEF S, R, id

(* A reply that no caller waits for.                                       *)
LEMMA UnawaitedKeeps ==
    ASSUME Inv, s2c # <<>>, s2c' = Tail(s2c), UNCHANGED <<task, nextId, c2s, srv, fs>>,
           \/ ~IsReply(Received(s2c[1])) /\ sent' = sent
           \/ /\ IsReply(Received(s2c[1])) /\ sent[s2c[1].id].task = Nobody
              /\ sent' = Without(sent, s2c[1].id)
    PROVE  Inv'
  <1>1. Asks(sent, nextId) /\ Owns(task, sent) /\ Phases(task, sent) /\ Nobody \notin Tasks /\ IInv
    BY SftpServerAssumption DEF Inv, IInv
  <1>2. CASE ~IsReply(Received(s2c[1])) /\ sent' = sent
    <2>1. Given(s2c') /\ \E l : Line(l, sent, c2s, srv.registered, srv.buffer, srv.packets, s2c')
      BY <1>2, FirstReply
    <2>2. InLine'
      BY <1>2, <2>1 DEF InLine
    <2>3. IInv'
      BY <1>1, <1>2, <2>1, <2>2 DEF IInv
    <2> QED
      BY <1>2, <2>3 DEF Inv
  <1>3. CASE IsReply(Received(s2c[1])) /\ sent[s2c[1].id].task = Nobody /\ sent' = Without(sent, s2c[1].id)
    <2> DEFINE id == s2c[1].id
    <2>1. id \in DOMAIN sent /\ Given(s2c') /\ \E l : Line(l, Without(sent, id), c2s, srv.registered, srv.buffer, srv.packets, s2c')
      BY <1>3, FirstReply
    <2>2. sent[id].task = Nobody /\ sent' = Without(sent, id)
      BY <1>3
    <2> HIDE DEF id
    <2>3. InLine'
      BY <2>1, <2>2 DEF InLine
    <2>4. /\ DOMAIN sent' = DOMAIN sent \ {id} /\ \A y \in DOMAIN sent \ {id} : sent'[y] = sent[y]
          /\ sent' = [x \in DOMAIN sent' |-> sent'[x]]
      BY <2>2 DEF Without
    <2>5. Asks(sent', nextId) /\ Owns(task, sent')
      BY <1>1, <2>4 DEF Asks, Owns
    <2>6. Phases(task, sent')
      <3> SUFFICES ASSUME NEW t \in Tasks
                   PROVE  Rests(task[t]) \/ (task[t].id \in DOMAIN sent' /\ sent'[task[t].id].task = t)
        BY DEF Phases
      <3>1. Rests(task[t]) \/ (task[t].id \in DOMAIN sent /\ sent[task[t].id].task = t)
        BY <1>1 DEF Phases
      <3>2. CASE task[t].id \in DOMAIN sent /\ sent[task[t].id].task = t
        <4>1. task[t].id # id
          BY <1>1, <2>2, <3>2
        <4> QED
          BY <2>4, <3>2, <4>1
      <3> QED
        BY <3>1, <3>2
    <2>7. IInv'
      BY <1>1, <2>1, <2>3, <2>5 DEF IInv
    <2> QED
      BY <2>5, <2>6, <2>7 DEF Inv
  <1> QED
    BY <1>2, <1>3

-----------------------------------------------------------------------------
(* What the callers' steps come to.                                        *)

LEMMA AskType ==
    ASSUME NEW r \in TaskRecs, nextId \in Nat
    PROVE  /\ Ask(r) \in TaskRecs /\ Ask(r).id = nextId
           /\ Ask(r).prog = r.prog /\ Ask(r).end = r.end /\ Ask(r).handle = r.handle /\ Ask(r).path = r.path
           /\ Ask(r).offset = r.offset /\ Ask(r).got = r.got /\ Ask(r).entries = r.entries
           /\ Ask(r).used = r.used /\ Ask(r).out = r.out /\ Ask(r).meta = r.meta
  BY DEF Ask, TaskRecs

LEMMA FinishType ==
    ASSUME NEW r \in TaskRecs, NEW out \in {"ok", "err"}
    PROVE  LET f == Finish(r, out)
           IN  /\ f \in TaskRecs /\ f.id = 0 /\ f.out = out /\ f.handle = <<>> /\ f.entries = <<>>
               /\ f.prog = r.prog /\ f.end = r.end /\ f.path = r.path
               /\ f.offset = r.offset /\ f.got = r.got /\ f.used = r.used
  <1>1. <<>> \in Seq(DirEntries)
    OBVIOUS
  <1> QED
    BY <1>1 DEF Finish, TaskRecs

LEMMA SendsGoes ==
    ASSUME nextId \in Nat, NEW t, NEW r \in TaskRecs, r.out = "none", Bounded(r), NEW S, NEW op, NEW args,
           task' = [task EXCEPT ![t] = Ask(r)], Issue(<<<<t, op, args>>>>, S),
           WellAsked([task |-> t, op |-> op, args |-> args]), Busy(r, [task |-> t, op |-> op, args |-> args]),
           NEW h0, h0 # <<>> => r.handle = h0
    PROVE  Goes(t, S, Ask(r), h0)
  <1> DEFINE q == [task |-> t, op |-> op, args |-> args]
             a == Ask(r)
  <1>1. /\ a \in TaskRecs /\ a.id = nextId /\ a.prog = r.prog /\ a.handle = r.handle /\ a.path = r.path
        /\ a.offset = r.offset /\ a.out = r.out /\ a.meta = r.meta
    BY AskType
  <1>2. Busy(r, q) /\ WellAsked(q)
    OBVIOUS
  <1> HIDE DEF q, a
  <1>3. Busy(a, q)
    BY <1>1, <1>2 DEF Busy
  <1>4. Bounded(a)
    BY <1>1 DEF Bounded
  <1>5. Sends(t, S, a, h0, op, args)
    BY <1>1, <1>2, <1>3 DEF Sends, q
  <1>6. task' = [task EXCEPT ![t] = a]
    BY DEF a
  <1>7. Goes(t, S, a, h0)
    BY <1>1, <1>4, <1>5, <1>6 DEF Goes
  <1> QED
    BY <1>7 DEF a

LEMMA FinishGoes ==
    ASSUME NEW t, NEW r \in TaskRecs, r.prog # "none", Bounded(r), NEW S, NEW out \in {"ok", "err"}, NEW h0,
           task' = [task EXCEPT ![t] = Finish(r, out)],
           \/ Issue(<<>>, S) /\ h0 = <<>>
           \/ \E h \in Handles : Issue(<<Dropped(h)>>, S) /\ (h0 # <<>> => h = h0)
    PROVE  Goes(t, S, Finish(r, out), h0)
  <1> DEFINE f == Finish(r, out)
  <1>1. /\ f \in TaskRecs /\ f.id = 0 /\ f.out = out /\ f.handle = <<>> /\ f.prog = r.prog /\ f.offset = r.offset
    BY FinishType
  <1>2. task' = [task EXCEPT ![t] = f]
    OBVIOUS
  <1> HIDE DEF f
  <1>3. Rests(f) /\ Bounded(f)
    BY <1>1 DEF Rests, Bounded
  <1>4. CASE Issue(<<>>, S) /\ h0 = <<>>
    BY <1>1, <1>2, <1>3, <1>4 DEF Goes, f
  <1>5. CASE \E h \in Handles : Issue(<<Dropped(h)>>, S) /\ (h0 # <<>> => h = h0)
    <2>1. \E h : Drops(S, f, h0, h)
      BY <1>1, <1>3, <1>5 DEF Drops
    <2> QED
      BY <1>1, <1>2, <1>3, <2>1 DEF Goes, f
  <1> QED
    BY <1>4, <1>5

(* The caller of the first reply, and what it is told.                     *)
Replying(t, id, res) ==
    /\ s2c # <<>> /\ IsReply(Received(s2c[1])) /\ id = Received(s2c[1]).out[1]
    /\ res = Result(sent[id].op, Received(s2c[1])) /\ sent[id].task = t

(* The handle that a step on this reply must not lose.                     *)
Kept(t, id) == IF s2c[1].ans.is = "handle" THEN s2c[1].ans.v
               ELSE IF sent[id].op = "close" THEN <<>> ELSE task[t].handle

LEMMA ReplyingIs ==
    ASSUME Inv, NEW t \in Tasks, NEW id, NEW res, Replying(t, id, res)
    PROVE  /\ id = s2c[1].id /\ id \in DOMAIN sent /\ id \in u32 /\ id \in Nat /\ id # 0 /\ res = Read(s2c[1])
           /\ s2c[1].op = sent[id].op /\ s2c[1].args = sent[id].args
           /\ Fit(sent[id].op, s2c[1].ans) /\ Told(sent[id].op, s2c[1].ans, res)
           /\ WellAsked(sent[id])
           /\ s2c[1].ans.is = "handle" => s2c[1].ans.v \in Handles
           /\ task[t].id = id /\ task[t].out = "none" /\ Busy(task[t], sent[id])
           /\ task[t] \in TaskRecs /\ nextId \in Nat /\ Bounded(task[t]) /\ task[t].prog # "none"
  <1> DEFINE r == s2c[1]
  <1>1. /\ r.id \in DOMAIN sent /\ Received(r).out[1] = r.id
        /\ r.op = sent[r.id].op /\ r.args = sent[r.id].args
        /\ Fit(r.op, r.ans) /\ Told(r.op, r.ans, Read(r))
        /\ Result(sent[r.id].op, Received(r)) = Read(r) /\ 1 \in 1 .. Len(s2c)
    BY FirstReply DEF Replying
  <1>2. r.ans.is = "handle" => r.ans.v \in Handles
    BY <1>1 DEF Inv, IInv, Given
  <1> HIDE DEF r
  <1>3. id = r.id /\ res = Read(r) /\ sent[id].task = t
    BY <1>1 DEF Replying, r
  <1>4. Owned(task, id, sent[id]) /\ Nobody \notin Tasks
    BY <1>1, <1>3, SftpServerAssumption DEF Inv, Owns
  <1>5. task[t].id = id /\ task[t].out = "none" /\ Busy(task[t], sent[id])
    BY <1>3, <1>4 DEF Owned
  <1>6. task[t] \in TaskRecs /\ nextId \in Nat /\ Bounded(task[t])
    BY DEF Inv, IInv
  <1>7. id \in u32 /\ id \in Nat /\ id >= 10 /\ WellAsked(sent[id])
    BY <1>1, <1>3 DEF Inv, IInv, Asks
  <1>8. task[t].prog # "none"
    BY <1>5 DEF Busy
  <1> QED
    BY <1>1, <1>2, <1>3, <1>5, <1>6, <1>7, <1>8 DEF r

(* What a caller of open is told.                                          *)
LEMMA OpenTold ==
    ASSUME NEW op \in {"open", "opendir"}, NEW ans, NEW res, Fit(op, ans), Told(op, ans, res)
    PROVE  \/ ans.is = "err" /\ ~res.ok
           \/ ans.is = "handle" /\ res.ok /\ res.v = ans.v
  BY DEF Fit, Told, StatusOps

LEMMA ElseTold ==
    ASSUME NEW op, op \notin {"open", "opendir"}, NEW ans, Fit(op, ans)
    PROVE  ans.is # "handle"
  BY DEF Fit

(* Requests on a handle.                                                   *)
LEMMA HandleAsked ==
    ASSUME NEW t \in Tasks, NEW h \in Texts
    PROVE  /\ \A op \in {"fstat", "close", "readdir"} : WellAsked([task |-> t, op |-> op, args |-> <<h>>])
           /\ \A n \in u64 : WellAsked([task |-> t, op |-> "read", args |-> <<h, n, ChunkSize>>])
           /\ \A n \in u64, d \in Datas : WellAsked([task |-> t, op |-> "write", args |-> <<h, n, d>>])
           /\ \A a \in Blocks : WellAsked([task |-> t, op |-> "fsetstat", args |-> <<h, a>>])
  <1>1. \A op \in {"fstat", "close", "readdir"} : WellAsked([task |-> t, op |-> op, args |-> <<h>>])
    BY DEF WellAsked, Fields3, OneText
  <1>2. ASSUME NEW n \in u64 PROVE WellAsked([task |-> t, op |-> "read", args |-> <<h, n, ChunkSize>>])
    <2>1. Fields3("read", <<h, n, ChunkSize>>)
      BY DEF Fields3
    <2> QED
      BY <2>1 DEF WellAsked
  <1>3. ASSUME NEW n \in u64, NEW d \in Datas PROVE WellAsked([task |-> t, op |-> "write", args |-> <<h, n, d>>])
    <2>1. Fields3("write", <<h, n, d>>)
      BY DEF Fields3
    <2> QED
      BY <2>1 DEF WellAsked
  <1>4. ASSUME NEW a \in Blocks PROVE WellAsked([task |-> t, op |-> "fsetstat", args |-> <<h, a>>])
    <2>1. Fields3("fsetstat", <<h, a>>)
      BY DEF Fields3
    <2> QED
      BY <2>1 DEF WellAsked
  <1> QED
    BY <1>1, <1>2, <1>3, <1>4

(* The next request on the handle of r.                                    *)
OnHandle(r, op, args) ==
    /\ r.handle \in Handles
    /\ \/ op = "fstat" /\ r.prog \in {"read", "file"}
       \/ op = "read" /\ r.prog = "read"
       \/ op = "write" /\ r.prog \in {"write", "file"}
       \/ op = "fsetstat" /\ r.prog = "file" /\ args[2] = to_packet(r.meta)
       \/ op = "readdir" /\ r.prog = "list"
       \/ op = "close" /\ r.prog \in {"read", "write", "file", "list"}

LEMMA HandleGoes ==
    ASSUME nextId \in Nat, NEW t \in Tasks, NEW r \in TaskRecs, r.out = "none", Bounded(r), NEW S, NEW op, NEW args,
           OnHandle(r, op, args), args[1] = r.handle, WellAsked([task |-> t, op |-> op, args |-> args]),
           task' = [task EXCEPT ![t] = Ask(r)], Issue(<<<<t, op, args>>>>, S),
           NEW h0, h0 # <<>> => r.handle = h0
    PROVE  Goes(t, S, Ask(r), h0)
  <1>1. Busy(r, [task |-> t, op |-> op, args |-> args])
    BY DEF Busy, OnHandle
  <1> QED
    BY <1>1, SendsGoes

Moves(t, id) ==
    /\ \E r : Goes(t, Without(sent, id), r, Kept(t, id))
    /\ s2c' = Tail(s2c) /\ UNCHANGED <<srv, fs>>

(* The next request of a transfer, on the handle of r.                     *)
LEMMA GoOnHandle ==
    ASSUME Inv, NEW t \in Tasks, NEW id, NEW res, Replying(t, id, res), NEW r \in TaskRecs, r.out = "none",
           Bounded(r), NEW op, NEW args, OnHandle(r, op, args), args[1] = r.handle,
           WellAsked([task |-> t, op |-> op, args |-> args]),
           GoOn(t, id, Ask(r), <<<<t, op, args>>>>), Kept(t, id) # <<>> => r.handle = Kept(t, id)
    PROVE  Moves(t, id)
  <1>1. nextId \in Nat
    BY DEF Inv, IInv
  <1> DEFINE S == Without(sent, id)
             h0 == Kept(t, id)
  <1>2. /\ task' = [task EXCEPT ![t] = Ask(r)] /\ Issue(<<<<t, op, args>>>>, S)
        /\ s2c' = Tail(s2c) /\ UNCHANGED <<srv, fs>> /\ (h0 # <<>> => r.handle = h0)
    BY DEF GoOn
  <1> HIDE DEF S, h0
  <1>3. Goes(t, S, Ask(r), h0)
    BY <1>1, <1>2, HandleGoes
  <1> QED
    BY <1>2, <1>3 DEF Moves, S, h0

LEMMA WriteMoves ==
    ASSUME Inv, NEW t \in Tasks, NEW id, NEW res, Replying(t, id, res), NEW r \in TaskRecs, r.out = "none",
           r.prog = "write", Bounded(r), r.handle \in Handles,
           Kept(t, id) # <<>> => r.handle = Kept(t, id), WriteOn(t, id, r)
    PROVE  Moves(t, id)
  <1>1. r.handle \in Texts /\ r.offset \in u64 /\ r.offset \in Nat
    BY EmptyText, Widths DEF TaskRecs
  <1>2. CASE GoOn(t, id, Ask(r), <<<<t, "close", <<r.handle>>>>>>)
    <2> DEFINE args == <<r.handle>>
    <2>1. args[1] = r.handle /\ WellAsked([task |-> t, op |-> "close", args |-> args]) /\ OnHandle(r, "close", args)
      BY <1>1, HandleAsked, ThreeSeq DEF OnHandle
    <2>2. GoOn(t, id, Ask(r), <<<<t, "close", args>>>>)
      BY <1>2
    <2> HIDE DEF args
    <2> QED
      BY <2>1, <2>2, GoOnHandle
  <1>3. CASE GoOn(t, id, Ask(r), <<<<t, "write", <<r.handle, r.offset,
                  SubSeq(Content, r.offset + 1, AtMost(r.offset + ChunkSize, Len(Content)))>>>>>>)
    <2> DEFINE d == SubSeq(Content, r.offset + 1, AtMost(r.offset + ChunkSize, Len(Content)))
               args == <<r.handle, r.offset, d>>
    <2>0. PICK o \in Nat : r.offset = o
      BY <1>1
    <2>1. d \in Datas
      <3>1. /\ Content \in Seq(Nat) /\ Len(Content) \in Nat /\ ChunkSize \in Nat /\ ChunkSize <= MaxPacket
            /\ MaxPacket \in Nat /\ 4 * (MaxPacket + 64) < U32
        BY SftpServerAssumption, WidthAssumption
      <3> DEFINE n == AtMost(o + ChunkSize, Len(Content))
      <3>2. o + 1 \in Nat \ {0} /\ n \in Nat /\ n <= Len(Content) /\ n <= o + ChunkSize
        BY <3>1 DEF AtMost
      <3> HIDE DEF n
      <3>3. d = SubSeq(Content, o + 1, n)
        BY <2>0 DEF n
      <3>4. d \in Seq(Nat)
        BY <3>1, <3>2, <3>3, SubBytes
      <3>5. Len(SubSeq(Content, o + 1, n)) = IF o + 1 <= n THEN n - (o + 1) + 1 ELSE 0
        BY <3>1, <3>2, SubBytes
      <3> HIDE DEF d
      <3> DEFINE l == Len(d)
      <3>8. l = IF o + 1 <= n THEN n - (o + 1) + 1 ELSE 0
        BY <3>3, <3>5
      <3> HIDE DEF l
      <3>6. l \in Nat /\ l <= MaxPacket
        BY <3>1, <3>2, <3>8
      <3>7. 4 * (l + 64) < U32
        BY <3>1, <3>6, Widths
      <3> QED
        BY <3>4, <3>7 DEF Datas, l
    <2>2. GoOn(t, id, Ask(r), <<<<t, "write", args>>>>)
      BY <1>3
    <2> HIDE DEF d
    <2>3. args[1] = r.handle /\ WellAsked([task |-> t, op |-> "write", args |-> args]) /\ OnHandle(r, "write", args)
      BY <1>1, <2>1, HandleAsked, ThreeSeq DEF OnHandle
    <2> HIDE DEF args
    <2> QED
      BY <2>2, <2>3, GoOnHandle
  <1> QED
    BY <1>2, <1>3 DEF WriteOn, CloseIt

LEMMA FailMoves ==
    ASSUME Inv, NEW t \in Tasks, NEW id, NEW res, Replying(t, id, res), NEW out \in {"ok", "err"},
           \/ GoOn(t, id, Finish(task[t], out), <<>>) /\ Kept(t, id) = <<>>
           \/ /\ GoOn(t, id, Finish(task[t], out), <<Dropped(task[t].handle)>>) /\ task[t].handle \in Handles
              /\ Kept(t, id) # <<>> => Kept(t, id) = task[t].handle
    PROVE  Moves(t, id)
  <1>1. task[t] \in TaskRecs /\ task[t].prog # "none" /\ Bounded(task[t])
    BY ReplyingIs
  <1> DEFINE S == Without(sent, id)
             h0 == Kept(t, id)
             r == task[t]
  <1>2. /\ task' = [task EXCEPT ![t] = Finish(r, out)]
        /\ s2c' = Tail(s2c) /\ UNCHANGED <<srv, fs>>
        /\ \/ Issue(<<>>, S) /\ h0 = <<>>
           \/ \E h \in Handles : Issue(<<Dropped(h)>>, S) /\ (h0 # <<>> => h = h0)
    BY DEF GoOn
  <1> HIDE DEF S, h0, r
  <1>3. Goes(t, S, Finish(r, out), h0)
    BY <1>1, <1>2, FinishGoes DEF r
  <1> QED
    BY <1>2, <1>3 DEF Moves, S, h0

LEMMA RestMoves ==
    ASSUME Inv, NEW t \in Tasks, NEW id, NEW res, Replying(t, id, res), NEW r \in TaskRecs, Rests(r), Bounded(r),
           GoOn(t, id, r, <<>>), Kept(t, id) # <<>> => r.handle = Kept(t, id)
    PROVE  Moves(t, id)
  BY DEF GoOn, Goes, Moves

LEMMA TakeHandleMoves ==
    ASSUME Inv, NEW t \in Tasks, NEW id, NEW res, Replying(t, id, res), TakeHandle(t, id, res)
    PROVE  Moves(t, id)
  <1> DEFINE op == sent[id].op
             ans == s2c[1].ans
             r == [task[t] EXCEPT !.handle = res.v, !.id = 0]
  <1>1. op \in {"open", "opendir"}
    BY DEF TakeHandle, Answered
  <1>2. /\ Fit(op, ans) /\ Told(op, ans, res) /\ (ans.is = "handle" => ans.v \in Handles) /\ Busy(task[t], sent[id])
        /\ task[t] \in TaskRecs /\ Bounded(task[t]) /\ task[t].out = "none"
    BY ReplyingIs
  <1>3. task[t].handle = <<>> /\ task[t].prog \in {"read", "write", "file", "list"}
    BY <1>1, <1>2, SftpServerAssumption DEF Busy
  <1> HIDE DEF op, ans
  <1>4. \/ ans.is = "err" /\ ~res.ok
        \/ ans.is = "handle" /\ res.ok /\ res.v = ans.v
    BY <1>1, <1>2, OpenTold
  <1>5. CASE ans.is = "err" /\ ~res.ok
    <2>1. GoOn(t, id, Finish(task[t], "err"), <<>>)
      BY <1>5 DEF TakeHandle
    <2>2. Kept(t, id) = <<>>
      BY <1>3, <1>5 DEF Kept, ans
    <2> QED
      BY <2>1, <2>2, FailMoves
  <1>6. CASE ans.is = "handle" /\ res.ok /\ res.v = ans.v
    <2>1. res.v \in Handles /\ Kept(t, id) = res.v
      BY <1>2, <1>6 DEF Kept, ans
    <2>2. /\ r \in TaskRecs /\ r.handle = res.v /\ r.id = 0 /\ r.out = "none" /\ r.prog = task[t].prog
          /\ r.offset = task[t].offset
      BY <1>2, <2>1 DEF TaskRecs
    <2>3. /\ r.prog = "read" => GoOn(t, id, Ask(r), <<<<t, "fstat", <<r.handle>>>>>>)
          /\ r.prog = "write" => WriteOn(t, id, r)
          /\ r.prog \in {"file", "list"} => GoOn(t, id, r, <<>>)
      BY <1>6 DEF TakeHandle
    <2> HIDE DEF r
    <2>4. Bounded(r)
      BY <1>2, <2>2 DEF Bounded
    <2>5. CASE r.prog = "read"
      <3> DEFINE args == <<r.handle>>
      <3>1. args[1] = r.handle /\ WellAsked([task |-> t, op |-> "fstat", args |-> args]) /\ OnHandle(r, "fstat", args)
        BY <2>1, <2>2, <2>5, EmptyText, HandleAsked, ThreeSeq DEF OnHandle
      <3>2. GoOn(t, id, Ask(r), <<<<t, "fstat", args>>>>)
        BY <2>3, <2>5
      <3> HIDE DEF args
      <3> QED
        BY <2>1, <2>2, <2>4, <3>1, <3>2, GoOnHandle
    <2>6. CASE r.prog = "write"
      BY <2>1, <2>2, <2>3, <2>4, <2>6, WriteMoves
    <2>7. CASE r.prog \in {"file", "list"}
      <3>1. GoOn(t, id, r, <<>>)
        BY <2>3, <2>7
      <3>2. Rests(r)
        BY <2>1, <2>2, <2>7 DEF Rests
      <3> QED
        BY <2>1, <2>2, <2>4, <3>1, <3>2, RestMoves
    <2> QED
      BY <1>3, <2>2, <2>5, <2>6, <2>7
  <1> QED
    BY <1>4, <1>5, <1>6

LEMMA DataTold ==
    ASSUME NEW ans, NEW res, Fit("read", ans), Told("read", ans, res)
    PROVE  \/ ans.is = "err" /\ ~res.ok
           \/ ans.is = "data" /\ res.ok /\ res.v = ans.v /\ ans.v \in Seq(Nat)
  BY DEF Fit, Told, StatusOps

LEMMA WriteTold ==
    ASSUME NEW ans, NEW res, NEW op \in {"write", "close"}, Fit(op, ans), Told(op, ans, res)
    PROVE  \/ ans.is = "err" /\ ~res.ok
           \/ ans.is = "ok" /\ res.ok
  BY DEF Fit, Told, StatusOps

LEMMA BatchTold ==
    ASSUME Inv, NEW t \in Tasks, NEW id, NEW res, Replying(t, id, res), sent[id].op = "readdir"
    PROVE  LET ans == s2c[1].ans
           IN  \/ ans.is = "err" /\ ~res.ok
               \/ /\ ans.is = "names" /\ res.ok /\ res.v \in Seq(DirEntries) /\ ans.v \in Seq(DirEntries)
                  /\ ans.v = <<>> => res.v = <<>>
                  /\ Wide(ans.v) => Filenames(res.v) = Filenames(ans.v)
  <1> DEFINE r == s2c[1]
  <1>1. /\ r.op = "readdir" /\ Fit(r.op, r.ans) /\ r.id \in u32 /\ res = Read(r) /\ Told(r.op, r.ans, res)
    BY ReplyingIs
  <1> HIDE DEF r
  <1>2. CASE r.ans.is = "err"
    BY <1>1, <1>2 DEF Told, r
  <1>3. CASE r.ans.is = "names"
    <2>1. r.ans.v \in Seq(DirEntries) /\ Len(r.ans.v) <= MaxNames
      BY <1>1, <1>3 DEF Fit
    <2>2. Read(r) = Ok(IF r.ans.v = <<>> THEN <<>> ELSE Listed(r.ans.v))
      BY <1>1, <1>3, ToldNames
    <2>3. Listed(r.ans.v) \in Seq(DirEntries) /\ (Wide(r.ans.v) => Filenames(Listed(r.ans.v)) = Filenames(r.ans.v))
      BY <2>1, ListedEntries
    <2>4. res.ok = TRUE /\ res.v = (IF r.ans.v = <<>> THEN <<>> ELSE Listed(r.ans.v))
      BY <1>1, <2>2 DEF Ok
    <2>5. res.v \in Seq(DirEntries) /\ (Wide(r.ans.v) => Filenames(res.v) = Filenames(r.ans.v))
      <3>1. <<>> \in Seq(DirEntries)
        OBVIOUS
      <3> QED
        BY <2>3, <2>4, <3>1
    <2> QED
      BY <1>3, <2>1, <2>4, <2>5 DEF r
  <1>4. r.ans.is = "err" \/ r.ans.is = "names"
    BY <1>1 DEF Fit, StatusOps
  <1> QED
    BY <1>2, <1>3, <1>4

(* A call on a handle has been answered.                                   *)
LEMMA OnHandleIs ==
    ASSUME Inv, NEW t \in Tasks, NEW id, NEW res, Replying(t, id, res),
           sent[id].op \in {"fstat", "read", "write", "fsetstat", "readdir", "close"}
    PROVE  /\ task[t].handle \in Handles /\ task[t].handle \in Texts /\ task[t].handle # <<>>
           /\ sent[id].args[1] = task[t].handle
           /\ task[t].prog \in {"read", "write", "file", "list"} /\ s2c[1].ans.is # "handle"
           /\ Kept(t, id) = IF sent[id].op = "close" THEN <<>> ELSE task[t].handle
           /\ sent[id].op = "fstat" => task[t].prog \in {"read", "file"}
           /\ sent[id].op = "read" => task[t].prog = "read"
           /\ sent[id].op = "write" => task[t].prog \in {"write", "file"}
           /\ sent[id].op = "fsetstat" => task[t].prog = "file"
           /\ sent[id].op = "readdir" => task[t].prog = "list"
  <1>1. Busy(task[t], sent[id]) /\ Fit(sent[id].op, s2c[1].ans)
    BY ReplyingIs
  <1>2. s2c[1].ans.is # "handle"
    BY <1>1, ElseTold
  <1>3. sent[id].op \notin PathOps
    BY SftpServerAssumption
  <1>4. /\ task[t].handle \in Handles /\ sent[id].args[1] = task[t].handle
        /\ task[t].prog \in {"read", "write", "file", "list"}
        /\ sent[id].op = "fstat" => task[t].prog \in {"read", "file"}
        /\ sent[id].op = "read" => task[t].prog = "read"
        /\ sent[id].op = "write" => task[t].prog \in {"write", "file"}
        /\ sent[id].op = "fsetstat" => task[t].prog = "file"
        /\ sent[id].op = "readdir" => task[t].prog = "list"
    BY <1>1, <1>3 DEF Busy
  <1>5. Kept(t, id) = IF sent[id].op = "close" THEN <<>> ELSE task[t].handle
    BY <1>2 DEF Kept
  <1>6. task[t].handle \in Texts /\ task[t].handle # <<>>
    BY <1>4, EmptyText
  <1> QED
    BY <1>2, <1>4, <1>5, <1>6

LEMMA ReadOnMoves ==
    ASSUME Inv, NEW t \in Tasks, NEW id, NEW res, Replying(t, id, res), NEW r \in TaskRecs, r.out = "none",
           r.prog = "read", r.handle \in Handles, Kept(t, id) # <<>> => r.handle = Kept(t, id),
           ReadOn(t, id, r) \/ CloseIt(t, id, r)
    PROVE  Moves(t, id)
  <1>1. r.handle \in Texts /\ r.offset \in u64 /\ Bounded(r)
    BY EmptyText DEF TaskRecs, Bounded
  <1>2. CASE CloseIt(t, id, r)
    <2> DEFINE args == <<r.handle>>
    <2>1. args[1] = r.handle /\ WellAsked([task |-> t, op |-> "close", args |-> args]) /\ OnHandle(r, "close", args)
      BY <1>1, HandleAsked, ThreeSeq DEF OnHandle
    <2>2. GoOn(t, id, Ask(r), <<<<t, "close", args>>>>)
      BY <1>2 DEF CloseIt
    <2> HIDE DEF args
    <2> QED
      BY <1>1, <2>1, <2>2, GoOnHandle
  <1>3. CASE ReadOn(t, id, r)
    <2> DEFINE args == <<r.handle, r.offset, ChunkSize>>
    <2>1. args[1] = r.handle /\ WellAsked([task |-> t, op |-> "read", args |-> args]) /\ OnHandle(r, "read", args)
      BY <1>1, HandleAsked, ThreeSeq DEF OnHandle
    <2>2. GoOn(t, id, Ask(r), <<<<t, "read", args>>>>)
      BY <1>3 DEF ReadOn
    <2> HIDE DEF args
    <2> QED
      BY <1>1, <2>1, <2>2, GoOnHandle
  <1> QED
    BY <1>2, <1>3

LEMMA FailsMoves ==
    ASSUME Inv, NEW t \in Tasks, NEW id, NEW res, Replying(t, id, res), Fails(t, id),
           sent[id].op \in {"fstat", "read", "write", "fsetstat", "readdir"}
    PROVE  Moves(t, id)
  <1>1. task[t].handle \in Handles /\ Kept(t, id) = task[t].handle
    BY OnHandleIs
  <1> QED
    BY <1>1, FailMoves DEF Fails

(* The caller's handle is in its hands again.                              *)
LEMMA BackMoves ==
    ASSUME Inv, NEW t \in Tasks, NEW id, NEW res, Replying(t, id, res), task[t].prog \in {"file", "list"},
           sent[id].op \in {"fstat", "write", "fsetstat", "readdir"},
           NEW r \in TaskRecs, r.id = 0, r.out = "none", r.prog = task[t].prog, r.handle = task[t].handle,
           GoOn(t, id, r, <<>>)
    PROVE  Moves(t, id)
  <1>1. task[t].handle \in Handles /\ Kept(t, id) = task[t].handle
    BY OnHandleIs
  <1>2. Rests(r) /\ Bounded(r)
    BY <1>1 DEF Rests, Bounded
  <1> QED
    BY <1>1, <1>2, RestMoves

LEMMA TakeAttrsMoves ==
    ASSUME Inv, NEW t \in Tasks, NEW id, NEW res, Replying(t, id, res), TakeAttrs(t, id, res)
    PROVE  Moves(t, id)
  <1>1. sent[id].op = "fstat"
    BY DEF TakeAttrs, Answered
  <1>2. task[t].handle \in Handles /\ Kept(t, id) = task[t].handle /\ task[t].prog \in {"read", "file"}
    BY <1>1, OnHandleIs
  <1>3. task[t] \in TaskRecs /\ task[t].out = "none"
    BY ReplyingIs
  <1>4. CASE task[t].prog = "file"
    <2> DEFINE r == [task[t] EXCEPT !.id = 0]
    <2>1. r \in TaskRecs /\ r.id = 0 /\ r.out = "none" /\ r.prog = task[t].prog /\ r.handle = task[t].handle
      BY <1>3 DEF TaskRecs
    <2>2. GoOn(t, id, r, <<>>)
      BY <1>4 DEF TakeAttrs
    <2> HIDE DEF r
    <2> QED
      BY <1>1, <1>4, <2>1, <2>2, BackMoves
  <1>5. CASE task[t].prog = "read" /\ res.ok
    <2>1. ReadOn(t, id, task[t])
      BY <1>5 DEF TakeAttrs
    <2> QED
      BY <1>2, <1>3, <1>5, <2>1, ReadOnMoves
  <1>6. CASE task[t].prog = "read" /\ ~res.ok
    BY <1>1, <1>6, FailsMoves DEF TakeAttrs
  <1> QED
    BY <1>2, <1>4, <1>5, <1>6

LEMMA TakeDataMoves ==
    ASSUME Inv, NEW t \in Tasks, NEW id, NEW res, Replying(t, id, res), TakeData(t, id, res)
    PROVE  Moves(t, id)
  <1>1. sent[id].op = "read"
    BY DEF TakeData, Answered
  <1>2. task[t].handle \in Handles /\ Kept(t, id) = task[t].handle /\ task[t].prog = "read"
    BY <1>1, OnHandleIs
  <1>3. task[t] \in TaskRecs /\ task[t].out = "none" /\ Fit("read", s2c[1].ans) /\ Told("read", s2c[1].ans, res)
    BY <1>1, ReplyingIs
  <1>4. CASE ~res.ok
    BY <1>1, <1>4, FailsMoves DEF TakeData
  <1>5. CASE res.ok /\ res.v = <<>>
    <2>1. CloseIt(t, id, task[t])
      BY <1>5 DEF TakeData
    <2> QED
      BY <1>2, <1>3, <2>1, ReadOnMoves
  <1>6. CASE res.ok /\ res.v # <<>>
    <2> DEFINE r == [task[t] EXCEPT !.got = @ \o res.v, !.offset = (@ + Len(res.v)) % U64]
    <2>1. res.v \in Seq(Nat) /\ Len(res.v) \in Nat
      BY <1>3, <1>6, DataTold
    <2>2. task[t].got \in Seq(Nat \cup DirEntries) /\ task[t].offset \in Nat
      BY <1>3, Widths DEF TaskRecs
    <2>3. task[t].got \o res.v \in Seq(Nat \cup DirEntries)
      <3>1. res.v \in Seq(Nat \cup DirEntries)
        BY <2>1, SeqMonotonic
      <3> QED
        BY <2>2, <3>1
    <2>4. (task[t].offset + Len(res.v)) % U64 \in u64
      <3>1. PICK n \in Nat : n = task[t].offset + Len(res.v)
        BY <2>1, <2>2
      <3>2. n % U64 \in u64
        BY InU32, Widths, SMT DEF u64
      <3> QED
        BY <3>1, <3>2
    <2>5. r \in TaskRecs /\ r.out = "none" /\ r.prog = task[t].prog /\ r.handle = task[t].handle
      BY <1>3, <2>3, <2>4 DEF TaskRecs
    <2>6. ReadOn(t, id, r)
      BY <1>6 DEF TakeData
    <2> HIDE DEF r
    <2> QED
      BY <1>2, <2>5, <2>6, ReadOnMoves
  <1> QED
    BY <1>4, <1>5, <1>6

LEMMA TakeWrittenMoves ==
    ASSUME Inv, NEW t \in Tasks, NEW id, NEW res, Replying(t, id, res), TakeWritten(t, id, res)
    PROVE  Moves(t, id)
  <1>1. sent[id].op \in {"write", "fsetstat"}
    BY DEF TakeWritten, Answered
  <1>2. task[t].handle \in Handles /\ Kept(t, id) = task[t].handle /\ task[t].prog \in {"write", "file"}
    BY <1>1, OnHandleIs
  <1>3. task[t] \in TaskRecs /\ task[t].out = "none" /\ Bounded(task[t])
    BY ReplyingIs
  <1>4. CASE task[t].prog = "file"
    <2> DEFINE r == [task[t] EXCEPT !.id = 0]
    <2>1. r \in TaskRecs /\ r.id = 0 /\ r.out = "none" /\ r.prog = task[t].prog /\ r.handle = task[t].handle
      BY <1>3 DEF TaskRecs
    <2>2. GoOn(t, id, r, <<>>)
      BY <1>4 DEF TakeWritten
    <2> HIDE DEF r
    <2> QED
      BY <1>1, <1>4, <2>1, <2>2, BackMoves
  <1>5. CASE task[t].prog = "write" /\ ~res.ok
    BY <1>1, <1>5, FailsMoves DEF TakeWritten
  <1>6. CASE task[t].prog = "write" /\ res.ok
    <2> DEFINE n == AtMost(ChunkSize, Len(Content) - task[t].offset)
               r == [task[t] EXCEPT !.offset = @ + n]
    <2>1. WriteOn(t, id, r)
      BY <1>6 DEF TakeWritten
    <2>2. PICK o \in Nat : task[t].offset = o
      BY <1>3, Widths DEF TaskRecs
    <2>3. o <= Len(Content)
      BY <1>3, <1>6, <2>2 DEF Bounded
    <2>4. Len(Content) \in Nat /\ ChunkSize \in Nat /\ Len(Content) < U64 /\ U64 \in Nat
      BY SftpServerAssumption, WidthAssumption
    <2>5. n \in Nat /\ o + n <= Len(Content)
      BY <2>2, <2>3, <2>4 DEF AtMost
    <2> HIDE DEF n
    <2>6. task[t].offset + n \in u64
      BY <2>2, <2>4, <2>5 DEF u64
    <2>7. /\ r \in TaskRecs /\ r.out = "none" /\ r.prog = task[t].prog /\ r.handle = task[t].handle
          /\ r.offset = task[t].offset + n
      BY <1>3, <2>6 DEF TaskRecs
    <2> HIDE DEF r
    <2>8. Bounded(r)
      BY <2>2, <2>5, <2>7 DEF Bounded
    <2> QED
      BY <1>2, <1>6, <2>1, <2>7, <2>8, WriteMoves
  <1> QED
    BY <1>2, <1>4, <1>5, <1>6

LEMMA TakeBatchMoves ==
    ASSUME Inv, NEW t \in Tasks, NEW id, NEW res, Replying(t, id, res), TakeBatch(t, id, res)
    PROVE  Moves(t, id)
  <1>1. sent[id].op = "readdir"
    BY DEF TakeBatch, Answered
  <1>2. task[t].prog = "list"
    BY <1>1, OnHandleIs
  <1>3. task[t] \in TaskRecs /\ task[t].out = "none"
    BY ReplyingIs
  <1>4. CASE ~res.ok
    BY <1>1, <1>4, FailsMoves DEF TakeBatch
  <1>5. CASE res.ok /\ res.v = <<>>
    <2> DEFINE r == [task[t] EXCEPT !.id = 0, !.used = TRUE]
    <2>1. r \in TaskRecs /\ r.id = 0 /\ r.out = "none" /\ r.prog = task[t].prog /\ r.handle = task[t].handle
      BY <1>3 DEF TaskRecs
    <2>2. GoOn(t, id, r, <<>>)
      BY <1>5 DEF TakeBatch
    <2> HIDE DEF r
    <2> QED
      BY <1>1, <1>2, <2>1, <2>2, BackMoves
  <1>6. CASE res.ok /\ res.v # <<>>
    <2> DEFINE r == [task[t] EXCEPT !.id = 0, !.got = Append(@, res.v[1]), !.entries = Tail(res.v)]
    <2>1. res.v \in Seq(DirEntries)
      BY <1>1, <1>6, BatchTold
    <2>2. Tail(res.v) \in Seq(DirEntries) /\ res.v[1] \in DirEntries
      BY <1>6, <2>1
    <2>3. Append(task[t].got, res.v[1]) \in Seq(Nat \cup DirEntries)
      <3>1. task[t].got \in Seq(Nat \cup DirEntries)
        BY <1>3 DEF TaskRecs
      <3> QED
        BY <2>2, <3>1
    <2>4. r \in TaskRecs /\ r.id = 0 /\ r.out = "none" /\ r.prog = task[t].prog /\ r.handle = task[t].handle
      BY <1>3, <2>2, <2>3 DEF TaskRecs
    <2>5. GoOn(t, id, r, <<>>)
      BY <1>6 DEF TakeBatch
    <2> HIDE DEF r
    <2> QED
      BY <1>1, <1>2, <2>4, <2>5, BackMoves
  <1> QED
    BY <1>4, <1>5, <1>6

LEMMA TakeClosedMoves ==
    ASSUME Inv, NEW t \in Tasks, NEW id, NEW res, Replying(t, id, res), TakeClosed(t, id, res)
    PROVE  Moves(t, id)
  <1>1. sent[id].op = "close"
    BY DEF TakeClosed, Answered
  <1>2. task[t].handle \in Handles /\ Kept(t, id) = <<>>
    BY <1>1, OnHandleIs
  <1>3. PICK out \in {"ok", "err"} :
           GoOn(t, id, Finish(task[t], out),
                IF task[t].end = "close_file" THEN <<Dropped(task[t].handle)>> ELSE <<>>)
    BY DEF TakeClosed
  <1>4. CASE task[t].end = "close_file"
    BY <1>2, <1>3, <1>4, FailMoves
  <1>5. CASE task[t].end # "close_file"
    BY <1>2, <1>3, <1>5, FailMoves
  <1> QED
    BY <1>4, <1>5

LEMMA TakePathMoves ==
    ASSUME Inv, NEW t \in Tasks, NEW id, NEW res, Replying(t, id, res), TakePath(t, id, res)
    PROVE  Moves(t, id)
  <1>1. sent[id].op \in PathOps
    BY DEF TakePath, Answered
  <1>2. Busy(task[t], sent[id]) /\ Fit(sent[id].op, s2c[1].ans)
    BY ReplyingIs
  <1>3. /\ sent[id].op \notin {"open", "opendir", "fstat", "read", "write", "fsetstat", "readdir", "close"}
    BY <1>1, SftpServerAssumption
  <1>4. task[t].handle = <<>>
    BY <1>2, <1>3 DEF Busy
  <1>5. s2c[1].ans.is # "handle"
    BY <1>2, <1>3, ElseTold
  <1>6. Kept(t, id) = <<>>
    BY <1>3, <1>4, <1>5 DEF Kept
  <1>7. PICK out \in {"ok", "err"} : GoOn(t, id, Finish(task[t], out), <<>>)
    BY DEF TakePath
  <1> QED
    BY <1>6, <1>7, FailMoves

(* A reply is delivered.                                                   *)
Takes(t, id, res) ==
    \/ TakeHandle(t, id, res) \/ TakeAttrs(t, id, res) \/ TakeData(t, id, res)
    \/ TakeWritten(t, id, res) \/ TakeBatch(t, id, res)
    \/ TakeClosed(t, id, res) \/ TakePath(t, id, res)

LEMMA TakesMoves ==
    ASSUME Inv, NEW t \in Tasks, NEW id, NEW res, Replying(t, id, res), Takes(t, id, res)
    PROVE  Moves(t, id)
  BY TakeHandleMoves, TakeAttrsMoves, TakeDataMoves, TakeWrittenMoves, TakeBatchMoves, TakeClosedMoves,
     TakePathMoves DEF Takes

(* Deliver is one of three: a reply to nobody, to a drop, or to a caller.  *)
LEMMA DeliverIs ==
    ASSUME Inv, Deliver
    PROVE  /\ s2c # <<>>
           /\ \/ /\ ~IsReply(Received(s2c[1])) /\ s2c' = Tail(s2c)
                 /\ UNCHANGED <<task, sent, nextId, c2s, srv, fs>>
              \/ /\ IsReply(Received(s2c[1])) /\ sent[s2c[1].id].task = Nobody /\ sent[s2c[1].id].op = "close"
                 /\ sent' = Without(sent, s2c[1].id) /\ s2c' = Tail(s2c)
                 /\ UNCHANGED <<task, nextId, c2s, srv, fs>>
              \/ \E t \in Tasks : \E res : Replying(t, s2c[1].id, res) /\ Takes(t, s2c[1].id, res)
  <1>1. s2c # <<>>
    BY DEF Deliver
  <1>2. CASE ~IsReply(Received(s2c[1])) /\ TakeStray
    BY <1>1, <1>2 DEF TakeStray
  <1>3. ASSUME IsReply(Received(s2c[1])), NEW id, id = Received(s2c[1]).out[1], NEW res,
               res = Result(sent[id].op, Received(s2c[1])),
               TakeDropped(id) \/ \E t \in Tasks : Takes(t, id, res)
        PROVE  \/ /\ IsReply(Received(s2c[1])) /\ sent[s2c[1].id].task = Nobody /\ sent[s2c[1].id].op = "close"
                  /\ sent' = Without(sent, s2c[1].id) /\ s2c' = Tail(s2c)
                  /\ UNCHANGED <<task, nextId, c2s, srv, fs>>
               \/ \E t \in Tasks : \E x : Replying(t, s2c[1].id, x) /\ Takes(t, s2c[1].id, x)
    <2>1. id = s2c[1].id
      BY <1>1, <1>3, FirstReply
    <2>2. CASE TakeDropped(id)
      BY <1>3, <2>1, <2>2 DEF TakeDropped, Answered
    <2>3. CASE \E t \in Tasks : Takes(t, id, res)
      <3>1. PICK t \in Tasks : Takes(t, id, res)
        BY <2>3
      <3>2. sent[id].task = t
        BY <3>1 DEF Takes, TakeHandle, TakeAttrs, TakeData, TakeWritten, TakeBatch, TakeClosed, TakePath, Answered
      <3>3. Replying(t, id, res)
        BY <1>1, <1>3, <3>2 DEF Replying
      <3> QED
        BY <2>1, <3>1, <3>3
    <2> QED
      BY <1>3, <2>2, <2>3
  <1> QED
    BY <1>1, <1>2, <1>3 DEF Deliver, Takes

LEMMA DeliverKeeps ==
    ASSUME Inv, Deliver
    PROVE  Inv'
  <1>1. s2c # <<>>
    BY DeliverIs
  <1>2. ASSUME NEW t \in Tasks, NEW res, Replying(t, s2c[1].id, res), Takes(t, s2c[1].id, res) PROVE Inv'
    <2> DEFINE id == s2c[1].id
    <2>1. Moves(t, id)
      BY <1>2, TakesMoves
    <2>2. Left(t, Without(sent, id), Tail(s2c))
      BY <1>1, <1>2, <2>1, LeftReply DEF Moves, Replying
    <2>3. PICK r : Goes(t, Without(sent, id), r, Kept(t, id))
      BY <2>1 DEF Moves
    <2> HIDE DEF id
    <2> QED
      BY <2>2, <2>3, GoesKeeps
  <1> QED
    BY <1>1, <1>2, DeliverIs, UnawaitedKeeps

(* A caller that waits for nothing calls, or goes on without a call.       *)
Calls(t) ==
    /\ \E r : Goes(t, sent, r, task[t].handle)
    /\ s2c' = s2c /\ UNCHANGED <<srv, fs>> /\ task[t].id = 0

LEMMA CallsKeep ==
    ASSUME Inv, NEW t \in Tasks, Calls(t)
    PROVE  Inv'
  <1>1. Left(t, sent, s2c)
    BY LeftCall DEF Calls
  <1> QED
    BY <1>1, GoesKeeps DEF Calls

LEMMA Unbegun ==
    ASSUME Inv, NEW t \in Tasks, task[t].prog = "none"
    PROVE  task[t] = Idle /\ task[t].id = 0 /\ task[t].handle = <<>>
  <1>1. Rests(task[t]) \/ (task[t].id \in DOMAIN sent /\ sent[task[t].id].task = t)
    BY DEF Inv, Phases
  <1>2. CASE task[t].id \in DOMAIN sent /\ sent[task[t].id].task = t
    <2>1. Owned(task, task[t].id, sent[task[t].id]) /\ Nobody \notin Tasks
      BY <1>2, SftpServerAssumption DEF Inv, Owns
    <2>2. Busy(task[t], sent[task[t].id])
      BY <1>2, <2>1 DEF Owned
    <2> QED
      BY <2>2 DEF Busy
  <1>3. CASE Rests(task[t])
    BY <1>3 DEF Rests, Idle
  <1> QED
    BY <1>1, <1>2, <1>3

Begun(prog, end, p, m) == [Idle EXCEPT !.prog = prog, !.end = end, !.path = p, !.meta = m]

LEMMA BegunType ==
    ASSUME NEW prog \in {"read", "write", "file", "list", "path"}, NEW end \in {"close", "close_file", "drop"},
           NEW p \in Paths, NEW m \in Metadata
    PROVE  /\ Begun(prog, end, p, m) \in TaskRecs /\ Begun(prog, end, p, m).prog = prog
           /\ Begun(prog, end, p, m).path = p /\ Begun(prog, end, p, m).out = "none"
           /\ Begun(prog, end, p, m).handle = <<>> /\ Bounded(Begun(prog, end, p, m))
           /\ Begun(prog, end, p, m).meta = m
  <1>1. <<>> \in Seq(DirEntries) /\ <<>> \in Seq(Nat \cup DirEntries)
    OBVIOUS
  <1>2. Len(Content) \in Nat /\ 0 \in u64
    BY SftpServerAssumption, Widths DEF u64
  <1> DEFINE r == Begun(prog, end, p, m)
  <1>3. /\ r \in TaskRecs /\ r.prog = prog /\ r.end = end /\ r.path = p /\ r.out = "none" /\ r.id = 0
        /\ r.handle = <<>> /\ r.offset = 0 /\ r.got = <<>> /\ r.entries = <<>> /\ r.used = FALSE
        /\ r.meta = m
    BY <1>1, <1>2 DEF Begun, Idle, TaskRecs
  <1> HIDE DEF r
  <1>4. Bounded(r)
    BY <1>2, <1>3 DEF Bounded
  <1> QED
    BY <1>3, <1>4 DEF r

LEMMA BeginCalls ==
    ASSUME Inv, NEW t \in Tasks, NEW prog \in {"read", "write", "file", "list", "path"},
           NEW end \in {"close", "close_file", "drop"}, NEW p \in Paths, NEW m \in Metadata, NEW op, NEW args,
           Begin(t, prog, end, p, m, <<t, op, args>>), WellAsked([task |-> t, op |-> op, args |-> args]),
           \/ op = "open" /\ prog \in {"read", "write", "file"} /\ args[1] = p
           \/ op = "opendir" /\ prog = "list" /\ args[1] = p
           \/ op \in PathOps /\ prog = "path" /\ (op = "setstat" => args[2] = to_packet(m))
    PROVE  Calls(t)
  <1> DEFINE r == Begun(prog, end, p, m)
  <1>1. /\ r \in TaskRecs /\ r.prog = prog /\ r.path = p /\ r.out = "none" /\ r.handle = <<>> /\ Bounded(r)
        /\ r.meta = m
    BY BegunType
  <1>2. task[t].id = 0 /\ task[t].handle = <<>>
    BY Unbegun DEF Begin
  <1>3. /\ task' = [task EXCEPT ![t] = Ask(r)] /\ Issue(<<<<t, op, args>>>>, sent)
        /\ UNCHANGED <<srv, s2c, fs>>
    BY DEF Begin, Begun
  <1> HIDE DEF r
  <1>4. Busy(r, [task |-> t, op |-> op, args |-> args])
    BY <1>1 DEF Busy
  <1>5. nextId \in Nat
    BY DEF Inv, IInv
  <1>6. Goes(t, sent, Ask(r), task[t].handle)
    BY <1>1, <1>2, <1>3, <1>4, <1>5, SendsGoes
  <1> QED
    BY <1>2, <1>3, <1>6 DEF Calls

LEMMA SomePathIs ==
    SomePath \in Paths /\ Paths \subseteq Texts
  BY SftpServerAssumption DEF SomePath

LEMMA SomeBlocks ==
    NoAttrs \in Blocks /\ \A m \in Metas : to_packet(m) \in Blocks
  <1>1. NoAttrs \in Blocks
    BY NoMetadataIs
  <1>2. ASSUME NEW m \in Metas PROVE to_packet(m) \in Blocks
    BY SftpServerAssumption, ToPacket
  <1> QED
    BY <1>1, <1>2

LEMMA OpenAsked ==
    ASSUME NEW t \in Tasks, NEW p \in Paths, NEW mode \in {ReadMode, WriteMode}
    PROVE  /\ WellAsked([task |-> t, op |-> "open", args |-> <<p, mode, NoAttrs>>]) /\ <<p, mode, NoAttrs>>[1] = p
           /\ WellAsked([task |-> t, op |-> "opendir", args |-> <<p>>]) /\ <<p>>[1] = p
  <1>1. mode \in u32 /\ p \in Texts
    BY SomePathIs, InU32 DEF ReadMode, WriteMode
  <1>2. Fields3("open", <<p, mode, NoAttrs>>) /\ <<p, mode, NoAttrs>>[1] = p
    BY <1>1, SomeBlocks, ThreeSeq DEF Fields3
  <1>3. Fields3("opendir", <<p>>) /\ <<p>>[1] = p
    BY <1>1, ThreeSeq DEF Fields3, OneText
  <1> QED
    BY <1>2, <1>3 DEF WellAsked

LEMMA PathAsked ==
    ASSUME NEW t \in Tasks, NEW op \in PathOps, NEW p \in Paths, NEW q \in Paths, NEW m \in Metas
    PROVE  /\ WellAsked([task |-> t, op |-> op, args |-> PathArgs(op, p, q, m)])
           /\ op = "setstat" => PathArgs(op, p, q, m)[2] = to_packet(m)
  <1>1. p \in Texts /\ q \in Texts /\ to_packet(m) \in Blocks /\ NoAttrs \in Blocks
    BY SomePathIs, SomeBlocks
  <1>2. op \in {"stat", "lstat", "remove", "rename", "mkdir", "rmdir", "realpath", "readlink", "symlink", "setstat"}
    BY SftpServerAssumption
  <1>3. Fields3(op, PathArgs(op, p, q, m))
    <2>1. CASE op \in {"rename", "symlink"}
      BY <1>1, <2>1 DEF Fields3, PathArgs
    <2>2. CASE op = "setstat"
      BY <1>1, <2>2 DEF Fields3, PathArgs
    <2>3. CASE op = "mkdir"
      BY <1>1, <2>3 DEF Fields3, PathArgs
    <2>4. CASE op \in {"stat", "lstat", "remove", "rmdir", "realpath", "readlink"}
      BY <1>1, <2>4 DEF Fields3, PathArgs, OneText
    <2> QED
      BY <1>2, <2>1, <2>2, <2>3, <2>4
  <1>4. op = "setstat" => PathArgs(op, p, q, m)[2] = to_packet(m)
    BY DEF PathArgs
  <1> QED
    BY <1>2, <1>3, <1>4 DEF WellAsked

Starts(t) == StartRead(t) \/ StartWrite(t) \/ StartFile(t) \/ StartList(t) \/ StartPath(t)

LEMMA StartsCall ==
    ASSUME Inv, NEW t \in Tasks, Starts(t)
    PROVE  Calls(t)
  <1>1. ReadMode \in {ReadMode, WriteMode} /\ WriteMode \in {ReadMode, WriteMode} /\ SomePath \in Paths
    BY SomePathIs
  <1>0. NoMetadata \in Metadata /\ Metas \subseteq Metadata
    BY SftpServerAssumption, NoMetadataIs
  <1>2. CASE StartRead(t)
    <2> DEFINE args == <<SomePath, ReadMode, NoAttrs>>
    <2>1. WellAsked([task |-> t, op |-> "open", args |-> args]) /\ args[1] = SomePath
      BY <1>1, OpenAsked
    <2>2. Begin(t, "read", "close", SomePath, NoMetadata, <<t, "open", args>>)
      BY <1>2 DEF StartRead
    <2> HIDE DEF args
    <2> QED
      BY <1>0, <1>1, <2>1, <2>2, BeginCalls
  <1>3. CASE StartWrite(t)
    <2> DEFINE args == <<SomePath, WriteMode, NoAttrs>>
    <2>1. WellAsked([task |-> t, op |-> "open", args |-> args]) /\ args[1] = SomePath
      BY <1>1, OpenAsked
    <2>2. Begin(t, "write", "close", SomePath, NoMetadata, <<t, "open", args>>)
      BY <1>3 DEF StartWrite
    <2> HIDE DEF args
    <2> QED
      BY <1>0, <1>1, <2>1, <2>2, BeginCalls
  <1>4. CASE StartFile(t)
    <2>0. PICK p \in Paths, end \in {"close", "close_file", "drop"} :
             Begin(t, "file", end, p, NoMetadata, <<t, "open", <<p, ReadMode, NoAttrs>>>>)
      BY <1>4 DEF StartFile
    <2> DEFINE args == <<p, ReadMode, NoAttrs>>
    <2>1. WellAsked([task |-> t, op |-> "open", args |-> args]) /\ args[1] = p
      BY <1>1, OpenAsked
    <2>2. Begin(t, "file", end, p, NoMetadata, <<t, "open", args>>)
      BY <2>0
    <2> HIDE DEF args
    <2> QED
      BY <1>0, <1>1, <2>1, <2>2, BeginCalls
  <1>5. CASE StartList(t)
    <2>0. PICK end \in {"close", "close_file", "drop"} :
             Begin(t, "list", end, SomePath, NoMetadata, <<t, "opendir", <<SomePath>>>>)
      BY <1>5 DEF StartList
    <2> DEFINE args == <<SomePath>>
    <2>1. WellAsked([task |-> t, op |-> "opendir", args |-> args]) /\ args[1] = SomePath
      BY <1>1, OpenAsked
    <2>2. Begin(t, "list", end, SomePath, NoMetadata, <<t, "opendir", args>>)
      BY <2>0
    <2> HIDE DEF args
    <2> QED
      BY <1>0, <1>1, <2>1, <2>2, BeginCalls
  <1>6. CASE StartPath(t)
    <2>0. PICK op \in PathOps, q \in Paths, m \in Metas :
             Begin(t, "path", "close", SomePath, m, <<t, op, PathArgs(op, SomePath, q, m)>>)
      BY <1>6 DEF StartPath
    <2> DEFINE args == PathArgs(op, SomePath, q, m)
    <2>1. WellAsked([task |-> t, op |-> op, args |-> args]) /\ (op = "setstat" => args[2] = to_packet(m))
      BY <1>1, PathAsked
    <2>2. Begin(t, "path", "close", SomePath, m, <<t, op, args>>)
      BY <2>0
    <2> HIDE DEF args
    <2> QED
      BY <1>0, <1>1, <2>1, <2>2, BeginCalls
  <1> QED
    BY <1>2, <1>3, <1>4, <1>5, <1>6 DEF Starts

(* A packet of a foreign client is sent.                                   *)
LEMMA RawKeeps ==
    ASSUME Inv, NEW t \in Tasks, SendRaw(t)
    PROVE  Inv'
  <1> DEFINE r == [Idle EXCEPT !.prog = "raw", !.out = "ok"]
  <1>1. PICK b \in Raws : c2s' = c2s \o b
    BY DEF SendRaw
  <1>2. /\ task' = [task EXCEPT ![t] = r] /\ task[t].prog = "none"
        /\ UNCHANGED <<sent, nextId, srv, s2c, fs>>
    BY DEF SendRaw
  <1>3. PICK l : Line(l, sent, c2s, srv.registered, srv.buffer, srv.packets, s2c)
    BY DEF Inv, IInv, InLine
  <1> DEFINE e == [id |-> 0, bytes |-> b]
  <1>4. Foreign(b) /\ IsFrame(b) /\ b \in Seq(Nat)
    <2>1. Foreign(b)
      BY SftpServerAssumption
    <2> QED
      BY <2>1, ForeignFrame DEF Foreign
  <1>5. e \in Entry /\ e.bytes = b /\ e.id = 0
    BY <1>4 DEF Entry
  <1> HIDE DEF e
  <1>6. Known(e, sent) /\ 0 \notin DOMAIN sent /\ Keeps(sent, sent)
    BY <1>3, <1>4, <1>5 DEF Known, Line, Keeps
  <1>7. \E l2 : Line(l2, sent, c2s \o e.bytes, srv.registered, srv.buffer, srv.packets, s2c)
    BY <1>3, <1>4, <1>5, <1>6, LineGrows
  <1>8. InLine'
    BY <1>1, <1>2, <1>5, <1>7 DEF InLine
  <1>9. r \in TaskRecs /\ r.out = "ok" /\ r.id = 0 /\ r.handle = <<>> /\ r.prog = "raw"
    <2>1. <<>> \in Seq(DirEntries) /\ <<>> \in Seq(Nat \cup DirEntries)
      OBVIOUS
    <2>2. 0 \in u64 /\ NoMetadata \in Metadata
      BY InU32, NoMetadataIs
    <2> QED
      BY <2>1, <2>2 DEF Idle, TaskRecs
  <1> HIDE DEF r
  <1>10. Rests(r) /\ Bounded(r)
    BY <1>9 DEF Rests, Bounded
  <1>11. task \in [Tasks -> TaskRecs] /\ IInv
    BY DEF Inv, IInv
  <1>12. task' \in [Tasks -> TaskRecs] /\ task'[t] = r /\ \A u \in Tasks : u # t => task'[u] = task[u]
    BY <1>2, <1>9, <1>11
  <1>13. IInv'
    BY <1>2, <1>8, <1>11, <1>12 DEF IInv
  <1>14. Phases(task', sent')
    BY <1>2, <1>10, <1>12 DEF Phases, Inv
  <1>15. Owns(task', sent')
    <2> SUFFICES ASSUME NEW id \in DOMAIN sent PROVE Owned(task', id, sent[id])
      BY <1>2 DEF Owns
    <2>1. Owned(task, id, sent[id])
      BY DEF Inv, Owns
    <2>2. sent[id].task \in Tasks => sent[id].task # t
      <3> SUFFICES ASSUME sent[id].task = t PROVE FALSE
        OBVIOUS
      <3>1. Busy(task[t], sent[id])
        BY <2>1, SftpServerAssumption DEF Owned
      <3> QED
        BY <1>2, <3>1 DEF Busy
    <2> QED
      BY <1>12, <2>1, <2>2 DEF Owned
  <1>16. \A u \in Tasks : Bounded(task'[u])
    BY <1>10, <1>12 DEF Inv
  <1> QED
    BY <1>13, <1>14, <1>15, <1>16 DEF Inv

(* A caller with a handle in its hands.                                    *)
LEMMA HoldsIs ==
    ASSUME Inv, NEW t \in Tasks, Holds(t)
    PROVE  /\ task[t] \in TaskRecs /\ task[t].id = 0 /\ task[t].out = "none" /\ task[t].handle \in Handles
           /\ task[t].prog \in {"file", "list"} /\ Bounded(task[t]) /\ nextId \in Nat /\ task[t].handle \in Texts
           /\ task[t].handle # <<>>
  <1>1. task[t] \in TaskRecs /\ nextId \in Nat /\ Asks(sent, nextId)
    BY DEF Inv, IInv
  <1>2. task[t].prog \in {"file", "list"} /\ task[t].handle # <<>> /\ task[t].id = 0
    BY DEF Holds
  <1>3. 0 \notin DOMAIN sent
    BY <1>1 DEF Asks
  <1>4. Rests(task[t])
    BY <1>2, <1>3 DEF Inv, Phases
  <1>5. task[t].out = "none" /\ task[t].handle \in Handles
    BY <1>2, <1>4 DEF Rests, Idle
  <1>6. Bounded(task[t])
    BY <1>2 DEF Bounded
  <1> QED
    BY <1>1, <1>2, <1>5, <1>6, EmptyText

LEMMA UseHandle ==
    ASSUME Inv, NEW t \in Tasks, Holds(t), NEW r \in TaskRecs, r.out = "none", r.prog = task[t].prog,
           r.handle = task[t].handle, NEW op, NEW args, OnHandle(r, op, args), args[1] = r.handle,
           WellAsked([task |-> t, op |-> op, args |-> args]), Use(t, Ask(r), <<<<t, op, args>>>>)
    PROVE  Calls(t)
  <1>1. task[t].id = 0 /\ nextId \in Nat /\ task[t].prog \in {"file", "list"}
    BY HoldsIs
  <1>2. task' = [task EXCEPT ![t] = Ask(r)] /\ Issue(<<<<t, op, args>>>>, sent) /\ UNCHANGED <<srv, s2c, fs>>
    BY DEF Use
  <1>3. Bounded(r)
    BY <1>1 DEF Bounded
  <1>4. Goes(t, sent, Ask(r), task[t].handle)
    BY <1>1, <1>2, <1>3, HandleGoes
  <1> QED
    BY <1>1, <1>2, <1>4 DEF Calls

Uses(t) == FileCall(t) \/ DirRead(t) \/ EndUse(t)

LEMMA FileCalls ==
    ASSUME Inv, NEW t \in Tasks, FileCall(t)
    PROVE  Calls(t)
  <1>1. Holds(t) /\ task[t].prog = "file"
    BY DEF FileCall
  <1>2. task[t] \in TaskRecs /\ task[t].out = "none" /\ task[t].handle \in Handles /\ task[t].handle \in Texts
    BY <1>1, HoldsIs
  <1> DEFINE r == [task[t] EXCEPT !.used = TRUE]
             h == task[t].handle
  <1>3. r \in TaskRecs /\ r.out = "none" /\ r.prog = task[t].prog /\ r.handle = h
    BY <1>2 DEF TaskRecs
  <1>4. \/ \E d \in Writes : Use(t, Ask(r), <<<<t, "write", <<h, 0, d>>>>>>)
        \/ Use(t, Ask(r), <<<<t, "fstat", <<h>>>>>>)
        \/ \E m \in Metas : Use(t, [Ask(r) EXCEPT !.meta = m], <<<<t, "fsetstat", <<h, to_packet(m)>>>>>>)
    BY DEF FileCall
  <1>5. \A args : OnHandle(r, "write", args) /\ OnHandle(r, "fstat", args)
    BY <1>1, <1>2, <1>3 DEF OnHandle
  <1>6. h \in Texts /\ r.handle = h
    BY <1>2, <1>3
  <1> HIDE DEF r
  <1>7. ASSUME NEW d \in Writes, Use(t, Ask(r), <<<<t, "write", <<h, 0, d>>>>>>) PROVE Calls(t)
    <2> DEFINE args == <<h, 0, d>>
    <2>1. d \in Datas /\ 0 \in u64
      BY SftpServerAssumption, InU32 DEF Datas
    <2>2. WellAsked([task |-> t, op |-> "write", args |-> args])
      BY <1>6, <2>1, HandleAsked
    <2>3. args[1] = r.handle /\ Use(t, Ask(r), <<<<t, "write", args>>>>)
      BY <1>6, <1>7, ThreeSeq
    <2> HIDE DEF args
    <2> QED
      BY <1>1, <1>3, <1>5, <2>2, <2>3, UseHandle
  <1>8. ASSUME Use(t, Ask(r), <<<<t, "fstat", <<h>>>>>>) PROVE Calls(t)
    <2> DEFINE args == <<h>>
    <2>2. WellAsked([task |-> t, op |-> "fstat", args |-> args])
      BY <1>6, HandleAsked
    <2>3. args[1] = r.handle /\ Use(t, Ask(r), <<<<t, "fstat", args>>>>)
      BY <1>6, <1>8, ThreeSeq
    <2> HIDE DEF args
    <2> QED
      BY <1>1, <1>3, <1>5, <2>2, <2>3, UseHandle
  <1>9. ASSUME NEW m \in Metas,
               Use(t, [Ask(r) EXCEPT !.meta = m], <<<<t, "fsetstat", <<h, to_packet(m)>>>>>>)
        PROVE  Calls(t)
    <2> DEFINE args == <<h, to_packet(m)>>
               s == [r EXCEPT !.meta = m]
    <2>4. m \in Metadata
      BY SftpServerAssumption
    <2>5. /\ s \in TaskRecs /\ s.out = "none" /\ s.prog = task[t].prog /\ s.handle = h /\ s.meta = m
          /\ Ask(s) = [Ask(r) EXCEPT !.meta = m]
      BY <1>3, <2>4 DEF TaskRecs, Ask
    <2> HIDE DEF s
    <2>1. to_packet(m) \in Blocks
      BY SomeBlocks
    <2>2. WellAsked([task |-> t, op |-> "fsetstat", args |-> args])
      BY <1>6, <2>1, HandleAsked
    <2>3. args[1] = s.handle /\ args[2] = to_packet(s.meta) /\ Use(t, Ask(s), <<<<t, "fsetstat", args>>>>)
      BY <1>9, <2>5, TupleSeq
    <2> HIDE DEF args
    <2>6. OnHandle(s, "fsetstat", args)
      BY <1>1, <1>2, <2>3, <2>5 DEF OnHandle
    <2> QED
      BY <1>1, <2>2, <2>3, <2>5, <2>6, UseHandle
  <1> QED
    BY <1>4, <1>7, <1>8, <1>9

LEMMA DirReads ==
    ASSUME Inv, NEW t \in Tasks, DirRead(t)
    PROVE  Calls(t)
  <1>1. Holds(t) /\ task[t].prog = "list"
    BY DEF DirRead
  <1>2. task[t] \in TaskRecs /\ task[t].out = "none" /\ task[t].handle \in Handles /\ task[t].handle \in Texts
          /\ task[t].id = 0
    BY <1>1, HoldsIs
  <1>3. CASE task[t].entries # <<>>
    <2> DEFINE r == [task[t] EXCEPT !.got = Append(@, Head(task[t].entries)), !.entries = Tail(@)]
    <2>1. task[t].entries \in Seq(DirEntries) /\ task[t].got \in Seq(Nat \cup DirEntries)
      BY <1>2 DEF TaskRecs
    <2>2. Tail(task[t].entries) \in Seq(DirEntries) /\ Head(task[t].entries) \in DirEntries
      BY <1>3, <2>1
    <2>3. Append(task[t].got, Head(task[t].entries)) \in Seq(Nat \cup DirEntries)
      BY <2>1, <2>2
    <2>4. /\ r \in TaskRecs /\ r.out = "none" /\ r.prog = task[t].prog /\ r.handle = task[t].handle /\ r.id = 0
      BY <1>2, <2>2, <2>3 DEF TaskRecs
    <2>5. Use(t, r, <<>>)
      BY <1>3 DEF DirRead
    <2> HIDE DEF r
    <2>6. Rests(r) /\ Bounded(r)
      BY <1>1, <1>2, <2>4 DEF Rests, Bounded
    <2>7. Goes(t, sent, r, task[t].handle)
      BY <2>4, <2>5, <2>6 DEF Goes, Use
    <2> QED
      BY <1>2, <2>5, <2>7 DEF Calls, Use
  <1>4. CASE task[t].entries = <<>>
    <2> DEFINE args == <<task[t].handle>>
    <2>1. WellAsked([task |-> t, op |-> "readdir", args |-> args]) /\ args[1] = task[t].handle
      BY <1>2, HandleAsked, ThreeSeq
    <2>2. Use(t, Ask(task[t]), <<<<t, "readdir", args>>>>)
      BY <1>4 DEF DirRead
    <2>3. OnHandle(task[t], "readdir", args)
      BY <1>1, <1>2 DEF OnHandle
    <2> HIDE DEF args
    <2> QED
      BY <1>1, <1>2, <2>1, <2>2, <2>3, UseHandle
  <1> QED
    BY <1>3, <1>4

LEMMA EndsUse ==
    ASSUME Inv, NEW t \in Tasks, EndUse(t)
    PROVE  Calls(t)
  <1>1. Holds(t)
    BY DEF EndUse
  <1>2. task[t] \in TaskRecs /\ task[t].out = "none" /\ task[t].handle \in Handles /\ task[t].handle \in Texts
          /\ task[t].id = 0 /\ task[t].prog \in {"file", "list"} /\ Bounded(task[t])
    BY <1>1, HoldsIs
  <1>3. CASE task[t].end = "drop"
    <2>1. Use(t, Finish(task[t], "ok"), <<Dropped(task[t].handle)>>)
      BY <1>3 DEF EndUse
    <2>2. Goes(t, sent, Finish(task[t], "ok"), task[t].handle)
      BY <1>2, <2>1, FinishGoes DEF Use
    <2> QED
      BY <1>2, <2>1, <2>2 DEF Calls, Use
  <1>4. CASE task[t].end # "drop"
    <2> DEFINE args == <<task[t].handle>>
    <2>1. WellAsked([task |-> t, op |-> "close", args |-> args]) /\ args[1] = task[t].handle
      BY <1>2, HandleAsked, ThreeSeq
    <2>2. Use(t, Ask(task[t]), <<<<t, "close", args>>>>)
      BY <1>4 DEF EndUse
    <2>3. OnHandle(task[t], "close", args)
      BY <1>2 DEF OnHandle
    <2> HIDE DEF args
    <2> QED
      BY <1>1, <1>2, <2>1, <2>2, <2>3, UseHandle
  <1> QED
    BY <1>3, <1>4

(* Every step keeps the invariant.                                         *)
LEMMA ServerKeeps ==
    ASSUME Inv, Server
    PROVE  Inv' /\ UNCHANGED <<task, sent, nextId>>
  <1>1. IInv
    BY DEF Inv
  <1>2. IInv'
    BY <1>1, DataKeeps, LosesKeeps, OpenKeeps, CloseKeeps, ReadKeeps, WriteKeeps, NamesKeeps, OthersKeep,
       StrayKeeps, NothingKeeps, ErrKeeps DEF Server
  <1>3. UNCHANGED <<task, sent, nextId>>
    BY DEF Server, HandleData, IgnoreData, ChannelClose, HandleOpen, HandleOpendir, HandleClose, HandleRead,
       HandleWrite, HandleReaddir, HandleStat, HandleNames, HandleStatusOnly, HandleInit, HandleUnknown,
       HandleNothing, HandlerErr, Answer, Written
  <1> QED
    BY <1>2, <1>3 DEF Inv

LEMMA NextKeeps ==
    Inv /\ [Next]_vars => Inv'
  <1> SUFFICES ASSUME Inv, [Next]_vars PROVE Inv'
    OBVIOUS
  <1>1. CASE Server
    BY <1>1, ServerKeeps
  <1>2. CASE Deliver
    BY <1>2, DeliverKeeps
  <1>3. ASSUME NEW t \in Tasks, Uses(t) PROVE Inv'
    BY <1>3, FileCalls, DirReads, EndsUse, CallsKeep DEF Uses
  <1>4. ASSUME NEW t \in Tasks, Starts(t) PROVE Inv'
    BY <1>4, StartsCall, CallsKeep
  <1>5. ASSUME NEW t \in Tasks, SendRaw(t) PROVE Inv'
    BY <1>5, RawKeeps
  <1>6. CASE UNCHANGED vars
    BY <1>6 DEF vars, Inv, IInv, InLine
  <1> QED
    BY <1>1, <1>2, <1>3, <1>4, <1>5, <1>6 DEF Next, Uses, Starts

(* The answers a caller gets are the handler's to that caller's request,   *)
(* in every instance of the specification, whatever the widths of its      *)
(* integers; metadata arrives as Carried says, casts and pairs included    *)
(* (packet.rs, to_packet, handle_data and its handlers, send_request and   *)
(* the expect_ functions).                                                 *)
THEOREM AnswersAreTrueHolds ==
    Spec => []AnswersAreTrue
  <1>1. Init => Inv
    BY InitInv
  <1>2. Inv /\ [Next]_vars => Inv'
    BY NextKeeps
  <1>3. Inv => AnswersAreTrue
    BY AnswersTrue
  <1> QED
    BY <1>1, <1>2, <1>3, PTL DEF Spec

-----------------------------------------------------------------------------
(* What a step of the server comes to.                                     *)

(* The handler does what request q asks for, and answers ans.              *)
Opens(q, ans) ==
    /\ q.op \in {"open", "opendir"} /\ ans.is = "handle" /\ ans.v \in Handles \ DOMAIN fs.open
    /\ DOMAIN fs'.open = DOMAIN fs.open \cup {ans.v} /\ fs'.open[ans.v] = [path |-> q.args[1], at |-> 0]
    /\ \A h \in DOMAIN fs.open : fs'.open[h] = fs.open[h]
    /\ fs'.dir = fs.dir
    /\ \A p \in Paths : fs'.files[p] = IF q.op = "open" /\ q.args[2] = WriteMode /\ p = q.args[1]
                                       THEN <<>> ELSE fs.files[p]
Closes(q, ans) ==
    /\ q.op = "close" /\ ans.is \in {"ok", "err"}
    /\ DOMAIN fs'.open = DOMAIN fs.open \ {q.args[1]}
    /\ \A h \in DOMAIN fs'.open : fs'.open[h] = fs.open[h]
    /\ fs'.files = fs.files /\ fs'.dir = fs.dir
Writes1(q, ans) ==
    /\ q.op = "write" /\ ans.is = "ok" /\ q.args[1] \in DOMAIN fs.open
    /\ fs'.open = fs.open /\ fs'.dir = fs.dir
    /\ \A p \in Paths : fs'.files[p] = IF p = fs.open[q.args[1]].path
                                       THEN Spliced(fs.files[p], q.args[2], q.args[3]) ELSE fs.files[p]
Batch(d, a, n) == n \in Nat /\ a <= n /\ n <= Len(d) /\ (n = a => n = Len(d))
Lists(q, ans) ==
    /\ q.op = "readdir" /\ ans.is = "names" /\ q.args[1] \in DOMAIN fs.open
    /\ fs'.files = fs.files /\ fs'.dir = fs.dir /\ DOMAIN fs'.open = DOMAIN fs.open
    /\ \A h \in DOMAIN fs.open : h # q.args[1] => fs'.open[h] = fs.open[h]
    /\ \E n : /\ Batch(fs.dir, fs.open[q.args[1]].at, n)
              /\ ans.v = SubSeq(fs.dir, fs.open[q.args[1]].at + 1, n)
              /\ fs'.open[q.args[1]] = [path |-> fs.open[q.args[1]].path, at |-> n]
Piece(c, off, n) == n \in Nat /\ (n # 0 => off + n <= Len(c)) /\ (n = 0 => off >= Len(c))
Reads(q, ans) ==
    /\ q.op = "read" /\ ans.is = "data" /\ q.args[1] \in DOMAIN fs.open /\ fs' = fs
    /\ \E n : /\ Piece(fs.files[fs.open[q.args[1]].path], q.args[2], n)
              /\ ans.v = SubSeq(fs.files[fs.open[q.args[1]].path], q.args[2] + 1, q.args[2] + n)
Looks(q, ans) ==
    /\ fs' = fs /\ q.op # "close" /\ ans.is # "handle"
    /\ ans.is = "err" \/ q.op \notin {"open", "opendir", "read", "write", "readdir"}
Does(q, ans) == Opens(q, ans) \/ Closes(q, ans) \/ Writes1(q, ans) \/ Lists(q, ans) \/ Reads(q, ans) \/ Looks(q, ans)

Tells(id, ans) ==
    /\ id \in DOMAIN sent /\ \A i \in 1 .. Len(s2c) : s2c[i].id # id
    /\ s2c' = Append(s2c, [op |-> sent[id].op, id |-> id, args |-> sent[id].args, ans |-> ans])

LEMMA WrittenTells ==
    ASSUME IInv, NEW op \in Requests \ {"init"}, Asked(op), NEW ans, Written(Op, Id, Args, ans)
    PROVE  Tells(Id, ans) /\ Op = op /\ sent[Id].op = op /\ Args = sent[Id].args /\ WellAsked(sent[Id])
  <1>1. op = Op /\ sent[Id].op = op /\ Args = sent[Id].args /\ WellAsked(sent[Id]) /\ op \in SimpleOps \ Replies
          /\ srv.packets # <<>> /\ Id \in DOMAIN sent
    BY AskedIs
  <1>2. PICK line : Line(line, sent, c2s, srv.registered, srv.buffer, srv.packets, s2c)
    BY DEF IInv, InLine
  <1> DEFINE k == Len(s2c) + 1
  <1>3. line[k].id = Id /\ line[k].id # 0
    <2>1. Head1(line, k)
      BY <1>1, <1>2, HeadPacket
    <2>2. Op # "unknown" /\ Op # "init" /\ srv.packets[1].ok
      BY <1>1 DEF SimpleOps, Asked
    <2> QED
      BY <2>1, <2>2 DEF Head1
  <1>4. ASSUME NEW i \in 1 .. Len(s2c) PROVE s2c[i].id # Id
    <2>1. Len(line) \in Nat /\ Len(s2c) \in Nat /\ Len(srv.packets) \in Nat /\ Len(s2c) + Len(srv.packets) <= Len(line) /\ IsSeq(srv.packets)
      BY <1>2, LineTypes DEF Line
    <2>2. Len(srv.packets) # 0
      BY <1>1, <2>1, SeqTail
    <2>3. i \in 1 .. Len(line) /\ k \in 1 .. Len(line) /\ i # k
      BY <2>1, <2>2
    <2>4. line[i].id # line[k].id
      BY <1>2, <1>3, <2>3 DEF Line, Distinct
    <2>5. s2c[i].id = line[i].id
      BY <1>2 DEF Line, AllReplied, Replied
    <2> QED
      BY <1>3, <2>4, <2>5
  <1> QED
    BY <1>1, <1>4 DEF Tells, Written

Silent == s2c' = s2c /\ fs' = fs
Strays == /\ \E op, args, ans : ans.is # "handle" /\ s2c' = Append(s2c, [op |-> op, id |-> 0, args |-> args, ans |-> ans])
          /\ fs' = fs
Answers == \E id, ans : Tells(id, ans) /\ Does(sent[id], ans)

LEMMA RefusedDoes ==
    ASSUME IInv, NEW op \in Requests \ {"init"}, Asked(op), op # "close", NEW ans, ans.is # "handle",
           Written(Op, Id, Args, ans), fs' = fs,
           ans.is = "err" \/ op \notin {"open", "opendir", "read", "write", "readdir"}
    PROVE  Answers
  BY WrittenTells DEF Answers, Does, Looks

LEMMA FilesOf ==
    ASSUME NEW f, IsFs(f), NEW p \in Paths, NEW c, NEW g, g = [f EXCEPT !.files[p] = c]
    PROVE  /\ g.open = f.open /\ g.dir = f.dir /\ g.files[p] = c
           /\ \A x \in Paths : x # p => g.files[x] = f.files[x]
  <1>1. PICK H \in SUBSET Handles : f \in [open : [H -> Slots], files : [Paths -> Seq(Nat)], dir : Dirs]
    BY DEF IsFs
  <1> QED
    BY <1>1

LEMMA OpenDoes ==
    ASSUME IInv, HandleOpen \/ HandleOpendir
    PROVE  Answers
  <1> USE NamedRequests
  <1>1. PICK op \in {"open", "opendir"} : Asked(op) /\ (HandleOpen => op = "open") /\ (HandleOpendir => op = "opendir")
    <2>1. CASE HandleOpen
      BY <2>1 DEF HandleOpen, HandleOpendir, Asked
    <2>2. CASE HandleOpendir
      BY <2>2 DEF HandleOpen, HandleOpendir, Asked
    <2> QED
      BY <2>1, <2>2
  <1>2. CASE Answer(BadHandle, fs)
    BY <1>1, <1>2, RefusedDoes DEF Answer, BadHandle
  <1>3. ASSUME NEW h \in Handles \ DOMAIN fs.open, Answer([is |-> "handle", v |-> h], fs'),
               \/ op = "opendir" /\ fs' = Opened(h, Args[1])
               \/ op = "open" /\ fs' = IF Args[2] = WriteMode THEN [Opened(h, Args[1]) EXCEPT !.files[Args[1]] = <<>>] ELSE Opened(h, Args[1])
        PROVE  Answers
    <2> DEFINE ans == [is |-> "handle", v |-> h]
               q == sent[Id]
               f == Opened(h, Args[1])
    <2>1. Tells(Id, ans) /\ q.op = op /\ Args = q.args /\ WellAsked(q) /\ ans.is = "handle" /\ ans.v = h
      BY <1>1, <1>3, WrittenTells DEF Answer
    <2>2. Args[1] \in Paths /\ IsFs(fs)
      BY <2>1, FirstField DEF IInv
    <2>3. IsFs(f) /\ f.files = fs.files /\ f.dir = fs.dir /\ f.open = With(fs.open, h, [path |-> Args[1], at |-> 0])
      BY <2>2, OpenedFs
    <2>4. /\ DOMAIN f.open = DOMAIN fs.open \cup {h} /\ f.open[h] = [path |-> Args[1], at |-> 0]
          /\ \A y \in DOMAIN fs.open : f.open[y] = fs.open[y]
      BY <2>3 DEF With
    <2>5. CASE fs' = f /\ (op = "opendir" \/ Args[2] # WriteMode)
      <3>1. Opens(q, ans)
        BY <2>1, <2>3, <2>4, <2>5 DEF Opens
      <3> QED
        BY <2>1, <3>1 DEF Answers, Does
    <2>6. CASE fs' = [f EXCEPT !.files[Args[1]] = <<>>] /\ op = "open" /\ Args[2] = WriteMode
      <3> HIDE DEF f
      <3>1. <<>> \in Seq(Nat)
        OBVIOUS
      <3>2. /\ fs'.open = f.open /\ fs'.dir = f.dir /\ fs'.files[Args[1]] = <<>>
            /\ \A x \in Paths : x # Args[1] => fs'.files[x] = f.files[x]
        <4> DEFINE p == Args[1]
        <4>1. p \in Paths /\ IsFs(f)
          BY <2>2, <2>3
        <4>2. fs' = [f EXCEPT !.files[p] = <<>>]
          BY <2>6
        <4> HIDE DEF p
        <4>3. fs'.open = f.open /\ fs'.dir = f.dir /\ fs'.files[p] = <<>> /\ \A x \in Paths : x # p => fs'.files[x] = f.files[x]
          BY <4>1, <4>2, FilesOf
        <4> QED
          BY <4>3 DEF p
      <3>3. Opens(q, ans)
        BY <2>1, <2>3, <2>4, <2>6, <3>2 DEF Opens
      <3> QED
        BY <2>1, <3>3 DEF Answers, Does
    <2> QED
      BY <1>3, <2>5, <2>6
  <1>4. CASE HandleOpen
    <2>1. CASE \E h \in Handles \ DOMAIN fs.open :
              Answer([is |-> "handle", v |-> h],
                     IF Args[2] = WriteMode THEN [Opened(h, Args[1]) EXCEPT !.files[Args[1]] = <<>>]
                                            ELSE Opened(h, Args[1]))
      BY <1>1, <1>3, <1>4, <2>1 DEF Answer
    <2> QED
      BY <1>2, <1>4, <2>1 DEF HandleOpen
  <1>5. CASE HandleOpendir
    <2>1. CASE \E h \in Handles \ DOMAIN fs.open : Answer([is |-> "handle", v |-> h], Opened(h, Args[1]))
      BY <1>1, <1>3, <1>5, <2>1 DEF Answer
    <2> QED
      BY <1>2, <1>5, <2>1 DEF HandleOpendir
  <1> QED
    BY <1>4, <1>5

LEMMA CloseDoes ==
    ASSUME IInv, Asked("close"), NEW ans, ans.is \in {"ok", "err"}, Written(Op, Id, Args, ans),
           \/ fs' = [fs EXCEPT !.open = Without(fs.open, Args[1])]
           \/ fs' = fs /\ Args[1] \notin DOMAIN fs.open
    PROVE  Answers
  <1> USE NamedRequests
  <1>1. Tells(Id, ans) /\ sent[Id].op = "close" /\ Args = sent[Id].args /\ IsFs(fs)
    BY WrittenTells DEF IInv
  <1> DEFINE h == Args[1]
             g == [fs EXCEPT !.open = Without(fs.open, h)]
  <1>2. g.files = fs.files /\ g.dir = fs.dir /\ g.open = Without(fs.open, h)
    BY <1>1, ClosedFs
  <1>3. DOMAIN g.open = DOMAIN fs.open \ {h} /\ \A y \in DOMAIN g.open : g.open[y] = fs.open[y]
    BY <1>2 DEF Without
  <1>4. fs' = g \/ (fs' = fs /\ h \notin DOMAIN fs.open)
    OBVIOUS
  <1> HIDE DEF g
  <1>5. Closes(sent[Id], ans)
    BY <1>1, <1>2, <1>3, <1>4 DEF Closes
  <1> QED
    BY <1>1, <1>5 DEF Answers, Does

LEMMA ReadDoes ==
    ASSUME IInv, HandleRead
    PROVE  Answers
  <1> USE NamedRequests
  <1>1. Asked("read") /\ IsFs(fs)
    BY DEF HandleRead, IInv
  <1>2. CASE Answer(BadHandle, fs)
    BY <1>1, <1>2, RefusedDoes DEF Answer, BadHandle
  <1> DEFINE c == fs.files[fs.open[Args[1]].path]
             off == Args[2]
  <1>3. ASSUME IsOpen(Args[1]), NEW n, Piece(c, off, n), NEW v, v = SubSeq(c, off + 1, off + n),
               Answer([is |-> "data", v |-> v], fs)
        PROVE  Answers
    <2> DEFINE ans == [is |-> "data", v |-> v]
    <2>1. Tells(Id, ans) /\ sent[Id].op = "read" /\ Args = sent[Id].args /\ fs' = fs /\ ans.is = "data" /\ ans.v = v
      BY <1>1, <1>3, WrittenTells DEF Answer
    <2> HIDE DEF ans
    <2>2. Reads(sent[Id], ans)
      BY <1>3, <2>1 DEF Reads, IsOpen
    <2> QED
      BY <2>1, <2>2 DEF Answers, Does
  <1>4. CASE IsOpen(Args[1])
    <2>1. Args[3] = ChunkSize /\ off \in Nat /\ ChunkSize \in Nat /\ ChunkSize >= 1
      <3>1. Args = sent[Id].args /\ sent[Id].op = "read" /\ WellAsked(sent[Id])
        BY <1>1, AskedIs
      <3>2. ChunkSize \in Nat /\ ChunkSize >= 1
        BY SftpServerAssumption, WidthAssumption
      <3>3. sent[Id].args[2] \in Nat /\ sent[Id].args[3] = ChunkSize
        BY <3>1, FirstField
      <3> QED
        BY <3>1, <3>2, <3>3
    <2>2. c \in Seq(Nat) /\ Len(c) \in Nat
      <3>1. fs.open[Args[1]].path \in Paths /\ fs.files \in [Paths -> Seq(Nat)]
        BY <1>1, <1>4, FsParts DEF IsOpen
      <3> QED
        BY <3>1
    <2> DEFINE most == AtMost(ChunkSize, Len(c) - off)
    <2>3. \/ most <= 0 /\ Answer([is |-> "data", v |-> <<>>], fs)
          \/ \E n \in 1 .. most : Answer([is |-> "data", v |-> SubSeq(c, off + 1, off + n)], fs)
      BY <1>4, <2>1 DEF HandleRead
    <2> HIDE DEF c, off
    <2>4. CASE most <= 0 /\ Answer([is |-> "data", v |-> <<>>], fs)
      <3>1. off >= Len(c)
        BY <2>1, <2>2, <2>4 DEF AtMost
      <3>2. SubSeq(c, off + 1, off + 0) = <<>>
        BY <2>1, <2>2
      <3>3. Piece(c, off, 0)
        BY <3>1 DEF Piece
      <3> QED
        BY <1>3, <1>4, <2>4, <3>2, <3>3 DEF c, off
    <2>5. CASE \E n \in 1 .. most : Answer([is |-> "data", v |-> SubSeq(c, off + 1, off + n)], fs)
      <3>1. PICK n \in 1 .. most : Answer([is |-> "data", v |-> SubSeq(c, off + 1, off + n)], fs)
        BY <2>5
      <3>2. Piece(c, off, n)
        <4>1. most \in Int /\ most <= Len(c) - off
          BY <2>1, <2>2 DEF AtMost
        <4> QED
          BY <2>1, <2>2, <3>1, <4>1 DEF Piece
      <3> QED
        BY <1>3, <1>4, <3>1, <3>2 DEF c, off
    <2> QED
      BY <2>3, <2>4, <2>5
  <1> QED
    BY <1>1, <1>2, <1>4 DEF HandleRead

LEMMA WriteDoes ==
    ASSUME IInv, HandleWrite
    PROVE  Answers
  <1> USE NamedRequests
  <1>1. Asked("write") /\ IsFs(fs)
    BY DEF HandleWrite, IInv
  <1>2. CASE Answer(BadHandle, fs)
    BY <1>1, <1>2, RefusedDoes DEF Answer, BadHandle
  <1>3. CASE IsOpen(Args[1]) /\ Answer(Done, [fs EXCEPT !.files[fs.open[Args[1]].path] = Spliced(@, Args[2], Args[3])])
    <2>1. Tells(Id, Done) /\ sent[Id].op = "write" /\ Args = sent[Id].args /\ Done.is = "ok"
      BY <1>1, <1>3, WrittenTells DEF Answer, Done
    <2> DEFINE p == fs.open[Args[1]].path
               c == Spliced(fs.files[p], Args[2], Args[3])
    <2>2. p \in Paths
      BY <1>1, <1>3, FsParts DEF IsOpen
    <2>3. fs' = [fs EXCEPT !.files[p] = c]
      BY <1>3 DEF Answer
    <2>4. fs.files[p] = fs.files[fs.open[Args[1]].path] /\ c = Spliced(fs.files[p], Args[2], Args[3])
      OBVIOUS
    <2> HIDE DEF c, p
    <2>5. fs'.open = fs.open /\ fs'.dir = fs.dir /\ fs'.files[p] = c /\ \A x \in Paths : x # p => fs'.files[x] = fs.files[x]
      BY <1>1, <2>2, <2>3, FilesOf
    <2>6. Writes1(sent[Id], Done)
      BY <1>3, <2>1, <2>4, <2>5 DEF Writes1, IsOpen, p
    <2> QED
      BY <2>1, <2>6 DEF Answers, Does
  <1> QED
    BY <1>2, <1>3 DEF HandleWrite

LEMMA ListDoes ==
    ASSUME IInv, HandleReaddir
    PROVE  Answers
  <1> USE NamedRequests
  <1>1. Asked("readdir") /\ IsFs(fs)
    BY DEF HandleReaddir, IInv
  <1>2. CASE Answer(BadHandle, fs)
    BY <1>1, <1>2, RefusedDoes DEF Answer, BadHandle
  <1> DEFINE h == Args[1]
             at == fs.open[h].at
  <1>3. CASE IsOpen(h)
    <2>1. /\ fs.open[h] \in Slots /\ at \in Nat /\ at <= Len(fs.dir) /\ Len(fs.dir) \in Nat
          /\ fs.open[h] = [path |-> fs.open[h].path, at |-> at] /\ fs.dir \in Seq(DirEntries)
      <3>1. fs.open[h] \in Slots /\ at \in Nat /\ at <= Len(fs.dir) /\ Len(fs.dir) \in Nat /\ fs.dir \in Seq(DirEntries)
        BY <1>1, <1>3, FsParts DEF IsOpen
      <3> QED
        BY <3>1 DEF Slots
    <2>2. ASSUME NEW n, Batch(fs.dir, at, n), NEW g, NEW v, v = SubSeq(fs.dir, at + 1, n), Answer([is |-> "names", v |-> v], g),
                 g.files = fs.files, g.dir = fs.dir, DOMAIN g.open = DOMAIN fs.open,
                 g.open[h] = [path |-> fs.open[h].path, at |-> n],
                 \A y \in DOMAIN fs.open : y # h => g.open[y] = fs.open[y]
          PROVE  Answers
      <3> DEFINE ans == [is |-> "names", v |-> v]
      <3>1. Tells(Id, ans) /\ sent[Id].op = "readdir" /\ Args = sent[Id].args /\ fs' = g /\ ans.is = "names" /\ ans.v = v
        BY <1>1, <2>2, WrittenTells DEF Answer
      <3> HIDE DEF ans
      <3>2. Lists(sent[Id], ans)
        BY <1>3, <2>2, <3>1 DEF Lists, IsOpen
      <3> QED
        BY <3>1, <3>2 DEF Answers, Does
    <2>3. CASE at = Len(fs.dir) /\ Answer([is |-> "names", v |-> <<>>], fs)
      <3>1. Batch(fs.dir, at, at)
        BY <2>1, <2>3 DEF Batch
      <3>2. SubSeq(fs.dir, at + 1, at) = <<>>
        BY <2>1
      <3> QED
        BY <2>1, <2>2, <2>3, <3>1, <3>2
    <2>4. CASE \E n \in (at + 1) .. Len(fs.dir) :
                 Answer([is |-> "names", v |-> SubSeq(fs.dir, at + 1, n)], [fs EXCEPT !.open[h].at = n])
      <3>1. PICK n \in (at + 1) .. Len(fs.dir) :
                 Answer([is |-> "names", v |-> SubSeq(fs.dir, at + 1, n)], [fs EXCEPT !.open[h].at = n])
        BY <2>4
      <3>2. n \in Nat /\ n <= Len(fs.dir) /\ Batch(fs.dir, at, n)
        <4> HIDE DEF at
        <4> QED
          BY <2>1, <3>1 DEF Batch
      <3>3. h \in DOMAIN fs.open
        BY <1>3 DEF IsOpen
      <3>6. PICK g : g = [fs EXCEPT !.open[h].at = n]
        OBVIOUS
      <3> HIDE DEF h
      <3>4. /\ g.files = fs.files /\ g.dir = fs.dir /\ DOMAIN g.open = DOMAIN fs.open
            /\ g.open[h] = [path |-> fs.open[h].path, at |-> n]
            /\ \A y \in DOMAIN fs.open : y # h => g.open[y] = fs.open[y]
        <4> HIDE NamedRequests
        <4>1. n \in Nat /\ n <= Len(fs.dir)
          BY <3>2
        <4> HIDE DEF at
        <4>2. g = MovedTo(fs, h, n)
          BY <3>6 DEF MovedTo
        <4> QED
          BY <1>1, <3>3, <4>1, <4>2, MovedFs
      <3>5. Answer([is |-> "names", v |-> SubSeq(fs.dir, at + 1, n)], g)
        BY <3>1, <3>6 DEF h
      <3> QED
        BY <2>2, <3>2, <3>4, <3>5
    <2> QED
      BY <1>3, <2>3, <2>4 DEF HandleReaddir
  <1> QED
    BY <1>2, <1>3 DEF HandleReaddir

LEMMA OthersDo ==
    ASSUME IInv, HandleStat \/ HandleNames \/ HandleStatusOnly
    PROVE  Answers
  <1> USE NamedRequests
  <1>1. CASE HandleStat
    BY <1>1, RefusedDoes DEF HandleStat, Answer
  <1>2. CASE HandleNames
    BY <1>2, RefusedDoes DEF HandleNames, Answer
  <1>3. CASE HandleStatusOnly
    <2>1. PICK op \in {"remove", "rename", "mkdir", "rmdir", "setstat", "fsetstat", "symlink"} : Asked(op) /\ Answer(Done, fs)
      BY <1>3 DEF HandleStatusOnly
    <2> QED
      BY <2>1, RefusedDoes DEF Answer, Done
  <1> QED
    BY <1>1, <1>2, <1>3

LEMMA ServerDoes ==
    ASSUME Inv, Server
    PROVE  Silent \/ Strays \/ Answers
  <1>1. IInv
    BY DEF Inv
  <1>2. CASE HandleData \/ IgnoreData \/ ChannelClose \/ HandleNothing
    BY <1>2 DEF HandleData, IgnoreData, ChannelClose, HandleNothing, Silent
  <1>3. CASE HandleInit \/ HandleUnknown
    <2>1. PICK op, args, ans : ans.is # "handle" /\ Written(op, 0, args, ans) /\ fs' = fs
      <3>1. ASSUME NEW v, Written("init", 0, Args, [is |-> "version", v |-> v]), fs' = fs
            PROVE  \E op, args, ans : ans.is # "handle" /\ Written(op, 0, args, ans) /\ fs' = fs
        <4>1. [is |-> "version", v |-> v].is # "handle"
          OBVIOUS
        <4> QED
          BY <3>1, <4>1
      <3>2. CASE HandleUnknown
        <4>1. [is |-> "unknown", v |-> <<>>].is # "handle"
          OBVIOUS
        <4> QED
          BY <3>2, <4>1 DEF HandleUnknown
      <3> QED
        BY <1>3, <3>1, <3>2 DEF HandleInit
    <2> QED
      BY <2>1 DEF Strays, Written
  <1>4. CASE HandleClose
    BY <1>1, <1>4, CloseDoes DEF HandleClose, Answer, Done, BadHandle, IsOpen
  <1>5. CASE HandlerErr
    <2>1. PICK op \in Requests \ {"init"} : Asked(op)
      BY <1>5 DEF HandlerErr
    <2>2. PICK k \in Kinds : Written(Op, Id, Args, [is |-> "err", v |-> k])
      BY <1>5 DEF HandlerErr
    <2> DEFINE ans == [is |-> "err", v |-> k]
    <2>3. ans.is = "err" /\ Written(Op, Id, Args, ans)
      BY <2>2
    <2>4. Op = op
      BY <2>1 DEF Asked
    <2>5. fs' = IF Op = "close" THEN [fs EXCEPT !.open = Without(fs.open, Args[1])] ELSE fs
      BY <1>5 DEF HandlerErr
    <2> HIDE DEF ans
    <2>6. CASE op = "close"
      BY <1>1, <2>1, <2>3, <2>4, <2>5, <2>6, CloseDoes
    <2>7. CASE op # "close"
      BY <1>1, <2>1, <2>3, <2>4, <2>5, <2>7, RefusedDoes
    <2> QED
      BY <2>6, <2>7
  <1> QED
    BY <1>1, <1>2, <1>3, <1>4, <1>5, OpenDoes, ReadDoes, WriteDoes, ListDoes, OthersDo DEF Server

-----------------------------------------------------------------------------
(* NothingIsStranded.                                                      *)

Unanswered(id) == \A i \in 1 .. Len(s2c) : s2c[i].id # id

(* Every open handle is a caller's that has not asked to close it, or is   *)
(* about to be closed, or is on its way to a caller.                       *)
Held(t, h) == task[t].handle = h /\ (task[t].id # 0 => sent[task[t].id].op # "close")
Closing(id, h) == id \in DOMAIN sent /\ sent[id].op = "close" /\ sent[id].args[1] = h /\ Unanswered(id)
Coming(i, h) == i \in 1 .. Len(s2c) /\ s2c[i].ans.is = "handle" /\ s2c[i].ans.v = h
Owed == \A h \in DOMAIN fs.open : \/ \E t \in Tasks : Held(t, h)
                                  \/ \E id : Closing(id, h)
                                  \/ \E i : Coming(i, h)

LEMMA ReplyIds ==
    ASSUME IInv
    PROVE  /\ Len(s2c) \in Nat /\ IsSeq(s2c)
           /\ \A i \in 1 .. Len(s2c) : s2c[i].id = 0 \/ s2c[i].id \in DOMAIN sent
           /\ \A i \in 1 .. Len(s2c) : s2c[i].ans.is = "handle" => s2c[i].id # 0
           /\ \A i, j \in 1 .. Len(s2c) : s2c[i].id = s2c[j].id /\ s2c[i].id # 0 => i = j
           /\ \A i \in 1 .. Len(s2c) : s2c[i].id # 0 =>
                 s2c[i].op = sent[s2c[i].id].op /\ s2c[i].args = sent[s2c[i].id].args /\ Fit(s2c[i].op, s2c[i].ans)
  <1>1. PICK line : Line(line, sent, c2s, srv.registered, srv.buffer, srv.packets, s2c)
    BY DEF IInv, InLine
  <1>2. Len(line) \in Nat /\ Len(s2c) \in Nat /\ Len(srv.packets) \in Nat /\ Len(s2c) + Len(srv.packets) <= Len(line) /\ IsSeq(s2c)
    BY <1>1, LineTypes DEF Line
  <1>3. \A i \in 1 .. Len(s2c) : i \in 1 .. Len(line)
    BY <1>2
  <1>4. ASSUME NEW i \in 1 .. Len(s2c) PROVE Known(line[i], sent) /\ Replied(line[i].id, sent, s2c[i]) /\ line[i].id = s2c[i].id
    <2>1. Known(line[i], sent) /\ Replied(line[i].id, sent, s2c[i])
      BY <1>1, <1>3 DEF Line, Knows, AllReplied
    <2> QED
      BY <2>1 DEF Replied
  <1>5. ASSUME NEW i \in 1 .. Len(s2c), NEW j \in 1 .. Len(s2c), s2c[i].id = s2c[j].id, s2c[i].id # 0 PROVE i = j
    BY <1>1, <1>3, <1>4, <1>5 DEF Line, Distinct
  <1>6. ASSUME NEW i \in 1 .. Len(s2c) PROVE s2c[i].id = 0 \/ s2c[i].id \in DOMAIN sent
    BY <1>4 DEF Known
  <1>7. ASSUME NEW i \in 1 .. Len(s2c), s2c[i].ans.is = "handle" PROVE s2c[i].id # 0
    BY <1>4, <1>7 DEF Replied
  <1>8. ASSUME NEW i \in 1 .. Len(s2c), s2c[i].id # 0
        PROVE  s2c[i].op = sent[s2c[i].id].op /\ s2c[i].args = sent[s2c[i].id].args /\ Fit(s2c[i].op, s2c[i].ans)
    BY <1>4, <1>8 DEF Replied
  <1> QED
    BY <1>2, <1>5, <1>6, <1>7, <1>8

(* A caller's step, whose handle h0 it must not lose.                      *)
LEMMA GoesOwes ==
    ASSUME Inv, Owed, NEW t \in Tasks, NEW S, NEW R, Left(t, S, R), NEW r, NEW h0, Goes(t, S, r, h0),
           \A i \in 1 .. Len(R) : \E j \in 1 .. Len(s2c) : R[i] = s2c[j],
           \A id \in DOMAIN sent : id \in DOMAIN S \/ ~Unanswered(id),
           \A h \in Handles : Held(t, h) => h = h0,
           \A h \in Handles : \A i : Coming(i, h) => h = h0 \/ \E j \in 1 .. Len(R) : R[j] = s2c[i]
    PROVE  Owed'
  <1>1. /\ task \in [Tasks -> TaskRecs] /\ nextId \in Nat /\ nextId >= 10 /\ IInv /\ IsFs(fs) /\ Asks(sent, nextId)
        /\ fs' = fs /\ s2c' = R
    BY DEF Inv, IInv, Left
  <1>2. task'[t] = r /\ \A u \in Tasks : u # t => task'[u] = task[u]
    BY <1>1 DEF Goes
  <1>3. Keeps(S, sent) /\ \A id \in DOMAIN sent : id \in DOMAIN S <=> sent[id].task # t
    BY DEF Left
  <1>4. nextId \notin DOMAIN sent /\ nextId # 0
    BY <1>1 DEF Asks
  <1>5. \A i \in 1 .. Len(R) : R[i].id # nextId
    BY <1>1, <1>4, ReplyIds
  <1>6. Keeps(S, sent')
    <2>1. ASSUME NEW q, Joins(S, q) PROVE Keeps(S, sent')
      <3>1. sent' = With(S, nextId, q) /\ nextId \notin DOMAIN S
        BY <1>3, <1>4, <2>1 DEF Joins, Keeps
      <3> QED
        BY <3>1 DEF With, Keeps
    <2>2. CASE Issue(<<>>, S)
      BY <2>2 DEF Issue, Keeps
    <2> QED
      BY <2>1, <2>2, IssueIs DEF Goes, Sends, Drops, Dropped
  <1>7. \A id \in DOMAIN S : id \in DOMAIN sent /\ sent[id] = S[id] /\ id \in DOMAIN sent' /\ sent'[id] = S[id]
    BY <1>3, <1>6 DEF Keeps
  <1> SUFFICES ASSUME NEW h \in DOMAIN fs.open
               PROVE  \/ \E u \in Tasks : Held(u, h)'
                      \/ \E id : Closing(id, h)'
                      \/ \E i : Coming(i, h)'
    BY <1>1 DEF Owed
  <1>8. h \in Handles /\ h # <<>>
    BY <1>1, FsParts, EmptyText
  <1>9. CASE h = h0
    <2>1. ASSUME NEW q, Joins(S, q), q.op = "close", q.args[1] = h PROVE \E id : Closing(id, h)'
      <3>0. PICK n : n = nextId
        OBVIOUS
      <3>1. sent' = With(S, nextId, q)
        BY <2>1 DEF Joins
      <3>2. nextId \in DOMAIN sent' /\ sent'[nextId] = q
        BY <3>1 DEF With
      <3>3. Unanswered(n)'
        BY <1>1, <1>5, <3>0 DEF Unanswered
      <3>4. Closing(n, h)'
        BY <2>1, <3>0, <3>2, <3>3 DEF Closing
      <3> QED
        BY <3>4
    <2>2. CASE Issue(<<>>, S) /\ Rests(r) /\ (h0 # <<>> => r.handle = h0)
      <3>1. r.handle = h /\ r.id = 0
        BY <1>8, <1>9, <2>2 DEF Rests, Idle
      <3> QED
        BY <1>2, <3>1 DEF Held
    <2>3. ASSUME NEW op, NEW args, Sends(t, S, r, h0, op, args)
          PROVE  \/ \E u \in Tasks : Held(u, h)'
                 \/ \E id : Closing(id, h)'
      <3> DEFINE q == [task |-> t, op |-> op, args |-> args]
      <3>1. Joins(S, q) /\ Busy(r, q) /\ r.id = nextId /\ r.handle = h
        BY <1>8, <1>9, <2>3, IssueIs DEF Sends
      <3>2. q.op = op /\ q.args = args
        OBVIOUS
      <3> HIDE DEF q
      <3>3. sent' = With(S, nextId, q)
        BY <3>1 DEF Joins
      <3>4. sent'[nextId] = q
        BY <3>3 DEF With
      <3>5. CASE op = "close"
        <4>1. q.args[1] = h
          BY <3>1, <3>2, <3>5, SftpServerAssumption DEF Busy
        <4> QED
          BY <2>1, <3>1, <3>2, <3>5, <4>1
      <3>6. CASE op # "close"
        <4>1. Held(t, h)'
          BY <1>2, <3>1, <3>2, <3>4, <3>6 DEF Held
        <4> QED
          BY <4>1
      <3> QED
        BY <3>5, <3>6
    <2>4. ASSUME NEW g, Drops(S, r, h0, g) PROVE \E id : Closing(id, h)'
      <3> DEFINE q == [task |-> Nobody, op |-> "close", args |-> <<g>>]
      <3>1. Joins(S, q) /\ g = h
        BY <1>8, <1>9, <2>4, IssueIs DEF Drops, Dropped
      <3>2. q.op = "close" /\ q.args[1] = g
        BY ThreeSeq
      <3> HIDE DEF q
      <3> QED
        BY <2>1, <3>1, <3>2
    <2> QED
      BY <2>2, <2>3, <2>4 DEF Goes
  <1>10. CASE h # h0
    <2>1. CASE \E u \in Tasks : Held(u, h)
      <3>1. PICK u \in Tasks : Held(u, h)
        BY <2>1
      <3>2. u # t /\ task'[u] = task[u]
        BY <1>2, <1>8, <1>10, <3>1
      <3>3. Rests(task[u]) \/ (task[u].id \in DOMAIN sent /\ sent[task[u].id].task = u)
        BY DEF Inv, Phases
      <3>4. Rests(task[u]) => task[u].id = 0
        BY DEF Rests, Idle
      <3>5. task[u].id # 0 => task[u].id \in DOMAIN S
        BY <1>3, <3>2, <3>3, <3>4
      <3>6. Held(u, h)'
        BY <1>7, <3>1, <3>2, <3>5 DEF Held
      <3> QED
        BY <3>6
    <2>2. CASE \E id : Closing(id, h)
      <3>1. PICK id : Closing(id, h)
        BY <2>2
      <3>2. id \in DOMAIN S
        BY <3>1 DEF Closing
      <3>3. Unanswered(id)'
        BY <1>1, <3>1 DEF Closing, Unanswered
      <3>4. Closing(id, h)'
        BY <1>7, <3>1, <3>2, <3>3 DEF Closing
      <3> QED
        BY <3>4
    <2>3. CASE \E i : Coming(i, h)
      <3>1. PICK i : Coming(i, h)
        BY <2>3
      <3>2. PICK j \in 1 .. Len(R) : R[j] = s2c[i]
        BY <1>8, <1>10, <3>1
      <3>3. Coming(j, h)'
        BY <1>1, <3>1, <3>2 DEF Coming
      <3> QED
        BY <3>3
    <2> QED
      BY <2>1, <2>2, <2>3 DEF Owed
  <1> QED
    BY <1>9, <1>10

LEMMA CallsOwe ==
    ASSUME Inv, Owed, NEW t \in Tasks, Calls(t)
    PROVE  Owed'
  <1>1. Left(t, sent, s2c)
    BY LeftCall DEF Calls
  <1>2. PICK r : Goes(t, sent, r, task[t].handle)
    BY DEF Calls
  <1>3. \A i \in 1 .. Len(s2c) : \E j \in 1 .. Len(s2c) : s2c[i] = s2c[j]
    OBVIOUS
  <1>4. \A h \in Handles : \A i : Coming(i, h) => \E j \in 1 .. Len(s2c) : s2c[j] = s2c[i]
    BY DEF Coming
  <1>5. \A h \in Handles : Held(t, h) => h = task[t].handle
    BY DEF Held
  <1> QED
    BY <1>1, <1>2, <1>3, <1>4, <1>5, GoesOwes

LEMMA TakesOwe ==
    ASSUME Inv, Owed, NEW t \in Tasks, NEW id, NEW res, Replying(t, id, res), Moves(t, id)
    PROVE  Owed'
  <1> DEFINE S == Without(sent, id)
             R == Tail(s2c)
             h0 == Kept(t, id)
  <1>1. s2c # <<>> /\ id = s2c[1].id /\ id \in DOMAIN sent /\ task[t].id = id /\ id # 0 /\ sent[id].task = t
    BY ReplyingIs DEF Replying
  <1>2. Left(t, S, R)
    BY <1>1, LeftReply DEF Moves, Replying
  <1>3. PICK r : Goes(t, S, r, h0)
    BY DEF Moves
  <1>4. /\ Len(s2c) \in Nat /\ 1 \in 1 .. Len(s2c) /\ Len(R) \in Nat /\ Len(s2c) = Len(R) + 1
        /\ \A i \in 1 .. Len(R) : R[i] = s2c[i + 1] /\ i + 1 \in 1 .. Len(s2c)
    BY <1>1, FirstReply
  <1>5. DOMAIN S = DOMAIN sent \ {id}
    BY DEF Without
  <1>6. s2c[1].ans.is = "handle" => h0 = s2c[1].ans.v
    BY DEF Kept
  <1>7. \A h \in Handles : Held(t, h) => h = h0
    <2> SUFFICES ASSUME NEW h \in Handles, Held(t, h) PROVE h = h0
      OBVIOUS
    <2>1. task[t].handle = h /\ sent[id].op # "close" /\ h # <<>>
      BY <1>1, EmptyText DEF Held
    <2>2. Busy(task[t], sent[id]) /\ Fit(sent[id].op, s2c[1].ans)
      BY ReplyingIs
    <2>3. sent[id].op \notin {"open", "opendir"}
      BY <2>1, <2>2, SftpServerAssumption DEF Busy
    <2>4. s2c[1].ans.is # "handle"
      BY <2>2, <2>3, ElseTold
    <2> QED
      BY <2>1, <2>4 DEF Kept
  <1> HIDE DEF S, R, h0
  <1>8. \A i \in 1 .. Len(R) : \E j \in 1 .. Len(s2c) : R[i] = s2c[j]
    BY <1>4
  <1>9. \A x \in DOMAIN sent : x \in DOMAIN S \/ ~Unanswered(x)
    BY <1>1, <1>4, <1>5 DEF Unanswered
  <1>10. ASSUME NEW h \in Handles, NEW i, Coming(i, h) PROVE h = h0 \/ \E j \in 1 .. Len(R) : R[j] = s2c[i]
    <2>1. i \in 1 .. Len(s2c) /\ s2c[i].ans.is = "handle" /\ s2c[i].ans.v = h
      BY <1>10 DEF Coming
    <2>2. CASE i = 1
      BY <1>6, <2>1, <2>2
    <2>3. CASE i # 1
      <3>1. i - 1 \in 1 .. Len(R) /\ (i - 1) + 1 = i
        BY <1>4, <2>1, <2>3
      <3> QED
        BY <1>4, <3>1
    <2> QED
      BY <2>2, <2>3
  <1> QED
    BY <1>2, <1>3, <1>7, <1>8, <1>9, <1>10, GoesOwes

LEMMA UnawaitedOwe ==
    ASSUME Inv, Owed, s2c # <<>>, s2c' = Tail(s2c), UNCHANGED <<task, nextId, c2s, srv, fs>>,
           \/ ~IsReply(Received(s2c[1])) /\ sent' = sent
           \/ /\ IsReply(Received(s2c[1])) /\ sent[s2c[1].id].task = Nobody /\ sent[s2c[1].id].op = "close"
              /\ sent' = Without(sent, s2c[1].id)
    PROVE  Owed'
  <1> DEFINE R == Tail(s2c)
             id == s2c[1].id
  <1>1. /\ Len(s2c) \in Nat /\ 1 \in 1 .. Len(s2c) /\ Len(R) \in Nat /\ Len(s2c) = Len(R) + 1
        /\ \A i \in 1 .. Len(R) : R[i] = s2c[i + 1] /\ i + 1 \in 1 .. Len(s2c)
    BY FirstReply
  <1>2. s2c[1].ans.is # "handle"
    <2>1. CASE ~IsReply(Received(s2c[1]))
      BY <2>1, FirstReply
    <2>2. CASE IsReply(Received(s2c[1])) /\ sent[s2c[1].id].op = "close"
      <3>1. Fit("close", s2c[1].ans)
        BY <2>2, FirstReply
      <3> QED
        BY <3>1, ElseTold
    <2> QED
      BY <2>1, <2>2
  <1>3. \A x \in DOMAIN sent : x # id => x \in DOMAIN sent' /\ sent'[x] = sent[x]
    BY DEF Without
  <1>4. id \in DOMAIN sent => sent[id].task = Nobody
    <2>1. ~IsReply(Received(s2c[1])) => id = 0
      BY FirstReply
    <2>2. 0 \notin DOMAIN sent
      BY DEF Inv, IInv, Asks
    <2> QED
      BY <2>1, <2>2
  <1>5. s2c' = R /\ UNCHANGED <<task, fs>>
    OBVIOUS
  <1> HIDE DEF R
  <1>6. \A i \in 1 .. Len(s2c) : i = 1 \/ (i - 1 \in 1 .. Len(R) /\ (i - 1) + 1 = i)
    BY <1>1
  <1>7. Unanswered(id) => FALSE
    BY <1>1 DEF Unanswered
  <1> HIDE DEF id
  <1> SUFFICES ASSUME NEW h \in DOMAIN fs.open
               PROVE  \/ \E u \in Tasks : Held(u, h)'
                      \/ \E x : Closing(x, h)'
                      \/ \E i : Coming(i, h)'
    BY <1>5 DEF Owed
  <1>8. CASE \E u \in Tasks : Held(u, h)
    <2>1. PICK u \in Tasks : Held(u, h)
      BY <1>8
    <2>2. Rests(task[u]) \/ (task[u].id \in DOMAIN sent /\ sent[task[u].id].task = u)
      BY DEF Inv, Phases
    <2>3. Rests(task[u]) => task[u].id = 0
      BY DEF Rests, Idle
    <2>4. task[u].id # 0 => task[u].id # id /\ task[u].id \in DOMAIN sent
      BY <1>4, <2>2, <2>3, SftpServerAssumption
    <2>5. Held(u, h)'
      BY <1>3, <1>5, <2>1, <2>4 DEF Held
    <2> QED
      BY <2>5
  <1>9. CASE \E x : Closing(x, h)
    <2>1. PICK x : Closing(x, h)
      BY <1>9
    <2>2. x # id /\ x \in DOMAIN sent' /\ sent'[x] = sent[x]
      BY <1>3, <1>7, <2>1 DEF Closing
    <2>3. Unanswered(x)'
      BY <1>1, <1>5, <2>1 DEF Closing, Unanswered
    <2>4. Closing(x, h)'
      BY <2>1, <2>2, <2>3 DEF Closing
    <2> QED
      BY <2>4
  <1>10. CASE \E i : Coming(i, h)
    <2>1. PICK i : Coming(i, h)
      BY <1>10
    <2>2. i \in 1 .. Len(s2c) /\ i # 1
      BY <1>2, <2>1 DEF Coming
    <2>3. i - 1 \in 1 .. Len(R) /\ R[i - 1] = s2c[i]
      BY <1>1, <1>6, <2>2
    <2>4. Coming(i - 1, h)'
      BY <1>5, <2>1, <2>3 DEF Coming
    <2> QED
      BY <2>4
  <1> QED
    BY <1>8, <1>9, <1>10 DEF Owed

(* A reply joins the others.                                               *)
LEMMA AppendIs ==
    ASSUME NEW R, IsSeq(R), NEW x
    PROVE  /\ Len(R) \in Nat /\ Len(Append(R, x)) = Len(R) + 1 /\ Append(R, x)[Len(R) + 1] = x
           /\ \A i \in 1 .. Len(R) : Append(R, x)[i] = R[i]
           /\ \A i \in 1 .. Len(Append(R, x)) : i = Len(R) + 1 \/ i \in 1 .. Len(R)
           /\ \A i \in 1 .. Len(R) : i \in 1 .. Len(Append(R, x))
           /\ Len(R) + 1 \in 1 .. Len(Append(R, x))
  <1>1. PICK T : R \in Seq(T)
    BY DEF IsSeq
  <1>2. /\ Len(R) \in Nat /\ Len(Append(R, x)) = Len(R) + 1 /\ Append(R, x)[Len(R) + 1] = x
        /\ \A i \in 1 .. Len(R) : Append(R, x)[i] = R[i]
    BY <1>1
  <1> QED
    BY <1>2

LEMMA ServerOwes ==
    ASSUME Inv, Owed, Server
    PROVE  Owed'
  <1>1. UNCHANGED <<task, sent, nextId>> /\ IInv
    BY ServerKeeps DEF Inv
  <1>2. CASE Silent
    BY <1>1, <1>2 DEF Silent, Owed, Held, Closing, Coming, Unanswered
  <1>3. ASSUME NEW e, s2c' = Append(s2c, e),
               \A h \in DOMAIN fs'.open : h \in DOMAIN fs.open \/ (e.ans.is = "handle" /\ e.ans.v = h),
               (e.id \in DOMAIN sent /\ sent[e.id].op = "close") => sent[e.id].args[1] \notin DOMAIN fs'.open
        PROVE  Owed'
    <2>1. /\ Len(s2c) \in Nat /\ s2c'[Len(s2c) + 1] = e
          /\ \A i \in 1 .. Len(s2c) : s2c'[i] = s2c[i]
          /\ \A i \in 1 .. Len(s2c') : i = Len(s2c) + 1 \/ i \in 1 .. Len(s2c)
          /\ \A i \in 1 .. Len(s2c) : i \in 1 .. Len(s2c')
          /\ Len(s2c) + 1 \in 1 .. Len(s2c')
      BY <1>1, <1>3, ReplyIds, AppendIs
    <2> SUFFICES ASSUME NEW h \in DOMAIN fs'.open
                 PROVE  \/ \E u \in Tasks : Held(u, h)'
                        \/ \E x : Closing(x, h)'
                        \/ \E i : Coming(i, h)'
      BY DEF Owed
    <2>2. CASE e.ans.is = "handle" /\ e.ans.v = h
      <3>1. PICK n : n = Len(s2c) + 1
        OBVIOUS
      <3>2. Coming(n, h)'
        BY <2>1, <2>2, <3>1 DEF Coming
      <3> QED
        BY <3>2
    <2>3. CASE \E u \in Tasks : Held(u, h)
      BY <1>1, <2>3 DEF Held
    <2>4. CASE \E x : Closing(x, h)
      <3>1. PICK x : Closing(x, h)
        BY <2>4
      <3>2. x # e.id
        BY <1>3, <3>1 DEF Closing
      <3>3. Unanswered(x)'
        BY <2>1, <3>1, <3>2 DEF Closing, Unanswered
      <3>4. Closing(x, h)'
        BY <1>1, <3>1, <3>3 DEF Closing
      <3> QED
        BY <3>4
    <2>5. CASE \E i : Coming(i, h)
      <3>1. PICK i : Coming(i, h)
        BY <2>5
      <3>2. Coming(i, h)'
        BY <2>1, <3>1 DEF Coming
      <3> QED
        BY <3>2
    <2> QED
      BY <1>3, <2>2, <2>3, <2>4, <2>5 DEF Owed
  <1>4. CASE Strays
    <2>1. PICK op, args, ans : ans.is # "handle" /\ s2c' = Append(s2c, [op |-> op, id |-> 0, args |-> args, ans |-> ans])
      BY <1>4 DEF Strays
    <2> DEFINE e == [op |-> op, id |-> 0, args |-> args, ans |-> ans]
    <2>2. s2c' = Append(s2c, e) /\ e.id = 0 /\ e.ans = ans
      BY <2>1
    <2>3. 0 \notin DOMAIN sent /\ fs' = fs
      BY <1>1, <1>4 DEF IInv, Asks, Strays
    <2> HIDE DEF e
    <2> QED
      BY <1>3, <2>2, <2>3
  <1>5. CASE Answers
    <2>1. PICK id, ans : Tells(id, ans) /\ Does(sent[id], ans)
      BY <1>5 DEF Answers
    <2> DEFINE e == [op |-> sent[id].op, id |-> id, args |-> sent[id].args, ans |-> ans]
    <2>2. s2c' = Append(s2c, e) /\ e.id = id /\ e.ans = ans
      BY <2>1 DEF Tells
    <2> HIDE DEF e
    <2>3. \A h \in DOMAIN fs'.open : h \in DOMAIN fs.open \/ (e.ans.is = "handle" /\ e.ans.v = h)
      BY <2>1, <2>2 DEF Does, Opens, Closes, Writes1, Lists, Reads, Looks
    <2>4. sent[id].op = "close" => sent[id].args[1] \notin DOMAIN fs'.open
      BY <2>1 DEF Does, Opens, Closes, Writes1, Lists, Reads, Looks
    <2> QED
      BY <1>3, <2>2, <2>3, <2>4
  <1> QED
    BY <1>2, <1>4, <1>5, ServerDoes

LEMMA RawOwes ==
    ASSUME Inv, Owed, NEW t \in Tasks, SendRaw(t)
    PROVE  Owed'
  <1>1. /\ task' = [task EXCEPT ![t] = [Idle EXCEPT !.prog = "raw", !.out = "ok"]]
        /\ task[t].prog = "none" /\ UNCHANGED <<sent, s2c, fs>>
    BY DEF SendRaw
  <1>2. task[t].handle = <<>> /\ task \in [Tasks -> TaskRecs] /\ IsFs(fs)
    BY <1>1, Unbegun DEF Inv, IInv
  <1>3. \A u \in Tasks : u # t => task'[u] = task[u]
    BY <1>1, <1>2
  <1> SUFFICES ASSUME NEW h \in DOMAIN fs.open
               PROVE  \/ \E u \in Tasks : Held(u, h)'
                      \/ \E x : Closing(x, h)'
                      \/ \E i : Coming(i, h)'
    BY <1>1 DEF Owed
  <1>4. h # <<>>
    BY <1>2, FsParts, EmptyText
  <1>5. CASE \E u \in Tasks : Held(u, h)
    <2>1. PICK u \in Tasks : Held(u, h)
      BY <1>5
    <2>2. u # t
      BY <1>2, <1>4, <2>1 DEF Held
    <2>3. Held(u, h)'
      BY <1>1, <1>3, <2>1, <2>2 DEF Held
    <2> QED
      BY <2>3
  <1>6. ASSUME NEW x PROVE Closing(x, h) => Closing(x, h)'
    BY <1>1 DEF Closing, Unanswered
  <1>7. ASSUME NEW i PROVE Coming(i, h) => Coming(i, h)'
    BY <1>1 DEF Coming
  <1> QED
    BY <1>5, <1>6, <1>7 DEF Owed

LEMMA NextOwes ==
    Inv /\ Owed /\ [Next]_vars => Owed'
  <1> SUFFICES ASSUME Inv, Owed, [Next]_vars PROVE Owed'
    OBVIOUS
  <1>1. CASE Server
    BY <1>1, ServerOwes
  <1>2. CASE Deliver
    <2>1. ASSUME NEW t \in Tasks, NEW res, Replying(t, s2c[1].id, res), Takes(t, s2c[1].id, res) PROVE Owed'
      BY <2>1, TakesMoves, TakesOwe
    <2> QED
      BY <1>2, <2>1, DeliverIs, UnawaitedOwe
  <1>3. ASSUME NEW t \in Tasks, Uses(t) PROVE Owed'
    BY <1>3, FileCalls, DirReads, EndsUse, CallsOwe DEF Uses
  <1>4. ASSUME NEW t \in Tasks, Starts(t) PROVE Owed'
    BY <1>4, StartsCall, CallsOwe
  <1>5. ASSUME NEW t \in Tasks, SendRaw(t) PROVE Owed'
    BY <1>5, RawOwes
  <1>6. CASE UNCHANGED vars
    BY <1>6 DEF vars, Owed, Held, Closing, Coming, Unanswered
  <1> QED
    BY <1>1, <1>2, <1>3, <1>4, <1>5, <1>6 DEF Next, Uses, Starts

(* With nothing to serve and nothing to deliver, no request is in flight.  *)
LEMMA NothingInFlight ==
    ASSUME Inv, c2s = <<>>, srv.packets = <<>>, s2c = <<>>, srv.registered
    PROVE  sent = <<>>
  <1>1. PICK line : Line(line, sent, c2s, srv.registered, srv.buffer, srv.packets, s2c)
    BY DEF Inv, IInv, InLine
  <1> DEFINE k == Len(s2c) + Len(srv.packets)
             buf == srv.buffer
             items == Items(line, k)
  <1>2. k = 0 /\ Len(line) \in Nat /\ buf \in Seq(Nat) /\ buf \o c2s = buf /\ Len(buf) \in Nat
    <2>1. buf \in Seq(Nat) /\ Len(line) \in Nat
      BY <1>1, LineTypes DEF Line
    <2> QED
      BY <2>1
  <1>3. Buffered(line, k, c2s, buf) /\ Covered(line, sent)
    BY <1>1 DEF Line
  <1>4. PICK at : Stream(buf, items, at)
    BY <1>2, <1>3 DEF Buffered
  <1> HIDE DEF k, buf
  <1>5. Len(line) = 0
    <2> SUFFICES ASSUME Len(line) # 0 PROVE FALSE
      OBVIOUS
    <2>1. 1 \in 1 .. Len(line) /\ Len(buf) < Len(line[1].bytes)
      BY <1>2, <1>3 DEF Buffered
    <2>2. Len(items) = Len(line) /\ items[1] = line[1].bytes
      BY <1>2, <2>1 DEF Items
    <2> HIDE DEF items
    <2>3. At(buf, at[0], items[1]) /\ at[0] = 0 /\ items \in Seq(Seq(Nat))
      <3>1. 1 - 1 = 0 /\ 1 \in 1 .. Len(items)
        BY <2>1, <2>2
      <3> QED
        BY <1>4, <3>1 DEF Stream, Laid
    <2>4. Len(items[1]) \in Nat
      BY <2>1, <2>2, <2>3
    <2>5. Len(items[1]) <= Len(buf)
      BY <1>2, <2>3, <2>4 DEF At
    <2> QED
      BY <1>2, <2>1, <2>2, <2>4, <2>5
  <1>6. DOMAIN sent = {}
    BY <1>3, <1>5 DEF Covered
  <1>7. sent = [id \in DOMAIN sent |-> sent[id]]
    BY DEF Inv, IInv, Asks
  <1> QED
    BY <1>6, <1>7

LEMMA StrandedNot ==
    Inv /\ Owed => NothingIsStranded
  <1> SUFFICES ASSUME Inv, Owed, c2s = <<>>, srv.packets = <<>>, s2c = <<>>, ~\E t \in Tasks : Holds(t)
               PROVE  \/ /\ sent = <<>> /\ fs.open = <<>>
                         /\ \A t \in Tasks : task[t].prog = "none" \/ task[t].out # "none"
                      \/ sent # <<>> /\ ~srv.registered
    BY DEF NothingIsStranded
  <1>1. srv.registered \in BOOLEAN
    BY DEF Inv, IInv, IsServer
  <1>2. CASE sent # <<>>
    BY <1>2, NothingInFlight
  <1>3. CASE sent = <<>>
    <2>1. DOMAIN sent = {}
      BY <1>3
    <2>2. ASSUME NEW t \in Tasks PROVE task[t].handle = <<>> /\ (task[t].prog = "none" \/ task[t].out # "none")
      <3>1. Rests(task[t])
        BY <2>1 DEF Inv, Phases
      <3>2. ~Holds(t)
        OBVIOUS
      <3> QED
        BY <3>1, <3>2, EmptyText DEF Rests, Idle, Holds
    <2>3. IsFs(fs) /\ Len(s2c) = 0
      BY DEF Inv, IInv
    <2>4. ASSUME NEW h \in DOMAIN fs.open PROVE FALSE
      <3>1. h # <<>>
        BY <2>3, FsParts, EmptyText
      <3>2. \A t \in Tasks : ~Held(t, h)
        BY <2>2, <3>1 DEF Held
      <3>3. \A id : ~Closing(id, h)
        BY <2>1 DEF Closing
      <3>4. \A i : ~Coming(i, h)
        BY <2>3 DEF Coming
      <3> QED
        BY <3>2, <3>3, <3>4 DEF Owed
    <2>5. fs.open = [h \in DOMAIN fs.open |-> fs.open[h]]
      BY <2>3, FsParts
    <2>6. fs.open = <<>>
      BY <2>4, <2>5
    <2> QED
      BY <1>3, <2>2, <2>6
  <1> QED
    BY <1>2, <1>3

(* Once all is quiet no call waits and no handle stays open, unless the    *)
(* channel was lost, in every instance of the specification                *)
(* (SftpFile::close, close_file, the Drop implementations and              *)
(* handle_data's one reply to each request).                               *)
THEOREM NothingIsStrandedHolds ==
    Spec => []NothingIsStranded
  <1>1. Init => Inv /\ Owed
    <2> SUFFICES ASSUME Init PROVE Inv /\ Owed
      OBVIOUS
    <2>1. PICK d \in Dirs : fs = [open |-> <<>>, files |-> [p \in Paths |-> Content], dir |-> d]
      BY DEF Init
    <2>2. DOMAIN fs.open = {}
      BY <2>1
    <2> QED
      BY <2>2, InitInv DEF Owed
  <1>2. Inv /\ Owed /\ [Next]_vars => (Inv /\ Owed)'
    BY NextKeeps, NextOwes
  <1>3. Inv /\ Owed => NothingIsStranded
    BY StrandedNot
  <1> QED
    BY <1>1, <1>2, <1>3, PTL DEF Spec
=============================================================================
