------------------------- MODULE ArmorBlocksProofs --------------------------
(***************************************************************************)
(* An import takes every certificate of every block of a file once and in  *)
(* order, or none, for files of any number of lines and any certificates.  *)
(***************************************************************************)
EXTENDS ArmorBlocks, Induction, SequenceTheorems, TLAPS

-----------------------------------------------------------------------------
(* The members of a set among the first lines, in order. *)

(* The function by which InOrder scans.                                    *)
Scan(S, f, N) ==
    /\ f \in [0 .. N -> Seq(Nat)] /\ f[0] = <<>>
    /\ \A n \in 1 .. N : f[n] = IF n \in S THEN Append(f[n - 1], n) ELSE f[n - 1]

LEMMA ScanExists ==
    ASSUME NEW S, NEW N \in Nat
    PROVE  \E f : Scan(S, f, N)
  <1> DEFINE T == Seq(Nat)
             After(t, n) == IF n \in S THEN Append(t, n) ELSE t
             step == [p \in T \X (1 .. N) |-> After(p[1], p[2])]
             empty == <<>>
  <1>1. \A t \in T, n \in 1 .. N : After(t, n) \in T
    OBVIOUS
  <1>2. empty \in T
    OBVIOUS
  <1> HIDE DEF After, T
  <1>3. \A t \in T, n \in 1 .. N : step[<<t, n>>] = After(t, n)
    OBVIOUS
  <1>4. \A t \in T, n \in 1 .. N : step[<<t, n>>] \in T
    BY <1>1, <1>3
  <1> HIDE DEF step, empty
  <1> PICK f : Steps(f, N, T, empty, step)
    BY <1>2, <1>4, StepFunction
  <1>5. /\ f \in [0 .. N -> T] /\ f[0] = empty
        /\ \A n \in 1 .. N : f[n] = step[<<f[n - 1], n>>]
    BY DEF Steps
  <1>6. ASSUME NEW n \in 1 .. N PROVE f[n] = After(f[n - 1], n)
    <2>1. n - 1 \in 0 .. N
      OBVIOUS
    <2>2. f[n - 1] \in T
      BY <1>5, <2>1
    <2> QED BY <1>3, <1>5, <2>2
  <1>7. Scan(S, f, N)
    BY <1>5, <1>6 DEF Scan, After, T, empty
  <1> QED BY <1>7

LEMMA InOrderIsScan ==
    ASSUME NEW S, NEW N \in Nat, NEW f, Scan(S, f, N), NEW L \in 0 .. N
    PROVE  InOrder(S, L) = f[L]
  <1> DEFINE After(t, n) == IF n \in S THEN Append(t, n) ELSE t
             Eq(g) == g = [i \in 0 .. L |-> IF i = 0 THEN <<>> ELSE After(g[i - 1], i)]
             found == CHOOSE g : Eq(g)
             h == [i \in 0 .. L |-> f[i]]
  <1>1. f[0] = <<>> /\ \A n \in 1 .. N : f[n] = After(f[n - 1], n)
    BY DEF Scan
  <1> HIDE DEF After
  <1>2. \A n \in 0 .. L : h[n] = f[n]
    OBVIOUS
  <1>3. ASSUME NEW n \in 0 .. L
        PROVE  h[n] = IF n = 0 THEN <<>> ELSE After(h[n - 1], n)
    <2>1. CASE n = 0
      BY <1>1, <2>1
    <2>2. CASE n # 0
      <3>1. n \in 1 .. N /\ n - 1 \in 0 .. L
        BY <2>2
      <3>2. h[n - 1] = f[n - 1] /\ h[n] = f[n]
        BY <1>2, <3>1
      <3> QED BY <1>1, <2>2, <3>1, <3>2
    <2> QED BY <2>1, <2>2
  <1>4. Eq(h)
    BY <1>3
  <1>5. Eq(found)
    <2> HIDE DEF Eq, h
    <2> QED BY <1>4
  <1>6. InOrder(S, L) = found[L]
    BY DEF InOrder, After
  <1>7. found[0] = <<>> /\ \A n \in 1 .. L : found[n] = After(found[n - 1], n)
    <2> HIDE DEF found
    <2> QED BY <1>5
  <1> HIDE DEF found, Eq
  <1>8. \A n \in 1 .. L : f[n - 1] = found[n - 1] => f[n] = found[n]
    <2> SUFFICES ASSUME NEW n \in 1 .. L, f[n - 1] = found[n - 1]
                 PROVE  f[n] = found[n]
      OBVIOUS
    <2>1. n \in 1 .. N
      OBVIOUS
    <2> QED BY <1>1, <1>7, <2>1
  <1>9. f[0] = found[0] /\ L \in Nat /\ L \in 0 .. L
    BY <1>1, <1>7
  <1>10. f[L] = found[L]
    BY <1>8, <1>9, SameSteps
  <1> QED BY <1>6, <1>10

LEMMA InOrderStep ==
    ASSUME NEW S
    PROVE  /\ InOrder(S, 0) = <<>>
           /\ \A n \in Nat \ {0} :
                  InOrder(S, n) = IF n \in S THEN Append(InOrder(S, n - 1), n)
                                  ELSE InOrder(S, n - 1)
           /\ \A n \in Nat : InOrder(S, n) \in Seq(Nat)
  <1>1. ASSUME NEW n \in Nat
        PROVE  /\ InOrder(S, 0) = <<>> /\ InOrder(S, n) \in Seq(Nat)
               /\ n # 0 => InOrder(S, n) = IF n \in S THEN Append(InOrder(S, n - 1), n)
                                           ELSE InOrder(S, n - 1)
    <2>1. PICK f : Scan(S, f, n)
      BY ScanExists
    <2>2. \A m \in 0 .. n : InOrder(S, m) = f[m]
      BY <2>1, InOrderIsScan
    <2>3. /\ f \in [0 .. n -> Seq(Nat)] /\ f[0] = <<>>
          /\ \A m \in 1 .. n : f[m] = IF m \in S THEN Append(f[m - 1], m) ELSE f[m - 1]
      BY <2>1 DEF Scan
    <2>4. 0 \in 0 .. n /\ n \in 0 .. n
      OBVIOUS
    <2>5. InOrder(S, 0) = <<>> /\ InOrder(S, n) \in Seq(Nat)
      BY <2>2, <2>3, <2>4
    <2>6. ASSUME n # 0
          PROVE  InOrder(S, n) = IF n \in S THEN Append(InOrder(S, n - 1), n)
                                 ELSE InOrder(S, n - 1)
      <3>1. n - 1 \in 0 .. n /\ n \in 1 .. n
        BY <2>6
      <3>2. InOrder(S, n) = f[n] /\ InOrder(S, n - 1) = f[n - 1]
        BY <2>2, <2>4, <3>1
      <3> QED BY <2>3, <3>1, <3>2
    <2> QED BY <2>5, <2>6
  <1>2. 0 \in Nat
    OBVIOUS
  <1> QED BY <1>1, <1>2

(* What InOrder returns: every member once, the smaller ones first.        *)
Listed(S, n, s) ==
    /\ s \in Seq(Nat)
    /\ \A k \in 1 .. Len(s) : s[k] \in S /\ s[k] \in 1 .. n
    /\ \A k \in 1 .. Len(s), l \in 1 .. Len(s) : k < l => s[k] < s[l]
    /\ \A i \in 1 .. n : i \in S => \E k \in 1 .. Len(s) : s[k] = i

LEMMA InOrderIsListed ==
    ASSUME NEW S, NEW N \in Nat
    PROVE  Listed(S, N, InOrder(S, N))
  <1> DEFINE G == {n \in 0 .. N : Listed(S, n, InOrder(S, n))}
  <1>1. 0 \in G
    <2>1. InOrder(S, 0) = <<>>
      BY InOrderStep
    <2>2. Listed(S, 0, <<>>)
      BY DEF Listed
    <2> QED BY <2>1, <2>2
  <1>2. ASSUME NEW n \in 0 .. N - 1, n \in G PROVE n + 1 \in G
    <2> DEFINE s == InOrder(S, n)
               t == InOrder(S, n + 1)
    <2>1. PICK m \in Nat \ {0} : m = n + 1
      OBVIOUS
    <2>2. t = IF n + 1 \in S THEN Append(s, n + 1) ELSE s
      <3>1. m - 1 = n
        BY <2>1
      <3>2. InOrder(S, m) = IF m \in S THEN Append(InOrder(S, m - 1), m) ELSE InOrder(S, m - 1)
        BY InOrderStep
      <3> QED BY <2>1, <3>1, <3>2
    <2>3. Listed(S, n, s)
      BY <1>2
    <2> HIDE DEF s, t
    <2>4. CASE n + 1 \notin S
      <3>1. t = s
        BY <2>2, <2>4
      <3>2. \A k \in 1 .. Len(s) : s[k] \in 1 .. n + 1
        BY <2>3 DEF Listed
      <3>3. \A i \in 1 .. n + 1 : i \in S => i \in 1 .. n
        BY <2>4
      <3>4. Listed(S, n + 1, s)
        BY <2>3, <3>2, <3>3 DEF Listed
      <3> QED BY <3>1, <3>4 DEF t
    <2>5. CASE n + 1 \in S
      <3>1. t = Append(s, n + 1)
        BY <2>2, <2>5
      <3>2. s \in Seq(Nat) /\ n + 1 \in Nat /\ Len(s) \in Nat
        BY <2>3 DEF Listed
      <3>3. /\ t \in Seq(Nat) /\ Len(t) = Len(s) + 1
            /\ \A k \in 1 .. Len(s) : t[k] = s[k]
            /\ t[Len(s) + 1] = n + 1
        BY <3>1, <3>2, AppendProperties
      <3>4. \A k \in 1 .. Len(s) : s[k] \in S /\ s[k] \in 1 .. n
        BY <2>3 DEF Listed
      <3>9. \A k \in 1 .. Len(t) : k \in 1 .. Len(s) \/ k = Len(s) + 1
        BY <3>2, <3>3
      <3>5. ASSUME NEW k \in 1 .. Len(t) PROVE t[k] \in S /\ t[k] \in 1 .. n + 1
        <4>1. CASE k \in 1 .. Len(s)
          <5>1. t[k] = s[k] /\ s[k] \in S /\ s[k] \in 1 .. n
            BY <3>3, <3>4, <4>1
          <5> QED BY <5>1
        <4>2. CASE k = Len(s) + 1
          <5>1. t[k] = n + 1
            BY <3>3, <4>2
          <5> QED BY <2>5, <5>1
        <4> QED BY <3>9, <4>1, <4>2
      <3>6. ASSUME NEW k \in 1 .. Len(t), NEW l \in 1 .. Len(t), k < l
            PROVE  t[k] < t[l]
        <4>1. k \in 1 .. Len(s) /\ (l \in 1 .. Len(s) \/ l = Len(s) + 1)
          <5> DEFINE len == Len(s)
          <5>1. len \in Nat /\ Len(t) = len + 1
            BY <3>2, <3>3
          <5> HIDE DEF len
          <5>2. k \in 1 .. len /\ (l \in 1 .. len \/ l = len + 1)
            BY <3>6, <5>1
          <5> QED BY <5>2 DEF len
        <4>2. CASE l \in 1 .. Len(s)
          <5>1. s[k] < s[l]
            BY <2>3, <3>6, <4>1, <4>2 DEF Listed
          <5> QED BY <3>3, <4>1, <4>2, <5>1
        <4>3. CASE l = Len(s) + 1
          <5>1. t[k] \in 1 .. n /\ t[l] = n + 1
            BY <3>3, <3>4, <4>1, <4>3
          <5> QED BY <5>1
        <4> QED BY <4>1, <4>2, <4>3
      <3>7. ASSUME NEW i \in 1 .. n + 1, i \in S
            PROVE  \E k \in 1 .. Len(t) : t[k] = i
        <4>1. CASE i = n + 1
          <5>1. Len(s) + 1 \in 1 .. Len(t)
            BY <3>2, <3>3
          <5> QED BY <3>3, <4>1, <5>1
        <4>2. CASE i # n + 1
          <5>1. i \in 1 .. n
            BY <4>2
          <5>2. PICK k \in 1 .. Len(s) : s[k] = i
            BY <2>3, <3>7, <5>1 DEF Listed
          <5>3. k \in 1 .. Len(t)
            BY <3>2, <3>3
          <5> QED BY <3>3, <5>2, <5>3
        <4> QED BY <4>1, <4>2
      <3>8. Listed(S, n + 1, t)
        BY <3>3, <3>5, <3>6, <3>7 DEF Listed
      <3> QED BY <3>8 DEF t
    <2> QED BY <2>4, <2>5
  <1>3. \A n \in 0 .. N : n \in G
    <2> HIDE DEF G
    <2> QED BY <1>1, <1>2, IntervalInduction
  <1>4. N \in 0 .. N
    OBVIOUS
  <1> QED BY <1>3, <1>4
-----------------------------------------------------------------------------
(* The certificates of the blocks, line by line. *)

(* Those of the first n lines.                                             *)
Taken(n) ==
    LET at == InOrder(CertsInBlocks, n)
    IN  [k \in DOMAIN at |-> file[at[k]]]

LEMMA TakenType ==
    ASSUME file \in Seq(Lines), NEW n \in 0 .. Len(file)
    PROVE  /\ Taken(n) \in Seq(Certs)
           /\ Len(Taken(n)) = Len(InOrder(CertsInBlocks, n))
           /\ \A k \in 1 .. Len(Taken(n)) :
                  Taken(n)[k] = file[InOrder(CertsInBlocks, n)[k]]
  <1> DEFINE at == InOrder(CertsInBlocks, n)
             len == Len(at)
             f == [k \in 1 .. len |-> file[at[k]]]
  <1>1. n \in Nat
    OBVIOUS
  <1>2. Listed(CertsInBlocks, n, at)
    BY <1>1, InOrderIsListed
  <1> HIDE DEF at
  <1>3. at \in Seq(Nat) /\ \A k \in 1 .. len : at[k] \in CertsInBlocks
    BY <1>2 DEF Listed
  <1>4. len \in Nat /\ DOMAIN at = 1 .. len
    BY <1>3
  <1> HIDE DEF len
  <1>5. \A i \in CertsInBlocks : file[i] \in Certs
    BY DEF CertsInBlocks
  <1>6. f \in [1 .. len -> Certs]
    BY <1>3, <1>5
  <1>7. f \in Seq(Certs) /\ Len(f) = len
    BY <1>4, <1>6
  <1>8. Taken(n) = f
    BY <1>4 DEF Taken, at
  <1>9. \A k \in 1 .. len : f[k] = file[at[k]]
    OBVIOUS
  <1> HIDE DEF f
  <1> QED BY <1>7, <1>8, <1>9 DEF at, len

LEMMA TakenStep ==
    ASSUME file \in Seq(Lines), NEW n \in 1 .. Len(file)
    PROVE  Taken(n) = IF n \in CertsInBlocks THEN Append(Taken(n - 1), file[n])
                      ELSE Taken(n - 1)
  <1> DEFINE C == CertsInBlocks
             s == InOrder(C, n - 1)
             t == InOrder(C, n)
  <1>1. n - 1 \in 0 .. Len(file) /\ n \in 0 .. Len(file) /\ n \in Nat \ {0} /\ n - 1 \in Nat
    OBVIOUS
  <1>2. t = IF n \in C THEN Append(s, n) ELSE s
    BY <1>1, InOrderStep
  <1>3. s \in Seq(Nat)
    BY <1>1, InOrderStep
  <1>4. /\ Taken(n - 1) \in Seq(Certs) /\ Len(Taken(n - 1)) = Len(s)
        /\ \A k \in 1 .. Len(s) : Taken(n - 1)[k] = file[s[k]]
    BY <1>1, TakenType
  <1>5. /\ Taken(n) \in Seq(Certs) /\ Len(Taken(n)) = Len(t)
        /\ \A k \in 1 .. Len(t) : Taken(n)[k] = file[t[k]]
    BY <1>1, TakenType
  <1>6. n \in C => file[n] \in Certs
    BY DEF CertsInBlocks
  <1>7. t = s => Taken(n) = Taken(n - 1)
    BY DEF Taken
  <1> DEFINE p == Taken(n - 1)
             q == Taken(n)
             len == Len(s)
  <1> HIDE DEF s, t, C, p, q
  <1>8. CASE n \in C
    <2>1. t = Append(s, n) /\ n \in Nat
      BY <1>1, <1>2, <1>8
    <2>2. /\ len \in Nat /\ Len(t) = len + 1 /\ t[len + 1] = n
          /\ \A k \in 1 .. len : t[k] = s[k]
      BY <1>3, <2>1, AppendProperties
    <2> DEFINE r == Append(p, file[n])
    <2>3. /\ r \in Seq(Certs) /\ Len(r) = Len(p) + 1
          /\ \A k \in 1 .. Len(p) : r[k] = p[k]
          /\ r[Len(p) + 1] = file[n]
      <3>1. p \in Seq(Certs) /\ file[n] \in Certs
        BY <1>4, <1>6, <1>8 DEF p
      <3> QED BY <3>1, AppendProperties
    <2> HIDE DEF r, len
    <2>4. Len(p) = len /\ Len(q) = len + 1 /\ Len(r) = len + 1
      BY <1>4, <1>5, <2>2, <2>3 DEF p, q, len
    <2>5. ASSUME NEW k \in 1 .. len + 1 PROVE q[k] = r[k]
      <3>1. CASE k = len + 1
        BY <1>5, <2>2, <2>3, <2>4, <3>1 DEF q
      <3>2. CASE k \in 1 .. len
        <4>1. q[k] = file[s[k]]
          BY <1>5, <2>2, <3>2 DEF q
        <4>2. r[k] = file[s[k]]
          BY <1>4, <2>3, <2>4, <3>2 DEF p, len
        <4> QED BY <4>1, <4>2
      <3> QED BY <2>2, <3>1, <3>2
    <2>6. q = r
      <3>1. q \in Seq(Certs) /\ r \in Seq(Certs) /\ Len(q) = Len(r)
            /\ \A k \in 1 .. Len(q) : q[k] = r[k]
        BY <1>5, <2>3, <2>4, <2>5 DEF q
      <3> QED BY <3>1, SeqEqual
    <2> QED BY <1>8, <2>6 DEF q, p, r, C
  <1>9. CASE n \notin C
    BY <1>2, <1>7, <1>9 DEF C
  <1> QED BY <1>8, <1>9

LEMMA TakenNone ==
    Taken(0) = <<>>
  <1>1. InOrder(CertsInBlocks, 0) = <<>>
    BY InOrderStep
  <1> QED BY <1>1 DEF Taken

LEMMA ThreeParts ==
    \A x, y, z \in Seq(Certs) : (x \o y) \o z = x \o (y \o z)
  BY ConcatAssociative

(* A run of lines that are all of them certificates of blocks, ...         *)
LEMMA TakenRun ==
    ASSUME file \in Seq(Lines), NEW a \in 0 .. Len(file), NEW b \in a .. Len(file),
           \A i \in a + 1 .. b : i \in CertsInBlocks
    PROVE  Taken(b) = Taken(a) \o SubSeq(file, a + 1, b)
  <1> DEFINE G == {n \in a .. b : Taken(n) = Taken(a) \o SubSeq(file, a + 1, n)}
  <1>0. Len(file) \in Nat /\ a \in Int /\ b \in Int /\ a \in a .. b /\ b \in a .. b
    OBVIOUS
  <1>1. a \in G
    <2>1. SubSeq(file, a + 1, a) = <<>>
      BY <1>0, SubSeqEmpty
    <2>2. Taken(a) \in Seq(Certs)
      BY TakenType
    <2> QED BY <1>0, <2>1, <2>2, ConcatEmptySeq
  <1>2. ASSUME NEW n \in a .. b - 1, n \in G PROVE n + 1 \in G
    <2>1. PICK m \in 1 .. Len(file) : m = n + 1
      BY <1>0
    <2>2. m \in CertsInBlocks /\ m - 1 = n /\ m \in a + 1 .. Len(file)
      BY <1>0, <2>1
    <2>3. Taken(m) = Append(Taken(n), file[m]) /\ file[m] \in Certs
      BY <2>2, TakenStep DEF CertsInBlocks
    <2>4. \A i \in a + 1 .. n : file[i] \in Certs
      BY DEF CertsInBlocks
    <2> DEFINE x == Taken(a)
               y == SubSeq(file, a + 1, n)
               one == <<file[m]>>
    <2>5. x \in Seq(Certs) /\ y \in Seq(Certs) /\ one \in Seq(Certs)
      <3>1. n \in Int /\ a + 1 \in Int
        BY <1>0
      <3>2. y \in Seq(Certs)
        BY <2>4, <3>1, SubSeqProperties
      <3> QED BY <2>3, <3>2, TakenType
    <2>6. Taken(n) = x \o y
      BY <1>2
    <2>7. SubSeq(file, a + 1, m) = y \o one
      <3>1. a + 1 \in 1 .. Len(file) /\ m \in a + 1 .. Len(file)
        BY <1>0, <2>2
      <3>2. SubSeq(file, a + 1, m) = SubSeq(file, a + 1, m - 1) \o <<file[m]>>
        BY <3>1, SubSeqRecursiveSecond
      <3> QED BY <2>2, <3>2
    <2>8. Taken(n) \in Seq(Certs)
      <3>1. n \in 0 .. Len(file)
        BY <1>0
      <3> QED BY <3>1, TakenType
    <2>9. Append(Taken(n), file[m]) = Taken(n) \o one
      BY <2>3, <2>8, AppendIsConcat
    <2> HIDE DEF x, y, one
    <2>10. (x \o y) \o one = x \o (y \o one)
      BY ONLY <2>5, ThreeParts
    <2>11. Taken(m) = x \o SubSeq(file, a + 1, m)
      BY <2>3, <2>6, <2>7, <2>9, <2>10
    <2>12. m \in a .. b
      BY <1>0, <2>1
    <2> QED BY <2>1, <2>11, <2>12 DEF x
  <1>3. \A n \in a .. b : n \in G
    <2> HIDE DEF G
    <2> QED BY <1>0, <1>1, <1>2, IntervalInduction
  <1> QED BY <1>0, <1>3

(* ... and one of lines that are none.                                     *)
LEMMA TakenSkip ==
    ASSUME file \in Seq(Lines), NEW a \in 0 .. Len(file), NEW b \in a .. Len(file),
           \A i \in a + 1 .. b : i \notin CertsInBlocks
    PROVE  Taken(b) = Taken(a)
  <1> DEFINE G == {n \in a .. b : Taken(n) = Taken(a)}
  <1>0. Len(file) \in Nat /\ a \in Int /\ b \in Int /\ a \in a .. b /\ b \in a .. b
    OBVIOUS
  <1>1. a \in G
    BY <1>0
  <1>2. ASSUME NEW n \in a .. b - 1, n \in G PROVE n + 1 \in G
    <2>1. PICK m \in 1 .. Len(file) : m = n + 1
      BY <1>0
    <2>2. m \notin CertsInBlocks /\ m - 1 = n /\ m \in a .. b
      BY <1>0, <2>1
    <2>3. Taken(m) = Taken(n)
      BY <2>2, TakenStep
    <2> QED BY <1>2, <2>1, <2>2, <2>3
  <1>3. \A n \in a .. b : n \in G
    <2> HIDE DEF G
    <2> QED BY <1>0, <1>1, <1>2, IntervalInduction
  <1> QED BY <1>0, <1>3
-----------------------------------------------------------------------------
(* One piece, read. *)

(* A set of naturals has one least element.                                *)
LEMMA LeastIs ==
    ASSUME NEW S, S \subseteq Nat, NEW m \in S, \A j \in S : m <= j
    PROVE  (CHOOSE i \in S : \A j \in S : i <= j) = m
  <1> DEFINE Least(i) == i \in S /\ \A j \in S : i <= j
             c == CHOOSE i : Least(i)
  <1>1. Least(m)
    OBVIOUS
  <1>2. Least(c)
    <2> HIDE DEF Least
    <2> QED BY <1>1
  <1>3. c = m
    <2> HIDE DEF c
    <2>1. c \in S /\ m \in S /\ c <= m /\ m <= c
      BY <1>2
    <2>2. c \in Nat /\ m \in Nat
      BY <2>1
    <2> QED BY <2>1, <2>2
  <1>4. (CHOOSE i \in S : \A j \in S : i <= j) = c
    OBVIOUS
  <1> QED BY <1>3, <1>4

(* The block that begins on line b ends on line e, with nothing but        *)
(* certificates between.                                                   *)
Closed(b, e) ==
    file[e] = End /\ \A j \in b + 1 .. e - 1 : file[j] \in Certs

(* Lines a to z with one marker, on line b.                                *)
OneMarker(a, b, z) ==
    /\ a \in 1 .. Len(file) /\ b \in a .. Len(file) /\ z \in b .. Len(file)
    /\ file[b] = Begin
    /\ \A i \in a .. z : file[i] = Begin => i = b

(* What the reader makes of such a piece.                                  *)
LEMMA BodyIs ==
    ASSUME file \in Seq(Lines), NEW a, NEW b, NEW z, OneMarker(a, b, z)
    PROVE  \/ /\ \A e \in b + 1 .. z : file[e] # End
              /\ Body(SubSeq(file, a, z)) = Error
           \/ \E e \in b + 1 .. z :
                  /\ file[e] = End /\ \A i \in b + 1 .. e - 1 : file[i] # End
                  /\ Body(SubSeq(file, a, z)) = SubSeq(file, b + 1, e - 1)
  <1> DEFINE p == SubSeq(file, a, z)
             L == Len(file)
             len == z - a + 1
             begins == Starts(p)
             from == CHOOSE i \in begins : \A j \in begins : i <= j
             ends == {i \in DOMAIN p : p[i] = End /\ from < i}
             to == CHOOSE i \in ends : \A j \in ends : i <= j
  <1>1. /\ a \in 1 .. L /\ b \in a .. L /\ z \in b .. L /\ L \in Nat
        /\ file[b] = Begin
        /\ \A i \in a .. z : file[i] = Begin => i = b
    BY DEF OneMarker
  <1>2. /\ p \in Seq(Lines) /\ Len(p) = len
        /\ \A i \in 1 .. len : p[i] = file[a + i - 1]
    <2>1. \A i \in a .. z : file[i] \in Lines
      BY <1>1
    <2>2. a \in Int /\ z \in Int /\ a <= z
      BY <1>1
    <2> QED BY <2>1, <2>2, SubSeqProperties
  <1>3. DOMAIN p = 1 .. len /\ len \in Nat
    <2>1. DOMAIN p = 1 .. Len(p)
      BY <1>2, LenProperties
    <2> QED BY <1>1, <1>2, <2>1
  <1>4. Body(p) = IF begins = {} \/ ends = {} THEN Error ELSE SubSeq(p, from + 1, to - 1)
    BY DEF Body
  <1> DEFINE first == b - a + 1
  <1>5. first \in 1 .. len /\ a + first - 1 = b
    BY <1>1
  <1>6. begins = {first}
    <2>1. \A i \in 1 .. len : a + i - 1 \in a .. z /\ (a + i - 1 = b => i = first)
      BY <1>1
    <2>2. \A i \in 1 .. len : p[i] = Begin <=> i = first
      <3> HIDE DEF p, first, len
      <3> QED BY <1>1, <1>2, <1>5, <2>1
    <2>3. begins = {i \in 1 .. len : p[i] = Begin}
      BY <1>3 DEF Starts
    <2> HIDE DEF p, first, len, begins
    <2> QED BY <1>5, <2>2, <2>3
  <1>7. from = first
    <2> HIDE DEF begins, first, len
    <2>1. begins \subseteq Nat /\ first \in begins /\ \A j \in begins : first <= j
      BY <1>5, <1>6
    <2> QED BY <2>1, LeastIs
  <1>8. ends = {i \in 1 .. len : file[a + i - 1] = End /\ first < i}
    <2> HIDE DEF from, first, len, p
    <2> QED BY <1>2, <1>3, <1>7 DEF ends
  <1> HIDE DEF from, begins, p, to, ends
  <1>9. CASE ends = {}
    <2>1. ASSUME NEW e \in b + 1 .. z, file[e] = End PROVE FALSE
      <3>1. PICK i \in 1 .. len : i = e - a + 1
        BY <1>1
      <3>2. a + i - 1 = e /\ first < i
        BY <1>1, <3>1
      <3>3. i \in ends
        BY <1>8, <2>1, <3>2
      <3> QED BY <1>9, <3>3
    <2>2. Body(p) = Error
      BY <1>4, <1>9
    <2> QED BY <2>1, <2>2 DEF p
  <1>10. CASE ends # {}
    <2>1. ends \subseteq Nat
      BY <1>8
    <2>2. PICK m \in ends : \A j \in ends : m <= j
      BY <1>10, <2>1, LeastNatural
    <2>3. to = m
      BY <2>1, <2>2, LeastIs DEF to
    <2>4. m \in 1 .. len /\ file[a + m - 1] = End /\ first < m
      BY <1>8, <2>2
    <2>5. PICK e \in b + 1 .. z : e = a + m - 1
      BY <1>1, <2>4
    <2>6. ASSUME NEW i \in b + 1 .. e - 1 PROVE file[i] # End
      <3>1. PICK j \in 1 .. len : j = i - a + 1
        BY <1>1, <2>5
      <3>2. a + j - 1 = i /\ first < j /\ ~ m <= j
        BY <1>1, <2>4, <2>5, <3>1
      <3>3. j \notin ends
        BY <2>2, <3>2
      <3> QED BY <1>8, <3>2, <3>3
    <2>7. Body(p) = SubSeq(p, first + 1, m - 1)
      <3>1. begins # {}
        BY <1>6
      <3> QED BY <1>4, <1>7, <1>10, <2>3, <3>1
    <2>8. SubSeq(p, first + 1, m - 1) = SubSeq(file, b + 1, e - 1)
      <3>1. CASE first + 1 <= m - 1
        <4>1. first + 1 \in 1 .. z - a + 1 /\ m - 1 \in 1 .. z - a + 1
              /\ a \in 1 .. Len(file) /\ z \in 1 .. Len(file)
          BY <1>1, <2>4, <3>1
        <4>2. SubSeq(SubSeq(file, a, z), first + 1, m - 1)
              = SubSeq(file, a + (first + 1) - 1, a + (m - 1) - 1)
          <5> DEFINE u == first + 1
                     v == m - 1
          <5> HIDE DEF u, v
          <5>1. u \in 1 .. z - a + 1 /\ v \in 1 .. z - a + 1
                /\ a \in 1 .. Len(file) /\ z \in 1 .. Len(file)
            BY <4>1 DEF u, v
          <5>2. SubSeq(SubSeq(file, a, z), u, v) = SubSeq(file, a + u - 1, a + v - 1)
            BY ONLY file \in Seq(Lines), <5>1, SubSeqOfSubSeq
          <5> QED BY <5>2 DEF u, v
        <4>3. a + (first + 1) - 1 = b + 1 /\ a + (m - 1) - 1 = e - 1
          BY <1>1, <2>4, <2>5
        <4> QED BY <4>2, <4>3 DEF p
      <3>2. CASE first + 1 > m - 1
        <4>1. /\ first + 1 \in Int /\ m - 1 \in Int /\ m - 1 < first + 1
              /\ b + 1 \in Int /\ e - 1 \in Int /\ e - 1 < b + 1
          BY <1>1, <2>4, <2>5, <3>2
        <4>2. SubSeq(p, first + 1, m - 1) = <<>>
          <5> HIDE DEF first
          <5> QED BY <4>1, SubSeqEmpty
        <4>3. SubSeq(file, b + 1, e - 1) = <<>>
          BY <4>1, SubSeqEmpty
        <4> QED BY <4>2, <4>3
      <3> QED BY <1>1, <2>4, <3>1, <3>2
    <2>9. file[e] = End
      BY <2>4, <2>5
    <2>10. Body(p) = SubSeq(file, b + 1, e - 1)
      BY <2>7, <2>8
    <2> QED BY <2>6, <2>9, <2>10 DEF p
  <1> QED BY <1>9, <1>10

LEMMA PieceIs ==
    ASSUME file \in Seq(Lines), NEW a, NEW b, NEW z, OneMarker(a, b, z)
    PROVE  /\ \A e \in b + 1 .. z : Closed(b, e) =>
                  /\ ParseArmorBlock(SubSeq(file, a, z)) = SubSeq(file, b + 1, e - 1)
                  /\ SubSeq(file, b + 1, e - 1) \in Seq(Certs)
                  /\ SubSeq(file, b + 1, e - 1) # Error
           /\ (\A e \in b + 1 .. z : ~ Closed(b, e)) =>
                  ParseArmorBlock(SubSeq(file, a, z)) = Error
  <1> DEFINE p == SubSeq(file, a, z)
             body == Body(p)
  <1>1. ParseArmorBlock(p) = IF body # Error /\ ToSet(body) \subseteq Certs THEN body ELSE Error
    BY DEF ParseArmorBlock
  <1>2. b \in 1 .. Len(file) /\ z \in b .. Len(file) /\ Len(file) \in Nat
    BY DEF OneMarker
  <1>3. \A c \in Certs : c # End /\ c \in Lines
    BY ArmorAssumption DEF Lines
  <1>4. ASSUME NEW e \in b + 1 .. z
        PROVE  LET s == SubSeq(file, b + 1, e - 1)
               IN  /\ s # Error
                   /\ ToSet(s) = {file[j] : j \in b + 1 .. e - 1}
                   /\ Closed(b, e) => s \in Seq(Certs)
    <2> DEFINE s == SubSeq(file, b + 1, e - 1)
    <2>1. b + 1 \in Int /\ e - 1 \in Int /\ \A j \in b + 1 .. e - 1 : file[j] \in Lines
      BY <1>2
    <2>2. /\ s \in Seq(Lines)
          /\ Len(s) = IF b + 1 <= e - 1 THEN (e - 1) - (b + 1) + 1 ELSE 0
          /\ \A j \in 1 .. (e - 1) - (b + 1) + 1 : s[j] = file[b + 1 + j - 1]
      BY <2>1, SubSeqProperties
    <2>3. s # Error
      BY <2>2, ArmorAssumption
    <2>4. Closed(b, e) => s \in Seq(Certs)
      <3>1. ASSUME Closed(b, e) PROVE \A j \in b + 1 .. e - 1 : file[j] \in Certs
        BY <3>1 DEF Closed
      <3> QED BY <2>1, <3>1, SubSeqProperties
    <2>5. DOMAIN s = 1 .. e - b - 1
      <3>1. DOMAIN s = 1 .. Len(s)
        BY <2>2, LenProperties
      <3>2. Len(s) = e - b - 1
        BY <1>2, <2>2
      <3> QED BY <3>1, <3>2
    <2>6. \A j \in 1 .. e - b - 1 : s[j] = file[b + j] /\ b + j \in b + 1 .. e - 1
      BY <1>2, <2>2
    <2>7. \A i \in b + 1 .. e - 1 : i - b \in 1 .. e - b - 1 /\ b + (i - b) = i
      BY <1>2
    <2> HIDE DEF s
    <2>8. ToSet(s) = {file[j] : j \in b + 1 .. e - 1}
      <3>1. ToSet(s) = {s[j] : j \in 1 .. e - b - 1}
        BY <2>5 DEF ToSet
      <3>2. ASSUME NEW i \in b + 1 .. e - 1 PROVE file[i] \in {s[j] : j \in 1 .. e - b - 1}
        <4>1. PICK j \in 1 .. e - b - 1 : b + j = i
          BY <2>7
        <4> QED BY <2>6, <4>1
      <3>3. ASSUME NEW j \in 1 .. e - b - 1 PROVE s[j] \in {file[i] : i \in b + 1 .. e - 1}
        BY <2>6
      <3> QED BY <3>1, <3>2, <3>3
    <2> QED BY <2>3, <2>4, <2>8 DEF s
  <1> HIDE DEF p
  <1>5. ASSUME NEW e \in b + 1 .. z, Closed(b, e)
        PROVE  /\ ParseArmorBlock(p) = SubSeq(file, b + 1, e - 1)
               /\ SubSeq(file, b + 1, e - 1) \in Seq(Certs)
               /\ SubSeq(file, b + 1, e - 1) # Error
    <2>1. file[e] = End /\ \A j \in b + 1 .. e - 1 : file[j] \in Certs /\ file[j] # End
      BY <1>3, <1>5 DEF Closed
    <2>2. PICK d \in b + 1 .. z :
              /\ file[d] = End /\ \A i \in b + 1 .. d - 1 : file[i] # End
              /\ body = SubSeq(file, b + 1, d - 1)
      BY <2>1, BodyIs DEF p
    <2>3. d = e
      <3>1. ~ d \in b + 1 .. e - 1
        BY <2>1, <2>2
      <3>2. ~ e \in b + 1 .. d - 1
        BY <2>1, <2>2
      <3> QED BY <1>2, <3>1, <3>2
    <2>4. ToSet(body) \subseteq Certs /\ body # Error
      BY <1>4, <2>1, <2>2, <2>3
    <2> QED BY <1>1, <1>4, <1>5, <2>2, <2>3, <2>4
  <1>6. ASSUME \A e \in b + 1 .. z : ~ Closed(b, e)
        PROVE  ParseArmorBlock(p) = Error
    <2>1. CASE body = Error
      BY <1>1, <2>1
    <2>2. CASE body # Error
      <3>1. PICK d \in b + 1 .. z :
              /\ file[d] = End /\ \A i \in b + 1 .. d - 1 : file[i] # End
              /\ body = SubSeq(file, b + 1, d - 1)
        BY <2>2, BodyIs DEF p
      <3>2. ToSet(body) = {file[j] : j \in b + 1 .. d - 1}
        BY <1>4, <3>1
      <3>3. ~ ToSet(body) \subseteq Certs
        BY <1>6, <3>1, <3>2 DEF Closed
      <3> QED BY <1>1, <3>3
    <2> QED BY <2>1, <2>2
  <1> QED BY <1>5, <1>6 DEF p
-----------------------------------------------------------------------------
(* One block of the file. *)

(* From the marker on line b up to line z there is no other marker.        *)
LoneMarker(b, z) ==
    /\ b \in 1 .. Len(file) /\ z \in b .. Len(file) /\ file[b] = Begin
    /\ \A i \in b + 1 .. z : file[i] # Begin

(* Up to the END line all lines are certificates in a block, from there on *)
(* none is.                                                                *)
LEMMA BlockIs ==
    ASSUME file \in Seq(Lines), NEW b, NEW z, LoneMarker(b, z),
           NEW e \in b + 1 .. z, Closed(b, e)
    PROVE  /\ \A i \in b + 1 .. e - 1 : i \in CertsInBlocks
           /\ \A i \in e .. z : i \notin CertsInBlocks
  <1>1. /\ b \in 1 .. Len(file) /\ z \in b .. Len(file) /\ Len(file) \in Nat
        /\ file[b] = Begin /\ \A i \in b + 1 .. z : file[i] # Begin
        /\ DOMAIN file = 1 .. Len(file)
    BY DEF LoneMarker
  <1>2. file[e] = End /\ \A j \in b + 1 .. e - 1 : file[j] \in Certs
    BY DEF Closed
  <1>3. \A c \in Certs : c \notin {Begin, End}
    BY ArmorAssumption
  <1>4. ASSUME NEW i \in b + 1 .. e - 1 PROVE i \in CertsInBlocks
    <2>1. b \in Starts(file) /\ b < i /\ i \in DOMAIN file
      BY <1>1 DEF Starts
    <2>2. \A j \in b + 1 .. i - 1 : j \in b + 1 .. e - 1
      BY <1>1
    <2>3. InBlock(i)
      BY <1>2, <1>3, <2>1, <2>2 DEF InBlock
    <2> QED BY <1>2, <2>1, <2>3 DEF CertsInBlocks
  <1>5. ASSUME NEW i \in e .. z, i \in CertsInBlocks PROVE FALSE
    <2>1. InBlock(i) /\ file[i] \in Certs
      BY <1>5 DEF CertsInBlocks
    <2>2. PICK d \in Starts(file) :
              d < i /\ \A j \in d + 1 .. i - 1 : file[j] \notin {Begin, End}
      BY <2>1 DEF InBlock
    <2>3. i # e
      BY <1>2, <1>3, <2>1
    <2>4. d \in 1 .. Len(file) /\ file[d] = Begin
      BY <1>1 DEF Starts
    <2>5. d <= b
      BY <1>1, <2>2, <2>4
    <2>6. e \in d + 1 .. i - 1
      BY <1>1, <2>3, <2>4, <2>5
    <2> QED BY <1>2, <2>2, <2>6
  <1> QED BY <1>4, <1>5

LEMMA TakenBlock ==
    ASSUME file \in Seq(Lines), NEW b, NEW z, LoneMarker(b, z),
           NEW e \in b + 1 .. z, Closed(b, e)
    PROVE  Taken(z) = Taken(b - 1) \o SubSeq(file, b + 1, e - 1)
  <1>1. /\ b \in 1 .. Len(file) /\ z \in b .. Len(file) /\ Len(file) \in Nat
        /\ file[b] = Begin
    BY DEF LoneMarker
  <1>2. b \notin CertsInBlocks
    <2>1. file[b] \notin Certs
      BY <1>1, ArmorAssumption
    <2> QED BY <2>1 DEF CertsInBlocks
  <1>3. Taken(b) = Taken(b - 1)
    BY <1>1, <1>2, TakenStep
  <1>4. Taken(e - 1) = Taken(b) \o SubSeq(file, b + 1, e - 1)
    <2>1. b \in 0 .. Len(file) /\ e - 1 \in b .. Len(file)
      BY <1>1
    <2>2. \A i \in b + 1 .. e - 1 : i \in CertsInBlocks
      BY BlockIs
    <2> QED BY <2>1, <2>2, TakenRun
  <1>5. Taken(z) = Taken(e - 1)
    <2> DEFINE d == e - 1
    <2>1. d \in 0 .. Len(file) /\ z \in d .. Len(file)
      BY <1>1
    <2>2. \A i \in d + 1 .. z : i \in e .. z
      BY <1>1
    <2>3. \A i \in d + 1 .. z : i \notin CertsInBlocks
      BY <2>2, BlockIs
    <2> HIDE DEF d
    <2>4. Taken(z) = Taken(d)
      BY <2>1, <2>3, TakenSkip
    <2> QED BY <2>4 DEF d
  <1> QED BY <1>3, <1>4, <1>5

-----------------------------------------------------------------------------
(* The pieces of a file with a marker. *)

Marks == InOrder(Starts(file), Len(file))

From(n) == IF Len(Marks) <= 1 THEN 1 ELSE Marks[n]

Upto(n) == PieceEnd(file, Marks, n)

LEMMA MarksAre ==
    ASSUME file \in Seq(Lines)
    PROVE  /\ Marks \in Seq(Nat) /\ Len(Marks) \in Nat
           /\ \A n \in 1 .. Len(Marks) : Marks[n] \in 1 .. Len(file) /\ file[Marks[n]] = Begin
           /\ \A m \in 1 .. Len(Marks), n \in 1 .. Len(Marks) : m < n => Marks[m] < Marks[n]
           /\ \A b \in Starts(file) : \E n \in 1 .. Len(Marks) : Marks[n] = b
  <1>1. Len(file) \in Nat /\ DOMAIN file = 1 .. Len(file)
    OBVIOUS
  <1>2. Listed(Starts(file), Len(file), Marks)
    BY <1>1, InOrderIsListed DEF Marks
  <1>3. \A b \in Starts(file) : b \in 1 .. Len(file) /\ file[b] = Begin
    BY <1>1 DEF Starts
  <1> QED BY <1>2, <1>3 DEF Listed

(* Each piece has its one marker, and the next one follows on it.          *)
LEMMA PiecesAre ==
    ASSUME file \in Seq(Lines), NEW n \in 1 .. Len(Marks)
    PROVE  /\ OneMarker(From(n), Marks[n], Upto(n))
           /\ LoneMarker(Marks[n], Upto(n))
           /\ n > 1 => Marks[n] = Upto(n - 1) + 1
           /\ n = 1 => \A i \in 1 .. Marks[n] - 1 : file[i] # Begin
           /\ n = Len(Marks) => Upto(n) = Len(file)
  <1> DEFINE c == Len(Marks)
             L == Len(file)
  <1>1. /\ c \in Nat /\ \A m \in 1 .. c : Marks[m] \in 1 .. L /\ file[Marks[m]] = Begin
        /\ \A m \in 1 .. c, l \in 1 .. c : m < l => Marks[m] < Marks[l]
    BY MarksAre
  <1>2. ASSUME NEW i \in 1 .. L, file[i] = Begin PROVE \E m \in 1 .. c : Marks[m] = i
    <2>1. i \in Starts(file)
      BY <1>2 DEF Starts
    <2> QED BY <2>1, MarksAre
  <1>3. L \in Nat
    OBVIOUS
  <1>4. Upto(n) = IF n < c THEN Marks[n + 1] - 1 ELSE L
    BY DEF Upto, PieceEnd
  <1>5. n > 1 => Upto(n - 1) = Marks[n] - 1
    <2> SUFFICES ASSUME n > 1 PROVE Upto(n - 1) = Marks[n] - 1
      OBVIOUS
    <2>1. n - 1 < c /\ n - 1 + 1 = n
      BY <1>1
    <2>2. Upto(n - 1) = IF n - 1 < c THEN Marks[n - 1 + 1] - 1 ELSE L
      BY DEF Upto, PieceEnd
    <2> QED BY <2>1, <2>2
  <1>6. From(n) = IF c <= 1 THEN 1 ELSE Marks[n]
    BY DEF From
  <1> HIDE DEF c, L
  <1>7. Upto(n) \in Marks[n] .. L
    <2>1. CASE n < c
      <3>1. PICK m \in 1 .. c : m = n + 1
        BY <1>1, <2>1
      <3>2. Marks[n] < Marks[m] /\ Marks[m] \in 1 .. L /\ Marks[n] \in 1 .. L
        BY <1>1, <3>1 DEF c
      <3> QED BY <1>3, <1>4, <2>1, <3>1, <3>2
    <2>2. CASE ~ n < c
      <3>1. Marks[n] \in 1 .. L
        BY <1>1 DEF c
      <3> QED BY <1>3, <1>4, <2>2, <3>1
    <2> QED BY <2>1, <2>2
  <1>8. ASSUME NEW i \in Marks[n] + 1 .. Upto(n), file[i] = Begin PROVE FALSE
    <2>1. Marks[n] \in 1 .. L /\ n \in 1 .. c
      BY <1>1 DEF c
    <2>2. i \in 1 .. L /\ Marks[n] < i
      BY <1>3, <1>7, <2>1
    <2>3. PICK m \in 1 .. c : Marks[m] = i
      BY <1>2, <1>8, <2>2
    <2>4. n < m
      <3>1. ~ m < n
        <4>1. m < n => Marks[m] < Marks[n]
          BY <1>1, <2>1
        <4> QED BY <2>1, <2>2, <2>3, <4>1
      <3>2. m # n
        BY <2>1, <2>2, <2>3
      <3> QED BY <1>1, <2>1, <3>1, <3>2
    <2>5. PICK l \in 1 .. c : l = n + 1
      BY <1>1, <2>1, <2>4
    <2>6. n < c /\ (l = m \/ l < m)
      BY <1>1, <2>1, <2>4, <2>5
    <2>7. Upto(n) = Marks[l] - 1 /\ Marks[l] \in 1 .. L
      BY <1>1, <1>4, <2>5, <2>6
    <2>8. Marks[l] = Marks[m] \/ Marks[l] < Marks[m]
      BY <1>1, <2>6
    <2>9. Marks[m] <= Marks[l] - 1
      BY <2>3, <2>7
    <2> QED BY <2>3, <2>7, <2>8, <2>9
  <1>9. LoneMarker(Marks[n], Upto(n))
    BY <1>1, <1>7, <1>8 DEF LoneMarker, c, L
  <1>10. ASSUME n = 1, NEW i \in 1 .. Marks[n] - 1, file[i] = Begin PROVE FALSE
    <2>1. Marks[n] \in 1 .. L /\ n \in 1 .. c
      BY <1>1 DEF c
    <2>2. i \in 1 .. L /\ i < Marks[n]
      BY <1>3, <2>1
    <2>3. PICK m \in 1 .. c : Marks[m] = i
      BY <1>2, <1>10, <2>2
    <2>4. m = n \/ n < m
      BY <1>1, <1>10, <2>1
    <2>5. m = n \/ Marks[n] < Marks[m]
      BY <1>1, <2>1, <2>4
    <2> QED BY <2>1, <2>2, <2>3, <2>5
  <1>11. OneMarker(From(n), Marks[n], Upto(n))
    <2>1. Marks[n] \in 1 .. L /\ file[Marks[n]] = Begin /\ n \in 1 .. c
      BY <1>1 DEF c
    <2>2. CASE c <= 1
      <3>1. n = 1 /\ From(n) = 1
        BY <1>1, <1>6, <2>1, <2>2
      <3>2. \A i \in 1 .. Upto(n) : file[i] = Begin => i = Marks[n]
        <4>1. \A i \in 1 .. Upto(n) : \/ i \in 1 .. Marks[n] - 1 \/ i = Marks[n]
                                      \/ i \in Marks[n] + 1 .. Upto(n)
          BY <1>3, <1>7, <2>1
        <4> QED BY <1>8, <1>10, <3>1, <4>1
      <3>3. 1 \in 1 .. L
        BY <1>3, <2>1
      <3> QED BY <1>7, <2>1, <3>1, <3>2, <3>3 DEF OneMarker, L
    <2>3. CASE ~ c <= 1
      <3>1. From(n) = Marks[n]
        BY <1>6, <2>3
      <3>2. \A i \in Marks[n] .. Upto(n) : file[i] = Begin => i = Marks[n]
        <4>1. \A i \in Marks[n] .. Upto(n) : i = Marks[n] \/ i \in Marks[n] + 1 .. Upto(n)
          BY <1>3, <1>7, <2>1
        <4> QED BY <1>8, <4>1
      <3>3. Marks[n] \in Marks[n] .. L
        BY <1>3, <2>1
      <3> QED BY <1>7, <2>1, <3>1, <3>2, <3>3 DEF OneMarker, L
    <2> QED BY <2>2, <2>3
  <1>12. n > 1 => Marks[n] = Upto(n - 1) + 1
    <2>1. Marks[n] \in 1 .. L
      BY <1>1 DEF c
    <2> QED BY <1>3, <1>5, <2>1
  <1>13. n = c => Upto(n) = L
    BY <1>1, <1>4
  <1> QED BY <1>9, <1>10, <1>11, <1>12, <1>13 DEF c, L

LEMMA SplitIs ==
    ASSUME file \in Seq(Lines), Len(Marks) >= 1
    PROVE  /\ DOMAIN SplitArmorBlocks(file) = 1 .. Len(Marks)
           /\ \A n \in 1 .. Len(Marks) :
                  SplitArmorBlocks(file)[n] = SubSeq(file, From(n), Upto(n))
  <1>1. Marks \in Seq(Nat) /\ Len(Marks) \in Nat /\ DOMAIN Marks = 1 .. Len(Marks)
    BY MarksAre
  <1>2. SplitArmorBlocks(file) =
            IF Len(Marks) <= 1 THEN <<file>>
            ELSE [n \in DOMAIN Marks |-> SubSeq(file, Marks[n], PieceEnd(file, Marks, n))]
    BY DEF SplitArmorBlocks, Marks
  <1>3. CASE Len(Marks) <= 1
    <2>1. Len(Marks) = 1
      BY <1>1, <1>3
    <2>2. SplitArmorBlocks(file) = <<file>>
      BY <1>2, <1>3
    <2>3. From(1) = 1 /\ Upto(1) = Len(file)
      BY <2>1 DEF From, Upto, PieceEnd
    <2>4. SubSeq(file, 1, Len(file)) = file
      BY SubSeqFull
    <2>5. DOMAIN <<file>> = 1 .. 1 /\ <<file>>[1] = file /\ \A n \in 1 .. 1 : n = 1
      OBVIOUS
    <2> QED BY <2>1, <2>2, <2>3, <2>4, <2>5
  <1>4. CASE ~ Len(Marks) <= 1
    <2>1. \A n \in 1 .. Len(Marks) : From(n) = Marks[n]
      BY <1>4 DEF From
    <2> QED BY <1>1, <1>2, <1>4, <2>1 DEF Upto
  <1> QED BY <1>3, <1>4
-----------------------------------------------------------------------------
(* All pieces together. *)

LEMMA WellFormedIs ==
    ASSUME file \in Seq(Lines)
    PROVE  WellFormed <=>
               \A n \in 1 .. Len(Marks) :
                   \E e \in Marks[n] + 1 .. Upto(n) : Closed(Marks[n], e)
  <1>1. ASSUME WellFormed, NEW n \in 1 .. Len(Marks)
        PROVE  \E e \in Marks[n] + 1 .. Upto(n) : Closed(Marks[n], e)
    <2>1. /\ Marks[n] \in 1 .. Len(file) /\ file[Marks[n]] = Begin
          /\ Len(file) \in Nat /\ DOMAIN file = 1 .. Len(file)
      BY MarksAre
    <2>2. Marks[n] \in Starts(file)
      BY <2>1 DEF Starts
    <2>3. PICK e \in Marks[n] + 1 .. Len(file) : Closed(Marks[n], e)
      BY <1>1, <2>2 DEF WellFormed, Closed
    <2>4. e <= Upto(n)
      <3>1. CASE n = Len(Marks)
        <4>1. Upto(n) = Len(file)
          BY <3>1, PiecesAre
        <4> QED BY <4>1
      <3>2. CASE n # Len(Marks)
        <4>1. Len(Marks) \in Nat
          BY MarksAre
        <4>2. PICK m \in 1 .. Len(Marks) : m = n + 1
          BY <3>2, <4>1
        <4>3. m > 1 /\ m - 1 = n
          BY <4>2
        <4>4. Marks[m] = Upto(n) + 1
          <5>1. Marks[m] = Upto(m - 1) + 1
            BY <4>3, PiecesAre
          <5> QED BY <4>3, <5>1
        <4>5. Marks[m] \in 1 .. Len(file) /\ file[Marks[m]] = Begin /\ Marks[n] < Marks[m]
          BY <4>2, MarksAre
        <4>6. file[Marks[m]] \notin Certs /\ file[Marks[m]] # End
          BY <4>5, ArmorAssumption
        <4>7. ~ Marks[m] \in Marks[n] + 1 .. e - 1 /\ Marks[m] # e
          BY <2>3, <4>6 DEF Closed
        <4>8. e < Marks[m]
          BY <2>1, <4>5, <4>7
        <4>9. Upto(n) \in Nat
          BY PiecesAre DEF LoneMarker
        <4> QED BY <2>1, <4>4, <4>5, <4>8, <4>9
      <3> QED BY <3>1, <3>2
    <2>5. Upto(n) \in Marks[n] .. Len(file)
      BY PiecesAre DEF LoneMarker
    <2>6. e \in Marks[n] + 1 .. Upto(n)
      BY <2>1, <2>4, <2>5
    <2> QED BY <2>3, <2>6
  <1>2. ASSUME \A n \in 1 .. Len(Marks) :
                   \E e \in Marks[n] + 1 .. Upto(n) : Closed(Marks[n], e),
               NEW b \in Starts(file)
        PROVE  \E e \in b + 1 .. Len(file) :
                   file[e] = End /\ \A j \in b + 1 .. e - 1 : file[j] \in Certs
    <2>1. PICK n \in 1 .. Len(Marks) : Marks[n] = b
      BY MarksAre
    <2>2. PICK e \in b + 1 .. Upto(n) : Closed(b, e)
      BY <1>2, <2>1
    <2>3. Upto(n) \in b .. Len(file) /\ b \in 1 .. Len(file) /\ Len(file) \in Nat
      BY <2>1, PiecesAre DEF LoneMarker
    <2>4. e \in b + 1 .. Len(file)
      BY <2>3
    <2> QED BY <2>2, <2>4 DEF Closed
  <1> QED BY <1>1, <1>2 DEF WellFormed

(* FlattenSeq runs through the sequences from the first to the last.       *)
Chained(f, seqs, N) ==
    f = [i \in 1 .. N |-> IF i = 1 THEN seqs[i] ELSE f[i - 1] \o seqs[i]]

LEMMA FlattenIs ==
    ASSUME NEW N \in Nat \ {0}, NEW seqs, Len(seqs) = N, NEW f, Chained(f, seqs, N)
    PROVE  FlattenSeq(seqs) = f[N]
  <1> DEFINE Eq(g) == g = [i \in 1 .. N |-> IF i = 1 THEN seqs[i] ELSE g[i - 1] \o seqs[i]]
             flatten == CHOOSE g : Eq(g)
             G == {n \in 1 .. N : flatten[n] = f[n]}
  <1>1. FlattenSeq(seqs) = flatten[N]
    BY DEF FlattenSeq
  <1>2. Eq(flatten)
    <2>1. Eq(f)
      BY DEF Chained
    <2> HIDE DEF Eq
    <2> QED BY <2>1
  <1>3. \A n \in 1 .. N :
            /\ flatten[n] = IF n = 1 THEN seqs[n] ELSE flatten[n - 1] \o seqs[n]
            /\ f[n] = IF n = 1 THEN seqs[n] ELSE f[n - 1] \o seqs[n]
    <2> HIDE DEF flatten
    <2> QED BY <1>2 DEF Chained
  <1> HIDE DEF flatten, Eq
  <1>4. 1 \in G
    <2>1. 1 \in 1 .. N
      OBVIOUS
    <2> QED BY <1>3, <2>1
  <1>5. ASSUME NEW n \in 1 .. N - 1, n \in G PROVE n + 1 \in G
    <2>1. PICK m \in 1 .. N : m = n + 1
      OBVIOUS
    <2>2. m # 1 /\ m - 1 = n /\ flatten[n] = f[n]
      BY <1>5, <2>1
    <2>3. flatten[m] = f[m]
      BY <1>3, <2>2
    <2> QED BY <2>1, <2>3
  <1>6. \A n \in 1 .. N : n \in G
    <2>1. 1 \in Int /\ N \in Int
      OBVIOUS
    <2> HIDE DEF G
    <2> QED BY <1>4, <1>5, <2>1, IntervalInduction
  <1>7. flatten[N] = f[N]
    BY <1>6
  <1> QED BY <1>1, <1>7

(* No line before the first marker is in a block.                          *)
LEMMA NoneBefore ==
    ASSUME file \in Seq(Lines), NEW b \in 0 .. Len(file),
           \A i \in 1 .. b : file[i] # Begin
    PROVE  Taken(b) = <<>>
  <1>1. ASSUME NEW i \in 0 + 1 .. b PROVE i \notin CertsInBlocks
    <2>1. \A d \in Starts(file) : d \in 1 .. Len(file) /\ file[d] = Begin /\ ~ d < i
      BY DEF Starts
    <2> QED BY <2>1 DEF CertsInBlocks, InBlock
  <1>2. 0 \in 0 .. Len(file) /\ b \in 0 .. Len(file)
    OBVIOUS
  <1>3. Taken(b) = Taken(0)
    BY <1>1, <1>2, TakenSkip
  <1> QED BY <1>3, TakenNone

(* With every block closed, the pieces give what the lines have.           *)
LEMMA AllPieces ==
    ASSUME file \in Seq(Lines), WellFormed, Len(Marks) >= 1,
           NEW parsed,
           parsed = [n \in 1 .. Len(Marks) |-> ParseArmorBlock(SubSeq(file, From(n), Upto(n)))]
    PROVE  /\ \A n \in 1 .. Len(Marks) : parsed[n] # Error
           /\ FlattenSeq(parsed) = Taken(Len(file))
  <1> DEFINE c == Len(Marks)
             f == [n \in 1 .. c |-> Taken(Upto(n))]
  <1>1. c \in Nat \ {0}
    BY MarksAre
  <1>2. ASSUME NEW n \in 1 .. c
        PROVE  /\ parsed[n] # Error /\ parsed[n] \in Seq(Certs)
               /\ Taken(Upto(n)) = Taken(Marks[n] - 1) \o parsed[n]
    <2>1. PICK e \in Marks[n] + 1 .. Upto(n) : Closed(Marks[n], e)
      BY WellFormedIs
    <2>2. OneMarker(From(n), Marks[n], Upto(n)) /\ LoneMarker(Marks[n], Upto(n))
      BY PiecesAre
    <2>3. parsed[n] = ParseArmorBlock(SubSeq(file, From(n), Upto(n)))
      OBVIOUS
    <2> DEFINE s == SubSeq(file, Marks[n] + 1, e - 1)
    <2>4. /\ ParseArmorBlock(SubSeq(file, From(n), Upto(n))) = s
          /\ s \in Seq(Certs) /\ s # Error
      BY <2>1, <2>2, PieceIs
    <2>5. Taken(Upto(n)) = Taken(Marks[n] - 1) \o s
      BY <2>1, <2>2, TakenBlock
    <2> QED BY <2>3, <2>4, <2>5
  <1>3. \A n \in 1 .. c : Marks[n] \in 1 .. Len(file)
    BY MarksAre
  <1>4. ASSUME NEW n \in 1 .. c
        PROVE  f[n] = IF n = 1 THEN parsed[n] ELSE f[n - 1] \o parsed[n]
    <2>1. f[n] = Taken(Marks[n] - 1) \o parsed[n]
      BY <1>2
    <2>2. CASE n = 1
      <3>1. Marks[n] - 1 \in 0 .. Len(file) /\ \A i \in 1 .. Marks[n] - 1 : file[i] # Begin
        BY <1>3, <2>2, PiecesAre
      <3>2. Taken(Marks[n] - 1) = <<>>
        BY <3>1, NoneBefore
      <3>3. <<>> \o parsed[n] = parsed[n]
        BY <1>2, ConcatEmptySeq
      <3> QED BY <2>1, <2>2, <3>2, <3>3
    <2>3. CASE n # 1
      <3>1. PICK m \in 1 .. c : m = n - 1
        BY <1>1, <2>3
      <3>2. Marks[n] = Upto(n - 1) + 1
        <4>1. n > 1
          BY <1>1, <2>3
        <4> QED BY <4>1, PiecesAre
      <3>3. Upto(m) \in Nat
        <4>1. Upto(m) \in Marks[m] .. Len(file) /\ Marks[m] \in 1 .. Len(file)
          BY <1>3, PiecesAre DEF LoneMarker
        <4> QED BY <4>1
      <3>4. Marks[n] - 1 = Upto(m)
        BY <3>1, <3>2, <3>3
      <3>5. f[m] = Taken(Upto(m))
        OBVIOUS
      <3> QED BY <2>1, <2>3, <3>1, <3>4, <3>5
    <2> QED BY <2>2, <2>3
  <1>5. Chained(f, parsed, c)
    <2>1. f = [n \in 1 .. c |-> f[n]]
      OBVIOUS
    <2> HIDE DEF f, c
    <2> QED BY <1>4, <2>1 DEF Chained
  <1>6. f[c] = Taken(Len(file))
    <2>1. c \in 1 .. c
      BY <1>1
    <2>2. Upto(c) = Len(file)
      BY <2>1, PiecesAre
    <2> QED BY <2>1, <2>2
  <1>7. Len(parsed) = c
    <2>1. parsed \in [1 .. c -> Seq(Certs)]
      BY <1>2
    <2> HIDE DEF c
    <2> QED BY <1>1, <2>1
  <1> HIDE DEF f, c
  <1>8. FlattenSeq(parsed) = f[c]
    BY <1>1, <1>5, <1>7, FlattenIs
  <1> QED BY <1>2, <1>6, <1>8 DEF c

(* What an import of the file gives.                                       *)
LEMMA ParseKeysIs ==
    ASSUME file \in Seq(Lines)
    PROVE  ParseKeys(file) = IF WellFormed /\ CertsInBlocks # {} THEN Taken(Len(file)) ELSE Error
  <1> DEFINE blocks == SplitArmorBlocks(file)
             parsed == [n \in DOMAIN blocks |-> ParseArmorBlock(blocks[n])]
             c == Len(Marks)
  <1>1. ParseKeys(file) = IF Error \in ToSet(parsed) \/ FlattenSeq(parsed) = <<>>
                          THEN Error ELSE FlattenSeq(parsed)
    BY DEF ParseKeys
  <1>2. c \in Nat
    BY MarksAre
  <1>3. CASE c = 0
    <2>1. Starts(file) = {}
      BY <1>3, MarksAre
    <2>2. CertsInBlocks = {}
      BY <2>1 DEF CertsInBlocks, InBlock
    <2>3. blocks = <<file>>
      BY <1>3 DEF SplitArmorBlocks, Marks
    <2>4. ParseArmorBlock(file) = Error
      BY <2>1 DEF ParseArmorBlock, Body
    <2>5. 1 \in DOMAIN parsed /\ parsed[1] = Error
      BY <2>3, <2>4
    <2>6. Error \in ToSet(parsed)
      BY <2>5 DEF ToSet
    <2> QED BY <1>1, <2>2, <2>6
  <1>4. CASE c >= 1
    <2>1. parsed = [n \in 1 .. c |-> ParseArmorBlock(SubSeq(file, From(n), Upto(n)))]
      BY <1>4, SplitIs
    <2>2. DOMAIN parsed = 1 .. c
      BY <1>4, SplitIs
    <2> HIDE DEF parsed
    <2>3. CASE ~ WellFormed
      <3>1. PICK n \in 1 .. c : \A e \in Marks[n] + 1 .. Upto(n) : ~ Closed(Marks[n], e)
        BY <2>3, WellFormedIs
      <3>2. OneMarker(From(n), Marks[n], Upto(n))
        BY PiecesAre
      <3>3. parsed[n] = Error
        BY <2>1, <3>1, <3>2, PieceIs
      <3>4. Error \in ToSet(parsed)
        BY <2>2, <3>3 DEF ToSet
      <3> QED BY <1>1, <2>3, <3>4
    <2>4. CASE WellFormed
      <3>1. (\A n \in 1 .. c : parsed[n] # Error) /\ FlattenSeq(parsed) = Taken(Len(file))
        BY <1>4, <2>1, <2>4, AllPieces
      <3>2. Error \notin ToSet(parsed)
        BY <2>2, <3>1 DEF ToSet
      <3>3. Taken(Len(file)) = <<>> <=> CertsInBlocks = {}
        <4> DEFINE L == Len(file)
                   at == InOrder(CertsInBlocks, L)
        <4>1. L \in Nat /\ L \in 0 .. L /\ DOMAIN file = 1 .. L
          OBVIOUS
        <4>2. Listed(CertsInBlocks, L, at)
          BY <4>1, InOrderIsListed
        <4>3. Taken(L) \in Seq(Certs) /\ Len(Taken(L)) = Len(at)
          BY <4>1, TakenType
        <4>4. Taken(L) = <<>> <=> Len(at) = 0
          BY <4>3
        <4>5. Len(at) = 0 <=> CertsInBlocks = {}
          <5> HIDE DEF at, L
          <5>1. \A i \in CertsInBlocks : i \in 1 .. L
            BY <4>1 DEF CertsInBlocks
          <5>2. Len(at) \in Nat
            BY <4>2 DEF Listed
          <5>3. Len(at) # 0 => CertsInBlocks # {}
            <6>1. Len(at) # 0 => 1 \in 1 .. Len(at)
              BY <5>2
            <6> QED BY <4>2, <6>1 DEF Listed
          <5>4. Len(at) = 0 => CertsInBlocks = {}
            BY <4>2, <5>1 DEF Listed
          <5> QED BY <5>3, <5>4
        <4> QED BY <4>4, <4>5
      <3> QED BY <1>1, <2>4, <3>1, <3>2, <3>3
    <2> QED BY <2>3, <2>4
  <1> QED BY <1>2, <1>3, <1>4

-----------------------------------------------------------------------------
(* The theorem. *)

(* The file grows by lines, and keys are what the file gives.              *)
ArmorInv ==
    /\ file \in Seq(Lines)
    /\ keys = NotRead \/ keys = ParseKeys(file)

(* The file stays what parse_keys was given once it has answered.          *)
THEOREM ArmorInvAlways == ArmorSpec => []ArmorInv
  <1>1. ArmorInit => ArmorInv
    BY DEF ArmorInit, ArmorInv
  <1>2. ASSUME ArmorInv, [ArmorNext]_armor_vars PROVE ArmorInv'
    <2>1. CASE AddLine
      <3>1. PICK line \in Lines : file' = Append(file, line)
        BY <2>1 DEF AddLine
      <3>2. file' \in Seq(Lines)
        BY <1>2, <3>1, AppendProperties DEF ArmorInv
      <3>3. keys' = NotRead
        BY <2>1 DEF AddLine
      <3> QED BY <3>2, <3>3 DEF ArmorInv
    <2>2. CASE ImportFile
      <3>1. file' = file /\ keys' = ParseKeys(file)
        BY <2>2 DEF ImportFile
      <3>2. ParseKeys(file') = ParseKeys(file)
        BY <3>1
      <3> QED BY <1>2, <3>1, <3>2 DEF ArmorInv
    <2>3. CASE UNCHANGED armor_vars
      <3>1. file' = file /\ keys' = keys
        BY <2>3 DEF armor_vars
      <3>2. ParseKeys(file') = ParseKeys(file)
        BY <3>1
      <3> QED BY <1>2, <3>1, <3>2 DEF ArmorInv
    <2> QED BY <1>2, <2>1, <2>2, <2>3 DEF ArmorNext
  <1> QED BY <1>1, <1>2, PTL DEF ArmorSpec

(* An import takes every certificate of every block once and in order, or  *)
(* none if a block was cut short, damaged or forged (parse_keys).          *)
THEOREM ImportTakesEveryBlockOnce == ArmorSpec => []EveryBlockOnce
  <1>1. ArmorInv => EveryBlockOnce
    <2> SUFFICES ASSUME ArmorInv, keys # NotRead
                 PROVE  keys = IF WellFormed /\ CertsInBlocks # {} THEN Taken(Len(file))
                               ELSE Error
      BY DEF EveryBlockOnce, Taken
    <2> QED BY ParseKeysIs DEF ArmorInv
  <1> QED BY <1>1, ArmorInvAlways, PTL
=============================================================================
