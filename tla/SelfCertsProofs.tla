-------------------------- MODULE SelfCertsProofs ---------------------------
(***************************************************************************)
(* What the edits of a certificate keep and what they change, for every    *)
(* certificate an import may bring, of any number of user IDs and          *)
(* signatures, and every time on the clock.                                *)
(***************************************************************************)
EXTENDS SelfCerts, Induction, SequenceTheorems, TLAPS

-----------------------------------------------------------------------------
(* One certification is the newest. *)

(* A position has a user ID and a signature on it.                         *)
LEMMA InPositions ==
    ASSUME NEW k, NEW p
    PROVE  p \in Positions(k) <=>
               \E i \in DOMAIN k.users : \E j \in DOMAIN k.users[i].sigs : p = <<i, j>>
  <1> DEFINE Of(i) == {<<i, j>> : j \in DOMAIN k.users[i].sigs}
  <1>1. Positions(k) = UNION {Of(i) : i \in DOMAIN k.users}
    BY DEF Positions
  <1>2. \A i : p \in Of(i) <=> \E j \in DOMAIN k.users[i].sigs : p = <<i, j>>
    OBVIOUS
  <1> HIDE DEF Of
  <1>3. p \in Positions(k) <=> \E i \in DOMAIN k.users : p \in Of(i)
    BY <1>1
  <1> QED BY <1>2, <1>3, Zenon

LEMMA UserType ==
    ASSUME NEW k \in Certificates, NEW i \in DOMAIN k.users
    PROVE  k.users[i] \in Users /\ k.users[i].sigs \in Seq(Signatures)
  <1>1. k.users \in Seq(Users)
    BY DEF Certificates
  <1>2. k.users[i] \in Users
    BY <1>1
  <1> QED BY <1>2 DEF Users

(* A position is a pair of naturals at which there is a signature.         *)
LEMMA PositionType ==
    ASSUME NEW k \in Certificates, NEW p \in Positions(k)
    PROVE  /\ p[1] \in 1 .. Len(k.users) /\ p[2] \in Nat
           /\ p = <<p[1], p[2]>>
           /\ At(k, p) \in Signatures
           /\ At(k, p).created \in 0 .. MaxTime
  <1>0. PICK i \in DOMAIN k.users : \E j \in DOMAIN k.users[i].sigs : p = <<i, j>>
    BY DEF Positions
  <1>1. PICK j \in DOMAIN k.users[i].sigs : p = <<i, j>>
    BY <1>0
  <1>2. k.users \in Seq(Users)
    BY DEF Certificates
  <1>3. i \in 1 .. Len(k.users) /\ k.users[i] \in Users
    BY <1>2
  <1>4. k.users[i].sigs \in Seq(Signatures)
    BY <1>3 DEF Users
  <1>5. j \in Nat /\ k.users[i].sigs[j] \in Signatures
    BY <1>1, <1>4
  <1>6. p[1] = i /\ p[2] = j /\ At(k, p) = k.users[i].sigs[j]
    BY <1>1 DEF At
  <1>7. At(k, p).created \in 0 .. MaxTime
    BY <1>5, <1>6 DEF Signatures
  <1> QED BY <1>1, <1>3, <1>5, <1>6, <1>7

(* The comparison by which LatestSelfCert chooses.                         *)
Newest(k, p) == \A q \in SelfCertsAt(k) \ {p} :
    \/ At(k, q).created < At(k, p).created
    \/ At(k, q).created = At(k, p).created /\ Before(p, q)

LEMMA NewestExists ==
    ASSUME NEW k \in Certificates, SelfCertsAt(k) # {}
    PROVE  \E p \in SelfCertsAt(k) : Newest(k, p)
  <1> DEFINE S == SelfCertsAt(k)
             Ages == {MaxTime - At(k, p).created : p \in S}
  <1>1. \A p \in S : /\ p[1] \in Nat /\ p[2] \in Nat /\ p = <<p[1], p[2]>>
                     /\ At(k, p).created \in 0 .. MaxTime
    BY PositionType DEF SelfCertsAt
  <1> HIDE DEF S
  <1>2. Ages \subseteq Nat /\ Ages # {}
    BY <1>1, InputAssumption DEF S
  <1>3. PICK age \in Ages : \A a \in Ages : age <= a
    <2> HIDE DEF Ages
    <2> QED BY <1>2, LeastNatural
  <1> DEFINE T == {p \in S : MaxTime - At(k, p).created = age}
             Users1 == {p[1] : p \in T}
  <1>4. Users1 \subseteq Nat /\ Users1 # {}
    BY <1>1, <1>3
  <1>5. PICK i \in Users1 : \A u \in Users1 : i <= u
    <2> HIDE DEF Users1
    <2> QED BY <1>4, LeastNatural
  <1> DEFINE Sigs1 == {p[2] : p \in {q \in T : q[1] = i}}
  <1>6. Sigs1 \subseteq Nat /\ Sigs1 # {}
    BY <1>1, <1>5
  <1>7. PICK j \in Sigs1 : \A u \in Sigs1 : j <= u
    <2> HIDE DEF Sigs1
    <2> QED BY <1>6, LeastNatural
  <1>8. PICK p \in T : p[1] = i /\ p[2] = j
    BY <1>7
  <1>9. ASSUME NEW q \in S \ {p}
        PROVE  \/ At(k, q).created < At(k, p).created
               \/ At(k, q).created = At(k, p).created /\ Before(p, q)
    <2>1. age <= MaxTime - At(k, q).created /\ age = MaxTime - At(k, p).created
      BY <1>3, <1>8
    <2>2. CASE q \notin T
      <3>1. MaxTime - At(k, q).created # age
        BY <2>2
      <3> QED BY <1>1, <1>8, <2>1, <3>1, InputAssumption
    <2>3. CASE q \in T
      <3>1. At(k, q).created = At(k, p).created
        BY <1>1, <1>8, <2>1, <2>3, InputAssumption
      <3>2. i <= q[1] /\ (q[1] = i => j <= q[2])
        BY <1>5, <1>7, <2>3
      <3>3. q[1] # p[1] \/ q[2] # p[2]
        BY <1>1, <1>8, <1>9
      <3>4. Before(p, q)
        BY <1>1, <1>8, <1>9, <3>2, <3>3 DEF Before
      <3> QED BY <3>1, <3>4
    <2> QED BY <2>2, <2>3
  <1> QED BY <1>8, <1>9 DEF S, Newest

LEMMA NewestUnique ==
    ASSUME NEW k \in Certificates,
           NEW p \in SelfCertsAt(k), NEW q \in SelfCertsAt(k),
           Newest(k, p), Newest(k, q)
    PROVE  p = q
  <1>1. /\ p[1] \in Nat /\ p[2] \in Nat /\ q[1] \in Nat /\ q[2] \in Nat
        /\ At(k, p).created \in Nat /\ At(k, q).created \in Nat
    BY PositionType, InputAssumption DEF SelfCertsAt
  <1> QED BY <1>1 DEF Newest, Before

(* What LatestSelfCert returns.                                            *)
LEMMA LatestIs ==
    ASSUME NEW k \in Certificates
    PROVE  \/ SelfCertsAt(k) = {} /\ LatestSelfCert(k) = None
           \/ \E p \in SelfCertsAt(k) :
                  /\ Newest(k, p) /\ LatestSelfCert(k) = At(k, p)
                  /\ At(k, p) \in Signatures /\ At(k, p) # None
  <1>1. LatestSelfCert(k) =
            IF SelfCertsAt(k) = {} THEN None
            ELSE At(k, CHOOSE p \in SelfCertsAt(k) : Newest(k, p))
    BY DEF LatestSelfCert, Newest
  <1>2. \A p \in SelfCertsAt(k) : At(k, p) \in Signatures /\ At(k, p) # None
    BY PositionType, InputAssumption DEF SelfCertsAt
  <1> QED BY <1>1, <1>2, NewestExists

-----------------------------------------------------------------------------
(* One more user ID. *)

LEMMA ResignType ==
    ASSUME NEW t \in Signatures \cup {None}, NEW e \in Spans \cup {None},
           NEW b \in BOOLEAN, clock \in 0 .. MaxTime
    PROVE  /\ Resign(t, e, b) \in Signatures
           /\ Resign(t, e, b).self /\ ~ Resign(t, e, b).revokes
           /\ Resign(t, e, b).expires = e
           /\ Resign(t, e, b).note = NoteOf(t)
           /\ Resign(t, e, b).sign = IF t = None THEN TRUE ELSE t.sign
  <1>1. NoteOf(t) \in Notes \cup {None}
    BY DEF NoteOf, Signatures
  <1>2. (IF t = None THEN TRUE ELSE t.sign) \in BOOLEAN
    BY DEF Signatures
  <1> QED BY <1>1, <1>2 DEF Resign, Signatures

(* One more user ID with one self-certification: one more position, and    *)
(* nothing moves at the others.                                            *)
LEMMA AddedPositions ==
    ASSUME NEW k \in Certificates, NEW n \in Certificates,
           NEW id \in Ids, NEW s \in Signatures, s.self, ~ s.revokes,
           n = [k EXCEPT !.users = Append(@, [id |-> id, sigs |-> <<s>>])]
    PROVE  LET new == <<Len(k.users) + 1, 1>>
           IN  /\ SelfCertsAt(n) = SelfCertsAt(k) \cup {new}
               /\ At(n, new) = s
               /\ \A p \in SelfCertsAt(k) : At(n, p) = At(k, p)
  <1> DEFINE len == Len(k.users)
             u == [id |-> id, sigs |-> <<s>>]
             new == <<len + 1, 1>>
  <1>1. k.users \in Seq(Users) /\ len \in Nat /\ DOMAIN k.users = 1 .. len
    BY DEF Certificates
  <1>2. n.users = Append(k.users, u)
    BY DEF Certificates
  <1>3. u.sigs = <<s>> /\ DOMAIN u.sigs = {1} /\ u.sigs[1] = s
    OBVIOUS
  <1> HIDE DEF u
  <1>4. /\ DOMAIN n.users = 1 .. len + 1
        /\ n.users[len + 1] = u
        /\ \A i \in 1 .. len : n.users[i] = k.users[i]
    BY <1>1, <1>2
  <1> HIDE DEF len
  <1>5. Positions(n) = Positions(k) \cup {new}
    <2>1. ASSUME NEW i \in 1 .. len
          PROVE  DOMAIN n.users[i].sigs = DOMAIN k.users[i].sigs
      <3>1. n.users[i] = k.users[i]
        BY <1>4
      <3> QED BY <3>1, Zenon
    <2>2. \A p : p \in Positions(n) <=>
                     \E i \in 1 .. len + 1 : \E j \in DOMAIN n.users[i].sigs : p = <<i, j>>
      <3>1. DOMAIN n.users = 1 .. len + 1
        BY <1>4, Zenon
      <3>2. \A p : p \in Positions(n) <=>
                       \E i \in DOMAIN n.users : \E j \in DOMAIN n.users[i].sigs : p = <<i, j>>
        BY ONLY InPositions, Zenon
      <3> QED BY ONLY <3>1, <3>2, Zenon
    <2>3. \A p : p \in Positions(k) <=>
                     \E i \in 1 .. len : \E j \in DOMAIN k.users[i].sigs : p = <<i, j>>
      <3>1. DOMAIN k.users = 1 .. len
        BY <1>1 DEF len
      <3>2. \A p : p \in Positions(k) <=>
                       \E i \in DOMAIN k.users : \E j \in DOMAIN k.users[i].sigs : p = <<i, j>>
        BY InPositions
      <3> QED BY ONLY <3>1, <3>2, Zenon
    <2>4. \A i : i \in 1 .. len + 1 <=> i \in 1 .. len \/ i = len + 1
      BY <1>1
    <2>5. ASSUME NEW p \in Positions(n) PROVE p \in Positions(k) \cup {new}
      <3>1. PICK i \in 1 .. len + 1 : \E j \in DOMAIN n.users[i].sigs : p = <<i, j>>
        BY <2>2
      <3>2. PICK j \in DOMAIN n.users[i].sigs : p = <<i, j>>
        BY <3>1
      <3>3. CASE i \in 1 .. len
        BY <2>1, <2>3, <3>2, <3>3
      <3>4. CASE i = len + 1
        <4>1. j = 1
          BY <1>3, <1>4, <3>2, <3>4
        <4> QED BY <3>2, <3>4, <4>1
      <3> QED BY <2>4, <3>3, <3>4
    <2>6. ASSUME NEW p \in Positions(k) PROVE p \in Positions(n)
      BY <2>1, <2>2, <2>3, <2>4
    <2>7. new \in Positions(n)
      <3>1. 1 \in DOMAIN n.users[len + 1].sigs /\ len + 1 \in 1 .. len + 1
        BY <1>1, <1>3, <1>4
      <3> QED BY <2>2, <3>1
    <2> QED BY <2>5, <2>6, <2>7
  <1>6. At(n, new) = s
    BY <1>3, <1>4 DEF At
  <1>7. \A p \in Positions(k) : At(n, p) = At(k, p)
    <2>1. \A p \in Positions(k) : p[1] \in 1 .. len
      BY PositionType DEF len
    <2> QED BY <1>4, <2>1 DEF At
  <1>8. SelfCertsAt(n) = SelfCertsAt(k) \cup {new}
    BY <1>5, <1>6, <1>7 DEF SelfCertsAt
  <1>9. \A p \in SelfCertsAt(k) : At(n, p) = At(k, p)
    BY <1>7 DEF SelfCertsAt
  <1> QED BY <1>6, <1>8, <1>9 DEF len

(* Whichever certification is then the newest, it says what the newest one *)
(* said before: it is the same, or a copy of it.                           *)
LEMMA AddKeeps ==
    ASSUME key \in Certificates, key' \in Certificates, clock \in 0 .. MaxTime,
           NEW id \in Ids, AddUserId(id)
    PROVE  Effective(key') = Effective(key)
  <1> DEFINE k == key
             n == key'
             template == LatestSelfCert(k)
             s == Resign(template, ExpirationOf(template), FALSE)
             new == <<Len(k.users) + 1, 1>>
  <1>1. n = [k EXCEPT !.users = Append(@, [id |-> id, sigs |-> <<s>>])]
    BY DEF AddUserId
  <1>2. template \in Signatures \cup {None}
    BY LatestIs
  <1> HIDE DEF template
  <1>3. ExpirationOf(template) \in Spans \cup {None}
    BY <1>2 DEF ExpirationOf, Signatures
  <1>4. /\ s \in Signatures /\ s.self /\ ~ s.revokes
        /\ s.expires = ExpirationOf(template) /\ s.note = NoteOf(template)
        /\ s.sign = IF template = None THEN TRUE ELSE template.sign
    BY <1>2, <1>3, ResignType
  <1> HIDE DEF s
  <1>5. /\ SelfCertsAt(n) = SelfCertsAt(k) \cup {new}
        /\ At(n, new) = s
        /\ \A p \in SelfCertsAt(k) : At(n, p) = At(k, p)
    BY <1>1, <1>4, AddedPositions
  <1> HIDE DEF new
  <1>6. PICK p \in SelfCertsAt(n) :
            Newest(n, p) /\ LatestSelfCert(n) = At(n, p) /\ At(n, p) # None
    BY <1>5, LatestIs
  <1> DEFINE says(t) == IF t = None THEN [expires |-> None, note |-> None, sign |-> TRUE]
                        ELSE [expires |-> t.expires, note |-> t.note, sign |-> t.sign]
  <1>7. CASE p = new
    <2>1. LatestSelfCert(n) = s /\ s # None
      BY <1>5, <1>6, <1>7
    <2>2. Effective(n) = [expires |-> s.expires, note |-> s.note, sign |-> s.sign]
      BY <2>1 DEF Effective
    <2>3. CASE template = None
      BY <1>4, <2>2, <2>3 DEF Effective, template, ExpirationOf, NoteOf
    <2>4. CASE template # None
      BY <1>4, <2>2, <2>4 DEF Effective, template, ExpirationOf, NoteOf
    <2> QED BY <2>3, <2>4
  <1>8. CASE p # new
    <2>1. p \in SelfCertsAt(k)
      BY <1>5, <1>6, <1>8
    <2>2. Newest(k, p)
      BY <1>5, <1>6, <2>1 DEF Newest
    <2>3. PICK q \in SelfCertsAt(k) : Newest(k, q) /\ LatestSelfCert(k) = At(k, q)
      BY <2>1, LatestIs
    <2>4. p = q
      BY <2>1, <2>2, <2>3, NewestUnique
    <2>5. LatestSelfCert(n) = LatestSelfCert(k)
      BY <1>5, <1>6, <2>1, <2>3, <2>4
    <2> QED BY <2>5 DEF Effective
  <1> QED BY <1>7, <1>8

-----------------------------------------------------------------------------
(* What set_expiration leaves: on every user ID the signatures of others   *)
(* and one new certification.                                              *)

(* The recursive function in Kept: it exists, so that its equation holds.  *)
KeptUpTo(q, f, n) ==
    /\ f \in [0 .. n -> Seq(Signatures)]
    /\ \A m \in 0 .. n :
           f[m] = IF m = 0 THEN <<>>
                  ELSE IF q[m].self THEN f[m - 1] ELSE Append(f[m - 1], q[m])

LEMMA KeptFunction ==
    ASSUME NEW q \in Seq(Signatures)
    PROVE  \E f : KeptUpTo(q, f, Len(q)) /\ Kept(q) = f[Len(q)]
  <1> DEFINE L == Len(q)
             T == Seq(Signatures)
             After(t, n) == IF q[n].self THEN t ELSE Append(t, q[n])
             step == [p \in T \X (1 .. L) |-> After(p[1], p[2])]
             empty == <<>>
  <1>1. L \in Nat /\ \A m \in 1 .. L : q[m] \in Signatures
    OBVIOUS
  <1> HIDE DEF L
  <1>2. \A t \in T, n \in 1 .. L : After(t, n) \in T
    BY <1>1
  <1>3. empty \in T
    OBVIOUS
  <1> HIDE DEF After, T
  <1>4. \A t \in T, n \in 1 .. L : step[<<t, n>>] = After(t, n)
    OBVIOUS
  <1>5. \A t \in T, n \in 1 .. L : step[<<t, n>>] \in T
    BY <1>2, <1>4
  <1> HIDE DEF step, empty
  <1> PICK f : Steps(f, L, T, empty, step)
    BY <1>1, <1>3, <1>5, StepFunction
  <1>6. /\ f \in [0 .. L -> T] /\ f[0] = empty
        /\ \A n \in 1 .. L : f[n] = step[<<f[n - 1], n>>]
    BY DEF Steps
  <1>7. ASSUME NEW n \in 1 .. L PROVE f[n] = After(f[n - 1], n)
    <2>1. n - 1 \in 0 .. L
      BY <1>1
    <2>2. f[n - 1] \in T
      BY <1>6, <2>1
    <2> QED BY <1>4, <1>6, <2>2
  <1> USE DEF empty
  <1> DEFINE Eq(g) == g = [n \in 0 .. L |-> IF n = 0 THEN <<>> ELSE After(g[n - 1], n)]
             kept == CHOOSE g : Eq(g)
  <1>8. Eq(f)
    BY <1>1, <1>6, <1>7
  <1>9. Eq(kept)
    <2> HIDE DEF Eq
    <2> QED BY <1>8
  <1>10. Kept(q) = kept[L]
    BY DEF Kept, L, After
  <1>11. kept[0] = <<>> /\ \A n \in 1 .. L : kept[n] = After(kept[n - 1], n)
    <2> HIDE DEF kept
    <2> QED BY <1>1, <1>9
  <1> HIDE DEF kept, Eq
  <1>12. kept[L] = f[L]
    <2>1. \A n \in 1 .. L : f[n - 1] = kept[n - 1] => f[n] = kept[n]
      BY <1>7, <1>11
    <2>2. f[0] = kept[0] /\ L \in Nat
      BY <1>1, <1>6, <1>11
    <2>3. \A n \in 0 .. L : f[n] = kept[n]
      <3>1. StepAlike(f, kept, L)
        BY ONLY <2>1, <2>2 DEF StepAlike
      <3> QED BY ONLY <2>2, <3>1, AlikeThroughout
    <2> QED BY <2>2, <2>3
  <1>13. KeptUpTo(q, f, L)
    <2>1. ASSUME NEW n \in 0 .. L
          PROVE  f[n] = IF n = 0 THEN <<>> ELSE After(f[n - 1], n)
      BY <1>1, <1>6, <1>7
    <2> QED BY <1>6, <2>1 DEF KeptUpTo, After, T
  <1> QED BY <1>10, <1>12, <1>13 DEF L

(* Kept keeps exactly the signatures that others made.                     *)
KeptOf(q, n) == {q[l] : l \in {m \in 1 .. n : ~ q[m].self}}

LEMMA KeptIs ==
    ASSUME NEW q \in Seq(Signatures)
    PROVE  /\ Kept(q) \in Seq(Signatures)
           /\ \A j \in 1 .. Len(Kept(q)) : ~ Kept(q)[j].self
           /\ {Kept(q)[j] : j \in 1 .. Len(Kept(q))} = KeptOf(q, Len(q))
  <1> DEFINE L == Len(q)
             ElementsOf(t) == {t[j] : j \in 1 .. Len(t)}
  <1>0. L \in Nat /\ \A m \in 1 .. L : q[m] \in Signatures
    OBVIOUS
  <1>1. PICK f : KeptUpTo(q, f, L) /\ Kept(q) = f[L]
    BY KeptFunction
  <1> HIDE DEF L
  <1>2. /\ f \in [0 .. L -> Seq(Signatures)]
        /\ \A m \in 0 .. L :
               f[m] = IF m = 0 THEN <<>>
                      ELSE IF q[m].self THEN f[m - 1] ELSE Append(f[m - 1], q[m])
    BY <1>1 DEF KeptUpTo
  <1> DEFINE G == {n \in Nat : n <= L => ElementsOf(f[n]) = KeptOf(q, n)}
  <1>3. 0 \in G
    <2>1. f[0] = <<>> /\ KeptOf(q, 0) = {}
      BY <1>0, <1>2 DEF KeptOf
    <2> QED BY <2>1
  <1>4. ASSUME NEW n \in Nat, n \in G PROVE n + 1 \in G
    <2> SUFFICES ASSUME n + 1 <= L PROVE ElementsOf(f[n + 1]) = KeptOf(q, n + 1)
      OBVIOUS
    <2>1. ElementsOf(f[n]) = KeptOf(q, n)
      BY <1>0, <1>4
    <2>2. f[n + 1] = IF q[n + 1].self THEN f[n] ELSE Append(f[n], q[n + 1])
      <3>1. PICK m \in 0 .. L : m = n + 1
        BY <1>0
      <3>2. m # 0 /\ m - 1 = n
        BY <3>1
      <3> QED BY <1>2, <3>1, <3>2
    <2>3. f[n] \in Seq(Signatures)
      <3>1. n \in 0 .. L /\ f \in [0 .. L -> Seq(Signatures)]
        BY <1>0, <1>2
      <3> QED BY ONLY <3>1
    <2>4. CASE q[n + 1].self
      <3>1. KeptOf(q, n + 1) = KeptOf(q, n)
        BY <2>4 DEF KeptOf
      <3> QED BY <2>1, <2>2, <2>4, <3>1
    <2>5. CASE ~ q[n + 1].self
      <3>1. KeptOf(q, n + 1) = KeptOf(q, n) \cup {q[n + 1]}
        BY <2>5 DEF KeptOf
      <3>2. ElementsOf(Append(f[n], q[n + 1])) = ElementsOf(f[n]) \cup {q[n + 1]}
        <4> DEFINE a == f[n]
                   b == Append(a, q[n + 1])
                   len == Len(a)
        <4>1. a \in Seq(Signatures) /\ q[n + 1] \in Signatures
          BY <1>0, <2>3
        <4> HIDE DEF a
        <4>2. /\ len \in Nat /\ Len(b) = len + 1 /\ b[len + 1] = q[n + 1]
              /\ \A j \in 1 .. len : b[j] = a[j]
          BY <4>1
        <4> HIDE DEF b, len
        <4>3. ElementsOf(b) = ElementsOf(a) \cup {q[n + 1]}
          BY <4>2 DEF len
        <4> QED BY <4>3 DEF a, b
      <3> HIDE DEF ElementsOf
      <3> QED BY <2>1, <2>2, <2>5, <3>1, <3>2
    <2> QED BY <2>4, <2>5
  <1>5. L \in G
    <2> HIDE DEF G
    <2> QED BY <1>0, <1>3, <1>4, SetInduction
  <1>6. ElementsOf(Kept(q)) = KeptOf(q, L) /\ Kept(q) \in Seq(Signatures)
    BY <1>0, <1>1, <1>2, <1>5
  <1>7. ASSUME NEW j \in 1 .. Len(Kept(q)) PROVE ~ Kept(q)[j].self
    <2>1. Kept(q)[j] \in KeptOf(q, L)
      BY <1>6
    <2> QED BY <2>1 DEF KeptOf
  <1> QED BY <1>6, <1>7 DEF L

SpanOf(days) == IF days = None THEN None ELSE clock + days - key.created
NewCertOn(days, i) == Resign(LatestSelfCert(key), SpanOf(days), PrimaryAt(i))

LEMMA NewCertType ==
    ASSUME key \in Certificates, clock \in 0 .. MaxTime,
           NEW days \in Days \cup {None}, days # None => Fits(SpanOf(days)), NEW i
    PROVE  /\ SpanOf(days) \in Spans \cup {None}
           /\ NewCertOn(days, i) \in Signatures
           /\ NewCertOn(days, i).self /\ ~ NewCertOn(days, i).revokes
           /\ NewCertOn(days, i).expires = SpanOf(days)
           /\ NewCertOn(days, i).note = Effective(key).note
           /\ NewCertOn(days, i).sign = Effective(key).sign
           /\ NewCertOn(days, i).primary = PrimaryAt(i)
  <1> DEFINE template == LatestSelfCert(key)
  <1>1. template \in Signatures \cup {None}
    BY LatestIs
  <1>2. SpanOf(days) \in Spans \cup {None}
    <2>1. key.created \in Nat /\ clock \in Nat /\ (days # None => days \in Nat)
      BY InputAssumption DEF Certificates
    <2> QED BY <2>1, InputAssumption DEF SpanOf, Fits, Spans
  <1>3. PrimaryAt(i) \in BOOLEAN
    BY DEF PrimaryAt
  <1>4. /\ Effective(key).note = NoteOf(template)
        /\ Effective(key).sign = IF template = None THEN TRUE ELSE template.sign
    BY DEF Effective, NoteOf
  <1>5. NewCertOn(days, i).primary = PrimaryAt(i)
    BY DEF NewCertOn, Resign
  <1>6. NewCertOn(days, i) = Resign(template, SpanOf(days), PrimaryAt(i))
    BY DEF NewCertOn
  <1> HIDE DEF template
  <1>7. /\ NewCertOn(days, i) \in Signatures
        /\ NewCertOn(days, i).self /\ ~ NewCertOn(days, i).revokes
        /\ NewCertOn(days, i).expires = SpanOf(days)
        /\ NewCertOn(days, i).note = NoteOf(template)
        /\ NewCertOn(days, i).sign = IF template = None THEN TRUE ELSE template.sign
    <2> DEFINE e == SpanOf(days)
               b == PrimaryAt(i)
               s == Resign(template, e, b)
    <2>1. e \in Spans \cup {None} /\ b \in BOOLEAN
      BY <1>2, <1>3
    <2> HIDE DEF e, b
    <2>2. /\ s \in Signatures /\ s.self /\ ~ s.revokes /\ s.expires = e
          /\ s.note = NoteOf(template)
          /\ s.sign = IF template = None THEN TRUE ELSE template.sign
      BY ONLY clock \in 0 .. MaxTime, <1>1, <2>1, ResignType
    <2> QED BY <1>6, <2>2 DEF e, b
  <1> QED BY <1>2, <1>4, <1>5, <1>7

LEMMA SetExpirationWrites ==
    ASSUME key \in Certificates, clock \in 0 .. MaxTime,
           NEW days \in Days \cup {None}, SetExpiration(days)
    PROVE  /\ key' \in Certificates
           /\ key'.created = key.created
           /\ DOMAIN key'.users = DOMAIN key.users
           /\ \A i \in DOMAIN key.users :
                  key'.users[i].sigs = Append(Kept(key.users[i].sigs), NewCertOn(days, i))
  <1> DEFINE k == key
             len == Len(k.users)
             news == [i \in DOMAIN k.users |-> Replaced(k.users[i], NewCertOn(days, i))]
  <1>1. k.users \in Seq(Users) /\ len \in Nat /\ len # 0 /\ DOMAIN k.users = 1 .. len
    BY DEF Certificates
  <1>2. k' = [k EXCEPT !.users = news] /\ (days # None => Fits(SpanOf(days)))
    BY DEF SetExpiration, SpanOf, NewCertOn
  <1>3. ASSUME NEW i \in 1 .. len
        PROVE  /\ Replaced(k.users[i], NewCertOn(days, i)) \in Users
               /\ Replaced(k.users[i], NewCertOn(days, i)).sigs
                     = Append(Kept(k.users[i].sigs), NewCertOn(days, i))
    <2>1. k.users[i] \in Users
      BY <1>1
    <2>2. Kept(k.users[i].sigs) \in Seq(Signatures)
      BY <2>1, KeptIs DEF Users
    <2>3. NewCertOn(days, i) \in Signatures
      BY <1>2, NewCertType
    <2>4. Append(Kept(k.users[i].sigs), NewCertOn(days, i)) \in Seq(Signatures)
      BY <2>2, <2>3
    <2> QED BY <2>1, <2>4 DEF Users, Replaced
  <1>4. /\ news \in Seq(Users) /\ DOMAIN news = 1 .. len /\ news # <<>>
        /\ \A i \in 1 .. len : news[i].sigs = Append(Kept(k.users[i].sigs), NewCertOn(days, i))
    <2>1. news = [i \in 1 .. len |-> Replaced(k.users[i], NewCertOn(days, i))]
      BY <1>1
    <2> HIDE DEF news, len
    <2>2. news \in [1 .. len -> Users]
      BY <1>3, <2>1
    <2>3. news \in Seq(Users) /\ DOMAIN news = 1 .. len
      BY <1>1, <2>2
    <2>4. \A i \in 1 .. len : news[i].sigs = Append(Kept(k.users[i].sigs), NewCertOn(days, i))
      BY <1>3, <2>1
    <2>5. news # <<>>
      BY <1>1, <2>3
    <2> QED BY <2>3, <2>4, <2>5
  <1> HIDE DEF news, len
  <1>5. k' \in Certificates /\ k'.created = k.created /\ k'.users = news
    BY <1>2, <1>4 DEF Certificates
  <1> QED BY <1>1, <1>4, <1>5

(* The new certification is the only one on each user ID.                  *)
LEMMA SetExpirationPositions ==
    ASSUME key \in Certificates, clock \in 0 .. MaxTime,
           NEW days \in Days \cup {None}, SetExpiration(days)
    PROVE  /\ \A i \in DOMAIN key.users : \E p \in SelfCertsAt(key') : p[1] = i
           /\ \A p \in SelfCertsAt(key') :
                  p[1] \in DOMAIN key.users /\ At(key', p) = NewCertOn(days, p[1])
  <1> DEFINE k == key
             n == key'
             kept(i) == Kept(k.users[i].sigs)
  <1>1. /\ n \in Certificates /\ DOMAIN n.users = DOMAIN k.users
        /\ \A i \in DOMAIN k.users : n.users[i].sigs = Append(kept(i), NewCertOn(days, i))
    BY SetExpirationWrites
  <1>2. \A i : /\ NewCertOn(days, i) \in Signatures
               /\ NewCertOn(days, i).self /\ ~ NewCertOn(days, i).revokes
    <2>1. days # None => Fits(SpanOf(days))
      BY DEF SetExpiration, SpanOf
    <2> QED BY <2>1, NewCertType
  <1>3. ASSUME NEW i \in DOMAIN k.users
        PROVE  /\ kept(i) \in Seq(Signatures)
               /\ \A j \in 1 .. Len(kept(i)) : ~ kept(i)[j].self
    <2>1. k.users[i].sigs \in Seq(Signatures)
      BY UserType
    <2> QED BY <2>1, KeptIs
  <1> HIDE DEF kept
  <1>4. ASSUME NEW i \in DOMAIN k.users
        PROVE  /\ DOMAIN n.users[i].sigs = 1 .. Len(kept(i)) + 1
               /\ n.users[i].sigs[Len(kept(i)) + 1] = NewCertOn(days, i)
               /\ \A j \in 1 .. Len(kept(i)) : ~ n.users[i].sigs[j].self
               /\ Len(kept(i)) \in Nat
    <2> DEFINE a == kept(i)
               s == NewCertOn(days, i)
    <2>1. /\ a \in Seq(Signatures) /\ s \in Signatures
          /\ \A j \in 1 .. Len(a) : ~ a[j].self
          /\ n.users[i].sigs = Append(a, s)
      BY <1>1, <1>2, <1>3
    <2> HIDE DEF a, s
    <2>2. /\ DOMAIN Append(a, s) = 1 .. Len(a) + 1
          /\ Append(a, s)[Len(a) + 1] = s
          /\ \A j \in 1 .. Len(a) : Append(a, s)[j] = a[j]
          /\ Len(a) \in Nat
      BY <2>1
    <2>3. /\ DOMAIN n.users[i].sigs = 1 .. Len(a) + 1
          /\ n.users[i].sigs[Len(a) + 1] = s
          /\ \A j \in 1 .. Len(a) : ~ n.users[i].sigs[j].self
      BY <2>1, <2>2
    <2> QED BY <2>2, <2>3 DEF a, s
  <1>5. ASSUME NEW i \in DOMAIN k.users
        PROVE  \E p \in SelfCertsAt(n) : p[1] = i
    <2> DEFINE j == Len(kept(i)) + 1
               p == <<i, j>>
    <2>1. j \in DOMAIN n.users[i].sigs /\ n.users[i].sigs[j] = NewCertOn(days, i)
      BY <1>4
    <2> HIDE DEF j
    <2>2. p \in Positions(n)
      BY <1>1, <2>1, InPositions
    <2>3. At(n, p) = NewCertOn(days, i)
      BY <2>1 DEF At
    <2>4. p \in SelfCertsAt(n)
      BY <1>2, <2>2, <2>3 DEF SelfCertsAt
    <2> QED BY <2>4
  <1>6. ASSUME NEW p \in SelfCertsAt(n)
        PROVE  p[1] \in DOMAIN k.users /\ At(n, p) = NewCertOn(days, p[1])
    <2>1. p \in Positions(n) /\ At(n, p).self
      BY DEF SelfCertsAt
    <2>2. PICK i \in DOMAIN n.users : \E j \in DOMAIN n.users[i].sigs : p = <<i, j>>
      BY <2>1, InPositions
    <2>3. PICK j \in DOMAIN n.users[i].sigs : p = <<i, j>>
      BY <2>2
    <2>4. i \in DOMAIN k.users /\ p[1] = i /\ At(n, p) = n.users[i].sigs[j]
      BY <1>1, <2>3 DEF At
    <2>5. j = Len(kept(i)) + 1
      BY <1>4, <2>1, <2>3, <2>4
    <2> QED BY <1>4, <2>4, <2>5
  <1> QED BY <1>5, <1>6

-----------------------------------------------------------------------------
(* Certificates on whose user IDs all certifications say the same. *)

Says(s) == <<s.expires, s.note, s.sign>>
Said(k) == {Says(At(k, p)) : p \in SelfCertsAt(k)}

LEMMA FinitePositions ==
    ASSUME NEW k \in Certificates
    PROVE  IsFiniteSet(Positions(k)) /\ IsFiniteSet(DOMAIN k.users)
  <1> DEFINE on == [i \in DOMAIN k.users |-> {<<i, j>> : j \in DOMAIN k.users[i].sigs}]
  <1>1. k.users \in Seq(Users) /\ Len(k.users) \in Nat /\ DOMAIN k.users = 1 .. Len(k.users)
    BY DEF Certificates
  <1>2. IsFiniteSet(DOMAIN k.users)
    BY <1>1, FS_Interval
  <1>3. ASSUME NEW i \in DOMAIN k.users PROVE IsFiniteSet(on[i])
    <2> DEFINE pair == [j \in DOMAIN k.users[i].sigs |-> <<i, j>>]
               js == DOMAIN k.users[i].sigs
    <2>1. k.users[i].sigs \in Seq(Signatures)
      BY UserType
    <2>2. js = 1 .. Len(k.users[i].sigs) /\ Len(k.users[i].sigs) \in Nat
      BY <2>1
    <2>3. IsFiniteSet(js)
      BY <2>2, FS_Interval
    <2>4. on[i] = {pair[j] : j \in js} /\ pair = [j \in js |-> pair[j]]
      OBVIOUS
    <2> HIDE DEF pair, on, js
    <2> QED BY <2>3, <2>4, FiniteImage
  <1>4. IsFiniteSet({on[i] : i \in DOMAIN k.users})
    <2>1. on = [i \in DOMAIN k.users |-> on[i]]
      OBVIOUS
    <2> HIDE DEF on
    <2> QED BY <1>2, <2>1, FiniteImage
  <1>5. Positions(k) = UNION {on[i] : i \in DOMAIN k.users}
    <2>1. ASSUME NEW p
          PROVE  p \in Positions(k) <=> \E i \in DOMAIN k.users : p \in on[i]
      <3>1. \A i \in DOMAIN k.users :
                p \in on[i] <=> \E j \in DOMAIN k.users[i].sigs : p = <<i, j>>
        OBVIOUS
      <3> HIDE DEF on
      <3> QED BY <3>1, InPositions
    <2> HIDE DEF on
    <2> QED BY <2>1
  <1>6. \A T \in {on[i] : i \in DOMAIN k.users} : IsFiniteSet(T)
    BY <1>3
  <1> HIDE DEF on
  <1> QED BY <1>2, <1>4, <1>5, <1>6, FS_UNION

LEMMA AgreeIs ==
    ASSUME NEW k \in Certificates
    PROVE  Agree(k) <=> /\ DOMAIN k.users = {p[1] : p \in SelfCertsAt(k)}
                        /\ \E v : Said(k) = {v}
  <1>1. {<<s.expires, s.note, s.sign>> : s \in SelfCertificationsOf(k)} = Said(k)
    BY DEF SelfCertificationsOf, Said, Says
  <1>2. IsFiniteSet(SelfCertsAt(k))
    <2>1. SelfCertsAt(k) \in SUBSET Positions(k)
      BY DEF SelfCertsAt
    <2> QED BY <2>1, FinitePositions, FS_Subset
  <1>3. IsFiniteSet(Said(k))
    <2> DEFINE f == [p \in SelfCertsAt(k) |-> Says(At(k, p))]
    <2>1. /\ f = [p \in SelfCertsAt(k) |-> f[p]]
          /\ Said(k) = {f[p] : p \in SelfCertsAt(k)}
      BY DEF Said
    <2> HIDE DEF f
    <2> QED BY <1>2, <2>1, FiniteImage
  <1>4. Cardinality(Said(k)) = 1 <=> \E v : Said(k) = {v}
    BY <1>3, FS_Singleton
  <1> QED BY <1>1, <1>4 DEF Agree

(* What all of them say is what the certificate says.                      *)
LEMMA EffectiveIs ==
    ASSUME NEW k \in Certificates, NEW v, Said(k) = {v}
    PROVE  /\ Effective(k).expires = v[1]
           /\ Effective(k).note = v[2]
           /\ Effective(k).sign = v[3]
           /\ \E s \in Signatures : v = Says(s)
  <1>1. SelfCertsAt(k) # {}
    BY DEF Said
  <1>2. PICK p \in SelfCertsAt(k) :
            LatestSelfCert(k) = At(k, p) /\ At(k, p) \in Signatures /\ At(k, p) # None
    BY <1>1, LatestIs
  <1>3. v = Says(At(k, p))
    BY DEF Said
  <1>4. Effective(k) = [expires |-> At(k, p).expires, note |-> At(k, p).note,
                        sign |-> At(k, p).sign]
    BY <1>2 DEF Effective
  <1> QED BY <1>2, <1>3, <1>4 DEF Says

-----------------------------------------------------------------------------
(* One user ID less: every other one keeps its certifications. *)

Moved(i, a) == IF a < i THEN a ELSE a + 1

LEMMA RemovedUsers ==
    ASSUME key \in Certificates, NEW i \in 1 .. MaxIds, RemoveUserId(i)
    PROVE  /\ key' \in Certificates
           /\ Len(key'.users) = Len(key.users) - 1
           /\ \A a \in DOMAIN key'.users :
                  /\ Moved(i, a) \in DOMAIN key.users
                  /\ key'.users[a] = key.users[Moved(i, a)]
           /\ \A b \in DOMAIN key.users :
                  b # i => \E a \in DOMAIN key'.users : Moved(i, a) = b
  <1> DEFINE q == key.users
             len == Len(q)
             r == SubSeq(q, 1, i - 1) \o SubSeq(q, i + 1, len)
  <1>1. q \in Seq(Users) /\ len \in Nat /\ DOMAIN q = 1 .. len
    BY DEF Certificates
  <1>2. i \in 1 .. len /\ len > 1 /\ key' = [key EXCEPT !.users = r]
    BY <1>1 DEF RemoveUserId
  <1>0. \A a \in 1 .. len : q[a] \in Users
    BY <1>1
  <1>3. /\ SubSeq(q, 1, i - 1) \in Seq(Users) /\ Len(SubSeq(q, 1, i - 1)) = i - 1
        /\ \A a \in 1 .. i - 1 : SubSeq(q, 1, i - 1)[a] = q[a]
    BY <1>1, <1>2
  <1>4. /\ SubSeq(q, i + 1, len) \in Seq(Users) /\ Len(SubSeq(q, i + 1, len)) = len - i
        /\ \A a \in 1 .. len - i : SubSeq(q, i + 1, len)[a] = q[i + a]
    <2> DEFINE m == i + 1
               t == SubSeq(q, m, len)
    <2>1. m \in Int /\ len \in Int /\ \A a \in m .. len : q[a] \in Users
      BY <1>0, <1>1, <1>2
    <2> HIDE DEF q, len, m
    <2>2. /\ t \in Seq(Users) /\ Len(t) = IF m <= len THEN len - m + 1 ELSE 0
          /\ \A a \in 1 .. len - m + 1 : t[a] = q[m + a - 1]
      BY <2>1, SubSeqProperties
    <2> HIDE DEF t
    <2>3. Len(t) = len - i
      BY <1>1, <1>2, <2>2 DEF m
    <2>4. \A a \in 1 .. len - i : t[a] = q[i + a]
      <3> SUFFICES ASSUME NEW a \in 1 .. len - i PROVE t[a] = q[i + a]
        OBVIOUS
      <3>1. a \in 1 .. len - m + 1 /\ m + a - 1 = i + a
        BY <1>1, <1>2 DEF m
      <3>2. t[a] = q[m + a - 1]
        BY <2>2, <3>1
      <3> QED BY <3>1, <3>2
    <2> QED BY <2>2, <2>3, <2>4 DEF t, m
  <1>5. /\ r \in Seq(Users) /\ Len(r) = len - 1
        /\ \A a \in 1 .. len - 1 : r[a] = q[Moved(i, a)]
    <2> DEFINE s == SubSeq(q, 1, i - 1)
               t == SubSeq(q, i + 1, len)
    <2>1. /\ s \in Seq(Users) /\ Len(s) = i - 1 /\ \A a \in 1 .. i - 1 : s[a] = q[a]
          /\ t \in Seq(Users) /\ Len(t) = len - i /\ \A a \in 1 .. len - i : t[a] = q[i + a]
          /\ r = s \o t
      BY <1>3, <1>4
    <2> HIDE DEF s, t, r, q, len
    <2>2. r \in Seq(Users) /\ Len(r) = len - 1
      <3>1. s \o t \in Seq(Users) /\ Len(s \o t) = Len(s) + Len(t)
        BY <2>1, ConcatProperties
      <3>2. Len(s) + Len(t) = len - 1
        BY <1>1, <1>2, <2>1
      <3> QED BY <2>1, <3>1, <3>2
    <2>3. ASSUME NEW a \in 1 .. len - 1 PROVE r[a] = q[Moved(i, a)]
      <3>1. CASE a < i
        <4>1. a \in 1 .. i - 1 /\ r[a] = s[a]
          BY <1>1, <1>2, <2>1, <3>1
        <4> QED BY <2>1, <3>1, <4>1 DEF Moved
      <3>2. CASE ~ a < i
        <4>1. a - (i - 1) \in 1 .. len - i /\ r[a] = t[a - (i - 1)]
          <5>1. a - (i - 1) \in 1 .. len - i /\ a \in 1 .. Len(s) + Len(t) /\ a > Len(s)
            BY <1>1, <1>2, <2>1, <3>2
          <5>2. (s \o t)[a] = t[a - Len(s)]
            BY ONLY <2>1, <5>1
          <5> QED BY ONLY <2>1, <5>1, <5>2
        <4>2. i + (a - (i - 1)) = a + 1
          BY <1>1, <1>2
        <4>3. t[a - (i - 1)] = q[a + 1]
          BY <2>1, <4>1, <4>2
        <4> QED BY <3>2, <4>1, <4>3 DEF Moved
      <3> QED BY <3>1, <3>2
    <2> QED BY <2>2, <2>3
  <1> HIDE DEF q, r, len
  <1>6. key' \in Certificates /\ key'.users = r
    <2>1. r # <<>>
      BY <1>1, <1>2, <1>5
    <2> QED BY <1>2, <1>5, <2>1 DEF Certificates
  <1>7. DOMAIN r = 1 .. len - 1
    BY <1>1, <1>5
  <1>8. ASSUME NEW a \in 1 .. len - 1
        PROVE  Moved(i, a) \in 1 .. len
    BY <1>1, <1>2 DEF Moved
  <1>9. ASSUME NEW b \in 1 .. len, b # i
        PROVE  \E a \in 1 .. len - 1 : Moved(i, a) = b
    <2>1. CASE b < i
      <3>1. b \in 1 .. len - 1 /\ Moved(i, b) = b
        BY <1>1, <1>2, <2>1 DEF Moved
      <3> QED BY <3>1
    <2>2. CASE ~ b < i
      <3>1. b - 1 \in 1 .. len - 1 /\ Moved(i, b - 1) = b
        BY <1>1, <1>2, <1>9, <2>2 DEF Moved
      <3> QED BY <3>1
    <2> QED BY <2>1, <2>2
  <1>10. Len(key.users) = len /\ DOMAIN key.users = 1 .. len /\ key.users = q
    BY <1>1 DEF q, len
  <1> QED BY <1>5, <1>6, <1>7, <1>8, <1>9, <1>10

LEMMA RemovedPositions ==
    ASSUME key \in Certificates, NEW i \in 1 .. MaxIds, RemoveUserId(i)
    PROVE  /\ \A p \in SelfCertsAt(key') : \E q \in SelfCertsAt(key) :
                  q[1] = Moved(i, p[1]) /\ At(key, q) = At(key', p)
           /\ \A q \in SelfCertsAt(key) : q[1] # i =>
                  \E p \in SelfCertsAt(key') : q[1] = Moved(i, p[1])
  <1> DEFINE k == key
             n == key'
  <1>1. /\ \A a \in DOMAIN n.users :
               Moved(i, a) \in DOMAIN k.users /\ n.users[a] = k.users[Moved(i, a)]
        /\ \A b \in DOMAIN k.users : b # i => \E a \in DOMAIN n.users : Moved(i, a) = b
    BY RemovedUsers
  <1>2. ASSUME NEW p \in SelfCertsAt(n)
        PROVE  \E q \in SelfCertsAt(k) : q[1] = Moved(i, p[1]) /\ At(k, q) = At(n, p)
    <2>1. PICK a \in DOMAIN n.users : \E j \in DOMAIN n.users[a].sigs : p = <<a, j>>
      BY InPositions DEF SelfCertsAt
    <2>2. PICK j \in DOMAIN n.users[a].sigs : p = <<a, j>>
      BY <2>1
    <2> DEFINE b == Moved(i, a)
               q == <<b, j>>
    <2>3. b \in DOMAIN k.users /\ j \in DOMAIN k.users[b].sigs /\ n.users[a] = k.users[b]
      BY <1>1
    <2> HIDE DEF b
    <2>4. q \in Positions(k)
      BY <2>3, InPositions
    <2>5. At(k, q) = At(n, p) /\ q[1] = Moved(i, p[1])
      BY <2>2, <2>3 DEF At, b
    <2>6. q \in SelfCertsAt(k)
      BY <2>4, <2>5 DEF SelfCertsAt
    <2> QED BY <2>5, <2>6
  <1>3. ASSUME NEW q \in SelfCertsAt(k), q[1] # i
        PROVE  \E p \in SelfCertsAt(n) : q[1] = Moved(i, p[1])
    <2>1. PICK b \in DOMAIN k.users : \E j \in DOMAIN k.users[b].sigs : q = <<b, j>>
      BY InPositions DEF SelfCertsAt
    <2>2. PICK j \in DOMAIN k.users[b].sigs : q = <<b, j>>
      BY <2>1
    <2>3. PICK a \in DOMAIN n.users : Moved(i, a) = b /\ n.users[a] = k.users[b]
      BY <1>1, <1>3, <2>2
    <2> DEFINE p == <<a, j>>
    <2>4. p \in Positions(n)
      BY <2>2, <2>3, InPositions
    <2>5. At(k, q) = At(n, p) /\ q[1] = Moved(i, p[1])
      BY <2>2, <2>3 DEF At
    <2>6. p \in SelfCertsAt(n)
      BY <2>4, <2>5 DEF SelfCertsAt
    <2> QED BY <2>5, <2>6
  <1> QED BY <1>2, <1>3

-----------------------------------------------------------------------------
(* Every step, for every certificate. *)

SelfCertsInv == key \in Certificates /\ clock \in 0 .. MaxTime

LEMMA AddTypeOK ==
    ASSUME SelfCertsInv, NEW id \in Ids, AddUserId(id)
    PROVE  key' \in Certificates
  <1> DEFINE template == LatestSelfCert(key)
             e == ExpirationOf(template)
             s == Resign(template, e, FALSE)
             u == [id |-> id, sigs |-> <<s>>]
  <1>1. key' = [key EXCEPT !.users = Append(@, u)]
    BY DEF AddUserId
  <1>2. template \in Signatures \cup {None}
    BY LatestIs DEF SelfCertsInv
  <1>3. e \in Spans \cup {None}
    BY <1>2 DEF ExpirationOf, Signatures
  <1> HIDE DEF template, e
  <1>4. s \in Signatures
    BY <1>2, <1>3, ResignType DEF SelfCertsInv
  <1> HIDE DEF s
  <1>5. u \in Users
    BY <1>4 DEF Users
  <1> HIDE DEF u
  <1>6. Append(key.users, u) \in Seq(Users) /\ Append(key.users, u) # <<>>
    BY <1>5 DEF SelfCertsInv, Certificates
  <1> QED BY <1>1, <1>6 DEF SelfCertsInv, Certificates

LEMMA SelfCertsStep ==
    SelfCertsInv /\ [Next]_vars => SelfCertsInv'
  <1> SUFFICES ASSUME SelfCertsInv, [Next]_vars PROVE SelfCertsInv'
    OBVIOUS
  <1> USE DEF SelfCertsInv
  <1>1. ASSUME NEW days \in Days \cup {None}, SetExpiration(days) PROVE SelfCertsInv'
    <2>1. clock' = clock
      BY <1>1 DEF SetExpiration
    <2> QED BY <1>1, <2>1, SetExpirationWrites
  <1>2. ASSUME NEW id \in Ids, AddUserId(id) PROVE SelfCertsInv'
    BY <1>2, AddTypeOK DEF AddUserId
  <1>3. ASSUME NEW i \in 1 .. MaxIds, RemoveUserId(i) PROVE SelfCertsInv'
    <2>1. clock' = clock
      BY <1>3 DEF RemoveUserId
    <2> QED BY <1>3, <2>1, RemovedUsers
  <1>4. CASE SetClock
    BY <1>4 DEF SetClock
  <1>5. CASE UNCHANGED vars
    BY <1>5 DEF vars
  <1> QED BY <1>1, <1>2, <1>3, <1>4, <1>5 DEF Next

(* Every edit of a well-formed certificate leaves a well-formed one.       *)
THEOREM SelfCertsTypeOK == Spec => []SelfCertsInv
  <1>1. Init => SelfCertsInv
    BY InputAssumption DEF Init, SelfCertsInv
  <1> QED BY <1>1, SelfCertsStep, PTL DEF Spec

-----------------------------------------------------------------------------
(* What each edit does to what the certifications say. *)

LEMMA SetExpirationSays ==
    ASSUME SelfCertsInv, NEW days \in Days \cup {None}, SetExpiration(days)
    PROVE  /\ Agree(key')
           /\ Effective(key').expires = SpanOf(days)
           /\ Effective(key').note = Effective(key).note
           /\ Effective(key').sign = Effective(key).sign
           /\ SpanOf(days) \in Spans \cup {None}
           /\ key'.created = key.created
  <1> DEFINE k == key
             n == key'
             v == <<SpanOf(days), Effective(k).note, Effective(k).sign>>
  <1>1. /\ n \in Certificates /\ n.created = k.created /\ DOMAIN n.users = DOMAIN k.users
        /\ k \in Certificates /\ clock \in 0 .. MaxTime
    BY SetExpirationWrites DEF SelfCertsInv
  <1>2. /\ \A i \in DOMAIN k.users : \E p \in SelfCertsAt(n) : p[1] = i
        /\ \A p \in SelfCertsAt(n) :
               p[1] \in DOMAIN k.users /\ At(n, p) = NewCertOn(days, p[1])
    BY <1>1, SetExpirationPositions
  <1>3. /\ SpanOf(days) \in Spans \cup {None}
        /\ \A i : Says(NewCertOn(days, i)) = v
    <2>1. days # None => Fits(SpanOf(days))
      BY DEF SetExpiration, SpanOf
    <2> QED BY <1>1, <2>1, NewCertType DEF Says
  <1> HIDE DEF v
  <1>4. \A p \in SelfCertsAt(n) : Says(At(n, p)) = v
    BY <1>2, <1>3
  <1>5. SelfCertsAt(n) # {}
    <2>1. 1 \in DOMAIN k.users
      BY <1>1 DEF Certificates
    <2> QED BY <1>2, <2>1
  <1>6. Said(n) = {v}
    BY <1>4, <1>5 DEF Said
  <1>7. DOMAIN n.users = {p[1] : p \in SelfCertsAt(n)}
    BY <1>1, <1>2
  <1>8. Agree(n)
    BY <1>1, <1>6, <1>7, AgreeIs
  <1>9. /\ Effective(n).expires = v[1] /\ Effective(n).note = v[2]
        /\ Effective(n).sign = v[3]
    BY <1>1, <1>6, EffectiveIs
  <1> QED BY <1>1, <1>3, <1>8, <1>9 DEF v

LEMMA AddSays ==
    ASSUME SelfCertsInv, NEW id \in Ids, AddUserId(id)
    PROVE  /\ PrimaryUsers(key') = PrimaryUsers(key)
           /\ Agree(key) => Agree(key')
           /\ \A i \in DOMAIN key.users : key'.users[i] = key.users[i]
  <1> DEFINE k == key
             n == key'
             template == LatestSelfCert(k)
             e == ExpirationOf(template)
             s == Resign(template, e, FALSE)
             new == <<Len(k.users) + 1, 1>>
  <1>1. k \in Certificates /\ clock \in 0 .. MaxTime /\ n \in Certificates
    BY AddTypeOK DEF SelfCertsInv
  <1>2. n = [k EXCEPT !.users = Append(@, [id |-> id, sigs |-> <<s>>])]
    BY DEF AddUserId
  <1>3. template \in Signatures \cup {None}
    BY <1>1, LatestIs
  <1>4. e \in Spans \cup {None}
    BY <1>3 DEF ExpirationOf, Signatures
  <1>5. /\ s \in Signatures /\ s.self /\ ~ s.revokes /\ ~ s.primary
        /\ s.expires = e /\ s.note = NoteOf(template)
        /\ s.sign = IF template = None THEN TRUE ELSE template.sign
    <2>1. ~ s.primary
      BY DEF Resign
    <2> HIDE DEF template, e
    <2> QED BY <1>1, <1>3, <1>4, <2>1, ResignType
  <1> HIDE DEF s
  <1>6. /\ SelfCertsAt(n) = SelfCertsAt(k) \cup {new}
        /\ At(n, new) = s
        /\ \A p \in SelfCertsAt(k) : At(n, p) = At(k, p)
    BY <1>1, <1>2, <1>5, AddedPositions
  <1>7. new[1] = Len(k.users) + 1
    OBVIOUS
  <1> HIDE DEF new
  <1>8. PrimaryUsers(n) = PrimaryUsers(k)
    BY <1>5, <1>6 DEF PrimaryUsers
  <1> DEFINE u == [id |-> id, sigs |-> <<s>>]
  <1>9. /\ DOMAIN n.users = DOMAIN k.users \cup {Len(k.users) + 1}
        /\ \A i \in DOMAIN k.users : n.users[i] = k.users[i]
    <2>1. n.users = Append(k.users, u)
      BY <1>1, <1>2 DEF Certificates
    <2>2. k.users \in Seq(Users)
      BY <1>1 DEF Certificates
    <2> HIDE DEF u
    <2> QED BY <2>1, <2>2
  <1>10. ASSUME Agree(k) PROVE Agree(n)
    <2>1. DOMAIN k.users = {p[1] : p \in SelfCertsAt(k)}
      BY <1>1, <1>10, AgreeIs
    <2>2. PICK v : Said(k) = {v}
      BY <1>1, <1>10, AgreeIs
    <2>3. PICK p \in SelfCertsAt(k) : template = At(k, p) /\ At(k, p) # None
      <3>1. SelfCertsAt(k) # {}
        BY <2>2 DEF Said
      <3> QED BY <1>1, <3>1, LatestIs
    <2>4. Says(At(k, p)) = v
      BY <2>2 DEF Said
    <2>5. Says(s) = v
      <3> HIDE DEF template
      <3>1. template # None /\ Says(template) = v
        BY <2>3, <2>4
      <3>2. s.expires = template.expires /\ s.note = template.note /\ s.sign = template.sign
        BY <1>5, <3>1 DEF ExpirationOf, NoteOf
      <3> QED BY <3>1, <3>2 DEF Says
    <2>6. Said(n) = {v}
      <3>1. \A q \in SelfCertsAt(k) : Says(At(k, q)) = v
        BY <2>2 DEF Said
      <3>2. \A q \in SelfCertsAt(n) : Says(At(n, q)) = v
        BY <1>6, <2>5, <3>1
      <3> QED BY <1>6, <3>2 DEF Said
    <2>7. DOMAIN n.users = {q[1] : q \in SelfCertsAt(n)}
      BY <1>6, <1>7, <1>9, <2>1
    <2> QED BY <1>1, <2>6, <2>7, AgreeIs
  <1> QED BY <1>8, <1>9, <1>10

LEMMA RemoveSays ==
    ASSUME SelfCertsInv, NEW i \in 1 .. MaxIds, RemoveUserId(i)
    PROVE  /\ \A a, b \in PrimaryUsers(key') :
                  Moved(i, a) \in PrimaryUsers(key) /\ (Moved(i, a) = Moved(i, b) => a = b)
           /\ Agree(key) => Agree(key') /\ Said(key') = Said(key)
  <1> DEFINE k == key
             n == key'
  <1>1. k \in Certificates /\ n \in Certificates
    BY RemovedUsers DEF SelfCertsInv
  <1>2. /\ \A p \in SelfCertsAt(n) : \E q \in SelfCertsAt(k) :
               q[1] = Moved(i, p[1]) /\ At(k, q) = At(n, p)
        /\ \A q \in SelfCertsAt(k) : q[1] # i =>
               \E p \in SelfCertsAt(n) : q[1] = Moved(i, p[1])
    BY <1>1, RemovedPositions
  <1>3. \A p \in SelfCertsAt(n) : p[1] \in DOMAIN n.users /\ p[1] \in Nat
    <2>1. n.users \in Seq(Users)
      BY <1>1 DEF Certificates
    <2>2. \A p \in SelfCertsAt(n) : p[1] \in 1 .. Len(n.users)
      BY <1>1, PositionType DEF SelfCertsAt
    <2> QED BY <2>1, <2>2
  <1>4. \A a, b \in Nat : Moved(i, a) = Moved(i, b) => a = b
    BY DEF Moved
  <1>5. ASSUME NEW a \in PrimaryUsers(n)
        PROVE  a \in Nat /\ Moved(i, a) \in PrimaryUsers(k)
    BY <1>2, <1>3 DEF PrimaryUsers
  <1>6. ASSUME Agree(k) PROVE Agree(n) /\ Said(n) = Said(k)
    <2>1. DOMAIN k.users = {q[1] : q \in SelfCertsAt(k)}
      BY <1>1, <1>6, AgreeIs
    <2>2. PICK v : Said(k) = {v}
      BY <1>1, <1>6, AgreeIs
    <2>3. ASSUME NEW a \in DOMAIN n.users
          PROVE  \E p \in SelfCertsAt(n) : p[1] = a
      <3>1. Moved(i, a) \in DOMAIN k.users
        BY <1>1, RemovedUsers
      <3>2. a \in Nat /\ Moved(i, a) # i
        <4>1. n.users \in Seq(Users)
          BY <1>1 DEF Certificates
        <4>2. a \in Nat
          BY <4>1
        <4> QED BY <4>2 DEF Moved
      <3>3. PICK q \in SelfCertsAt(k) : q[1] = Moved(i, a)
        BY <2>1, <3>1
      <3>4. PICK p \in SelfCertsAt(n) : q[1] = Moved(i, p[1])
        BY <1>2, <3>2, <3>3
      <3> QED BY <1>3, <1>4, <3>2, <3>3, <3>4
    <2>4. DOMAIN n.users = {p[1] : p \in SelfCertsAt(n)}
      BY <1>3, <2>3
    <2>5. \A p \in SelfCertsAt(n) : Says(At(n, p)) = v
      BY <1>2, <2>2 DEF Said
    <2>6. SelfCertsAt(n) # {}
      <3>1. 1 \in DOMAIN n.users
        BY <1>1 DEF Certificates
      <3> QED BY <2>4, <3>1
    <2>7. Said(n) = {v}
      BY <2>5, <2>6 DEF Said
    <2> QED BY <1>1, <2>2, <2>4, <2>7, AgreeIs
  <1> QED BY <1>4, <1>5, <1>6

LEMMA CardinalityAtMostOne ==
    ASSUME NEW S, IsFiniteSet(S)
    PROVE  Cardinality(S) <= 1 <=> \A a, b \in S : a = b
  <1>1. ASSUME Cardinality(S) <= 1 PROVE \A a, b \in S : a = b
    <2>1. Cardinality(S) \in Nat
      BY FS_CardinalityType
    <2>2. CASE Cardinality(S) = 0
      BY <2>2, FS_EmptySet
    <2>3. CASE Cardinality(S) = 1
      BY <2>3, FS_Singleton
    <2> QED BY <1>1, <2>1, <2>2, <2>3
  <1>2. ASSUME \A a, b \in S : a = b PROVE Cardinality(S) <= 1
    <2>1. CASE S = {}
      BY <2>1, FS_EmptySet
    <2>2. CASE S # {}
      <3>1. PICK a \in S : TRUE
        BY <2>2
      <3>2. S = {a}
        BY <1>2, <3>1
      <3> QED BY <3>2, FS_Singleton
    <2> QED BY <2>1, <2>2
  <1> QED BY <1>1, <1>2

LEMMA PrimaryUsersFinite ==
    ASSUME NEW k \in Certificates
    PROVE  IsFiniteSet(PrimaryUsers(k)) /\ PrimaryUsers(k) \subseteq DOMAIN k.users
  <1>1. PrimaryUsers(k) \subseteq DOMAIN k.users
    <2>1. k.users \in Seq(Users)
      BY DEF Certificates
    <2>2. \A p \in SelfCertsAt(k) : p[1] \in 1 .. Len(k.users)
      BY PositionType DEF SelfCertsAt
    <2> QED BY <2>1, <2>2 DEF PrimaryUsers
  <1>2. PrimaryUsers(k) \in SUBSET (DOMAIN k.users)
    BY <1>1
  <1> QED BY <1>1, <1>2, FinitePositions, FS_Subset

(* What a step that is no edit of the certificate leaves.                  *)
LEMMA StepCases ==
    ASSUME [Next]_vars
    PROVE  \/ \E days \in Days \cup {None} : SetExpiration(days)
           \/ \E id \in Ids : AddUserId(id)
           \/ \E i \in 1 .. MaxIds : RemoveUserId(i)
           \/ key' = key
  BY DEF Next, SetClock, vars

LEMMA AgreeStep ==
    ASSUME SelfCertsInv, [Next]_vars, Agree(key)
    PROVE  Agree(key')
  <1>1. ASSUME NEW days \in Days \cup {None}, SetExpiration(days) PROVE Agree(key')
    BY <1>1, SetExpirationSays
  <1>2. ASSUME NEW id \in Ids, AddUserId(id) PROVE Agree(key')
    BY <1>2, AddSays
  <1>3. ASSUME NEW i \in 1 .. MaxIds, RemoveUserId(i) PROVE Agree(key')
    BY <1>3, RemoveSays
  <1>4. CASE key' = key
    BY <1>4
  <1> QED BY <1>1, <1>2, <1>3, <1>4, StepCases

(* User IDs that agree go on agreeing through every edit, so that no       *)
(* reader, whichever certification it takes for the newest, sees another   *)
(* expiration, provenance or set of capabilities.                          *)
THEOREM UserIdsStayAgreed == Spec => UserIdsAgree
  <1> DEFINE Step == Agree(key) => Agree(key')
  <1>1. SelfCertsInv /\ [Next]_vars => Step
    BY AgreeStep
  <1> QED BY <1>1, SelfCertsTypeOK, PTL DEF Spec, UserIdsAgree

LEMMA PrimaryStep ==
    ASSUME SelfCertsInv, [Next]_vars, Cardinality(PrimaryUsers(key)) <= 1
    PROVE  Cardinality(PrimaryUsers(key')) <= 1
  <1>1. key \in Certificates /\ key' \in Certificates
    BY SelfCertsStep DEF SelfCertsInv
  <1>2. /\ IsFiniteSet(PrimaryUsers(key)) /\ IsFiniteSet(PrimaryUsers(key'))
    BY <1>1, PrimaryUsersFinite
  <1>3. \A a, b \in PrimaryUsers(key) : a = b
    BY <1>2, CardinalityAtMostOne
  <1>4. SUFFICES \A a, b \in PrimaryUsers(key') : a = b
    BY <1>2, CardinalityAtMostOne
  <1>5. ASSUME NEW days \in Days \cup {None}, SetExpiration(days),
               NEW a \in PrimaryUsers(key')
        PROVE  a = 1
    <2>1. PICK p \in SelfCertsAt(key') : p[1] = a /\ At(key', p).primary
      BY DEF PrimaryUsers
    <2>2. At(key', p) = NewCertOn(days, a)
      BY <1>5, <2>1, SetExpirationPositions DEF SelfCertsInv
    <2>3. NewCertOn(days, a).primary = PrimaryAt(a)
      BY DEF NewCertOn, Resign
    <2> QED BY <2>1, <2>2, <2>3 DEF PrimaryAt
  <1>6. ASSUME NEW id \in Ids, AddUserId(id) PROVE PrimaryUsers(key') = PrimaryUsers(key)
    BY <1>6, AddSays
  <1>7. ASSUME NEW i \in 1 .. MaxIds, RemoveUserId(i)
        PROVE  \A a, b \in PrimaryUsers(key') : a = b
    BY <1>3, <1>7, RemoveSays
  <1>8. CASE key' = key
    BY <1>3, <1>8
  <1> QED BY <1>3, <1>5, <1>6, <1>7, <1>8, StepCases

(* No edit gives a certificate a second primary user ID.                   *)
THEOREM AlwaysAtMostOnePrimary == Spec => AtMostOnePrimary
  <1> DEFINE Step == Cardinality(PrimaryUsers(key)) <= 1
                         => Cardinality(PrimaryUsers(key')) <= 1
  <1>1. SelfCertsInv /\ [Next]_vars => Step
    BY PrimaryStep
  <1> QED BY <1>1, SelfCertsTypeOK, PTL DEF Spec, AtMostOnePrimary

EffectiveKept ==
    LET before == Effective(key)
        after == Effective(key')
    IN  /\ after.note = before.note /\ after.sign = before.sign
        /\ after.expires # before.expires =>
               \E days \in Days \cup {None} : SetExpiration(days)

LEMMA EffectiveStep ==
    ASSUME SelfCertsInv, [Next]_vars, Agree(key)
    PROVE  EffectiveKept
  <1>1. ASSUME NEW days \in Days \cup {None}, SetExpiration(days) PROVE EffectiveKept
    BY <1>1, SetExpirationSays DEF EffectiveKept
  <1>2. ASSUME NEW id \in Ids, AddUserId(id) PROVE EffectiveKept
    <2>1. Effective(key') = Effective(key)
      BY <1>2, AddTypeOK, AddKeeps DEF SelfCertsInv
    <2> QED BY <2>1 DEF EffectiveKept
  <1>3. ASSUME NEW i \in 1 .. MaxIds, RemoveUserId(i) PROVE EffectiveKept
    <2>1. key \in Certificates /\ key' \in Certificates /\ Said(key') = Said(key)
      BY <1>3, RemovedUsers, RemoveSays DEF SelfCertsInv
    <2>2. PICK v : Said(key) = {v}
      BY <2>1, AgreeIs
    <2>3. /\ Effective(key).expires = v[1] /\ Effective(key).note = v[2]
          /\ Effective(key).sign = v[3]
      BY <2>1, <2>2, EffectiveIs
    <2>4. /\ Effective(key').expires = v[1] /\ Effective(key').note = v[2]
          /\ Effective(key').sign = v[3]
      BY <2>1, <2>2, EffectiveIs
    <2> QED BY <2>3, <2>4 DEF EffectiveKept
  <1>4. CASE key' = key
    BY <1>4 DEF EffectiveKept
  <1> QED BY <1>1, <1>2, <1>3, <1>4, StepCases

(* While the user IDs agree, only set_expiration moves the expiration, and *)
(* no edit the provenance or the capabilities, whatever the clock says.    *)
THEOREM EditsAlwaysKeepEffective == Spec => EditsKeepEffective
  <1> DEFINE Step == Agree(key) =>
                 LET before == Effective(key)
                     after == Effective(key')
                 IN  /\ after.note = before.note /\ after.sign = before.sign
                     /\ after.expires # before.expires =>
                            \E days \in Days \cup {None} : SetExpiration(days)
  <1>1. SelfCertsInv /\ [Next]_vars => Step
    BY EffectiveStep DEF EffectiveKept
  <1> QED BY <1>1, SelfCertsTypeOK, PTL DEF Spec, EditsKeepEffective

LEMMA SetExpirationStep ==
    ASSUME SelfCertsInv, NEW days \in Days \cup {None}, SetExpiration(days)
    PROVE  /\ ExpiresAt(key') = IF days = None THEN None ELSE clock + days
           /\ Agree(key')
           /\ Effective(key').expires \in 1 .. MaxSpan \cup {None}
           /\ Effective(key').note = Effective(key).note
           /\ Effective(key').sign = Effective(key).sign
  <1>1. /\ Agree(key') /\ Effective(key').expires = SpanOf(days)
        /\ Effective(key').note = Effective(key).note
        /\ Effective(key').sign = Effective(key).sign
        /\ SpanOf(days) \in Spans \cup {None} /\ key'.created = key.created
    BY SetExpirationSays
  <1>2. ExpiresAt(key') = IF SpanOf(days) = None THEN None ELSE key.created + SpanOf(days)
    BY <1>1 DEF ExpiresAt
  <1>3. CASE days = None
    BY <1>1, <1>2, <1>3 DEF SpanOf, Spans
  <1>4. CASE days # None
    <2>1. days \in Nat /\ clock \in Nat /\ key.created \in Nat
      BY <1>4, InputAssumption DEF SelfCertsInv, Certificates
    <2>2. SpanOf(days) = clock + days - key.created
      BY <1>4 DEF SpanOf
    <2>3. SpanOf(days) # None
      <3>1. SpanOf(days) \in Nat
        <4>1. Fits(SpanOf(days))
          BY <1>4 DEF SetExpiration, SpanOf
        <4> QED BY <2>1, <2>2, <4>1 DEF Fits
      <3> QED BY <3>1, InputAssumption
    <2>4. key.created + SpanOf(days) = clock + days
      BY <2>1, <2>2
    <2> QED BY <1>1, <1>2, <1>4, <2>3, <2>4 DEF Spans
  <1> QED BY <1>3, <1>4

(* set_expiration takes effect on every user ID, at the time the user      *)
(* asked for, also on a certificate with certifications from the future;   *)
(* the span stored is never zero and fits its 32 bits.                     *)
THEOREM SetExpirationAlwaysTakesEffect == Spec => SetExpirationTakesEffect
  <1> DEFINE Step == \A days \in Days \cup {None} :
                 SetExpiration(days) =>
                     /\ ExpiresAt(key') = IF days = None THEN None ELSE clock + days
                     /\ Agree(key')
                     /\ Effective(key').expires \in 1 .. MaxSpan \cup {None}
                     /\ Effective(key').note = Effective(key).note
                     /\ Effective(key').sign = Effective(key).sign
  <1>1. SelfCertsInv /\ [Next]_vars => Step
    BY SetExpirationStep
  <1> QED BY <1>1, SelfCertsTypeOK, PTL DEF Spec, SetExpirationTakesEffect

LEMMA OthersAfterReplaced ==
    ASSUME NEW q \in Seq(Signatures), NEW s \in Signatures, s.self,
           NEW u, u.sigs = q, NEW w, w.sigs = Append(Kept(q), s)
    PROVE  OthersOn(w) = OthersOn(u)
  <1> DEFINE t == Kept(q)
             len == Len(t)
             a == Append(t, s)
  <1>1. /\ t \in Seq(Signatures) /\ \A j \in 1 .. len : ~ t[j].self
        /\ {t[j] : j \in 1 .. len} = KeptOf(q, Len(q))
    BY KeptIs
  <1> HIDE DEF t
  <1>2. /\ len \in Nat /\ DOMAIN a = 1 .. len + 1 /\ a[len + 1] = s
        /\ \A j \in 1 .. len : a[j] = t[j]
    BY <1>1
  <1>3. KeptOf(q, Len(q)) = OthersOn(u)
    BY DEF KeptOf, OthersOn
  <1>4. OthersOn(w) = {t[j] : j \in 1 .. len}
    <2>1. w.sigs = a
      BY DEF t
    <2> HIDE DEF a, len
    <2>2. {l \in DOMAIN a : ~ a[l].self} = 1 .. len
      BY <1>1, <1>2
    <2> QED BY <1>2, <2>1, <2>2 DEF OthersOn
  <1> QED BY <1>1, <1>3, <1>4

LEMMA OthersStep ==
    ASSUME SelfCertsInv, [Next]_vars, Len(key'.users) >= Len(key.users),
           NEW i \in DOMAIN key.users
    PROVE  OthersOn(key'.users[i]) = OthersOn(key.users[i])
  <1>0. key \in Certificates /\ clock \in 0 .. MaxTime
    BY DEF SelfCertsInv
  <1>1. ASSUME NEW days \in Days \cup {None}, SetExpiration(days)
        PROVE  OthersOn(key'.users[i]) = OthersOn(key.users[i])
    <2>1. key'.users[i].sigs = Append(Kept(key.users[i].sigs), NewCertOn(days, i))
      BY <1>0, <1>1, SetExpirationWrites
    <2>2. NewCertOn(days, i) \in Signatures /\ NewCertOn(days, i).self
      <3>1. days # None => Fits(SpanOf(days))
        BY <1>1 DEF SetExpiration, SpanOf
      <3> QED BY <1>0, <3>1, NewCertType
    <2>3. key.users[i].sigs \in Seq(Signatures)
      BY <1>0, UserType
    <2> QED BY <2>1, <2>2, <2>3, OthersAfterReplaced
  <1>2. ASSUME NEW id \in Ids, AddUserId(id)
        PROVE  OthersOn(key'.users[i]) = OthersOn(key.users[i])
    <2>1. key'.users[i] = key.users[i]
      BY <1>2, AddSays
    <2> QED BY <2>1
  <1>3. ASSUME NEW j \in 1 .. MaxIds, RemoveUserId(j) PROVE FALSE
    <2>1. Len(key'.users) = Len(key.users) - 1 /\ Len(key.users) \in Nat
      BY <1>0, <1>3, RemovedUsers DEF Certificates
    <2> QED BY <2>1
  <1>4. CASE key' = key
    BY <1>4
  <1> QED BY <1>1, <1>2, <1>3, <1>4, StepCases

(* The certifications other people made stay on every user ID that stays.  *)
THEOREM ThirdPartySigsAlwaysStay == Spec => ThirdPartySigsStay
  <1> DEFINE Step == Len(key'.users) >= Len(key.users) =>
                 \A i \in DOMAIN key.users :
                     OthersOn(key'.users[i]) = OthersOn(key.users[i])
  <1>1. SelfCertsInv /\ [Next]_vars => Step
    BY OthersStep
  <1> QED BY <1>1, SelfCertsTypeOK, PTL DEF Spec, ThirdPartySigsStay

(* Adding a user ID leaves the effective expiration, provenance and        *)
(* capabilities as they were, also if the user IDs of the certificate      *)
(* disagree, if certifications are dated in the future or the clock has    *)
(* been set back.                                                          *)
THEOREM AddAlwaysKeepsEffective == Spec => AddKeepsEffective
  <1> DEFINE Step == (\E id \in Ids : AddUserId(id)) => Effective(key') = Effective(key)
  <1>1. SelfCertsInv /\ [Next]_vars => Step
    BY AddTypeOK, AddKeeps DEF SelfCertsInv
  <1> QED BY <1>1, SelfCertsTypeOK, PTL DEF Spec, AddKeepsEffective
=============================================================================
