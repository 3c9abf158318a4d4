----------------------------- MODULE Induction ------------------------------
(***************************************************************************)
(* Induction over the natural numbers and finite intervals of them, for a  *)
(* set of numbers, and the functions that are defined by it.               *)
(***************************************************************************)
EXTENDS Integers, FiniteSetTheorems, TLAPS

(* A set of naturals has a least element.                                  *)
LEMMA LeastNatural ==
    ASSUME NEW T, T \subseteq Nat, T # {}
    PROVE  \E n \in T : \A m \in T : n <= m
  <1> DEFINE R == {p \in Nat \X Nat : p[1] < p[2]}
  <1>1. IsWellFoundedOn(R, Nat)
    BY NatLessThanWellFounded DEF OpToRel
  <1>2. PICK n \in T : \A m \in T : ~ (<<m, n>> \in R)
    <2> HIDE DEF R
    <2> QED BY <1>1, WFMin
  <1>3. ASSUME NEW m \in Nat, m < n
        PROVE  <<m, n>> \in R
    <2> DEFINE p == <<m, n>>
    <2>1. p \in Nat \X Nat /\ p[1] < p[2]
      BY <1>3
    <2> QED BY <2>1
  <1> HIDE DEF R
  <1>4. ASSUME NEW m \in T, ~ n <= m PROVE FALSE
    <2>1. m \in Nat /\ n \in Nat /\ m < n
      BY <1>4
    <2> QED BY <1>2, <1>3, <2>1
  <1> QED BY <1>4

(* A set that holds 0 and with each number the next one holds them all.    *)
LEMMA SetInduction ==
    ASSUME NEW G, 0 \in G, \A n \in Nat : n \in G => n + 1 \in G
    PROVE  \A n \in Nat : n \in G
  <1> DEFINE Bad == Nat \ G
  <1> SUFFICES ASSUME Bad # {} PROVE FALSE
    OBVIOUS
  <1>1. PICK n \in Bad : \A m \in Bad : n <= m
    <2>1. Bad \subseteq Nat
      OBVIOUS
    <2> HIDE DEF Bad
    <2> QED BY <2>1, LeastNatural
  <1>2. n # 0 /\ n \in Nat
    OBVIOUS
  <1>3. n - 1 \in Nat /\ n - 1 + 1 = n /\ ~ (n <= n - 1)
    BY <1>2
  <1>4. n - 1 \in G
    BY <1>1, <1>3
  <1> QED BY <1>3, <1>4

(* The same up to a bound, from any number on.                             *)
LEMMA IntervalInduction ==
    ASSUME NEW a \in Int, NEW b \in Int, NEW G, a \in G,
           \A n \in a .. b - 1 : n \in G => n + 1 \in G
    PROVE  \A n \in a .. b : n \in G
  <1> DEFINE H == {d \in Nat : a + d <= b => a + d \in G}
  <1>1. 0 \in H
    OBVIOUS
  <1>2. ASSUME NEW d \in Nat, d \in H PROVE d + 1 \in H
    <2> SUFFICES ASSUME a + (d + 1) <= b PROVE a + (d + 1) \in G
      OBVIOUS
    <2>1. a + d \in a .. b - 1 /\ a + d \in G /\ (a + d) + 1 = a + (d + 1)
      BY <1>2
    <2> QED BY <2>1
  <1>3. \A d \in Nat : d \in H
    <2> HIDE DEF H
    <2> QED BY <1>1, <1>2, SetInduction
  <1>4. ASSUME NEW n \in a .. b PROVE n \in G
    <2>1. n - a \in Nat /\ a + (n - a) = n /\ a + (n - a) <= b
      OBVIOUS
    <2>2. n - a \in H
      BY <1>3, <2>1
    <2> QED BY <2>1, <2>2
  <1> QED BY <1>4

(* Downwards.                                                              *)
LEMMA DownInduction ==
    ASSUME NEW a \in Int, NEW b \in Int, NEW G, b \in G,
           \A n \in a .. b - 1 : n + 1 \in G => n \in G
    PROVE  \A n \in a .. b : n \in G
  <1> DEFINE H == {d \in 0 .. b - a : b - d \in G}
  <1>0. CASE a > b
    BY <1>0
  <1>1. CASE a <= b
    <2>1. 0 \in H
      BY <1>1
    <2>2. ASSUME NEW d \in 0 .. (b - a) - 1, d \in H PROVE d + 1 \in H
      <3>1. PICK n \in a .. b - 1 : n = b - (d + 1)
        BY <1>1
      <3>2. n + 1 = b - d
        BY <3>1
      <3>3. n \in G
        BY <2>2, <3>2
      <3> QED BY <3>1, <3>3
    <2>3. \A d \in 0 .. b - a : d \in H
      <3>1. b - a \in Int
        OBVIOUS
      <3> HIDE DEF H
      <3> QED BY <2>1, <2>2, <3>1, IntervalInduction
    <2>4. ASSUME NEW n \in a .. b PROVE n \in G
      <3>1. b - n \in 0 .. b - a /\ b - (b - n) = n
        BY <1>1
      <3>2. b - n \in H
        BY <2>3, <3>1
      <3> QED BY <3>1, <3>2
    <2> QED BY <2>4
  <1> QED BY <1>0, <1>1

(* f starts with base, and step, a function, takes each value to the next. *)
Steps(f, N, T, base, step) ==
    /\ f \in [0 .. N -> T] /\ f[0] = base
    /\ \A n \in 1 .. N : f[n] = step[<<f[n - 1], n>>]

(* Such a function exists.                                                 *)
LEMMA StepFunction ==
    ASSUME NEW N \in Nat, NEW T, NEW base \in T, NEW step,
           \A t \in T, n \in 1 .. N : step[<<t, n>>] \in T
    PROVE  \E f : Steps(f, N, T, base, step)
  <1> DEFINE Upto(f, n) ==
                 /\ f \in [0 .. n -> T] /\ f[0] = base
                 /\ \A m \in 1 .. n : f[m] = step[<<f[m - 1], m>>]
             G == {n \in 0 .. N : \E f : Upto(f, n)}
  <1>1. 0 \in G
    <2> DEFINE f == [m \in 0 .. 0 |-> base]
    <2>1. Upto(f, 0)
      OBVIOUS
    <2> HIDE DEF f, Upto
    <2> QED BY <2>1
  <1>2. ASSUME NEW n \in 0 .. N - 1, n \in G PROVE n + 1 \in G
    <2>1. PICK f : Upto(f, n)
      BY <1>2
    <2> DEFINE last == step[<<f[n], n + 1>>]
               g == [m \in 0 .. n + 1 |-> IF m = n + 1 THEN last ELSE f[m]]
    <2>2. f[n] \in T /\ n + 1 \in 1 .. N
      BY <2>1
    <2>3. last \in T
      BY <2>2
    <2>4. last = step[<<f[n], n + 1>>]
      OBVIOUS
    <2> HIDE DEF last
    <2>5. g \in [0 .. n + 1 -> T]
      BY <2>1, <2>3
    <2>6. g[n + 1] = last /\ \A m \in 0 .. n : g[m] = f[m]
      OBVIOUS
    <2> HIDE DEF g
    <2>7. ASSUME NEW m \in 1 .. n + 1 PROVE g[m] = step[<<g[m - 1], m>>]
      <3>1. CASE m = n + 1
        <4>1. m - 1 = n /\ g[m - 1] = f[n]
          BY <2>6, <3>1
        <4> QED BY <2>4, <2>6, <3>1, <4>1
      <3>2. CASE m \in 1 .. n
        <4>1. g[m] = f[m] /\ g[m - 1] = f[m - 1]
          BY <2>6, <3>2
        <4> QED BY <2>1, <3>2, <4>1
      <3> QED BY <3>1, <3>2
    <2>8. g[0] = base
      BY <2>1, <2>6
    <2>9. Upto(g, n + 1)
      BY <2>5, <2>7, <2>8
    <2> HIDE DEF Upto
    <2> QED BY <2>9
  <1>3. N \in G
    <2> HIDE DEF G
    <2>1. 0 \in Int /\ N \in Int /\ N \in 0 .. N
      OBVIOUS
    <2> QED BY <1>1, <1>2, <2>1, IntervalInduction
  <1>4. PICK f : Upto(f, N)
    BY <1>3
  <1> QED BY <1>4 DEF Steps

(* Two functions that start alike and go on alike are alike.               *)
LEMMA SameSteps ==
    ASSUME NEW N \in Nat, NEW f, NEW g, f[0] = g[0],
           \A n \in 1 .. N : f[n - 1] = g[n - 1] => f[n] = g[n]
    PROVE  \A n \in 0 .. N : f[n] = g[n]
  <1> DEFINE H == {n \in 0 .. N : f[n] = g[n]}
  <1>1. 0 \in H
    OBVIOUS
  <1>2. ASSUME NEW n \in 0 .. N - 1, n \in H PROVE n + 1 \in H
    <2>1. PICK m \in 1 .. N : m = n + 1
      OBVIOUS
    <2>2. m - 1 = n /\ f[n] = g[n]
      BY <1>2, <2>1
    <2> QED BY <2>1, <2>2
  <1>3. \A n \in 0 .. N : n \in H
    <2> HIDE DEF H
    <2>1. 0 \in Int /\ N \in Int
      OBVIOUS
    <2> QED BY <1>1, <1>2, <2>1, IntervalInduction
  <1> QED BY <1>3

(* The same for hypotheses that come with a name.                          *)
StepAlike(f, g, N) ==
    /\ f[0] = g[0]
    /\ \A n \in 1 .. N : f[n - 1] = g[n - 1] => f[n] = g[n]

LEMMA AlikeThroughout ==
    ASSUME NEW N \in Nat, NEW f, NEW g, StepAlike(f, g, N)
    PROVE  \A n \in 0 .. N : f[n] = g[n]
  BY SameSteps DEF StepAlike

(* The image of a finite set is finite.                                    *)
LEMMA FiniteImage ==
    ASSUME NEW S, IsFiniteSet(S), NEW f, f = [x \in S |-> f[x]]
    PROVE  IsFiniteSet({f[x] : x \in S})
  <1> DEFINE T == {f[x] : x \in S}
  <1>1. f \in [S -> T]
    OBVIOUS
  <1>2. f \in Surjection(S, T)
    BY <1>1 DEF Surjection
  <1> HIDE DEF T
  <1>3. IsFiniteSet(T)
    BY <1>2, FS_Surjection
  <1> QED BY <1>3 DEF T
=============================================================================
