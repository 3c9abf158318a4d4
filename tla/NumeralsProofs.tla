--------------------------- MODULE NumeralsProofs ---------------------------
(***************************************************************************)
(* Arithmetic on digits: the long division by which a P-521 scalar comes   *)
(* about, the clamping of an X25519 scalar, and the packing of a seed into *)
(* words and back, for digits and words of any width and numbers of any    *)
(* length.                                                                 *)
(***************************************************************************)
EXTENDS Scalars, SeedWords, Induction, SequenceTheorems, TLAPS

-----------------------------------------------------------------------------
(* Powers. *)

PowSteps(f, b, N) ==
    /\ f \in [0 .. N -> Nat \ {0}] /\ f[0] = 1
    /\ \A n \in 1 .. N : f[n] = b * f[n - 1]

LEMMA PowExists ==
    ASSUME NEW b \in Nat \ {0}, NEW N \in Nat
    PROVE  \E f : PowSteps(f, b, N)
  <1> DEFINE T == Nat \ {0}
             step == [p \in T \X (1 .. N) |-> b * p[1]]
  <1>1. \A t \in T, n \in 1 .. N : step[<<t, n>>] = b * t /\ b * t \in T
    OBVIOUS
  <1>2. \A t \in T, n \in 1 .. N : step[<<t, n>>] \in T
    BY <1>1
  <1>3. 1 \in T
    OBVIOUS
  <1> HIDE DEF step
  <1>4. PICK f : Steps(f, N, T, 1, step)
    <2> HIDE DEF T
    <2> QED BY <1>2, <1>3, StepFunction
  <1>5. /\ f \in [0 .. N -> T] /\ f[0] = 1
        /\ \A n \in 1 .. N : f[n] = step[<<f[n - 1], n>>]
    BY <1>4 DEF Steps
  <1>6. ASSUME NEW n \in 1 .. N PROVE f[n] = b * f[n - 1]
    <2>1. n - 1 \in 0 .. N
      OBVIOUS
    <2>2. f[n - 1] \in T
      BY <1>5, <2>1
    <2> QED BY <1>1, <1>5, <2>2
  <1>7. PowSteps(f, b, N)
    BY <1>5, <1>6 DEF PowSteps
  <1> QED BY <1>7

LEMMA PowIsStep ==
    ASSUME NEW b \in Nat \ {0}, NEW N \in Nat, NEW f, PowSteps(f, b, N), NEW L \in 0 .. N
    PROVE  Pow(b, L) = f[L]
  <1> DEFINE Eq(g) == g = [i \in 0 .. L |-> IF i = 0 THEN 1 ELSE b * g[i - 1]]
             power == CHOOSE g : Eq(g)
             h == [i \in 0 .. L |-> f[i]]
  <1>1. f[0] = 1 /\ \A n \in 1 .. N : f[n] = b * f[n - 1]
    BY DEF PowSteps
  <1>2. ASSUME NEW n \in 0 .. L
        PROVE  h[n] = IF n = 0 THEN 1 ELSE b * h[n - 1]
    <2>1. CASE n = 0
      BY <1>1, <2>1
    <2>2. CASE n # 0
      <3>1. n \in 1 .. N /\ n - 1 \in 0 .. L
        BY <2>2
      <3>2. h[n - 1] = f[n - 1] /\ h[n] = f[n]
        BY <3>1
      <3> QED BY <1>1, <2>2, <3>1, <3>2
    <2> QED BY <2>1, <2>2
  <1>3. Eq(h)
    <2>1. h = [n \in 0 .. L |-> h[n]]
      OBVIOUS
    <2> HIDE DEF h
    <2> QED BY <1>2, <2>1
  <1>4. Eq(power)
    <2> HIDE DEF Eq, h
    <2> QED BY <1>3
  <1>5. Pow(b, L) = power[L]
    BY DEF Pow
  <1>6. power[0] = 1 /\ \A n \in 1 .. L : power[n] = b * power[n - 1]
    <2> HIDE DEF power
    <2> QED BY <1>4
  <1> HIDE DEF power, Eq
  <1>7. \A n \in 1 .. L : f[n - 1] = power[n - 1] => f[n] = power[n]
    <2>1. \A n \in 1 .. L : n \in 1 .. N
      OBVIOUS
    <2> QED BY <1>1, <1>6, <2>1
  <1>8. f[0] = power[0] /\ L \in Nat /\ L \in 0 .. L
    BY <1>1, <1>6
  <1>9. f[L] = power[L]
    BY <1>7, <1>8, SameSteps
  <1> QED BY <1>5, <1>9

LEMMA PowIs ==
    ASSUME NEW b \in Nat \ {0}
    PROVE  /\ Pow(b, 0) = 1
           /\ \A n \in Nat : Pow(b, n) \in Nat \ {0}
           /\ \A n \in Nat \ {0} : Pow(b, n) = b * Pow(b, n - 1)
  <1>1. ASSUME NEW n \in Nat
        PROVE  /\ Pow(b, 0) = 1 /\ Pow(b, n) \in Nat \ {0}
               /\ n # 0 => Pow(b, n) = b * Pow(b, n - 1)
    <2>1. PICK f : PowSteps(f, b, n)
      BY PowExists
    <2>2. \A m \in 0 .. n : Pow(b, m) = f[m]
      BY <2>1, PowIsStep
    <2>3. /\ f \in [0 .. n -> Nat \ {0}] /\ f[0] = 1
          /\ \A m \in 1 .. n : f[m] = b * f[m - 1]
      BY <2>1 DEF PowSteps
    <2>4. 0 \in 0 .. n /\ n \in 0 .. n
      OBVIOUS
    <2>5. Pow(b, 0) = 1 /\ Pow(b, n) \in Nat \ {0}
      BY <2>2, <2>3, <2>4
    <2>6. ASSUME n # 0 PROVE Pow(b, n) = b * Pow(b, n - 1)
      <3>1. n - 1 \in 0 .. n /\ n \in 1 .. n
        BY <2>6
      <3>2. Pow(b, n) = f[n] /\ Pow(b, n - 1) = f[n - 1]
        BY <2>2, <2>4, <3>1
      <3> QED BY <2>3, <3>1, <3>2
    <2> QED BY <2>5, <2>6
  <1>2. 0 \in Nat
    OBVIOUS
  <1> QED BY <1>1, <1>2

(* Multiplying adds the exponents.                                         *)
LEMMA PowAdd ==
    ASSUME NEW b \in Nat \ {0}, NEW m \in Nat, NEW n \in Nat
    PROVE  Pow(b, m + n) = Pow(b, m) * Pow(b, n)
  <1> DEFINE G == {k \in 0 .. n : Pow(b, m + k) = Pow(b, m) * Pow(b, k)}
  <1>1. 0 \in G
    <2>1. Pow(b, 0) = 1 /\ Pow(b, m) \in Nat
      BY PowIs
    <2> QED BY <2>1
  <1>2. ASSUME NEW k \in 0 .. n - 1, k \in G PROVE k + 1 \in G
    <2>1. PICK j \in Nat \ {0} : j = k + 1
      OBVIOUS
    <2>2. PICK i \in Nat \ {0} : i = m + j
      OBVIOUS
    <2>3. j - 1 = k /\ i - 1 = m + k /\ k \in Nat /\ m + k \in Nat
      BY <2>1, <2>2
    <2>4. Pow(b, j) = b * Pow(b, k) /\ Pow(b, i) = b * Pow(b, m + k)
      BY <2>3, PowIs
    <2>5. Pow(b, m + k) = Pow(b, m) * Pow(b, k)
      BY <1>2
    <2> DEFINE x == Pow(b, m)
               y == Pow(b, k)
    <2>6. x \in Nat /\ y \in Nat
      BY <2>3, PowIs
    <2> HIDE DEF x, y
    <2>7. b * (x * y) = x * (b * y)
      BY <2>6
    <2>8. Pow(b, m + j) = Pow(b, m) * Pow(b, j)
      BY <2>2, <2>4, <2>5, <2>7 DEF x, y
    <2>9. j \in 0 .. n
      BY <2>1
    <2> QED BY <2>1, <2>8, <2>9
  <1>3. \A k \in 0 .. n : k \in G
    <2> HIDE DEF G
    <2> QED BY <1>1, <1>2, IntervalInduction
  <1>4. n \in 0 .. n
    OBVIOUS
  <1> QED BY <1>3, <1>4

LEMMA PowGrows ==
    ASSUME NEW b \in Nat \ {0}, NEW m \in Nat, NEW n \in Nat, m <= n
    PROVE  Pow(b, m) <= Pow(b, n)
  <1>1. n - m \in Nat /\ m + (n - m) = n
    OBVIOUS
  <1>2. Pow(b, n) = Pow(b, m) * Pow(b, n - m)
    BY <1>1, PowAdd
  <1>3. Pow(b, m) \in Nat \ {0} /\ Pow(b, n - m) \in Nat \ {0}
    BY <1>1, PowIs
  <1> DEFINE x == Pow(b, m)
             y == Pow(b, n - m)
  <1>4. x \in Nat \ {0} /\ y \in Nat \ {0}
    BY <1>3
  <1> HIDE DEF x, y
  <1>5. x <= x * y
    BY <1>4
  <1> QED BY <1>2, <1>5 DEF x, y

(* A power of a power.                                                     *)
LEMMA PowTimes ==
    ASSUME NEW b \in Nat \ {0}, NEW w \in Nat, NEW n \in Nat
    PROVE  Pow(Pow(b, w), n) = Pow(b, w * n)
  <1> DEFINE c == Pow(b, w)
             G == {k \in 0 .. n : Pow(c, k) = Pow(b, w * k)}
  <1>0. c \in Nat \ {0}
    BY PowIs
  <1>1. 0 \in G
    <2>1. Pow(b, 0) = 1 /\ w * 0 = 0
      BY PowIs
    <2> HIDE DEF c
    <2>2. Pow(c, 0) = 1
      BY <1>0, PowIs
    <2> QED BY <2>1, <2>2
  <1>2. ASSUME NEW k \in 0 .. n - 1, k \in G PROVE k + 1 \in G
    <2>1. PICK j \in Nat \ {0} : j = k + 1
      OBVIOUS
    <2>2. w * j = w + w * k /\ w * k \in Nat /\ j - 1 = k
      BY <2>1
    <2>3. Pow(b, w * j) = c * Pow(b, w * k)
      BY <2>2, PowAdd
    <2> HIDE DEF c
    <2>4. Pow(c, j) = c * Pow(c, k)
      BY <1>0, <2>2, PowIs
    <2>5. Pow(c, k) = Pow(b, w * k)
      BY <1>2
    <2>6. j \in 0 .. n
      BY <2>1
    <2> QED BY <2>1, <2>3, <2>4, <2>5, <2>6
  <1>3. \A k \in 0 .. n : k \in G
    <2> HIDE DEF G
    <2> QED BY <1>1, <1>2, IntervalInduction
  <1>4. n \in 0 .. n
    OBVIOUS
  <1> QED BY <1>3, <1>4
-----------------------------------------------------------------------------
(* The number that digits stand for. *)

ValueSteps(f, a, b, N) ==
    /\ f \in [0 .. N -> Int] /\ f[0] = 0
    /\ \A n \in 1 .. N : f[n] = f[n - 1] * b + a[n]

LEMMA ValueExists ==
    ASSUME NEW N \in Nat, NEW a, \A i \in 1 .. N : a[i] \in Int, NEW b \in Int
    PROVE  \E f : ValueSteps(f, a, b, N)
  <1> DEFINE step == [p \in Int \X (1 .. N) |-> p[1] * b + a[p[2]]]
  <1>1. \A t \in Int, n \in 1 .. N : step[<<t, n>>] = t * b + a[n] /\ t * b + a[n] \in Int
    OBVIOUS
  <1>2. \A t \in Int, n \in 1 .. N : step[<<t, n>>] \in Int
    BY <1>1
  <1> HIDE DEF step
  <1> DEFINE T == Int
  <1>4. PICK f : Steps(f, N, T, 0, step)
    <2>1. 0 \in T /\ \A t \in T, n \in 1 .. N : step[<<t, n>>] \in T
      BY <1>2
    <2> HIDE DEF T
    <2> QED BY <2>1, StepFunction
  <1>5. /\ f \in [0 .. N -> Int] /\ f[0] = 0
        /\ \A n \in 1 .. N : f[n] = step[<<f[n - 1], n>>]
    BY <1>4 DEF Steps
  <1>6. ASSUME NEW n \in 1 .. N PROVE f[n] = f[n - 1] * b + a[n]
    <2>1. n - 1 \in 0 .. N
      OBVIOUS
    <2>2. f[n - 1] \in Int
      BY <1>5, <2>1
    <2> QED BY <1>1, <1>5, <2>2
  <1>7. ValueSteps(f, a, b, N)
    BY <1>5, <1>6 DEF ValueSteps
  <1> QED BY <1>7

LEMMA ValueIsStep ==
    ASSUME NEW N \in Nat, NEW a, NEW b \in Int, NEW f, ValueSteps(f, a, b, N),
           NEW L \in 0 .. N
    PROVE  Value(a, b, L) = f[L]
  <1> DEFINE Eq(g) == g = [i \in 0 .. L |-> IF i = 0 THEN 0 ELSE g[i - 1] * b + a[i]]
             value == CHOOSE g : Eq(g)
             h == [i \in 0 .. L |-> f[i]]
  <1>1. f[0] = 0 /\ \A n \in 1 .. N : f[n] = f[n - 1] * b + a[n]
    BY DEF ValueSteps
  <1>2. ASSUME NEW n \in 0 .. L
        PROVE  h[n] = IF n = 0 THEN 0 ELSE h[n - 1] * b + a[n]
    <2>1. CASE n = 0
      BY <1>1, <2>1
    <2>2. CASE n # 0
      <3>1. n \in 1 .. N /\ n - 1 \in 0 .. L
        BY <2>2
      <3>2. h[n - 1] = f[n - 1] /\ h[n] = f[n]
        BY <3>1
      <3> QED BY <1>1, <2>2, <3>1, <3>2
    <2> QED BY <2>1, <2>2
  <1>3. Eq(h)
    <2>1. h = [n \in 0 .. L |-> h[n]]
      OBVIOUS
    <2> HIDE DEF h
    <2> QED BY <1>2, <2>1
  <1>4. Eq(value)
    <2> HIDE DEF Eq, h
    <2> QED BY <1>3
  <1>5. Value(a, b, L) = value[L]
    BY DEF Value
  <1>6. value[0] = 0 /\ \A n \in 1 .. L : value[n] = value[n - 1] * b + a[n]
    <2> HIDE DEF value
    <2> QED BY <1>4
  <1> HIDE DEF value, Eq
  <1>7. \A n \in 1 .. L : f[n - 1] = value[n - 1] => f[n] = value[n]
    <2>1. \A n \in 1 .. L : n \in 1 .. N
      OBVIOUS
    <2> QED BY <1>1, <1>6, <2>1
  <1>8. f[0] = value[0] /\ L \in Nat /\ L \in 0 .. L
    BY <1>1, <1>6
  <1>9. f[L] = value[L]
    BY <1>7, <1>8, SameSteps
  <1> QED BY <1>5, <1>9

LEMMA ValueIs ==
    ASSUME NEW N \in Nat, NEW a, \A i \in 1 .. N : a[i] \in Int, NEW b \in Int
    PROVE  /\ Value(a, b, 0) = 0
           /\ \A n \in 0 .. N : Value(a, b, n) \in Int
           /\ \A n \in 1 .. N : Value(a, b, n) = Value(a, b, n - 1) * b + a[n]
  <1>1. PICK f : ValueSteps(f, a, b, N)
    BY ValueExists
  <1>2. \A n \in 0 .. N : Value(a, b, n) = f[n]
    BY <1>1, ValueIsStep
  <1>3. /\ f \in [0 .. N -> Int] /\ f[0] = 0
        /\ \A n \in 1 .. N : f[n] = f[n - 1] * b + a[n]
    BY <1>1 DEF ValueSteps
  <1>4. 0 \in 0 .. N
    OBVIOUS
  <1>5. ASSUME NEW n \in 1 .. N PROVE Value(a, b, n) = Value(a, b, n - 1) * b + a[n]
    <2>1. n \in 0 .. N /\ n - 1 \in 0 .. N
      OBVIOUS
    <2> QED BY <1>2, <1>3, <2>1
  <1> QED BY <1>2, <1>3, <1>4, <1>5

(* Alike digits make alike numbers.                                        *)
LEMMA ValueSame ==
    ASSUME NEW N \in Nat, NEW a, \A i \in 1 .. N : a[i] \in Int, NEW b \in Int,
           NEW c, \A i \in 1 .. N : c[i] = a[i]
    PROVE  Value(a, b, N) = Value(c, b, N)
  <1> DEFINE G == {n \in 0 .. N : Value(a, b, n) = Value(c, b, n)}
  <1>1. /\ Value(a, b, 0) = 0
        /\ \A n \in 1 .. N : Value(a, b, n) = Value(a, b, n - 1) * b + a[n]
    BY ValueIs
  <1>2. /\ Value(c, b, 0) = 0
        /\ \A n \in 1 .. N : Value(c, b, n) = Value(c, b, n - 1) * b + c[n]
    <2>1. \A i \in 1 .. N : c[i] \in Int
      OBVIOUS
    <2> QED BY <2>1, ValueIs
  <1>3. 0 \in G
    BY <1>1, <1>2
  <1>4. ASSUME NEW n \in 0 .. N - 1, n \in G PROVE n + 1 \in G
    <2>1. PICK m \in 1 .. N : m = n + 1
      OBVIOUS
    <2>2. m - 1 = n /\ c[m] = a[m]
      BY <2>1
    <2>3. Value(a, b, m) = Value(a, b, n) * b + a[m] /\ Value(c, b, m) = Value(c, b, n) * b + c[m]
      BY <1>1, <1>2, <2>2
    <2> QED BY <1>4, <2>1, <2>2, <2>3
  <1>5. \A n \in 0 .. N : n \in G
    <2> HIDE DEF G
    <2> QED BY <1>3, <1>4, IntervalInduction
  <1>6. N \in 0 .. N
    OBVIOUS
  <1> QED BY <1>5, <1>6

(* n digits make a number below the n-th power of the base.                *)
LEMMA ValueBounds ==
    ASSUME NEW N \in Nat, NEW b \in Nat \ {0}, NEW a, \A i \in 1 .. N : a[i] \in 0 .. b - 1
    PROVE  \A n \in 0 .. N : Value(a, b, n) \in Nat /\ Value(a, b, n) < Pow(b, n)
  <1> DEFINE G == {n \in 0 .. N : Value(a, b, n) \in Nat /\ Value(a, b, n) < Pow(b, n)}
  <1>1. /\ Value(a, b, 0) = 0
        /\ \A n \in 1 .. N : Value(a, b, n) = Value(a, b, n - 1) * b + a[n]
    <2>1. \A i \in 1 .. N : a[i] \in Int
      OBVIOUS
    <2> QED BY <2>1, ValueIs
  <1>2. 0 \in G
    BY <1>1, PowIs
  <1>3. ASSUME NEW n \in 0 .. N - 1, n \in G PROVE n + 1 \in G
    <2>1. PICK m \in 1 .. N : m = n + 1
      OBVIOUS
    <2>2. m - 1 = n /\ m \in Nat \ {0} /\ n \in Nat
      BY <2>1
    <2> DEFINE v == Value(a, b, n)
               w == Value(a, b, m)
               p == Pow(b, n)
               q == Pow(b, m)
    <2>3. w = v * b + a[m]
      BY <1>1, <2>2
    <2>4. q = b * p /\ p \in Nat
      BY <2>2, PowIs
    <2>5. v \in Nat /\ v < p
      BY <1>3
    <2>6. a[m] \in 0 .. b - 1
      OBVIOUS
    <2> DEFINE d == a[m]
    <2> HIDE DEF v, w, p, q, d
    <2>7. d \in 0 .. b - 1 /\ w = v * b + d
      BY <2>3, <2>6 DEF d
    <2>8. v + 1 <= p
      BY <2>4, <2>5
    <2>9. (v + 1) * b <= p * b
      BY <2>4, <2>5, <2>8
    <2>10. v * b + d < (v + 1) * b /\ v * b + d \in Nat
      BY <2>5, <2>7
    <2>11. w \in Nat /\ w < q
      BY <2>4, <2>5, <2>7, <2>9, <2>10
    <2> QED BY <2>1, <2>11 DEF w, q
  <1>4. \A n \in 0 .. N : n \in G
    <2> HIDE DEF G
    <2> QED BY <1>2, <1>3, IntervalInduction
  <1> QED BY <1>4

(* The first m digits weigh more than the n after them.                    *)
LEMMA ValueSplit ==
    ASSUME NEW m \in Nat, NEW n \in Nat, NEW b \in Nat \ {0},
           NEW a, \A i \in 1 .. m + n : a[i] \in Int,
           NEW c, \A i \in 1 .. n : c[i] = a[m + i]
    PROVE  Value(a, b, m + n) = Value(a, b, m) * Pow(b, n) + Value(c, b, n)
  <1> DEFINE G == {k \in 0 .. n : Value(a, b, m + k) = Value(a, b, m) * Pow(b, k) + Value(c, b, k)}
  <1>1. /\ \A k \in 0 .. m + n : Value(a, b, k) \in Int
        /\ \A k \in 1 .. m + n : Value(a, b, k) = Value(a, b, k - 1) * b + a[k]
    <2>1. m + n \in Nat
      OBVIOUS
    <2> QED BY <2>1, ValueIs
  <1>2. /\ Value(c, b, 0) = 0 /\ \A k \in 0 .. n : Value(c, b, k) \in Int
        /\ \A k \in 1 .. n : Value(c, b, k) = Value(c, b, k - 1) * b + c[k]
    <2>1. \A i \in 1 .. n : m + i \in 1 .. m + n
      OBVIOUS
    <2>2. \A i \in 1 .. n : c[i] \in Int
      BY <2>1
    <2>3. n \in Nat /\ b \in Int
      OBVIOUS
    <2> QED BY ONLY <2>2, <2>3, ValueIs
  <1>3. 0 \in G
    <2>1. Value(a, b, m) \in Int /\ Pow(b, 0) = 1
      <3>1. m \in 0 .. m + n
        OBVIOUS
      <3> QED BY <1>1, <3>1, PowIs
    <2> QED BY <1>2, <2>1
  <1>4. ASSUME NEW k \in 0 .. n - 1, k \in G PROVE k + 1 \in G
    <2>1. PICK j \in 1 .. n : j = k + 1
      OBVIOUS
    <2>2. PICK i \in 1 .. m + n : i = m + j
      OBVIOUS
    <2>3. j - 1 = k /\ i - 1 = m + k /\ j \in Nat \ {0} /\ k \in Nat
          /\ k \in 0 .. n /\ m \in 0 .. m + n
      BY <2>1, <2>2
    <2> DEFINE x == Value(a, b, m)
               p == Pow(b, k)
               z == Value(c, b, k)
               d == a[i]
    <2>4. x \in Int /\ p \in Nat /\ z \in Int /\ d \in Int
      BY <1>1, <1>2, <2>3, PowIs
    <2>5. Value(a, b, i) = (x * p + z) * b + d
      BY <1>1, <1>4, <2>3
    <2>6. Value(c, b, j) = z * b + d
      BY <1>2, <2>2, <2>3
    <2>7. Pow(b, j) = b * p
      BY <2>3, PowIs
    <2> HIDE DEF x, p, z, d
    <2>8. (x * p + z) * b + d = x * (b * p) + (z * b + d)
      BY <2>4
    <2>9. Value(a, b, m + j) = x * Pow(b, j) + Value(c, b, j)
      BY <2>2, <2>5, <2>6, <2>7, <2>8
    <2> QED BY <2>1, <2>9 DEF x
  <1>5. \A k \in 0 .. n : k \in G
    <2> HIDE DEF G
    <2> QED BY <1>3, <1>4, IntervalInduction
  <1>6. n \in 0 .. n
    OBVIOUS
  <1> QED BY <1>5, <1>6
(* What each place passes on to the one before it cancels out, but for     *)
(* what leaves the first one.                                              *)
LEMMA CarryIs ==
    ASSUME NEW N \in Nat, NEW b \in Nat \ {0},
           NEW t, \A i \in 1 .. N : t[i] \in Int,
           NEW out, \A i \in 1 .. N : out[i] \in Int,
           NEW k, \A i \in 0 .. N : k[i] \in Int,
           \A i \in 1 .. N : t[i] + k[i] = out[i] + b * k[i - 1]
    PROVE  Value(out, b, N) = Value(t, b, N) + k[N] - k[0] * Pow(b, N)
  <1> DEFINE G == {n \in 0 .. N :
                      Value(out, b, n) = Value(t, b, n) + k[n] - k[0] * Pow(b, n)}
  <1>1. /\ Value(t, b, 0) = 0 /\ \A n \in 0 .. N : Value(t, b, n) \in Int
        /\ \A n \in 1 .. N : Value(t, b, n) = Value(t, b, n - 1) * b + t[n]
    <2>1. N \in Nat /\ b \in Int /\ \A i \in 1 .. N : t[i] \in Int
      OBVIOUS
    <2> QED BY ONLY <2>1, ValueIs
  <1>2. /\ Value(out, b, 0) = 0 /\ \A n \in 0 .. N : Value(out, b, n) \in Int
        /\ \A n \in 1 .. N : Value(out, b, n) = Value(out, b, n - 1) * b + out[n]
    <2>1. N \in Nat /\ b \in Int /\ \A i \in 1 .. N : out[i] \in Int
      OBVIOUS
    <2> QED BY ONLY <2>1, ValueIs
  <1>3. 0 \in G
    <2>1. Pow(b, 0) = 1 /\ k[0] \in Int
      BY PowIs
    <2> QED BY <1>1, <1>2, <2>1
  <1>4. ASSUME NEW n \in 0 .. N - 1, n \in G PROVE n + 1 \in G
    <2>1. PICK m \in 1 .. N : m = n + 1
      OBVIOUS
    <2>2. m - 1 = n /\ m \in Nat \ {0} /\ n \in Nat /\ n \in 0 .. N /\ 0 \in 0 .. N /\ m \in 0 .. N
      BY <2>1
    <2> DEFINE x == Value(t, b, n)
               p == Pow(b, n)
               l == k[n]
               j == k[m]
               z == k[0]
               d == t[m]
               o == out[m]
    <2>3. x \in Int /\ p \in Nat /\ l \in Int /\ j \in Int /\ z \in Int /\ d \in Int /\ o \in Int
      BY <1>1, <2>2, PowIs
    <2>4. Value(out, b, m) = (x + l - z * p) * b + o
      BY <1>2, <1>4, <2>2
    <2>5. Value(t, b, m) = x * b + d /\ Pow(b, m) = b * p
      BY <1>1, <2>2, PowIs
    <2>6. d + j = o + b * l
      BY <2>2
    <2> HIDE DEF x, p, l, j, z, d, o
    <2>7. (x + l - z * p) * b + o = (x * b + d) + j - z * (b * p)
      <3>1. (x + l - z * p) * b = x * b + b * l - z * (b * p)
        BY <2>3
      <3> QED BY <2>3, <2>6, <3>1
    <2>8. Value(out, b, m) = Value(t, b, m) + k[m] - k[0] * Pow(b, m)
      BY <2>4, <2>5, <2>7 DEF j, z
    <2> QED BY <2>1, <2>2, <2>8
  <1>5. \A n \in 0 .. N : n \in G
    <2> HIDE DEF G
    <2> QED BY <1>3, <1>4, IntervalInduction
  <1>6. N \in 0 .. N
    OBVIOUS
  <1> QED BY <1>5, <1>6

(* The same for hypotheses that come with a name.                          *)
Splits(a, c, m, n) ==
    /\ \A i \in 1 .. m + n : a[i] \in Int
    /\ \A i \in 1 .. n : c[i] = a[m + i]

LEMMA ValueSplits ==
    ASSUME NEW m \in Nat, NEW n \in Nat, NEW b \in Nat \ {0}, NEW a, NEW c, Splits(a, c, m, n)
    PROVE  Value(a, b, m + n) = Value(a, b, m) * Pow(b, n) + Value(c, b, n)
  BY ValueSplit DEF Splits

(* A multiple of digits and another one, digit by digit.                   *)
LEMMA ValueLinear ==
    ASSUME NEW N \in Nat, NEW b \in Int, NEW x \in Int, NEW y \in Int,
           NEW a, \A i \in 1 .. N : a[i] \in Int,
           NEW c, \A i \in 1 .. N : c[i] \in Int,
           NEW u, \A i \in 1 .. N : u[i] = x * a[i] + y * c[i]
    PROVE  Value(u, b, N) = x * Value(a, b, N) + y * Value(c, b, N)
  <1> DEFINE G == {n \in 0 .. N : Value(u, b, n) = x * Value(a, b, n) + y * Value(c, b, n)}
  <1>1. /\ Value(a, b, 0) = 0 /\ \A n \in 0 .. N : Value(a, b, n) \in Int
        /\ \A n \in 1 .. N : Value(a, b, n) = Value(a, b, n - 1) * b + a[n]
    BY ValueIs
  <1>2. /\ Value(c, b, 0) = 0 /\ \A n \in 0 .. N : Value(c, b, n) \in Int
        /\ \A n \in 1 .. N : Value(c, b, n) = Value(c, b, n - 1) * b + c[n]
    BY ValueIs
  <1>3. /\ Value(u, b, 0) = 0
        /\ \A n \in 1 .. N : Value(u, b, n) = Value(u, b, n - 1) * b + u[n]
    <2>1. \A i \in 1 .. N : u[i] \in Int
      <3> SUFFICES ASSUME NEW i \in 1 .. N PROVE u[i] \in Int
        OBVIOUS
      <3> DEFINE d == a[i]
                 e == c[i]
      <3>1. d \in Int /\ e \in Int /\ u[i] = x * d + y * e
        OBVIOUS
      <3> HIDE DEF d, e
      <3>2. x * d + y * e \in Int
        BY <3>1
      <3> QED BY <3>1, <3>2
    <2> QED BY <2>1, ValueIs
  <1>4. 0 \in G
    BY <1>1, <1>2, <1>3
  <1>5. ASSUME NEW n \in 0 .. N - 1, n \in G PROVE n + 1 \in G
    <2>1. PICK m \in 1 .. N : m = n + 1
      OBVIOUS
    <2>2. m - 1 = n /\ n \in 0 .. N /\ m \in 0 .. N
      BY <2>1
    <2> DEFINE v == Value(a, b, n)
               w == Value(c, b, n)
               d == a[m]
               e == c[m]
    <2>3. v \in Int /\ w \in Int /\ d \in Int /\ e \in Int
      BY <1>1, <1>2, <2>2
    <2>4. Value(u, b, m) = (x * v + y * w) * b + (x * d + y * e)
      BY <1>3, <1>5, <2>2
    <2>5. Value(a, b, m) = v * b + d /\ Value(c, b, m) = w * b + e
      BY <1>1, <1>2, <2>2
    <2> HIDE DEF v, w, d, e
    <2>6. (x * v + y * w) * b + (x * d + y * e) = x * (v * b + d) + y * (w * b + e)
      BY <2>3
    <2>7. Value(u, b, m) = x * Value(a, b, m) + y * Value(c, b, m)
      BY <2>4, <2>5, <2>6
    <2> QED BY <2>1, <2>2, <2>7
  <1>6. \A n \in 0 .. N : n \in G
    <2> HIDE DEF G
    <2> QED BY <1>4, <1>5, IntervalInduction
  <1>7. N \in 0 .. N
    OBVIOUS
  <1> QED BY <1>6, <1>7

(* The first place at which digits differ decides.                         *)
LEMMA ValueLess ==
    ASSUME NEW N \in Nat, NEW b \in Nat \ {0},
           NEW a, \A i \in 1 .. N : a[i] \in 0 .. b - 1,
           NEW c, \A i \in 1 .. N : c[i] \in 0 .. b - 1,
           NEW p \in 1 .. N, \A i \in 1 .. p - 1 : a[i] = c[i], a[p] < c[p]
    PROVE  Value(a, b, N) < Value(c, b, N)
  <1> DEFINE G == {n \in p .. N : Value(a, b, n) + 1 <= Value(c, b, n)}
  <1>0. (\A i \in 1 .. N : a[i] \in Int) /\ (\A i \in 1 .. N : c[i] \in Int)
    OBVIOUS
  <1>1. /\ Value(a, b, 0) = 0 /\ \A n \in 0 .. N : Value(a, b, n) \in Int
        /\ \A n \in 1 .. N : Value(a, b, n) = Value(a, b, n - 1) * b + a[n]
    BY <1>0, ValueIs
  <1>2. /\ Value(c, b, 0) = 0 /\ \A n \in 0 .. N : Value(c, b, n) \in Int
        /\ \A n \in 1 .. N : Value(c, b, n) = Value(c, b, n - 1) * b + c[n]
    BY <1>0, ValueIs
  <1>3. p \in G
    <2> DEFINE q == p - 1
    <2>1. q \in Nat /\ q \in 0 .. N /\ \A i \in 1 .. q : i \in 1 .. N /\ a[i] = c[i]
      OBVIOUS
    <2>2. Value(a, b, q) = Value(c, b, q)
      <3> HIDE DEF q
      <3>1. b \in Int /\ \A i \in 1 .. q : a[i] \in Int
        BY <1>0, <2>1
      <3>2. \A i \in 1 .. q : c[i] = a[i]
        BY <2>1
      <3> QED BY ONLY <2>1, <3>1, <3>2, ValueSame
    <2>3. /\ Value(a, b, p) = Value(a, b, q) * b + a[p]
          /\ Value(c, b, p) = Value(c, b, q) * b + c[p]
      BY <1>1, <1>2
    <2> DEFINE x == Value(a, b, q)
               y == x * b
    <2>4. x \in Int /\ y \in Int /\ a[p] \in Int /\ c[p] \in Int /\ a[p] + 1 <= c[p]
      BY <1>0, <1>1, <2>1
    <2>5. Value(a, b, p) = y + a[p] /\ Value(c, b, p) = y + c[p]
      BY <2>2, <2>3
    <2> HIDE DEF y
    <2> QED BY <2>4, <2>5
  <1>4. ASSUME NEW n \in p .. N - 1, n \in G PROVE n + 1 \in G
    <2>1. PICK m \in 1 .. N : m = n + 1
      OBVIOUS
    <2>2. m - 1 = n /\ n \in 0 .. N /\ m \in p .. N
      BY <2>1
    <2> DEFINE v == Value(a, b, n)
               w == Value(c, b, n)
               d == a[m]
               e == c[m]
    <2>3. v \in Int /\ w \in Int /\ v + 1 <= w /\ d \in 0 .. b - 1 /\ e \in 0 .. b - 1
      BY <1>1, <1>2, <1>4, <2>2
    <2>4. Value(a, b, m) = v * b + d /\ Value(c, b, m) = w * b + e
      BY <1>1, <1>2, <2>2
    <2> HIDE DEF v, w, d, e
    <2>5. (v + 1) * b <= w * b
      BY <2>3
    <2>6. (v + 1) * b = v * b + b /\ v * b \in Int /\ w * b \in Int
      BY <2>3
    <2>7. v * b + d + 1 <= w * b + e
      BY <2>3, <2>5, <2>6
    <2> QED BY <2>1, <2>2, <2>4, <2>7
  <1>5. \A n \in p .. N : n \in G
    <2> HIDE DEF G
    <2> QED BY <1>3, <1>4, IntervalInduction
  <1>6. N \in p .. N
    OBVIOUS
  <1>7. Value(a, b, N) + 1 <= Value(c, b, N)
    BY <1>5, <1>6
  <1>8. N \in 0 .. N
    OBVIOUS
  <1> QED BY <1>1, <1>2, <1>7, <1>8

(* Digits that differ differ at a first place.                             *)
LEMMA FirstDifference ==
    ASSUME NEW N \in Nat, NEW a, NEW c, \E i \in 1 .. N : a[i] # c[i]
    PROVE  \E p \in 1 .. N : a[p] # c[p] /\ \A i \in 1 .. p - 1 : a[i] = c[i]
  <1> DEFINE D == {i \in 1 .. N : a[i] # c[i]}
  <1>1. D \subseteq Nat /\ D # {}
    OBVIOUS
  <1>2. PICK p \in D : \A i \in D : p <= i
    <2> HIDE DEF D
    <2> QED BY <1>1, LeastNatural
  <1>3. \A i \in 1 .. p - 1 : i \in 1 .. N /\ ~ p <= i
    OBVIOUS
  <1> QED BY <1>2, <1>3

(* A number has one string of digits of a length.                          *)
LEMMA ValueInjective ==
    ASSUME NEW N \in Nat, NEW b \in Nat \ {0},
           NEW a, \A i \in 1 .. N : a[i] \in 0 .. b - 1,
           NEW c, \A i \in 1 .. N : c[i] \in 0 .. b - 1,
           Value(a, b, N) = Value(c, b, N)
    PROVE  \A i \in 1 .. N : a[i] = c[i]
  <1> SUFFICES ASSUME \E i \in 1 .. N : a[i] # c[i] PROVE FALSE
    OBVIOUS
  <1>1. PICK p \in 1 .. N : a[p] # c[p] /\ \A i \in 1 .. p - 1 : a[i] = c[i]
    BY FirstDifference
  <1>2. Value(a, b, N) \in Int
    <2>1. (\A i \in 1 .. N : a[i] \in Int) /\ N \in 0 .. N
      OBVIOUS
    <2>2. \A n \in 0 .. N : Value(a, b, n) \in Int
      BY ONLY N \in Nat, b \in Int, <2>1, ValueIs
    <2> QED BY <2>1, <2>2
  <1>3. a[p] \in Int /\ c[p] \in Int
    OBVIOUS
  <1>4. CASE a[p] < c[p]
    <2>1. Value(a, b, N) < Value(c, b, N)
      BY <1>1, <1>4, ValueLess
    <2> QED BY <1>2, <2>1
  <1>5. CASE c[p] < a[p]
    <2>1. \A i \in 1 .. p - 1 : c[i] = a[i]
      BY <1>1
    <2>2. Value(c, b, N) < Value(a, b, N)
      BY <1>5, <2>1, ValueLess
    <2> QED BY <1>2, <2>2
  <1> QED BY <1>1, <1>3, <1>4, <1>5
-----------------------------------------------------------------------------
(* Division. *)

LEMMA DivModIs ==
    ASSUME NEW b \in Nat \ {0}, NEW x \in Int
    PROVE  /\ x \div b \in Int /\ (x % b) \in 0 .. b - 1
           /\ x = (x \div b) * b + (x % b)
           /\ x \in Nat => x \div b \in Nat
  OBVIOUS

LEMMA DivModUnique ==
    ASSUME NEW b \in Nat \ {0}, NEW q \in Int, NEW r \in 0 .. b - 1
    PROVE  (q * b + r) \div b = q /\ (q * b + r) % b = r
  <1> DEFINE x == q * b + r
             p == x \div b
             s == x % b
  <1>1. x \in Int
    OBVIOUS
  <1>2. p \in Int /\ s \in 0 .. b - 1 /\ x = p * b + s
    <2> HIDE DEF x
    <2> QED BY <1>1, DivModIs
  <1>3. x = q * b + r
    OBVIOUS
  <1> HIDE DEF x, p, s
  <1>4. (p - q) * b = r - s
    BY <1>2, <1>3
  <1>5. p = q
    <2>1. CASE p - q >= 1
      <3>1. (p - q) * b >= b
        BY <1>2, <2>1
      <3> QED BY <1>2, <1>4, <3>1
    <2>2. CASE p - q <= -1
      <3>1. (p - q) * b <= - b
        BY <1>2, <2>2
      <3> QED BY <1>2, <1>4, <3>1
    <2> QED BY <1>2, <2>1, <2>2
  <1>6. s = r
    BY <1>2, <1>3, <1>5
  <1> QED BY <1>5, <1>6 DEF x, p, s
-----------------------------------------------------------------------------
(* The arithmetic on bytes. *)

Half == Pow(2, LimbBits - 1)

LEMMA BaseIs ==
    /\ Base \in Nat \ {0} /\ Base >= 2 /\ Half \in Nat \ {0} /\ Base = 2 * Half
    /\ LimbBits \in Nat \ {0}
  <1>1. LimbBits \in Nat \ {0} /\ LimbBits - 1 \in Nat
    BY ScalarsAssumption
  <1>2. Pow(2, LimbBits) = 2 * Pow(2, LimbBits - 1) /\ Pow(2, LimbBits - 1) \in Nat \ {0}
    BY <1>1, PowIs
  <1> QED BY <1>1, <1>2 DEF Base, Half

LEMMA DigitsIs ==
    ASSUME NEW N \in Nat, NEW a \in [1 .. N -> Digits]
    PROVE  /\ a \in Seq(Digits) /\ Len(a) = N
           /\ \A i \in 1 .. N : a[i] \in 0 .. Base - 1 /\ a[i] \in Int
           /\ Number(a, LimbBits) = Value(a, Base, N)
           /\ Value(a, Base, N) \in Nat /\ Value(a, Base, N) < Pow(Base, N)
  <1>1. a \in Seq(Digits) /\ Len(a) = N
    OBVIOUS
  <1>2. \A i \in 1 .. N : a[i] \in 0 .. Base - 1
    BY DEF Digits
  <1>3. \A i \in 1 .. N : a[i] \in Int
    BY <1>2, BaseIs
  <1>4. Number(a, LimbBits) = Value(a, Base, N)
    BY <1>1 DEF Number, Base
  <1>5. Value(a, Base, N) \in Nat /\ Value(a, Base, N) < Pow(Base, N)
    <2>1. N \in 0 .. N
      OBVIOUS
    <2> QED BY <1>2, <2>1, BaseIs, ValueBounds
  <1> QED BY <1>1, <1>2, <1>3, <1>4, <1>5

(* be_ge compares numbers.                                                 *)
LEMMA BeGeCompares ==
    ASSUME NEW N \in Nat, NEW a, NEW c, DOMAIN a = 1 .. N, Base \in Nat \ {0},
           \A i \in 1 .. N : a[i] \in 0 .. Base - 1,
           \A i \in 1 .. N : c[i] \in 0 .. Base - 1
    PROVE  BeGe(a, c) <=> Value(a, Base, N) >= Value(c, Base, N)
  <1>1. (\A i \in 1 .. N : a[i] \in Int) /\ (\A i \in 1 .. N : c[i] \in Int) /\ Base \in Int
    OBVIOUS
  <1>2. BeGe(a, c) <=>
            \A i \in 1 .. N : a[i] < c[i] => \E j \in 1 .. i - 1 : a[j] > c[j]
    BY DEF BeGe
  <1>3. Value(a, Base, N) \in Int /\ Value(c, Base, N) \in Int
    <2>1. N \in 0 .. N
      OBVIOUS
    <2> QED BY <1>1, <2>1, ValueIs
  <1>4. CASE \A i \in 1 .. N : a[i] = c[i]
    <2>1. Value(a, Base, N) = Value(c, Base, N)
      <3>1. \A i \in 1 .. N : c[i] = a[i]
        BY <1>4
      <3> QED BY ONLY N \in Nat, <1>1, <3>1, ValueSame
    <2>2. BeGe(a, c)
      BY <1>1, <1>2, <1>4
    <2> QED BY <1>3, <2>1, <2>2
  <1>5. CASE \E i \in 1 .. N : a[i] # c[i]
    <2>1. PICK p \in 1 .. N : a[p] # c[p] /\ \A i \in 1 .. p - 1 : a[i] = c[i]
      <3>1. \E i \in 1 .. N : a[i] # c[i]
        BY <1>5
      <3>2. \E p \in 1 .. N : a[p] # c[p] /\ \A i \in 1 .. p - 1 : a[i] = c[i]
        BY ONLY N \in Nat, <3>1, FirstDifference
      <3> QED BY <3>2
    <2>2. CASE a[p] < c[p]
      <3>1. Value(a, Base, N) < Value(c, Base, N)
        BY <2>1, <2>2, ValueLess
      <3>2. ~ \E j \in 1 .. p - 1 : a[j] > c[j]
        <4>1. \A j \in 1 .. p - 1 : j \in 1 .. N
          OBVIOUS
        <4> QED BY <1>1, <2>1, <4>1
      <3> QED BY <1>2, <1>3, <2>2, <3>1, <3>2
    <2>3. CASE c[p] < a[p]
      <3>1. Value(c, Base, N) < Value(a, Base, N)
        <4>1. \A i \in 1 .. p - 1 : c[i] = a[i]
          BY <2>1
        <4> QED BY <2>3, <4>1, ValueLess
      <3>2. ASSUME NEW i \in 1 .. N, a[i] < c[i] PROVE \E j \in 1 .. i - 1 : a[j] > c[j]
        <4>1. i # p /\ ~ i \in 1 .. p - 1
          BY <1>1, <2>1, <2>3, <3>2
        <4>2. p \in 1 .. i - 1
          BY <4>1
        <4> QED BY <2>3, <4>2
      <3> QED BY <1>2, <1>3, <3>1, <3>2
    <2> QED BY <1>1, <2>1, <2>2, <2>3
  <1> QED BY <1>4, <1>5

LEMMA BeGeIs ==
    ASSUME NEW N \in Nat, NEW a \in [1 .. N -> Digits], NEW c \in [1 .. N -> Digits]
    PROVE  BeGe(a, c) <=> Value(a, Base, N) >= Value(c, Base, N)
  <1>1. /\ Base \in Nat \ {0} /\ DOMAIN a = 1 .. N
        /\ \A i \in 1 .. N : a[i] \in 0 .. Base - 1
        /\ \A i \in 1 .. N : c[i] \in 0 .. Base - 1
    BY BaseIs, DigitsIs
  <1> QED BY <1>1, BeGeCompares

Borrows(f, a, c, N) ==
    /\ f \in [0 .. N -> {0, 1}] /\ f[0] = 0
    /\ \A k \in 1 .. N :
           f[k] = IF a[N - k + 1] - c[N - k + 1] - f[k - 1] < 0 THEN 1 ELSE 0

LEMMA BorrowsExist ==
    ASSUME NEW N \in Nat, NEW a, NEW c
    PROVE  \E f : Borrows(f, a, c, N)
  <1> DEFINE T == {0, 1}
             After(t, k) == IF a[N - k + 1] - c[N - k + 1] - t < 0 THEN 1 ELSE 0
             step == [p \in T \X (1 .. N) |-> After(p[1], p[2])]
  <1>1. \A t \in T, k \in 1 .. N : After(t, k) \in T
    OBVIOUS
  <1>2. 0 \in T
    OBVIOUS
  <1> HIDE DEF After, T
  <1>3. \A t \in T, k \in 1 .. N : step[<<t, k>>] = After(t, k)
    OBVIOUS
  <1>4. \A t \in T, k \in 1 .. N : step[<<t, k>>] \in T
    BY <1>1, <1>3
  <1> HIDE DEF step
  <1>5. PICK f : Steps(f, N, T, 0, step)
    BY <1>2, <1>4, StepFunction
  <1>6. /\ f \in [0 .. N -> T] /\ f[0] = 0
        /\ \A k \in 1 .. N : f[k] = step[<<f[k - 1], k>>]
    BY <1>5 DEF Steps
  <1>7. ASSUME NEW k \in 1 .. N PROVE f[k] = After(f[k - 1], k)
    <2>1. k - 1 \in 0 .. N
      OBVIOUS
    <2>2. f[k - 1] \in T
      BY <1>6, <2>1
    <2> QED BY <1>3, <1>6, <2>2
  <1>8. Borrows(f, a, c, N)
    BY <1>6, <1>7 DEF Borrows, After, T
  <1> QED BY <1>8

LEMMA SubBorrows ==
    ASSUME NEW N \in Nat, NEW a, Len(a) = N, NEW c, NEW f, Borrows(f, a, c, N)
    PROVE  BeSubAssign(a, c) = [i \in 1 .. N |-> (a[i] - c[i] - f[N - i]) % Base]
  <1> DEFINE After(t, k) == IF a[N - k + 1] - c[N - k + 1] - t < 0 THEN 1 ELSE 0
             Eq(g) == g = [k \in 0 .. N |-> IF k = 0 THEN 0 ELSE After(g[k - 1], k)]
             borrow == CHOOSE g : Eq(g)
  <1>1. BeSubAssign(a, c) = [i \in 1 .. N |-> (a[i] - c[i] - borrow[N - i]) % Base]
    BY DEF BeSubAssign
  <1>2. f \in [0 .. N -> {0, 1}] /\ f[0] = 0 /\ \A k \in 1 .. N : f[k] = After(f[k - 1], k)
    BY DEF Borrows
  <1> HIDE DEF After
  <1>3. Eq(f)
    <2>1. f = [k \in 0 .. N |-> f[k]]
      BY <1>2
    <2>2. ASSUME NEW k \in 0 .. N PROVE f[k] = IF k = 0 THEN 0 ELSE After(f[k - 1], k)
      BY <1>2
    <2> QED BY <2>1, <2>2
  <1>4. Eq(borrow)
    <2> HIDE DEF Eq
    <2> QED BY <1>3
  <1>5. borrow[0] = 0 /\ \A k \in 1 .. N : borrow[k] = After(borrow[k - 1], k)
    <2> HIDE DEF borrow
    <2> QED BY <1>4
  <1> HIDE DEF borrow, Eq
  <1>6. \A k \in 0 .. N : f[k] = borrow[k]
    <2>1. f[0] = borrow[0] /\ \A k \in 1 .. N : f[k - 1] = borrow[k - 1] => f[k] = borrow[k]
      BY <1>2, <1>5
    <2> QED BY ONLY N \in Nat, <2>1, SameSteps
  <1>7. \A i \in 1 .. N : borrow[N - i] = f[N - i]
    <2>1. \A i \in 1 .. N : N - i \in 0 .. N
      OBVIOUS
    <2> QED BY <1>6, <2>1
  <1> QED BY <1>1, <1>7

(* be_sub_assign subtracts, if a >= c.                                     *)
LEMMA SubSubtracts ==
    ASSUME NEW N \in Nat, NEW a, NEW c, Len(a) = N, Base \in Nat \ {0},
           \A i \in 1 .. N : a[i] \in 0 .. Base - 1,
           \A i \in 1 .. N : c[i] \in 0 .. Base - 1,
           Value(a, Base, N) >= Value(c, Base, N)
    PROVE  /\ BeSubAssign(a, c) \in [1 .. N -> Digits]
           /\ Value(BeSubAssign(a, c), Base, N) = Value(a, Base, N) - Value(c, Base, N)
  <1> DEFINE out == BeSubAssign(a, c)
  <1>1. /\ \A i \in 1 .. N : a[i] \in 0 .. Base - 1 /\ a[i] \in Int
        /\ \A i \in 1 .. N : c[i] \in 0 .. Base - 1 /\ c[i] \in Int
        /\ Base \in Nat \ {0}
    OBVIOUS
  <1>14. /\ Value(a, Base, N) \in Nat /\ Value(c, Base, N) \in Nat
        /\ Value(a, Base, N) < Pow(Base, N)
    <2>1. N \in 0 .. N
      OBVIOUS
    <2> QED BY <1>1, <2>1, ValueBounds
  <1>2. PICK f : Borrows(f, a, c, N)
    BY BorrowsExist
  <1>3. out = [i \in 1 .. N |-> (a[i] - c[i] - f[N - i]) % Base]
    <2>1. BeSubAssign(a, c) = [i \in 1 .. N |-> (a[i] - c[i] - f[N - i]) % Base]
      BY ONLY N \in Nat, Len(a) = N, <1>2, SubBorrows
    <2> QED BY <2>1
  <1> HIDE DEF out
  <1>4. /\ f \in [0 .. N -> {0, 1}] /\ f[0] = 0
        /\ \A k \in 1 .. N :
               f[k] = IF a[N - k + 1] - c[N - k + 1] - f[k - 1] < 0 THEN 1 ELSE 0
    BY <1>2 DEF Borrows
  <1> DEFINE t == [i \in 1 .. N |-> 1 * a[i] + (-1) * c[i]]
             k == [i \in 0 .. N |-> 0 - f[N - i]]
  <1>5. ASSUME NEW i \in 1 .. N
        PROVE  /\ out[i] \in 0 .. Base - 1 /\ out[i] \in Int
               /\ t[i] \in Int /\ t[i] = 1 * a[i] + (-1) * c[i]
               /\ t[i] + k[i] = out[i] + Base * k[i - 1]
    <2> DEFINE x == a[i]
               y == c[i]
               v == f[N - i]
               w == f[N - i + 1]
    <2>1. x \in 0 .. Base - 1 /\ y \in 0 .. Base - 1
      BY <1>1
    <2>2. N - i \in 0 .. N /\ N - i + 1 \in 1 .. N /\ N - (N - i + 1) + 1 = i
          /\ N - i + 1 - 1 = N - i /\ N - (i - 1) = N - i + 1 /\ i \in 0 .. N /\ i - 1 \in 0 .. N
      OBVIOUS
    <2>3. v \in {0, 1} /\ w = IF x - y - v < 0 THEN 1 ELSE 0
      <3>1. PICK l \in 1 .. N : l = N - i + 1
        BY <2>2
      <3>2. N - l + 1 = i /\ l - 1 = N - i
        BY <2>2, <3>1
      <3> QED BY <1>4, <2>2, <3>1, <3>2
    <2>4. k[i] = 0 - v /\ k[i - 1] = 0 - w
      BY <2>2
    <2>5. out[i] = (x - y - v) % Base
      BY <1>3
    <2>6. t[i] = x - y
      BY <2>1
    <2>7. t[i] = 1 * a[i] + (-1) * c[i]
      OBVIOUS
    <2> HIDE DEF x, y, v, w, t, k
    <2>8. CASE x - y - v < 0
      <3>1. PICK r \in 0 .. Base - 1 : r = x - y - v + Base
        BY <1>1, <2>1, <2>3, <2>8
      <3>2. PICK q \in Int : q = -1
        OBVIOUS
      <3>3. (q * Base + r) % Base = r
        BY <1>1, DivModUnique
      <3>4. x - y - v = q * Base + r
        BY <1>1, <2>1, <2>3, <3>1, <3>2
      <3>5. out[i] = r
        BY <2>5, <3>3, <3>4
      <3> QED BY <1>1, <2>1, <2>3, <2>4, <2>6, <2>7, <2>8, <3>1, <3>5
    <2>9. CASE ~ x - y - v < 0
      <3>1. PICK r \in 0 .. Base - 1 : r = x - y - v
        BY <1>1, <2>1, <2>3, <2>9
      <3>2. PICK q \in Int : q = 0
        OBVIOUS
      <3>3. (q * Base + r) % Base = r
        BY <1>1, DivModUnique
      <3>4. x - y - v = q * Base + r
        BY <1>1, <3>1, <3>2
      <3>5. out[i] = r
        BY <2>5, <3>3, <3>4
      <3> QED BY <1>1, <2>1, <2>3, <2>4, <2>6, <2>7, <2>9, <3>1, <3>5
    <2> QED BY <2>8, <2>9
  <1>6. ASSUME NEW i \in 0 .. N PROVE k[i] \in Int /\ k[i] = 0 - f[N - i]
    <2> DEFINE v == f[N - i]
    <2>1. N - i \in 0 .. N
      OBVIOUS
    <2>2. v \in {0, 1}
      BY <1>4, <2>1
    <2>3. k[i] = 0 - v
      OBVIOUS
    <2> HIDE DEF v, k
    <2>4. k[i] \in Int
      BY <2>2, <2>3
    <2> QED BY <2>3, <2>4 DEF v
  <1>7. k[N] = 0 /\ k[0] \in Int /\ -1 <= k[0] /\ k[0] <= 0
    <2>1. 0 \in 0 .. N /\ N \in 0 .. N /\ N - N = 0 /\ N - 0 = N
      OBVIOUS
    <2>2. k[N] = 0 - f[0] /\ k[0] = 0 - f[N]
      <3> HIDE DEF k
      <3> QED BY <1>6, <2>1
    <2>3. f[0] = 0 /\ f[N] \in {0, 1}
      BY <1>4, <2>1
    <2> DEFINE v == f[0]
               w == f[N]
    <2>4. k[N] = 0 - v /\ k[0] = 0 - w /\ v = 0 /\ w \in {0, 1}
      BY <2>2, <2>3
    <2> HIDE DEF k, v, w
    <2>5. v \in Int /\ w \in Int /\ 0 <= w /\ w <= 1
      BY <2>4
    <2>6. k[N] = 0
      BY ONLY <2>4, <2>5
    <2>7. 0 - w \in Int /\ -1 <= 0 - w /\ 0 - w <= 0
      BY ONLY <2>5
    <2>8. k[0] \in Int /\ -1 <= k[0] /\ k[0] <= 0
      BY ONLY <2>4, <2>7
    <2> QED BY ONLY <2>6, <2>8
  <1> HIDE DEF t, k
  <1>8. Value(out, Base, N) = Value(t, Base, N) + k[N] - k[0] * Pow(Base, N)
    <2>1. /\ \A i \in 1 .. N : t[i] \in Int
          /\ \A i \in 1 .. N : out[i] \in Int
          /\ \A i \in 0 .. N : k[i] \in Int
          /\ \A i \in 1 .. N : t[i] + k[i] = out[i] + Base * k[i - 1]
      BY <1>5, <1>6
    <2> QED BY ONLY N \in Nat, Base \in Nat \ {0}, <2>1, CarryIs
  <1>9. Value(t, Base, N) = 1 * Value(a, Base, N) + (-1) * Value(c, Base, N)
    <2>1. PICK x \in Int, y \in Int : x = 1 /\ y = -1
      OBVIOUS
    <2>2. Base \in Int /\ \A i \in 1 .. N : t[i] = x * a[i] + y * c[i]
      BY <1>1, <1>5, <2>1
    <2>3. Value(t, Base, N) = x * Value(a, Base, N) + y * Value(c, Base, N)
      BY ONLY N \in Nat, x \in Int, y \in Int, <1>1, <2>2, ValueLinear
    <2> QED BY <2>1, <2>3
  <1>10. out \in [1 .. N -> Digits]
    BY <1>3, <1>5 DEF Digits
  <1>11. Value(out, Base, N) < Pow(Base, N) /\ Pow(Base, N) \in Nat
    BY <1>1, <1>10, DigitsIs, PowIs
  <1>12. k[0] = 0
    <2> DEFINE va == Value(a, Base, N)
               vc == Value(c, Base, N)
               vo == Value(out, Base, N)
               p == Pow(Base, N)
               z == k[0]
    <2>1. va \in Nat /\ vc \in Nat /\ va >= vc /\ va < p /\ p \in Nat /\ z \in Int /\ -1 <= z /\ z <= 0
      BY <1>14, <1>7, <1>11
    <2>2. vo < p /\ vo = (1 * va + (-1) * vc) + 0 - z * p
      BY <1>7, <1>8, <1>9, <1>11
    <2> HIDE DEF va, vc, vo, p, z
    <2>3. z = 0 \/ z = -1
      BY ONLY <2>1
    <2>4. z # -1
      BY ONLY <2>1, <2>2
    <2> QED BY <2>3, <2>4 DEF z
  <1>13. Value(out, Base, N) = Value(a, Base, N) - Value(c, Base, N)
    BY <1>14, <1>7, <1>8, <1>9, <1>11, <1>12
  <1> QED BY <1>10, <1>13 DEF out

LEMMA SubIs ==
    ASSUME NEW N \in Nat, NEW a \in [1 .. N -> Digits], NEW c \in [1 .. N -> Digits],
           Value(a, Base, N) >= Value(c, Base, N)
    PROVE  /\ BeSubAssign(a, c) \in [1 .. N -> Digits]
           /\ Value(BeSubAssign(a, c), Base, N) = Value(a, Base, N) - Value(c, Base, N)
  <1>1. /\ Base \in Nat \ {0} /\ Len(a) = N
        /\ \A i \in 1 .. N : a[i] \in 0 .. Base - 1
        /\ \A i \in 1 .. N : c[i] \in 0 .. Base - 1
    BY BaseIs, DigitsIs
  <1> QED BY <1>1, SubSubtracts

(* Two digits of room: the quotient is a carry.                            *)
LEMMA CarryOut ==
    ASSUME NEW b \in Nat \ {0}, NEW x \in Int, 0 <= x, x < 2 * b
    PROVE  /\ x \div b \in {0, 1} /\ (x % b) \in 0 .. b - 1
           /\ x = (x % b) + b * (x \div b)
  <1>1. CASE x < b
    <2>1. PICK q \in Int : q = 0
      OBVIOUS
    <2>2. PICK r \in 0 .. b - 1 : r = x
      BY <1>1
    <2>3. (q * b + r) \div b = q /\ (q * b + r) % b = r
      BY DivModUnique
    <2> QED BY <2>1, <2>2, <2>3
  <1>2. CASE ~ x < b
    <2>1. PICK q \in Int : q = 1
      OBVIOUS
    <2>2. PICK r \in 0 .. b - 1 : r = x - b
      BY <1>2
    <2>3. (q * b + r) \div b = q /\ (q * b + r) % b = r
      BY DivModUnique
    <2>4. q * b + r = x
      BY <2>1, <2>2
    <2> QED BY <2>1, <2>2, <2>3, <2>4
  <1> QED BY <1>1, <1>2

Carries(f, a, N) ==
    /\ f \in [0 .. N -> {0, 1}] /\ f[0] = 1
    /\ \A k \in 1 .. N : f[k] = (a[N - k + 1] + f[k - 1]) \div Base

LEMMA CarriesExist ==
    ASSUME NEW N \in Nat, NEW a, Base \in Nat \ {0}, \A i \in 1 .. N : a[i] \in 0 .. Base - 1
    PROVE  \E f : Carries(f, a, N)
  <1> DEFINE T == {0, 1}
             After(t, k) == (a[N - k + 1] + t) \div Base
             step == [p \in T \X (1 .. N) |-> After(p[1], p[2])]
  <1>1. ASSUME NEW t \in T, NEW k \in 1 .. N PROVE After(t, k) \in T
    <2>1. PICK i \in 1 .. N : i = N - k + 1
      OBVIOUS
    <2> DEFINE d == a[i]
    <2>2. d \in 0 .. Base - 1
      OBVIOUS
    <2> HIDE DEF d
    <2>3. PICK x \in Int : x = d + t
      BY <2>2
    <2>4. 0 <= x /\ x < 2 * Base
      BY <2>2, <2>3
    <2>5. x \div Base \in {0, 1}
      BY <2>4, CarryOut
    <2> QED BY <2>1, <2>3, <2>5 DEF d
  <1>2. 1 \in T
    OBVIOUS
  <1> HIDE DEF After, T
  <1>3. \A t \in T, k \in 1 .. N : step[<<t, k>>] = After(t, k)
    OBVIOUS
  <1>4. \A t \in T, k \in 1 .. N : step[<<t, k>>] \in T
    BY <1>1, <1>3
  <1> HIDE DEF step
  <1>5. PICK f : Steps(f, N, T, 1, step)
    BY ONLY N \in Nat, <1>2, <1>4, StepFunction
  <1>6. /\ f \in [0 .. N -> T] /\ f[0] = 1
        /\ \A k \in 1 .. N : f[k] = step[<<f[k - 1], k>>]
    BY <1>5 DEF Steps
  <1>7. ASSUME NEW k \in 1 .. N PROVE f[k] = After(f[k - 1], k)
    <2>1. k - 1 \in 0 .. N
      OBVIOUS
    <2>2. f[k - 1] \in T
      BY <1>6, <2>1
    <2> QED BY <1>3, <1>6, <2>2
  <1>8. Carries(f, a, N)
    BY <1>6, <1>7 DEF Carries, After, T
  <1> QED BY <1>8

LEMMA AddCarries ==
    ASSUME NEW N \in Nat, NEW a, Len(a) = N, NEW f, Carries(f, a, N)
    PROVE  BeAddOne(a) = [i \in 1 .. N |-> (a[i] + f[N - i]) % Base]
  <1> DEFINE After(t, k) == (a[N - k + 1] + t) \div Base
             Eq(g) == g = [k \in 0 .. N |-> IF k = 0 THEN 1 ELSE After(g[k - 1], k)]
             carry == CHOOSE g : Eq(g)
  <1>1. BeAddOne(a) = [i \in 1 .. N |-> (a[i] + carry[N - i]) % Base]
    BY DEF BeAddOne
  <1>2. f \in [0 .. N -> {0, 1}] /\ f[0] = 1 /\ \A k \in 1 .. N : f[k] = After(f[k - 1], k)
    BY DEF Carries
  <1> HIDE DEF After
  <1>3. Eq(f)
    <2>1. f = [k \in 0 .. N |-> f[k]]
      BY <1>2
    <2>2. ASSUME NEW k \in 0 .. N PROVE f[k] = IF k = 0 THEN 1 ELSE After(f[k - 1], k)
      BY <1>2
    <2> QED BY <2>1, <2>2
  <1>4. Eq(carry)
    <2> HIDE DEF Eq
    <2> QED BY <1>3
  <1>5. carry[0] = 1 /\ \A k \in 1 .. N : carry[k] = After(carry[k - 1], k)
    <2> HIDE DEF carry
    <2> QED BY <1>4
  <1> HIDE DEF carry, Eq
  <1>6. \A k \in 0 .. N : f[k] = carry[k]
    <2>1. f[0] = carry[0] /\ \A k \in 1 .. N : f[k - 1] = carry[k - 1] => f[k] = carry[k]
      BY <1>2, <1>5
    <2> QED BY ONLY N \in Nat, <2>1, SameSteps
  <1>7. \A i \in 1 .. N : carry[N - i] = f[N - i]
    <2>1. \A i \in 1 .. N : N - i \in 0 .. N
      OBVIOUS
    <2> QED BY <1>6, <2>1
  <1> QED BY <1>1, <1>7

(* Digits that take a carry each from the place after them.                *)
LEMMA CarryChain ==
    ASSUME NEW N \in Nat, Base \in Nat \ {0},
           NEW t, \A i \in 1 .. N : t[i] \in Int,
           NEW k, \A i \in 0 .. N : k[i] \in {0, 1},
           NEW out, \A i \in 1 .. N : out[i] = (t[i] + k[i]) % Base,
           \A i \in 1 .. N : 0 <= t[i] + k[i] /\ t[i] + k[i] < 2 * Base,
           \A i \in 1 .. N : k[i - 1] = (t[i] + k[i]) \div Base,
           Value(t, Base, N) + k[N] < Pow(Base, N)
    PROVE  /\ \A i \in 1 .. N : out[i] \in 0 .. Base - 1
           /\ Value(out, Base, N) = Value(t, Base, N) + k[N]
  <1>1. ASSUME NEW i \in 1 .. N
        PROVE  /\ out[i] \in 0 .. Base - 1 /\ out[i] \in Int
               /\ t[i] + k[i] = out[i] + Base * k[i - 1]
    <2>1. i \in 0 .. N
      OBVIOUS
    <2> DEFINE d == t[i]
               c == k[i]
    <2>2. d \in Int /\ c \in {0, 1} /\ 0 <= d + c /\ d + c < 2 * Base
          /\ k[i - 1] = (d + c) \div Base /\ out[i] = (d + c) % Base
      BY <2>1
    <2> HIDE DEF d, c
    <2>3. PICK x \in Int : x = d + c
      BY ONLY <2>2
    <2>4. 0 <= x /\ x < 2 * Base
      BY <2>2, <2>3
    <2>5. (x % Base) \in 0 .. Base - 1 /\ x = (x % Base) + Base * (x \div Base)
      BY ONLY x \in Int, Base \in Nat \ {0}, <2>4, CarryOut
    <2>6. out[i] = x % Base /\ k[i - 1] = x \div Base
      BY <2>2, <2>3
    <2>7. out[i] \in 0 .. Base - 1 /\ x = out[i] + Base * k[i - 1]
      BY <2>5, <2>6
    <2>8. out[i] \in Int
      BY <2>7
    <2> QED BY <2>3, <2>7, <2>8 DEF d, c
  <1>3. \A i \in 0 .. N : k[i] \in Int
    OBVIOUS
  <1>4. Value(out, Base, N) = Value(t, Base, N) + k[N] - k[0] * Pow(Base, N)
    <2>1. /\ \A i \in 1 .. N : t[i] \in Int
          /\ \A i \in 1 .. N : out[i] \in Int
          /\ \A i \in 1 .. N : t[i] + k[i] = out[i] + Base * k[i - 1]
      BY <1>1
    <2> QED BY ONLY N \in Nat, Base \in Nat \ {0}, <1>3, <2>1, CarryIs
  <1> DEFINE vo == Value(out, Base, N)
             vt == Value(t, Base, N)
             p == Pow(Base, N)
             z == k[0]
             c == k[N]
  <1>5. vo \in Nat /\ p \in Nat /\ vt \in Int
    <2>1. N \in 0 .. N
      OBVIOUS
    <2>2. \A i \in 1 .. N : out[i] \in 0 .. Base - 1
      BY <1>1
    <2>3. Base \in Int /\ \A i \in 1 .. N : t[i] \in Int
      OBVIOUS
    <2>4. vt \in Int
      BY ONLY N \in Nat, <2>1, <2>3, ValueIs
    <2>5. vo \in Nat
      BY ONLY N \in Nat, Base \in Nat \ {0}, <2>1, <2>2, ValueBounds
    <2> QED BY <2>4, <2>5, PowIs
  <1>6. z \in {0, 1} /\ c \in {0, 1}
    <2>1. 0 \in 0 .. N /\ N \in 0 .. N
      OBVIOUS
    <2> QED BY <2>1
  <1>7. vo = vt + c - z * p /\ vt + c < p
    BY <1>4
  <1> HIDE DEF vo, vt, p, z, c
  <1>8. z # 1
    BY ONLY <1>5, <1>6, <1>7
  <1>9. vo = vt + c
    BY ONLY <1>5, <1>6, <1>7, <1>8
  <1> QED BY <1>1, <1>9 DEF vo, vt, c

(* be_add_one adds one, if there is room.                                  *)
LEMMA AddAdds ==
    ASSUME NEW N \in Nat, Base \in Nat \ {0},
           NEW a, Len(a) = N, \A i \in 1 .. N : a[i] \in 0 .. Base - 1,
           Value(a, Base, N) + 1 < Pow(Base, N)
    PROVE  /\ BeAddOne(a) \in [1 .. N -> Digits]
           /\ Value(BeAddOne(a), Base, N) = Value(a, Base, N) + 1
  <1>1. PICK f : Carries(f, a, N)
    BY ONLY N \in Nat, Base \in Nat \ {0}, \A i \in 1 .. N : a[i] \in 0 .. Base - 1, CarriesExist
  <1>2. BeAddOne(a) = [i \in 1 .. N |-> (a[i] + f[N - i]) % Base]
    BY ONLY N \in Nat, Len(a) = N, <1>1, AddCarries
  <1>3. /\ f \in [0 .. N -> {0, 1}] /\ f[0] = 1
        /\ \A k \in 1 .. N : f[k] = (a[N - k + 1] + f[k - 1]) \div Base
    BY <1>1 DEF Carries
  <1> DEFINE k == [i \in 0 .. N |-> f[N - i]]
             out == BeAddOne(a)
  <1>4. \A i \in 0 .. N : k[i] \in {0, 1} /\ k[i] = f[N - i]
    <2>1. \A i \in 0 .. N : N - i \in 0 .. N
      OBVIOUS
    <2> QED BY <1>3, <2>1
  <1>5. k[N] = 1
    <2>1. N \in 0 .. N /\ N - N = 0
      OBVIOUS
    <2> HIDE DEF k
    <2> QED BY <1>3, <1>4, <2>1
  <1> HIDE DEF k
  <1>6. ASSUME NEW i \in 1 .. N
        PROVE  /\ a[i] \in Int /\ 0 <= a[i] + k[i] /\ a[i] + k[i] < 2 * Base
               /\ k[i - 1] = (a[i] + k[i]) \div Base /\ k[i] = f[N - i]
    <2>1. i \in 0 .. N /\ i - 1 \in 0 .. N
      OBVIOUS
    <2>2. PICK l \in 1 .. N : l = N - i + 1
      OBVIOUS
    <2>3. N - l + 1 = i /\ l - 1 = N - i /\ N - (i - 1) = l
      BY ONLY N \in Nat, i \in 1 .. N, <2>2
    <2>4. k[i - 1] = (a[i] + k[i]) \div Base
      BY <1>3, <1>4, <2>1, <2>3
    <2> DEFINE d == a[i]
               c == k[i]
    <2>5. d \in 0 .. Base - 1 /\ c \in {0, 1}
      BY <1>4, <2>1
    <2> HIDE DEF d, c
    <2>6. d \in Int /\ 0 <= d + c /\ d + c < 2 * Base
      BY ONLY Base \in Nat \ {0}, <2>5
    <2> QED BY <1>4, <2>1, <2>4, <2>6 DEF d, c
  <1>7. DOMAIN out = 1 .. N /\ out = [i \in 1 .. N |-> out[i]]
        /\ \A i \in 1 .. N : out[i] = (a[i] + k[i]) % Base
    BY <1>2, <1>6
  <1> HIDE DEF out
  <1>8. /\ \A i \in 1 .. N : a[i] \in Int
        /\ \A i \in 0 .. N : k[i] \in {0, 1}
        /\ \A i \in 1 .. N : 0 <= a[i] + k[i] /\ a[i] + k[i] < 2 * Base
        /\ \A i \in 1 .. N : k[i - 1] = (a[i] + k[i]) \div Base
        /\ Value(a, Base, N) + k[N] < Pow(Base, N)
    BY <1>4, <1>5, <1>6
  <1>9. /\ \A i \in 1 .. N : out[i] \in 0 .. Base - 1
        /\ Value(out, Base, N) = Value(a, Base, N) + k[N]
    BY ONLY N \in Nat, Base \in Nat \ {0}, <1>7, <1>8, CarryChain
  <1>10. out \in [1 .. N -> Digits]
    BY <1>7, <1>9 DEF Digits
  <1> QED BY <1>5, <1>9, <1>10 DEF out

(* The highest bit of a digit is what doubling it carries.                 *)
LEMMA HalfIs ==
    ASSUME NEW h \in Nat \ {0}, NEW d \in 0 .. 2 * h - 1, NEW c \in {0, 1}
    PROVE  d \div h \in {0, 1} /\ (2 * d + c) \div (2 * h) = d \div h
  <1> DEFINE q == d \div h
             r == d % h
  <1>1. q \in {0, 1} /\ r \in 0 .. h - 1 /\ d = r + h * q
    <2>1. d \in Int /\ 0 <= d /\ d < 2 * h
      OBVIOUS
    <2> QED BY <2>1, CarryOut
  <1> HIDE DEF q, r
  <1>2. PICK b \in Nat \ {0} : b = 2 * h
    OBVIOUS
  <1>3. PICK s \in 0 .. b - 1 : s = 2 * r + c
    BY <1>1, <1>2
  <1>4. PICK p \in Int : p = q
    BY <1>1
  <1>5. (p * b + s) \div b = p
    BY DivModUnique
  <1>6. p * b + s = 2 * d + c
    BY <1>1, <1>2, <1>3, <1>4
  <1>7. (2 * d + c) \div (2 * h) = q
    BY <1>2, <1>4, <1>5, <1>6
  <1> QED BY <1>1, <1>7 DEF q

(* shl1 doubles, if there is room.                                         *)
LEMMA ShiftShifts ==
    ASSUME NEW N \in Nat, Base \in Nat \ {0}, Half \in Nat \ {0}, Base = 2 * Half,
           NEW a, Len(a) = N, \A i \in 1 .. N : a[i] \in 0 .. Base - 1,
           NEW bit \in {0, 1}, 2 * Value(a, Base, N) + bit < Pow(Base, N)
    PROVE  /\ ShiftIn(a, bit) \in [1 .. N -> Digits]
           /\ Value(ShiftIn(a, bit), Base, N) = 2 * Value(a, Base, N) + bit
  <1> DEFINE t == [i \in 1 .. N |-> 2 * a[i]]
             k == [i \in 0 .. N |-> IF i = N THEN bit ELSE a[i + 1] \div Half]
             out == ShiftIn(a, bit)
  <1>1. out = [i \in 1 .. N |-> (2 * a[i] + (IF i = N THEN bit ELSE a[i + 1] \div Half)) % Base]
    BY DEF ShiftIn, Half
  <1>2. ASSUME NEW i \in 0 .. N
        PROVE  /\ k[i] = IF i = N THEN bit ELSE a[i + 1] \div Half
               /\ k[i] \in {0, 1}
    <2>1. k[i] = IF i = N THEN bit ELSE a[i + 1] \div Half
      OBVIOUS
    <2>2. ASSUME i # N PROVE a[i + 1] \div Half \in {0, 1}
      <3>1. PICK j \in 1 .. N : j = i + 1
        BY <2>2
      <3>2. PICK d \in 0 .. 2 * Half - 1 : d = a[j]
        OBVIOUS
      <3>3. PICK c \in {0, 1} : c = 0
        OBVIOUS
      <3>4. d \div Half \in {0, 1}
        BY HalfIs
      <3> QED BY <3>1, <3>2, <3>4
    <2> HIDE DEF k
    <2> QED BY <2>1, <2>2
  <1>3. \A i \in 1 .. N : t[i] = 2 * a[i] /\ i \in 0 .. N
    OBVIOUS
  <1> HIDE DEF t, k, out
  <1>4. ASSUME NEW i \in 1 .. N
        PROVE  /\ t[i] \in Int /\ t[i] = 2 * a[i] + 0 * a[i]
               /\ 0 <= t[i] + k[i] /\ t[i] + k[i] < 2 * Base
               /\ k[i - 1] = (t[i] + k[i]) \div Base
               /\ out[i] = (t[i] + k[i]) % Base
    <2>1. PICK d \in 0 .. 2 * Half - 1 : d = a[i]
      OBVIOUS
    <2>2. PICK c \in {0, 1} : c = k[i]
      BY <1>2, <1>3
    <2>3. t[i] = 2 * d
      BY <1>3, <2>1
    <2>4. i - 1 \in 0 .. N /\ i - 1 # N /\ i - 1 + 1 = i
      OBVIOUS
    <2>5. k[i - 1] = d \div Half
      BY ONLY <1>2, <2>1, <2>4
    <2>6. (2 * d + c) \div (2 * Half) = d \div Half
      BY HalfIs
    <2>7. k[i - 1] = (t[i] + k[i]) \div Base
      BY <2>2, <2>3, <2>5, <2>6
    <2>8. out[i] = (t[i] + k[i]) % Base
      <3>1. out[i] = (2 * a[i] + (IF i = N THEN bit ELSE a[i + 1] \div Half)) % Base
        BY <1>1
      <3> QED BY <1>2, <1>3, <3>1
    <2>9. t[i] \in Int /\ 0 <= t[i] + k[i] /\ t[i] + k[i] < 2 * Base
      BY ONLY Base \in Nat \ {0}, Base = 2 * Half, Half \in Nat \ {0}, <2>2, <2>3, d \in 0 .. 2 * Half - 1, c \in {0, 1}
    <2>10. t[i] = 2 * a[i] + 0 * a[i]
      BY ONLY Half \in Nat \ {0}, <2>1, <2>3, d \in 0 .. 2 * Half - 1
    <2> QED BY <2>7, <2>8, <2>9, <2>10
  <1>5. k[N] = bit
    <2>1. N \in 0 .. N
      OBVIOUS
    <2> QED BY <1>2, <2>1
  <1>6. Value(t, Base, N) = 2 * Value(a, Base, N) /\ Value(a, Base, N) \in Nat
    <2>1. PICK x \in Int, y \in Int : x = 2 /\ y = 0
      OBVIOUS
    <2>2. \A i \in 1 .. N : t[i] = x * a[i] + y * a[i]
      BY <1>4, <2>1
    <2>3. Base \in Int /\ \A i \in 1 .. N : a[i] \in Int
      OBVIOUS
    <2>4. Value(t, Base, N) = x * Value(a, Base, N) + y * Value(a, Base, N)
      BY ONLY N \in Nat, x \in Int, y \in Int, <2>2, <2>3, ValueLinear
    <2>5. N \in 0 .. N
      OBVIOUS
    <2>6. Value(a, Base, N) \in Nat
      BY ONLY N \in Nat, Base \in Nat \ {0}, \A i \in 1 .. N : a[i] \in 0 .. Base - 1, <2>5, ValueBounds
    <2> QED BY <2>1, <2>4, <2>6
  <1>7. /\ \A i \in 1 .. N : t[i] \in Int
        /\ \A i \in 0 .. N : k[i] \in {0, 1}
        /\ \A i \in 1 .. N : out[i] = (t[i] + k[i]) % Base
        /\ \A i \in 1 .. N : 0 <= t[i] + k[i] /\ t[i] + k[i] < 2 * Base
        /\ \A i \in 1 .. N : k[i - 1] = (t[i] + k[i]) \div Base
    BY <1>2, <1>4
  <1>8. Value(t, Base, N) + k[N] < Pow(Base, N)
    BY <1>5, <1>6
  <1>9. /\ \A i \in 1 .. N : out[i] \in 0 .. Base - 1
        /\ Value(out, Base, N) = Value(t, Base, N) + k[N]
    BY ONLY N \in Nat, Base \in Nat \ {0}, <1>7, <1>8, CarryChain
  <1>10. out \in [1 .. N -> Digits]
    BY <1>1, <1>9 DEF Digits
  <1> QED BY <1>5, <1>6, <1>9, <1>10 DEF out

LEMMA ShiftIs ==
    ASSUME NEW N \in Nat, NEW a \in [1 .. N -> Digits], NEW bit \in {0, 1},
           2 * Value(a, Base, N) + bit < Pow(Base, N)
    PROVE  /\ ShiftIn(a, bit) \in [1 .. N -> Digits]
           /\ Value(ShiftIn(a, bit), Base, N) = 2 * Value(a, Base, N) + bit
  <1>1. /\ Base \in Nat \ {0} /\ Len(a) = N /\ Half \in Nat \ {0} /\ Base = 2 * Half
        /\ \A i \in 1 .. N : a[i] \in 0 .. Base - 1
    BY BaseIs, DigitsIs
  <1> QED BY <1>1, ShiftShifts

LEMMA AddIs ==
    ASSUME NEW N \in Nat, NEW a \in [1 .. N -> Digits], Value(a, Base, N) + 1 < Pow(Base, N)
    PROVE  /\ BeAddOne(a) \in [1 .. N -> Digits]
           /\ Value(BeAddOne(a), Base, N) = Value(a, Base, N) + 1
  <1>1. /\ Base \in Nat \ {0} /\ Len(a) = N
        /\ \A i \in 1 .. N : a[i] \in 0 .. Base - 1
    BY BaseIs, DigitsIs
  <1> QED BY <1>1, AddAdds

-----------------------------------------------------------------------------
(* Some digits of interest. *)

LEMMA ValueZero ==
    ASSUME NEW N \in Nat, NEW b \in Int, NEW a, \A i \in 1 .. N : a[i] = 0
    PROVE  Value(a, b, N) = 0
  <1>1. PICK x \in Int : x = 0
    OBVIOUS
  <1>2. \A i \in 1 .. N : a[i] \in Int /\ a[i] = x * a[i] + x * a[i]
    BY <1>1
  <1>3. Value(a, b, N) = x * Value(a, b, N) + x * Value(a, b, N)
    BY ONLY N \in Nat, b \in Int, x \in Int, <1>2, ValueLinear
  <1>4. Value(a, b, N) \in Int
    <2>1. N \in 0 .. N
      OBVIOUS
    <2> QED BY <1>2, <2>1, ValueIs
  <1> QED BY <1>1, <1>3, <1>4

(* No digit is greater than the number.                                    *)
LEMMA ValueCovers ==
    ASSUME NEW N \in Nat, NEW b \in Nat \ {0}, NEW a, \A i \in 1 .. N : a[i] \in 0 .. b - 1,
           NEW j \in 1 .. N
    PROVE  a[j] <= Value(a, b, N)
  <1> DEFINE G == {n \in j .. N : a[j] <= Value(a, b, n)}
  <1>1. /\ \A n \in 0 .. N : Value(a, b, n) \in Nat
        /\ \A n \in 1 .. N : Value(a, b, n) = Value(a, b, n - 1) * b + a[n]
    <2>1. \A i \in 1 .. N : a[i] \in Int
      OBVIOUS
    <2>2. \A n \in 0 .. N : Value(a, b, n) \in Nat
      BY ValueBounds
    <2> QED BY <2>1, <2>2, ValueIs
  <1>2. ASSUME NEW n \in 1 .. N
        PROVE  a[n] <= Value(a, b, n) /\ Value(a, b, n - 1) <= Value(a, b, n)
    <2> DEFINE v == Value(a, b, n - 1)
               d == a[n]
    <2>1. v \in Nat /\ d \in Nat /\ Value(a, b, n) = v * b + d
      <3>1. n - 1 \in 0 .. N
        OBVIOUS
      <3> QED BY <1>1, <3>1
    <2> HIDE DEF v, d
    <2>2. v <= v * b /\ v * b \in Nat
      BY <2>1
    <2>3. d <= Value(a, b, n) /\ v <= Value(a, b, n)
      BY <2>1, <2>2
    <2> QED BY <2>3 DEF v, d
  <1>3. j \in G
    BY <1>2
  <1>4. ASSUME NEW n \in j .. N - 1, n \in G PROVE n + 1 \in G
    <2>1. PICK m \in 1 .. N : m = n + 1
      OBVIOUS
    <2>2. m - 1 = n /\ n \in 0 .. N /\ m \in 0 .. N /\ m \in j .. N
      BY <2>1
    <2>3. Value(a, b, n) <= Value(a, b, m)
      BY <1>2, <2>2
    <2> DEFINE d == a[j]
               v == Value(a, b, n)
               w == Value(a, b, m)
    <2>4. d \in Int /\ v \in Int /\ w \in Int /\ d <= v /\ v <= w
      BY <1>1, <1>4, <2>2, <2>3
    <2> HIDE DEF d, v, w
    <2>5. d <= w
      BY <2>4
    <2> QED BY <2>1, <2>2, <2>5 DEF d, w
  <1>5. \A n \in j .. N : n \in G
    <2> HIDE DEF G
    <2> QED BY <1>3, <1>4, IntervalInduction
  <1>6. N \in j .. N
    OBVIOUS
  <1> QED BY <1>5, <1>6

-----------------------------------------------------------------------------
(* The long division. *)

Size == Len(order)

LEMMA OrderIs ==
    ASSUME order \in Orders
    PROVE  /\ Size \in Nat \ {0} /\ Size + 1 <= RawLen /\ RawLen \in Nat \ {0}
           /\ order \in [1 .. Size -> Digits]
           /\ Value(order, Base, Size) >= 2 /\ Value(order, Base, Size) < Pow(Base, Size)
           /\ Value(order, Base, Size) \in Nat /\ Pow(Base, Size) \in Nat
           /\ Number(order, LimbBits) = Value(order, Base, Size)
  <1>1. /\ RawLen \in Nat \ {0} /\ order \in Seq(Digits) /\ Len(order) \in 1 .. RawLen - 1
        /\ \E i \in DOMAIN order : order[i] > 1
    BY ScalarsAssumption
  <1>2. Size \in Nat \ {0} /\ Size + 1 <= RawLen /\ order \in [1 .. Size -> Digits]
        /\ DOMAIN order = 1 .. Size
    BY <1>1 DEF Size
  <1> HIDE DEF Size
  <1>3. /\ \A i \in 1 .. Size : order[i] \in 0 .. Base - 1
        /\ Value(order, Base, Size) \in Nat /\ Value(order, Base, Size) < Pow(Base, Size)
        /\ Number(order, LimbBits) = Value(order, Base, Size)
    BY ONLY <1>2, DigitsIs
  <1>4. PICK i \in 1 .. Size : order[i] > 1
    BY <1>1, <1>2
  <1>5. order[i] <= Value(order, Base, Size)
    BY ONLY <1>2, <1>3, BaseIs, ValueCovers
  <1>6. Value(order, Base, Size) >= 2
    <2> DEFINE v == Value(order, Base, Size)
               d == order[i]
    <2>1. d > 1 /\ d <= v /\ v \in Nat /\ d \in 0 .. Base - 1
      BY <1>3, <1>4, <1>5
    <2>2. Base \in Nat
      BY BaseIs
    <2> HIDE DEF v, d
    <2>3. v >= 2
      BY <2>1, <2>2
    <2> QED BY <2>3 DEF v
  <1>7. Pow(Base, Size) \in Nat
    BY <1>2, BaseIs, PowIs
  <1> QED BY <1>1, <1>2, <1>3, <1>6, <1>7

(* The digits of one.                                                      *)
LEMMA OneIs ==
    ASSUME NEW N \in Nat \ {0}
    PROVE  One(N) \in [1 .. N -> Digits] /\ Value(One(N), Base, N) = 1
  <1>1. /\ \A i \in 1 .. N - 1 : One(N)[i] = 0
        /\ One(N)[N] = 1 /\ DOMAIN One(N) = 1 .. N
    <2> DEFINE z == Zeros(N - 1)
    <2>1. z \in Seq({0}) /\ Len(z) = N - 1 /\ \A i \in 1 .. N - 1 : z[i] = 0
      BY DEF Zeros
    <2> HIDE DEF z
    <2>2. One(N) = Append(z, 1)
      BY DEF One, z
    <2>3. z \in Seq({0, 1})
      BY <2>1
    <2> QED BY <2>1, <2>2, <2>3
  <1> DEFINE o == One(N)
  <1> HIDE DEF o
  <1>2. /\ \A i \in 1 .. N - 1 : o[i] = 0
        /\ o[N] = 1 /\ DOMAIN o = 1 .. N
    BY <1>1 DEF o
  <1>3. Base \in Nat /\ Base >= 2
    BY BaseIs
  <1>4. \A i \in 1 .. N : o[i] \in 0 .. Base - 1 /\ o[i] \in Int
    <2> SUFFICES ASSUME NEW i \in 1 .. N PROVE o[i] \in 0 .. Base - 1 /\ o[i] \in Int
      OBVIOUS
    <2>1. CASE i = N
      BY <1>2, <1>3, <2>1
    <2>2. CASE i # N
      <3>1. i \in 1 .. N - 1
        BY <2>2
      <3> QED BY <1>2, <1>3, <3>1
    <2> QED BY <2>1, <2>2
  <1>5. o = [i \in 1 .. N |-> o[i]]
    <2>1. One(N) = [i \in DOMAIN One(N) |-> One(N)[i]]
      BY DEF One, Zeros
    <2> QED BY <1>2, <2>1 DEF o
  <1>6. o \in [1 .. N -> Digits]
    BY <1>4, <1>5 DEF Digits
  <1>7. PICK m \in Nat : m = N - 1
    OBVIOUS
  <1>8. Value(o, Base, m) = 0
    <2>1. \A i \in 1 .. m : o[i] = 0
      BY <1>2, <1>7
    <2> QED BY ONLY m \in Nat, <1>3, <2>1, ValueZero
  <1>9. Value(o, Base, N) = Value(o, Base, N - 1) * Base + o[N]
    <2>1. N \in 1 .. N
      OBVIOUS
    <2>2. Base \in Int /\ N \in Nat
      BY <1>3
    <2>3. \A n \in 1 .. N : Value(o, Base, n) = Value(o, Base, n - 1) * Base + o[n]
      BY ONLY <1>4, <2>2, ValueIs
    <2> QED BY <2>1, <2>3
  <1>10. Value(o, Base, N) = 1
    BY <1>2, <1>3, <1>7, <1>8, <1>9
  <1> QED BY <1>6, <1>10 DEF o

(* Zeros before a number leave it as it is.                                *)
LEMMA PaddedIs ==
    ASSUME NEW N \in Nat, N <= RawLen, NEW a \in [1 .. N -> Digits]
    PROVE  Padded(a) \in [1 .. RawLen -> Digits]
           /\ Value(Padded(a), Base, RawLen) = Value(a, Base, N)
  <1>1. RawLen \in Nat
    BY ScalarsAssumption
  <1>2. PICK m \in Nat : m = RawLen - N
    BY <1>1
  <1>3. RawLen = m + N
    BY <1>1, <1>2
  <1> DEFINE b == a
  <1>4. b \in Seq(Digits) /\ Len(b) = N /\ Value(b, Base, N) \in Nat
    BY DigitsIs
  <1>5. 0 \in Digits /\ Base \in Nat \ {0}
    BY BaseIs DEF Digits
  <1> DEFINE z == Zeros(m)
             p == Padded(b)
  <1>6. z \in Seq(Digits) /\ Len(z) = m /\ \A i \in 1 .. m : z[i] = 0
    BY <1>5 DEF Zeros
  <1> HIDE DEF z, b
  <1>7. p = z \o b
    BY <1>2, <1>4 DEF Padded, z
  <1> HIDE DEF p
  <1>8. /\ p \in Seq(Digits) /\ Len(p) = m + N
        /\ \A i \in 1 .. m : p[i] = 0
        /\ \A i \in 1 .. N : b[i] = p[m + i]
    <2>1. p \in Seq(Digits) /\ Len(p) = m + N
      <3>1. z \o b \in Seq(Digits) /\ Len(z \o b) = m + N
        BY ONLY <1>4, <1>6, ConcatProperties
      <3> QED BY <1>7, <3>1
    <2>2. \A i \in 1 .. m : p[i] = 0
      BY <1>4, <1>6, <1>7
    <2>3. ASSUME NEW i \in 1 .. N PROVE b[i] = p[m + i]
      <3>1. PICK j \in Nat \ {0} : j = m + i
        OBVIOUS
      <3>2. j > m /\ j <= m + N /\ j - m = i
        BY <3>1
      <3>3. p[j] = b[j - m]
        BY <1>4, <1>6, <1>7, <3>2
      <3> QED BY <3>1, <3>2, <3>3
    <2> QED BY <2>1, <2>2, <2>3
  <1>9. p \in [1 .. RawLen -> Digits] /\ \A i \in 1 .. m + N : p[i] \in Int
    <2>1. p \in [1 .. RawLen -> Digits]
      BY <1>3, <1>8
    <2>2. \A i \in 1 .. RawLen : p[i] \in Int
      BY <1>1, <2>1, DigitsIs
    <2> QED BY <1>3, <2>1, <2>2
  <1>10. Value(p, Base, m + N) = Value(p, Base, m) * Pow(Base, N) + Value(b, Base, N)
    <2>2. Base \in Nat \ {0} /\ \A i \in 1 .. m + N : p[i] \in Int
      BY <1>5, <1>9
    <2>3. Value(p, Base, m + N) = Value(p, Base, m) * Pow(Base, N) + Value(b, Base, N)
      <3>1. \A i \in 1 .. N : b[i] = p[m + i]
        BY <1>8
      <3> QED BY ONLY m \in Nat, N \in Nat, <2>2, <3>1, ValueSplit
    <2> QED BY <2>3
  <1>11. Value(p, Base, m) = 0
    <2>1. Base \in Int /\ \A i \in 1 .. m : p[i] = 0
      BY <1>5, <1>8
    <2> QED BY ONLY m \in Nat, <2>1, ValueZero
  <1>12. Pow(Base, N) \in Nat
    BY <1>5, PowIs
  <1>13. Value(p, Base, RawLen) = Value(b, Base, N)
    BY <1>3, <1>4, <1>10, <1>11, <1>12
  <1> QED BY <1>9, <1>13 DEF p, b

(* What is divided by: the order less one, with room for another bit.      *)
LEMMA ModulusIs ==
    ASSUME order \in Orders
    PROVE  /\ Modulus \in [1 .. RawLen -> Digits]
           /\ Value(Modulus, Base, RawLen) = Value(order, Base, Size) - 1
           /\ 2 * Value(order, Base, Size) < Pow(Base, RawLen) + 1
  <1>1. /\ Size \in Nat \ {0} /\ Size + 1 <= RawLen /\ RawLen \in Nat \ {0}
        /\ order \in [1 .. Size -> Digits]
        /\ Value(order, Base, Size) >= 2 /\ Value(order, Base, Size) < Pow(Base, Size)
        /\ Value(order, Base, Size) \in Nat /\ Pow(Base, Size) \in Nat
    BY OrderIs
  <1> DEFINE one == One(Size)
             less == BeSubAssign(order, one)
             v == Value(order, Base, Size)
             p == Pow(Base, Size)
             q == Pow(Base, RawLen)
  <1>2. one \in [1 .. Size -> Digits] /\ Value(one, Base, Size) = 1
    BY <1>1, OneIs
  <1>3. v >= Value(one, Base, Size)
    BY <1>1, <1>2
  <1> HIDE DEF one
  <1>4. less \in [1 .. Size -> Digits] /\ Value(less, Base, Size) = v - 1
    <2>1. Size \in Nat
      BY <1>1
    <2> HIDE DEF Size
    <2> QED BY <1>1, <1>2, <1>3, <2>1, SubIs
  <1>5. Modulus = Padded(less)
    BY DEF Modulus, one, Size
  <1> HIDE DEF less, Size
  <1>6. Padded(less) \in [1 .. RawLen -> Digits] /\ Value(Padded(less), Base, RawLen) = v - 1
    <2>1. Size \in Nat /\ Size <= RawLen
      BY <1>1
    <2> QED BY <1>4, <2>1, PaddedIs
  <1>7. 2 * p <= q
    <2>1. PICK s \in Nat \ {0} : s = Size + 1
      BY <1>1
    <2>2. s - 1 = Size /\ Base \in Nat \ {0} /\ Base >= 2
      BY <1>1, <2>1, BaseIs
    <2>3. Pow(Base, s) = Base * p
      BY <2>2, PowIs
    <2>4. Pow(Base, s) <= q
      BY <1>1, <2>1, <2>2, PowGrows
    <2>5. q \in Nat /\ p \in Nat
      BY <1>1, <2>2, PowIs
    <2> HIDE DEF p, q
    <2>6. 2 * p <= Base * p
      BY <2>2, <2>5
    <2> QED BY <2>2, <2>3, <2>4, <2>5, <2>6
  <1>8. v \in Nat /\ v < p /\ p \in Nat /\ q \in Nat
    BY <1>1, BaseIs, PowIs
  <1> HIDE DEF v, p, q
  <1>9. 2 * v < q + 1
    BY <1>7, <1>8
  <1> QED BY <1>5, <1>6, <1>9 DEF v, q

(* One subtraction is enough.                                              *)
LEMMA ReducedIs ==
    ASSUME order \in Orders, NEW r \in [1 .. RawLen -> Digits],
           Value(r, Base, RawLen) < 2 * (Value(order, Base, Size) - 1)
    PROVE  /\ Reduced(r) \in [1 .. RawLen -> Digits]
           /\ Value(Reduced(r), Base, RawLen) < Value(order, Base, Size) - 1
           /\ \/ Value(Reduced(r), Base, RawLen) = Value(r, Base, RawLen)
              \/ Value(Reduced(r), Base, RawLen)
                    = Value(r, Base, RawLen) - (Value(order, Base, Size) - 1)
  <1> DEFINE m == Value(order, Base, Size) - 1
             d == Modulus
             x == Value(r, Base, RawLen)
  <1>1. d \in [1 .. RawLen -> Digits] /\ Value(d, Base, RawLen) = m /\ RawLen \in Nat
    BY ModulusIs, OrderIs
  <1>2. Reduced(r) = IF BeGe(r, d) THEN BeSubAssign(r, d) ELSE r
    BY DEF Reduced
  <1>3. x \in Nat /\ m \in Nat /\ x < 2 * m
    BY <1>1, OrderIs, DigitsIs
  <1> HIDE DEF d, m
  <1>4. BeGe(r, d) <=> x >= m
    BY <1>1, BeGeIs
  <1>5. CASE BeGe(r, d)
    <2> DEFINE s == BeSubAssign(r, d)
    <2>1. s \in [1 .. RawLen -> Digits] /\ Value(s, Base, RawLen) = x - m
      BY <1>1, <1>4, <1>5, SubIs
    <2> HIDE DEF s, x
    <2>2. Value(s, Base, RawLen) < m
      BY <1>3, <2>1
    <2> QED BY <1>2, <1>5, <2>1, <2>2 DEF m, s, x
  <1>6. CASE ~ BeGe(r, d)
    <2> HIDE DEF x
    <2>1. x < m
      BY <1>3, <1>4, <1>6
    <2> QED BY <1>2, <1>6, <2>1 DEF m, x
  <1> QED BY <1>5, <1>6

(* The number that the first t bits of the raw value make.                 *)
Prefix(t) ==
    LET q == t \div LimbBits
        r == t % LimbBits
    IN  Value(raw, Base, q) * Pow(2, r)
        + (IF r = 0 THEN 0 ELSE raw[q + 1] \div Pow(2, LimbBits - r))

LEMMA DivHalves ==
    ASSUME NEW h \in Nat \ {0}, NEW x \in Nat
    PROVE  x \div (2 * h) = (x \div h) \div 2
  <1> DEFINE y == x \div h
             r == x % h
  <1>1. y \in Nat /\ r \in 0 .. h - 1 /\ x = y * h + r
    <2>1. x \in Int
      OBVIOUS
    <2> QED BY ONLY h \in Nat \ {0}, x \in Nat, <2>1, DivModIs
  <1> HIDE DEF y, r
  <1> DEFINE q == y \div 2
             s == y % 2
  <1>2. q \in Int /\ s \in 0 .. 1 /\ y = 2 * q + s
    BY <1>1
  <1> HIDE DEF q, s
  <1>3. PICK b \in Nat \ {0} : b = 2 * h
    OBVIOUS
  <1>4. s * h + r \in 0 .. b - 1
    <2>1. CASE s = 0
      BY <1>1, <1>3, <2>1
    <2>2. CASE s = 1
      BY <1>1, <1>3, <2>2
    <2> QED BY <1>2, <2>1, <2>2
  <1>5. PICK e \in 0 .. b - 1 : e = s * h + r
    BY <1>4
  <1>6. (q * b + e) \div b = q
    BY <1>2, DivModUnique
  <1>7. q * b + e = x
    <2>1. q * (2 * h) = (2 * q) * h /\ (2 * q + s) * h = (2 * q) * h + s * h
      BY <1>2
    <2> QED BY <1>1, <1>2, <1>3, <1>5, <2>1
  <1> QED BY <1>3, <1>6, <1>7 DEF q, y

LEMMA PrefixGrows ==
    ASSUME raw \in [1 .. RawLen -> Digits], NEW t \in Nat, t < RawLen * LimbBits
    PROVE  BitOf(t) \in {0, 1} /\ Prefix(t) \in Nat /\ Prefix(t + 1) = 2 * Prefix(t) + BitOf(t)
  <1>1. LimbBits \in Nat \ {0} /\ RawLen \in Nat /\ Base \in Nat \ {0}
    BY ScalarsAssumption, BaseIs
  <1> DEFINE L == LimbBits
             q == t \div L
             r == t % L
  <1>2. q \in Nat /\ r \in 0 .. L - 1 /\ t = q * L + r
    BY <1>1, DivModIs
  <1> HIDE DEF q, r
  <1>3. q < RawLen
    <2> SUFFICES ASSUME RawLen <= q PROVE FALSE
      BY <1>1, <1>2
    <2>1. RawLen * L <= q * L
      BY <1>1, <1>2
    <2> QED BY <1>1, <1>2, <2>1
  <1>4. PICK i \in 1 .. RawLen : i = q + 1
    BY <1>1, <1>2, <1>3
  <1>5. /\ \A j \in 1 .. RawLen : raw[j] \in 0 .. Base - 1
        /\ \A n \in 0 .. RawLen : Value(raw, Base, n) \in Nat
        /\ \A n \in 1 .. RawLen : Value(raw, Base, n) = Value(raw, Base, n - 1) * Base + raw[n]
    <2>1. \A j \in 1 .. RawLen : raw[j] \in 0 .. Base - 1 /\ raw[j] \in Int
      BY <1>1, DigitsIs
    <2> DEFINE a == raw
    <2>2. /\ \A j \in 1 .. RawLen : a[j] \in 0 .. Base - 1
          /\ \A j \in 1 .. RawLen : a[j] \in Int
      BY <2>1
    <2>3. Base \in Int
      BY <1>1
    <2> HIDE DEF a
    <2>4. \A n \in 0 .. RawLen : Value(a, Base, n) \in Nat
      BY ONLY <1>1, <2>2, ValueBounds
    <2>5. \A n \in 1 .. RawLen : Value(a, Base, n) = Value(a, Base, n - 1) * Base + a[n]
      BY ONLY <1>1, <2>2, <2>3, ValueIs
    <2> QED BY <2>1, <2>4, <2>5 DEF a
  <1> DEFINE d == raw[i]
             v == Value(raw, Base, q)
             h == Pow(2, L - 1 - r)
             p == Pow(2, r)
  <1>6. d \in 0 .. Base - 1 /\ v \in Nat /\ h \in Nat \ {0} /\ p \in Nat \ {0} /\ d \in Nat
    <2>1. q \in 0 .. RawLen /\ L - 1 - r \in Nat /\ r \in Nat
      BY <1>1, <1>2, <1>3
    <2>2. d \in 0 .. Base - 1 /\ v \in Nat
      BY <1>5, <2>1
    <2>3. h \in Nat \ {0} /\ p \in Nat \ {0}
      <3> DEFINE n == L - 1 - r
      <3>1. n \in Nat /\ r \in Nat /\ 2 \in Nat \ {0}
        BY <2>1
      <3> HIDE DEF n
      <3>2. Pow(2, n) \in Nat \ {0} /\ Pow(2, r) \in Nat \ {0}
        BY ONLY <3>1, PowIs
      <3> QED BY <3>2 DEF n
    <2> QED BY <1>1, <2>2, <2>3
  <1>7. BitOf(t) = (d \div h) % 2
    BY <1>4 DEF BitOf, q, r
  <1>8. Pow(2, L - r) = 2 * h
    <2>1. PICK m \in Nat \ {0} : m = L - r
      BY <1>1, <1>2
    <2>2. m - 1 = L - 1 - r
      BY <1>1, <1>2, <2>1
    <2> QED BY <2>1, <2>2, PowIs
  <1>9. Prefix(t) = v * p + (d \div (2 * h))
    <2>1. CASE r = 0
      <3>1. 2 * h = Base
        BY <1>1, <1>8, <2>1 DEF Base
      <3>2. PICK z \in Int : z = 0
        OBVIOUS
      <3>3. (z * Base + d) \div Base = z
        BY <1>1, <1>6, DivModUnique
      <3>4. d \div (2 * h) = 0
        BY <1>6, <3>1, <3>2, <3>3
      <3> QED BY <2>1, <3>4 DEF Prefix, q, r
    <2>2. CASE r # 0
      BY <1>4, <1>8, <2>2 DEF Prefix, q, r
    <2> QED BY <2>1, <2>2
  <1> DEFINE y == d \div h
             z == y \div 2
             b == y % 2
  <1>10. y \in Nat /\ z \in Nat /\ b \in {0, 1} /\ y = 2 * z + b
    <2>1. y \in Nat
      <3> HIDE DEF d, h
      <3>1. d \in Int
        BY <1>6
      <3> QED BY ONLY <1>6, <3>1, DivModIs
    <2> HIDE DEF y
    <2> QED BY <2>1
  <1>11. d \div (2 * h) = z
    BY <1>6, DivHalves
  <1>12. Prefix(t) = v * p + z /\ BitOf(t) = b /\ Prefix(t) \in Nat
    <2> HIDE DEF v, p, z
    <2>1. v * p \in Nat
      BY <1>6
    <2>2. v * p + z \in Nat
      BY <1>10, <2>1
    <2>3. Prefix(t) = v * p + z
      BY <1>9, <1>11
    <2> QED BY <1>7, <2>2, <2>3
  <1>13. Prefix(t + 1) = v * (2 * p) + y
    <2>1. CASE r < L - 1
      <3>1. PICK s \in 0 .. L - 1 : s = r + 1
        BY <1>1, <1>2, <2>1
      <3>2. q \in Int /\ q * L + s = t + 1
        BY <1>1, <1>2, <3>1
      <3>3. (t + 1) \div L = q /\ (t + 1) % L = s
        <4>1. (q * L + s) \div L = q /\ (q * L + s) % L = s
          BY <1>1, <3>2, DivModUnique
        <4> QED BY <3>2, <4>1
      <3>4. Pow(2, s) = 2 * p
        <4>1. PICK m \in Nat \ {0} : m = s
          BY <1>2, <3>1
        <4>2. m - 1 = r
          BY <1>2, <3>1, <4>1
        <4> QED BY <4>1, <4>2, PowIs
      <3>5. s # 0 /\ L - s = L - 1 - r
        BY <1>1, <1>2, <3>1
      <3> QED BY <1>4, <3>3, <3>4, <3>5 DEF Prefix
    <2>2. CASE r = L - 1
      <3>1. PICK s \in 0 .. L - 1 : s = 0
        BY <1>1
      <3>2. i \in Int /\ i * L + s = t + 1
        <4>1. (q + 1) * L = q * L + L
          BY <1>1, <1>2
        <4> QED BY <1>1, <1>2, <1>4, <2>2, <3>1, <4>1
      <3>3. (t + 1) \div L = i /\ (t + 1) % L = 0
        <4>1. (i * L + s) \div L = i /\ (i * L + s) % L = s
          BY <1>1, <3>2, DivModUnique
        <4> QED BY <3>1, <3>2, <4>1
      <3>4. Prefix(t + 1) = Value(raw, Base, i) * Pow(2, 0)
        <4>1. Prefix(t + 1) = Value(raw, Base, i) * Pow(2, 0) + 0
          BY <3>3 DEF Prefix
        <4>2. Value(raw, Base, i) \in Nat /\ Pow(2, 0) = 1
          <5>1. i \in 0 .. RawLen
            OBVIOUS
          <5> QED BY <1>5, <5>1, PowIs
        <4> QED BY <4>1, <4>2
      <3>5. Value(raw, Base, i) = v * Base + d
        <4>1. i - 1 = q
          BY <1>2, <1>4
        <4> QED BY <1>5, <4>1
      <3>6. Pow(2, 0) = 1 /\ Base = 2 * p /\ h = 1
        <4>1. Pow(2, 0) = 1 /\ L - 1 - r = 0
          BY <1>1, <1>2, <2>2, PowIs
        <4>2. Base = 2 * p
          BY <2>2, BaseIs DEF Half
        <4> QED BY <4>1, <4>2
      <3>7. y = d
        <4>1. d \div 1 = d
          BY <1>6
        <4> QED BY <3>6, <4>1
      <3> HIDE DEF v, d, p, y
      <3>8. (v * (2 * p) + d) * 1 = v * (2 * p) + d
        BY <1>6
      <3> QED BY <3>4, <3>5, <3>6, <3>7, <3>8
    <2> QED BY <1>1, <1>2, <2>1, <2>2
  <1> HIDE DEF v, p, y, z, b
  <1>14. v * (2 * p) + y = 2 * (v * p + z) + b
    <2>1. v * (2 * p) = 2 * (v * p) /\ v * p \in Nat
      BY <1>6
    <2> QED BY <1>10, <2>1
  <1> QED BY <1>10, <1>12, <1>13, <1>14

(* The division while it runs: the bits taken so far, modulo the order     *)
(* less one.                                                               *)
Divided ==
    /\ raw \in [1 .. RawLen -> Digits] /\ rem \in [1 .. RawLen -> Digits]
    /\ taken \in 0 .. RawLen * LimbBits
    /\ Value(rem, Base, RawLen) < Value(order, Base, Size) - 1
    /\ \E k \in Int : Prefix(taken) = k * (Value(order, Base, Size) - 1) + Value(rem, Base, RawLen)

LEMMA DividedStarts ==
    ASSUME order \in Orders, raw \in [1 .. RawLen -> Digits], rem = Zeros(RawLen), taken = 0
    PROVE  Divided
  <1>1. RawLen \in Nat /\ LimbBits \in Nat \ {0} /\ Base \in Nat \ {0}
        /\ Value(order, Base, Size) >= 2 /\ Value(order, Base, Size) \in Nat
    BY OrderIs, BaseIs
  <1>2. rem \in [1 .. RawLen -> Digits] /\ Value(rem, Base, RawLen) = 0
    <2> DEFINE z == Zeros(RawLen)
    <2>1. \A i \in 1 .. RawLen : z[i] = 0
      BY DEF Zeros
    <2>2. Base \in Int /\ 0 \in Digits
      BY <1>1 DEF Digits
    <2>3. z \in [1 .. RawLen -> Digits]
      BY <2>2 DEF Zeros
    <2> HIDE DEF z
    <2>4. Value(z, Base, RawLen) = 0
      BY ONLY <1>1, <2>1, <2>2, ValueZero
    <2> QED BY <2>3, <2>4 DEF z
  <1>3. Prefix(taken) = 0
    <2>1. 0 \div LimbBits = 0 /\ 0 % LimbBits = 0
      <3>1. PICK q \in Int, r \in 0 .. LimbBits - 1 : q = 0 /\ r = 0
        BY <1>1
      <3>2. (q * LimbBits + r) \div LimbBits = q /\ (q * LimbBits + r) % LimbBits = r
        BY <1>1, DivModUnique
      <3> QED BY <1>1, <3>1, <3>2
    <2>2. Value(raw, Base, 0) = 0
      <3> DEFINE a == raw
      <3>1. \A i \in 1 .. RawLen : a[i] \in Int
        BY <1>1, DigitsIs
      <3>2. Base \in Int
        BY <1>1
      <3> HIDE DEF a
      <3>3. Value(a, Base, 0) = 0
        BY ONLY <1>1, <3>1, <3>2, ValueIs
      <3> QED BY <3>3 DEF a
    <2>3. Prefix(0) = Value(raw, Base, 0) * Pow(2, 0) + 0
      BY <2>1 DEF Prefix
    <2>4. Pow(2, 0) = 1
      BY PowIs
    <2> QED BY <2>2, <2>3, <2>4
  <1>4. 0 \in 0 .. RawLen * LimbBits
    <2>1. RawLen * LimbBits \in Nat
      BY <1>1
    <2> QED BY <2>1
  <1> DEFINE m == Value(order, Base, Size) - 1
  <1>5. m \in Nat /\ 0 < m
    BY <1>1
  <1> HIDE DEF m
  <1>6. PICK k \in Int : k = 0
    OBVIOUS
  <1>7. Prefix(taken) = k * m + Value(rem, Base, RawLen)
    BY <1>2, <1>3, <1>5, <1>6
  <1> QED BY <1>2, <1>4, <1>5, <1>7 DEF Divided, m

LEMMA DividedGoesOn ==
    ASSUME order \in Orders, Divided, DivideBit
    PROVE  Divided'
  <1>1. /\ raw \in [1 .. RawLen -> Digits] /\ rem \in [1 .. RawLen -> Digits]
        /\ taken \in 0 .. RawLen * LimbBits
        /\ Value(rem, Base, RawLen) < Value(order, Base, Size) - 1
    BY DEF Divided
  <1>2. /\ taken < RawLen * LimbBits /\ taken' = taken + 1
        /\ rem' = Reduced(ShiftIn(rem, BitOf(taken)))
        /\ raw' = raw /\ order' = order
    BY DEF DivideBit
  <1>3. RawLen \in Nat /\ LimbBits \in Nat \ {0} /\ Base \in Nat \ {0}
        /\ Value(order, Base, Size) >= 2 /\ Value(order, Base, Size) \in Nat
    BY OrderIs, BaseIs
  <1> DEFINE m == Value(order, Base, Size) - 1
             x == Value(rem, Base, RawLen)
             b == BitOf(taken)
             s == ShiftIn(rem, b)
             r == Reduced(s)
             y == Value(r, Base, RawLen)
             n == RawLen * LimbBits
  <1>4. n \in Nat
    BY <1>3
  <1>5. taken \in Nat /\ taken + 1 \in 0 .. n
    <2> HIDE DEF n
    <2>1. taken \in 0 .. n /\ taken < n
      BY <1>1, <1>2 DEF n
    <2> QED BY <1>4, <2>1
  <1>6. b \in {0, 1} /\ Prefix(taken) \in Nat /\ Prefix(taken + 1) = 2 * Prefix(taken) + b
    BY <1>1, <1>2, <1>5, PrefixGrows
  <1>7. x \in Nat /\ m \in Nat /\ x < m
    BY <1>1, <1>3, DigitsIs
  <1>8. 2 * x + b < Pow(Base, RawLen) /\ 2 * x + b < 2 * m
    <2> DEFINE o == Value(order, Base, Size)
               p == Pow(Base, RawLen)
    <2>1. 2 * o < p + 1 /\ o \in Nat /\ p \in Nat /\ m = o - 1
      BY <1>3, ModulusIs, PowIs
    <2> HIDE DEF x, m, b, o, p
    <2> QED BY <1>6, <1>7, <2>1 DEF p
  <1>9. s \in [1 .. RawLen -> Digits] /\ Value(s, Base, RawLen) = 2 * x + b
    <2> HIDE DEF b
    <2> QED BY <1>1, <1>3, <1>6, <1>8, ShiftIs
  <1>10. r \in [1 .. RawLen -> Digits] /\ y < m /\ (y = 2 * x + b \/ y = 2 * x + b - m)
    <2>1. Value(s, Base, RawLen) < 2 * m
      BY <1>8, <1>9
    <2>2. s \in [1 .. RawLen -> Digits] /\ Value(s, Base, RawLen) < 2 * (Value(order, Base, Size) - 1)
      BY <1>9, <2>1
    <2> HIDE DEF s
    <2>3. /\ Reduced(s) \in [1 .. RawLen -> Digits]
          /\ Value(Reduced(s), Base, RawLen) < Value(order, Base, Size) - 1
          /\ \/ Value(Reduced(s), Base, RawLen) = Value(s, Base, RawLen)
             \/ Value(Reduced(s), Base, RawLen)
                   = Value(s, Base, RawLen) - (Value(order, Base, Size) - 1)
      <3> HIDE DEF m, r, y, x, b, n
      <3> QED BY <2>2, ReducedIs
    <2> DEFINE z == Value(s, Base, RawLen)
    <2>4. r \in [1 .. RawLen -> Digits]
      BY <2>3
    <2>5. y < m /\ (y = z \/ y = z - m)
      BY <2>3
    <2>6. z = 2 * x + b
      BY <1>9
    <2> HIDE DEF x, b, z, y, m, r
    <2>7. y = 2 * x + b \/ y = 2 * x + b - m
      BY ONLY <1>6, <1>7, <2>5, <2>6
    <2> QED BY <2>4, <2>5, <2>7
  <1>11. PICK k \in Int : Prefix(taken) = k * m + x
    BY DEF Divided
  <1>12. \E l \in Int : Prefix(taken + 1) = l * m + y
    <2> HIDE DEF m, x, b, y
    <2>1. Prefix(taken + 1) = (2 * k) * m + (2 * x + b)
      <3>1. 2 * (k * m) = (2 * k) * m
        BY <1>7
      <3>2. k * m \in Int
        BY <1>7
      <3> QED BY <1>6, <1>7, <1>11, <3>1, <3>2
    <2>2. CASE y = 2 * x + b
      BY <2>1, <2>2
    <2>3. CASE y = 2 * x + b - m
      <3>1. PICK l \in Int : l = 2 * k + 1
        OBVIOUS
      <3>2. l * m = (2 * k) * m + m
        BY <1>7, <3>1
      <3>3. Prefix(taken + 1) = l * m + y
        BY <1>6, <1>7, <2>1, <2>3, <3>2
      <3> QED BY <3>3
    <2> QED BY <1>10, <2>2, <2>3
  <1> HIDE DEF b, s
  <1>13. /\ raw' \in [1 .. RawLen -> Digits] /\ rem' \in [1 .. RawLen -> Digits]
         /\ taken' \in 0 .. RawLen * LimbBits
         /\ Value(rem', Base, RawLen) < Value(order', Base, Len(order')) - 1
    BY <1>1, <1>2, <1>5, <1>10 DEF b, s, Size
  <1>14. Prefix(taken)' = Prefix(taken + 1)
    BY <1>2 DEF Prefix
  <1>15. \E l \in Int : Prefix(taken)' = l * (Value(order', Base, Len(order')) - 1) + Value(rem', Base, RawLen)
    BY <1>2, <1>12, <1>14 DEF Size, b, s
  <1> QED BY <1>13, <1>15 DEF Divided, Size

(* A P-521 scalar is the raw number modulo the order less one, plus one.   *)
CanonicalP521(s) ==
    BigEndian(s) = 1 + (BigEndian(raw) % (BigEndian(order) - 1))

LEMMA DividedEnds ==
    ASSUME order \in Orders, Divided, taken = RawLen * LimbBits
    PROVE  LET s == BeAddOne(SubSeq(rem, RawLen - Len(order) + 1, RawLen))
           IN  s \in Seq(Digits) /\ CanonicalP521(s)
  <1>1. /\ raw \in [1 .. RawLen -> Digits] /\ rem \in [1 .. RawLen -> Digits]
        /\ Value(rem, Base, RawLen) < Value(order, Base, Size) - 1
    BY DEF Divided
  <1>2. /\ RawLen \in Nat /\ LimbBits \in Nat \ {0} /\ Base \in Nat \ {0}
        /\ Value(order, Base, Size) >= 2 /\ Value(order, Base, Size) \in Nat
        /\ Size \in Nat \ {0} /\ Size + 1 <= RawLen
        /\ Value(order, Base, Size) < Pow(Base, Size) /\ Pow(Base, Size) \in Nat
        /\ BigEndian(order) = Value(order, Base, Size)
    BY OrderIs, BaseIs DEF BigEndian
  <1> DEFINE m == Value(order, Base, Size) - 1
             x == Value(rem, Base, RawLen)
             N == Size
  <1>3. m \in Nat \ {0} /\ x \in Nat /\ x < m
    BY <1>1, <1>2, DigitsIs
  <1>4. Prefix(taken) = Value(raw, Base, RawLen) /\ Value(raw, Base, RawLen) \in Nat
    <2>1. PICK q \in Int, r \in 0 .. LimbBits - 1 : q = RawLen /\ r = 0
      BY <1>2
    <2>2. (q * LimbBits + r) \div LimbBits = q /\ (q * LimbBits + r) % LimbBits = r
      BY <1>2, DivModUnique
    <2>3. RawLen * LimbBits = q * LimbBits + r
      BY <1>2, <2>1
    <2>4. taken \div LimbBits = RawLen /\ taken % LimbBits = 0
      BY <2>1, <2>2, <2>3
    <2>5. Prefix(taken) = Value(raw, Base, RawLen) * Pow(2, 0) + 0
      BY <2>4 DEF Prefix
    <2>6. Value(raw, Base, RawLen) \in Nat
      BY <1>1, <1>2, DigitsIs
    <2>7. Pow(2, 0) = 1
      BY PowIs
    <2> QED BY <2>5, <2>6, <2>7
  <1>5. BigEndian(raw) = Value(raw, Base, RawLen)
    BY <1>1, <1>2, DigitsIs DEF BigEndian
  <1>6. PICK k \in Int : BigEndian(raw) = k * m + x
    BY <1>4, <1>5 DEF Divided
  <1>7. BigEndian(raw) % m = x
    <2> HIDE DEF m, x
    <2>1. x \in 0 .. m - 1
      BY <1>3
    <2>2. (k * m + x) % m = x
      BY <1>3, <2>1, DivModUnique
    <2> QED BY <1>6, <2>2
  <1> DEFINE p == RawLen - N
             c == SubSeq(rem, p + 1, RawLen)
  <1>8. p \in Nat /\ RawLen = p + N /\ N \in Nat /\ N >= 1
    BY <1>2
  <1>9. c \in [1 .. N -> Digits] /\ \A i \in 1 .. N : c[i] = rem[p + i]
    <2>1. \A i \in p + 1 .. RawLen : rem[i] \in Digits
      BY <1>1, <1>2
    <2>2. p + 1 \in Int /\ RawLen \in Int /\ p + 1 <= RawLen /\ RawLen - (p + 1) + 1 = N
      <3> HIDE DEF p, N, c
      <3> QED BY <1>2, <1>8
    <2>3. /\ c \in Seq(Digits) /\ Len(c) = N
          /\ \A i \in 1 .. N : c[i] = rem[p + 1 + i - 1]
      <3> DEFINE u == p + 1
      <3>1. c = SubSeq(rem, u, RawLen)
        OBVIOUS
      <3> HIDE DEF u
      <3>2. /\ SubSeq(rem, u, RawLen) \in Seq(Digits)
            /\ Len(SubSeq(rem, u, RawLen)) = RawLen - u + 1
            /\ \A i \in 1 .. RawLen - u + 1 : SubSeq(rem, u, RawLen)[i] = rem[u + i - 1]
        <4>1. u \in Int /\ RawLen \in Int /\ u <= RawLen /\ \A i \in u .. RawLen : rem[i] \in Digits
          BY <2>1, <2>2 DEF u
        <4> QED BY <4>1, SubSeqProperties
      <3>3. RawLen - u + 1 = N
        BY <2>2 DEF u
      <3> QED BY <3>1, <3>2, <3>3 DEF u
    <2>4. \A i \in 1 .. N : p + 1 + i - 1 = p + i
      BY <1>8
    <2> HIDE DEF c, N, p
    <2>5. c \in [1 .. N -> Digits]
      BY <1>8, <2>3
    <2>6. \A i \in 1 .. N : c[i] = rem[p + i]
      BY <2>3, <2>4
    <2> QED BY <2>5, <2>6
  <1> HIDE DEF c
  <1> DEFINE a == rem
             d == c
             top == Value(a, Base, p)
             y == Value(c, Base, N)
             w == Pow(Base, N)
  <1>10. x = top * w + y /\ top \in Nat
    <2>1. \A i \in 1 .. p + N : a[i] \in 0 .. Base - 1 /\ a[i] \in Int
      <3>1. \A i \in 1 .. RawLen : rem[i] \in 0 .. Base - 1 /\ rem[i] \in Int
        BY <1>1, <1>2, DigitsIs
      <3> QED BY <1>8, <3>1
    <2>2. \A i \in 1 .. N : d[i] = a[p + i]
      BY <1>9
    <2> HIDE DEF N, p, a, d
    <2>3. Value(a, Base, p + N) = Value(a, Base, p) * Pow(Base, N) + Value(d, Base, N)
      <3>1. p \in Nat /\ N \in Nat /\ Base \in Nat \ {0} /\ \A i \in 1 .. p + N : a[i] \in Int
        BY <1>2, <1>8, <2>1
      <3> QED BY ONLY <2>2, <3>1, ValueSplit
    <2>4. Value(a, Base, p) \in Nat
      <3>1. p + N \in Nat /\ p \in 0 .. p + N /\ \A i \in 1 .. p + N : a[i] \in 0 .. Base - 1
        BY <1>8, <2>1
      <3> QED BY ONLY <1>2, <3>1, ValueBounds
    <2> QED BY <1>8, <2>3, <2>4 DEF a, d
  <1>11. y \in Nat /\ w \in Nat /\ m < w
    <2>1. y \in Nat
      <3> HIDE DEF N
      <3> QED BY <1>8, <1>9, DigitsIs
    <2> QED BY <1>2, <2>1
  <1> HIDE DEF top, y, w, m, x
  <1>12. top = 0
    <2> SUFFICES ASSUME top >= 1 PROVE FALSE
      BY <1>10
    <2>1. top * w >= w
      BY <1>10, <1>11
    <2> QED BY <1>3, <1>10, <1>11, <2>1
  <1>13. y = x /\ y + 1 < w
    BY <1>3, <1>10, <1>11, <1>12
  <1> DEFINE s == BeAddOne(c)
  <1>14. s \in [1 .. N -> Digits] /\ Value(s, Base, N) = y + 1
    <2>1. N \in Nat /\ c \in [1 .. N -> Digits] /\ Value(c, Base, N) + 1 < Pow(Base, N)
      BY <1>8, <1>9, <1>13 DEF y, w
    <2> HIDE DEF N
    <2> QED BY <2>1, AddIs DEF y
  <1>15. BigEndian(s) = y + 1 /\ s \in Seq(Digits)
    <2> HIDE DEF N, s
    <2> QED BY <1>8, <1>14, DigitsIs DEF BigEndian
  <1>16. CanonicalP521(s)
    <2>1. BigEndian(order) - 1 = m
      BY <1>2 DEF m
    <2> HIDE DEF s
    <2> QED BY <1>3, <1>7, <1>13, <1>15, <2>1 DEF CanonicalP521
  <1> QED BY <1>15, <1>16 DEF c, Size

-----------------------------------------------------------------------------
(* Clamping. *)

Low == Pow(2, LowBits)
Second == Pow(2, LimbBits - 2)

LEMMA ClampBitsAre ==
    /\ Low \in Nat \ {0} /\ Second \in Nat \ {0} /\ Base = 4 * Second /\ Base \in Nat \ {0}
    /\ \E x \in Nat \ {0} : Base = Low * x
    /\ CurveLen \in Nat /\ CurveLen > 1 /\ LimbBits \in Nat
  <1>1. /\ LowBits \in Nat /\ LimbBits \in Nat /\ CurveLen \in Nat /\ CurveLen > 1
        /\ LimbBits > 1 /\ LowBits <= LimbBits
    BY ScalarsAssumption
  <1>2. PICK m \in Nat : m = LimbBits - 2
    BY <1>1
  <1>3. PICK n \in Nat : n = LimbBits - LowBits
    BY <1>1
  <1>4. 2 \in Nat \ {0}
    OBVIOUS
  <1>5. Pow(2, LowBits) \in Nat \ {0} /\ Pow(2, m) \in Nat \ {0} /\ Pow(2, n) \in Nat \ {0}
    BY ONLY <1>1, <1>4, m \in Nat, n \in Nat, PowIs
  <1>6. Base = Low * Pow(2, n)
    <2>1. LowBits + n = LimbBits
      BY <1>1, <1>3
    <2> QED BY <1>1, <1>4, <2>1, PowAdd DEF Base, Low
  <1>7. Base = 2 * Half /\ Half = 2 * Pow(2, m)
    <2>1. PICK l \in Nat \ {0} : l = LimbBits - 1
      BY <1>1
    <2>2. l - 1 = m
      BY <1>1, <1>2, <2>1
    <2>3. Pow(2, l) = 2 * Pow(2, l - 1)
      BY PowIs
    <2> QED BY <2>1, <2>2, <2>3, BaseIs DEF Half
  <1>8. Base = 4 * Second
    BY <1>2, <1>5, <1>7 DEF Second
  <1>9. Low \in Nat \ {0} /\ Second \in Nat \ {0}
    BY <1>2, <1>5 DEF Low, Second
  <1>10. Base \in Nat \ {0}
    BY BaseIs
  <1> QED BY <1>1, <1>5, <1>6, <1>8, <1>9, <1>10

LEMMA ClampIs ==
    ASSUME NEW k \in [1 .. CurveLen -> Digits]
    PROVE  /\ Clamp(k) = [i \in 1 .. CurveLen |->
                             IF i = 1 THEN k[1] - (k[1] % Low)
                             ELSE IF i = CurveLen THEN Second + (k[CurveLen] % Second)
                             ELSE k[i]]
           /\ Clamp(k) \in [1 .. CurveLen -> Digits]
           /\ Clamp(Clamp(k)) = Clamp(k)
  <1>1. /\ Low \in Nat \ {0} /\ Second \in Nat \ {0} /\ Base = 4 * Second /\ Base \in Nat \ {0}
        /\ CurveLen \in Nat /\ CurveLen > 1
    BY ClampBitsAre
  <1>2. ASSUME NEW h \in [1 .. CurveLen -> Digits]
        PROVE  Clamp(h) = [i \in 1 .. CurveLen |->
                              IF i = 1 THEN h[1] - (h[1] % Low)
                              ELSE IF i = CurveLen THEN Second + (h[CurveLen] % Second)
                              ELSE h[i]]
    <2>1. Len(h) = CurveLen /\ CurveLen # 1 /\ 1 \in 1 .. CurveLen /\ CurveLen \in 1 .. CurveLen
          /\ DOMAIN h = 1 .. CurveLen
      BY <1>1
    <2>2. Clamp(h) = [h EXCEPT ![1] = h[1] - (h[1] % Low),
                               ![CurveLen] = Second + (h[CurveLen] % Second)]
      <3> HIDE DEF Low, Second
      <3>1. Clamp(h) = [[h EXCEPT ![1] = h[1] - (h[1] % Low)]
                           EXCEPT ![CurveLen] = Second + ([h EXCEPT ![1] = h[1] - (h[1] % Low)][CurveLen] % Second)]
        BY <2>1 DEF Clamp, Low, Second
      <3>2. [h EXCEPT ![1] = h[1] - (h[1] % Low)][CurveLen] = h[CurveLen]
        BY <2>1
      <3> QED BY <3>1, <3>2
    <2> QED BY <2>1, <2>2
  <1>3. /\ k[1] \in 0 .. Base - 1 /\ k[CurveLen] \in 0 .. Base - 1
        /\ \A i \in 1 .. CurveLen : k[i] \in 0 .. Base - 1
    <2>1. \A i \in 1 .. CurveLen : k[i] \in 0 .. Base - 1
      BY DEF Digits
    <2>2. 1 \in 1 .. CurveLen /\ CurveLen \in 1 .. CurveLen
      BY <1>1
    <2> QED BY <2>1, <2>2
  <1> DEFINE d == k[1]
             e == k[CurveLen]
             l == d % Low
             s == e % Second
  <1>4. l \in 0 .. Low - 1 /\ s \in 0 .. Second - 1 /\ d = (d \div Low) * Low + l
        /\ d \div Low \in Nat
    <2>1. d \in Int /\ e \in Int /\ d \in Nat
      BY <1>1, <1>3
    <2> HIDE DEF d, e
    <2> QED BY ONLY <1>1, <2>1, DivModIs
  <1>5. d - l \in 0 .. Base - 1 /\ Second + s \in 0 .. Base - 1
    <2>1. d \in 0 .. Base - 1
      BY <1>3
    <2>2. PICK q \in Nat : q = d \div Low
      BY <1>4
    <2> HIDE DEF d, l, s
    <2>3. q * Low \in Nat
      BY <1>1
    <2>4. d - l \in 0 .. Base - 1
      BY <1>1, <1>4, <2>1, <2>2, <2>3
    <2>5. Second + s \in 0 .. Base - 1
      BY <1>1, <1>4
    <2> QED BY <2>4, <2>5
  <1>6. (d - l) % Low = 0
    <2>1. PICK q \in Int, r \in 0 .. Low - 1 : q = d \div Low /\ r = 0
      BY <1>1, <1>4
    <2>2. (q * Low + r) % Low = r
      BY <1>1, DivModUnique
    <2>3. d - l = q * Low + r
      <3> HIDE DEF d, l
      <3>1. q * Low \in Int /\ l \in Int
        BY <1>1, <1>4
      <3> QED BY <1>4, <2>1, <3>1
    <2> QED BY <2>1, <2>2, <2>3
  <1>7. (Second + s) % Second = s
    <2>1. PICK q \in Int, r \in 0 .. Second - 1 : q = 1 /\ r = s
      BY <1>4
    <2>2. (q * Second + r) % Second = r
      BY <1>1, DivModUnique
    <2>3. Second + s = q * Second + r
      BY <1>1, <2>1
    <2> QED BY <2>1, <2>2, <2>3
  <1> DEFINE c == Clamp(k)
  <1>8. /\ c = [i \in 1 .. CurveLen |-> IF i = 1 THEN d - l
                                        ELSE IF i = CurveLen THEN Second + s ELSE k[i]]
        /\ c[1] = d - l /\ c[CurveLen] = Second + s
        /\ \A i \in 1 .. CurveLen : i # 1 /\ i # CurveLen => c[i] = k[i]
    <2>1. c = [i \in 1 .. CurveLen |-> IF i = 1 THEN d - l
                                       ELSE IF i = CurveLen THEN Second + s ELSE k[i]]
      BY <1>2
    <2>2. 1 \in 1 .. CurveLen /\ CurveLen \in 1 .. CurveLen /\ 1 # CurveLen
      BY <1>1
    <2> HIDE DEF c, d, l, s
    <2> QED BY <2>1, <2>2
  <1> HIDE DEF c, d, l, s
  <1>9. c \in [1 .. CurveLen -> Digits]
    <2>1. ASSUME NEW i \in 1 .. CurveLen PROVE c[i] \in Digits
      <3>1. CASE i = 1
        BY <1>5, <1>8, <3>1 DEF Digits
      <3>2. CASE i = CurveLen
        BY <1>5, <1>8, <3>2 DEF Digits
      <3>3. CASE i # 1 /\ i # CurveLen
        BY <1>8, <3>3
      <3> QED BY <3>1, <3>2, <3>3
    <2> QED BY <1>8, <2>1
  <1>10. Clamp(c) = c
    <2>1. Clamp(c) = [i \in 1 .. CurveLen |-> IF i = 1 THEN c[1] - (c[1] % Low)
                                              ELSE IF i = CurveLen THEN Second + (c[CurveLen] % Second)
                                              ELSE c[i]]
      BY <1>2, <1>9
    <2>2. c[1] - (c[1] % Low) = c[1] /\ Second + (c[CurveLen] % Second) = c[CurveLen]
      <3>1. c[1] \in Int /\ c[1] % Low = 0
        BY <1>1, <1>5, <1>6, <1>8
      <3>2. c[CurveLen] % Second = s
        BY <1>7, <1>8
      <3> QED BY <1>8, <3>1, <3>2
    <2>3. c = [i \in 1 .. CurveLen |-> c[i]]
      BY <1>9
    <2>4. \A i \in 1 .. CurveLen : c[i] = IF i = 1 THEN c[1] - (c[1] % Low)
                                          ELSE IF i = CurveLen THEN Second + (c[CurveLen] % Second)
                                          ELSE c[i]
      BY <2>2
    <2> QED BY <2>1, <2>3, <2>4
  <1>11. Clamp(k) = [i \in 1 .. CurveLen |->
                         IF i = 1 THEN k[1] - (k[1] % Low)
                         ELSE IF i = CurveLen THEN Second + (k[CurveLen] % Second)
                         ELSE k[i]]
    BY <1>2
  <1> QED BY <1>9, <1>10, <1>11 DEF c

(* The number of little-endian digits, by its highest digit, its lowest    *)
(* one and those in between.                                               *)
Between(k) == Value([i \in 1 .. CurveLen - 2 |-> k[CurveLen - i]], Base, CurveLen - 2)

LEMMA LittleIs ==
    ASSUME NEW k \in [1 .. CurveLen -> Digits]
    PROVE  /\ LittleEndian(k) = k[CurveLen] * Pow(Base, CurveLen - 1) + (Between(k) * Base + k[1])
           /\ Between(k) \in Nat /\ Between(k) < Pow(Base, CurveLen - 2)
  <1>1. Base \in Nat \ {0} /\ CurveLen \in Nat /\ CurveLen > 1
    BY ClampBitsAre
  <1>2. PICK m \in Nat, n \in Nat : m = CurveLen - 2 /\ n = CurveLen - 1
    BY <1>1
  <1>3. CurveLen = 1 + n /\ n = m + 1 /\ 1 \in Nat /\ n \in 1 .. n /\ m \in 0 .. n
    BY <1>1, <1>2
  <1> DEFINE w == Reverse(k)
             c == [i \in 1 .. n |-> w[1 + i]]
             mid == [i \in 1 .. m |-> k[CurveLen - i]]
  <1>4. /\ w = [i \in 1 .. CurveLen |-> k[CurveLen - i + 1]]
        /\ \A i \in 1 .. CurveLen : k[i] \in Digits
    <2>1. Len(k) = CurveLen
      BY <1>1
    <2> QED BY <2>1 DEF Reverse
  <1>5. ASSUME NEW i \in 1 .. CurveLen PROVE w[i] = k[CurveLen - i + 1] /\ w[i] \in Digits
    <2>1. CurveLen - i + 1 \in 1 .. CurveLen
      BY <1>1
    <2> QED BY <1>4, <2>1
  <1>6. w \in [1 .. CurveLen -> Digits]
    BY <1>4, <1>5
  <1>7. LittleEndian(k) = Value(w, Base, CurveLen)
    <2>1. Number(w, LimbBits) = Value(w, Base, CurveLen)
      <3> HIDE DEF w
      <3> QED BY <1>1, <1>6, DigitsIs
    <2> QED BY <2>1 DEF LittleEndian, BigEndian
  <1> HIDE DEF w
  <1>8. ASSUME NEW i \in 1 .. n PROVE c[i] = w[1 + i] /\ c[i] \in 0 .. Base - 1
    <2>1. 1 + i \in 1 .. CurveLen
      BY <1>3
    <2>2. c[i] = w[1 + i]
      OBVIOUS
    <2> HIDE DEF c
    <2> QED BY <1>5, <2>1, <2>2 DEF Digits
  <1>9. ASSUME NEW i \in 1 .. m PROVE mid[i] = c[i] /\ mid[i] \in 0 .. Base - 1
    <2>1. PICK j \in 1 .. CurveLen : j = 1 + i
      BY <1>3
    <2>2. CurveLen - j + 1 = CurveLen - i /\ i \in 1 .. n
      BY <1>1, <1>3, <2>1
    <2>3. mid[i] = k[CurveLen - i]
      OBVIOUS
    <2>4. w[j] = k[CurveLen - i]
      BY <1>5, <2>2
    <2> HIDE DEF mid, c
    <2> QED BY <1>8, <2>1, <2>2, <2>3, <2>4
  <1>10. c[n] = k[1] /\ w[1] = k[CurveLen]
    <2>1. PICK j \in 1 .. CurveLen : j = CurveLen
      BY <1>1
    <2>2. PICK l \in 1 .. CurveLen : l = 1
      BY <1>1
    <2>3. w[j] = k[CurveLen - j + 1] /\ w[l] = k[CurveLen - l + 1]
      BY <1>5
    <2>4. CurveLen - j + 1 = 1 /\ CurveLen - l + 1 = CurveLen
      BY <1>1, <2>1, <2>2
    <2>5. c[n] = w[1 + n]
      BY <1>3, <1>8
    <2> HIDE DEF c
    <2> QED BY <1>3, <2>1, <2>2, <2>3, <2>4, <2>5
  <1> HIDE DEF c, mid
  <1>11. /\ \A i \in 1 .. 1 + n : w[i] \in Int
         /\ \A i \in 1 .. n : c[i] \in Int
         /\ \A i \in 1 .. n : c[i] = w[1 + i]
    <2>1. \A i \in 1 .. CurveLen : w[i] \in Int
      BY <1>1, <1>5 DEF Digits
    <2>2. \A i \in 1 .. n : c[i] \in Int
      BY <1>1, <1>8
    <2> QED BY <1>3, <1>8, <2>1, <2>2
  <1>12. Value(w, Base, 1 + n) = Value(w, Base, 1) * Pow(Base, n) + Value(c, Base, n)
    <2>1. PICK one \in Nat : one = 1
      OBVIOUS
    <2>2. /\ \A i \in 1 .. one + n : w[i] \in Int
          /\ \A i \in 1 .. n : c[i] = w[one + i]
      BY <1>11, <2>1
    <2>3. Base \in Nat \ {0}
      BY <1>1
    <2>4. \A i \in 1 .. one + n : w[i] \in Int
      BY <2>2
    <2>5. \A i \in 1 .. n : c[i] = w[one + i]
      BY <2>2
    <2>6. Value(w, Base, one + n) = Value(w, Base, one) * Pow(Base, n) + Value(c, Base, n)
      <3>1. Splits(w, c, one, n)
        BY ONLY <2>4, <2>5 DEF Splits
      <3> QED BY ONLY one \in Nat, n \in Nat, <2>3, <3>1, ValueSplits
    <2> QED BY ONLY <2>1, <2>6
  <1>13. Value(w, Base, 1) = w[1]
    <2>1. PICK one \in Nat : one = 1
      OBVIOUS
    <2>2. \A i \in 1 .. one : w[i] \in Int
      BY <1>3, <1>11, <2>1
    <2>3. Base \in Int
      BY <1>1
    <2>4. /\ Value(w, Base, 0) = 0
          /\ \A i \in 1 .. one : Value(w, Base, i) = Value(w, Base, i - 1) * Base + w[i]
      BY ONLY one \in Nat, <2>2, <2>3, ValueIs
    <2>5. 1 \in 1 .. one /\ 1 - 1 = 0
      BY <2>1
    <2>6. Value(w, Base, 1) = Value(w, Base, 0) * Base + w[1]
      BY <2>4, <2>5
    <2>7. w[1] \in Int
      BY <2>2, <2>5
    <2> QED BY <1>1, <2>4, <2>6, <2>7
  <1>14. Value(c, Base, n) = Value(c, Base, m) * Base + c[n]
    <2>1. Base \in Int
      BY <1>1
    <2>2. \A i \in 1 .. n : Value(c, Base, i) = Value(c, Base, i - 1) * Base + c[i]
      BY ONLY n \in Nat, <1>11, <2>1, ValueIs
    <2>3. n - 1 = m
      BY <1>3
    <2> QED BY <1>3, <2>2, <2>3
  <1>15. Value(mid, Base, m) = Value(c, Base, m)
    <2>1. Base \in Int /\ \A i \in 1 .. m : mid[i] \in Int
      BY <1>1, <1>9
    <2>2. \A i \in 1 .. m : c[i] = mid[i]
      BY <1>9
    <2> QED BY ONLY m \in Nat, <2>1, <2>2, ValueSame
  <1>16. Between(k) = Value(mid, Base, m)
    BY <1>2 DEF Between, mid
  <1>17. Value(mid, Base, m) \in Nat /\ Value(mid, Base, m) < Pow(Base, m)
    <2>1. m \in 0 .. m /\ \A i \in 1 .. m : mid[i] \in 0 .. Base - 1
      BY <1>9
    <2> QED BY ONLY m \in Nat, <1>1, <2>1, ValueBounds
  <1>18. LittleEndian(k) = k[CurveLen] * Pow(Base, n) + (Between(k) * Base + k[1])
    BY <1>3, <1>7, <1>10, <1>12, <1>13, <1>14, <1>15, <1>16
  <1> QED BY <1>2, <1>16, <1>17, <1>18

(* What clamping does to a number with the highest digit d, the lowest one *)
(* f, and t and b from the digits in between.                              *)
Clamped(W, S, x, z, c, b, d, f, t, k, r) ==
    /\ {W, S, x, z, c, b} \subseteq Nat \ {0} /\ c = W * x /\ b = c * z
    /\ d \in Nat /\ f \in 0 .. c - 1 /\ t \in Nat /\ t < z /\ k \in Int /\ r \in Int
    /\ k = (S + (d % S)) * b + (t * c + (f - (f % W)))
    /\ r = d * b + (t * c + f)

LEMMA ClampArithmetic ==
    ASSUME NEW W, NEW S, NEW x, NEW z, NEW c, NEW b, NEW d, NEW f, NEW t, NEW k, NEW r,
           Clamped(W, S, x, z, c, b, d, f, t, k, r)
    PROVE  k % W = 0 /\ k \div (S * b) = 1 /\ (r - k) % (S * b) \in 0 .. W - 1
  <1>9. /\ W \in Nat \ {0} /\ S \in Nat \ {0} /\ x \in Nat \ {0} /\ z \in Nat \ {0}
        /\ c \in Nat \ {0} /\ b \in Nat \ {0} /\ c = W * x /\ b = c * z
        /\ d \in Nat /\ f \in 0 .. c - 1 /\ t \in Nat /\ t < z /\ k \in Int /\ r \in Int
    BY DEF Clamped
  <1>10. /\ k = (S + (d % S)) * b + (t * c + (f - (f % W)))
         /\ r = d * b + (t * c + f)
    BY DEF Clamped
  <1> USE <1>9, <1>10
  <1> DEFINE e == d % S
             q == d \div S
             l == f % W
             g == f \div W
  <1>1. e \in 0 .. S - 1 /\ q \in Nat /\ d = q * S + e /\ l \in 0 .. W - 1 /\ g \in Nat /\ f = g * W + l
    <2>1. d \in Int /\ f \in Int /\ f \in Nat
      OBVIOUS
    <2> QED BY <2>1, DivModIs
  <1>2. k = (S + e) * b + (t * c + (f - l))
    OBVIOUS
  <1> HIDE DEF e, q, l, g
  <1> DEFINE low == t * c + (f - l)
             h == S * b
  <1>3. low \in 0 .. b - 1
    <2>1. (t + 1) * c <= z * c
      OBVIOUS
    <2>2. (t + 1) * c = t * c + c /\ t * c \in Nat /\ z * c = b
      OBVIOUS
    <2>3. g * W \in Nat /\ f - l = g * W /\ f - l <= f /\ f <= c - 1
      BY <1>1
    <2> QED BY <2>1, <2>2, <2>3
  <1>4. h \in Nat \ {0} /\ b <= h
    OBVIOUS
  <1>5. e * b + low \in 0 .. h - 1
    <2>1. (e + 1) * b <= S * b
      BY <1>1
    <2>2. (e + 1) * b = e * b + b /\ e * b \in Nat
      BY <1>1
    <2> HIDE DEF low
    <2> QED BY <1>3, <2>1, <2>2
  <1>6. k \div h = 1
    <2>1. PICK p \in Int, s \in 0 .. h - 1 : p = 1 /\ s = e * b + low
      BY <1>5
    <2>2. k = p * h + s
      <3>1. (S + e) * b = S * b + e * b
        BY <1>1
      <3>2. e * b \in Int /\ low \in Int /\ h \in Int
        BY <1>1, <1>3
      <3> HIDE DEF low
      <3> QED BY <1>2, <2>1, <3>1, <3>2 DEF low
    <2> HIDE DEF h
    <2>3. (p * h + s) \div h = p
      BY <1>4, DivModUnique
    <2> QED BY <2>1, <2>2, <2>3
  <1>7. k % W = 0
    <2>1. PICK p \in Int : p = (S + e) * (x * z) + (t * x + g)
      BY <1>1
    <2>2. PICK s \in 0 .. W - 1 : s = 0
      OBVIOUS
    <2>3. k = p * W + s
      <3>1. f - l = g * W
        BY <1>1
      <3>2. PICK y \in Int : y = S + e
        BY <1>1
      <3>3. y * b = (y * (x * z)) * W
        <4>1. b = (x * z) * W
          OBVIOUS
        <4> QED BY <4>1
      <3>4. t * c = (t * x) * W
        OBVIOUS
      <3>5. PICK i \in Int, j \in Int : i = y * (x * z) /\ j = t * x
        OBVIOUS
      <3>6. k = i * W + (j * W + g * W) /\ p = i + (j + g)
        BY <1>2, <2>1, <3>1, <3>2, <3>3, <3>4, <3>5
      <3>7. (i + (j + g)) * W = i * W + (j * W + g * W)
        BY <1>1
      <3> QED BY ONLY k \in Int, <2>2, <3>6, <3>7
    <2>4. (p * W + s) % W = s
      BY DivModUnique
    <2> QED BY <2>2, <2>3, <2>4
  <1>8. (r - k) % h = l
    <2>1. PICK p \in Int : p = q - 1
      BY <1>1
    <2>2. W <= h
      <3>1. W <= W * x
        OBVIOUS
      <3>2. c <= c * z
        OBVIOUS
      <3> QED BY <1>4, <3>1, <3>2
    <2>3. PICK s \in 0 .. h - 1 : s = l
      <3> HIDE DEF h
      <3> QED BY <1>1, <1>4, <2>2
    <2>4. r - k = p * h + s
      <3>1. d * b = (q * S) * b + e * b
        BY <1>1
      <3>2. (S + e) * b = S * b + e * b
        BY <1>1
      <3>3. (q * S) * b = q * (S * b) /\ (q - 1) * (S * b) = q * (S * b) - S * b
        BY <1>1
      <3>4. PICK i \in Int, j \in Int, m \in Int, n \in Int :
                i = q * (S * b) /\ j = S * b /\ m = e * b /\ n = t * c
        BY <1>1
      <3>5. r = (i + m) + (n + f) /\ k = (j + m) + (n + (f - l)) /\ p * h = i - j
        BY <1>2, <2>1, <3>1, <3>2, <3>3, <3>4
      <3>6. f \in Int /\ l \in Int
        BY <1>1
      <3> QED BY ONLY i \in Int, j \in Int, m \in Int, n \in Int, <2>3, <3>5, <3>6
    <2> HIDE DEF h
    <2>5. (p * h + s) % h = s
      BY <1>4, DivModUnique
    <2> QED BY <2>3, <2>4, <2>5
  <1> QED BY <1>1, <1>6, <1>7, <1>8

(* An X25519 scalar keeps the raw number but for the bits that are fixed.  *)
CanonicalX25519(s) ==
    LET k == LittleEndian(s)
        high == Pow(2, CurveLen * LimbBits - 2)
    IN  /\ k % Pow(2, LowBits) = 0 /\ k \div high = 1
        /\ (LittleEndian(raw) - k) % high \in 0 .. Pow(2, LowBits) - 1
        /\ Clamp(s) = s

LEMMA ClampedIsCanonical ==
    ASSUME raw \in [1 .. CurveLen -> Digits]
    PROVE  Clamp(raw) \in Seq(Digits) /\ CanonicalX25519(Clamp(raw))
  <1>1. /\ Low \in Nat \ {0} /\ Second \in Nat \ {0} /\ Base = 4 * Second /\ Base \in Nat \ {0}
        /\ CurveLen \in Nat /\ CurveLen > 1 /\ LimbBits \in Nat
    BY ClampBitsAre
  <1>2. PICK x \in Nat \ {0} : Base = Low * x
    BY ClampBitsAre
  <1> DEFINE c == Clamp(raw)
             z == Pow(Base, CurveLen - 2)
             b == Pow(Base, CurveLen - 1)
             h == Pow(2, CurveLen * LimbBits - 2)
             d == raw[CurveLen]
             f == raw[1]
             t == Between(raw)
             k == LittleEndian(c)
             r == LittleEndian(raw)
  <1>3. /\ c = [i \in 1 .. CurveLen |->
                   IF i = 1 THEN raw[1] - (raw[1] % Low)
                   ELSE IF i = CurveLen THEN Second + (raw[CurveLen] % Second)
                   ELSE raw[i]]
        /\ c \in [1 .. CurveLen -> Digits] /\ Clamp(c) = c
    BY ClampIs
  <1> HIDE DEF c
  <1>4. d \in 0 .. Base - 1 /\ f \in 0 .. Base - 1
    <2>1. 1 \in 1 .. CurveLen /\ CurveLen \in 1 .. CurveLen
      BY <1>1
    <2> QED BY <2>1 DEF Digits
  <1>5. c[CurveLen] = Second + (d % Second) /\ c[1] = f - (f % Low)
    <2>1. 1 \in 1 .. CurveLen /\ CurveLen \in 1 .. CurveLen /\ CurveLen # 1
      BY <1>1
    <2> QED BY <1>3, <2>1
  <1>6. z \in Nat \ {0} /\ b \in Nat \ {0} /\ b = Base * z
    <2>1. PICK m \in Nat : m = CurveLen - 2
      BY <1>1
    <2>2. PICK n \in Nat \ {0} : n = CurveLen - 1
      BY <1>1
    <2>3. n - 1 = m
      BY <1>1, <2>1, <2>2
    <2>4. Pow(Base, m) \in Nat \ {0} /\ Pow(Base, n) \in Nat \ {0} /\ Pow(Base, n) = Base * Pow(Base, n - 1)
      BY <1>1, PowIs
    <2> QED BY <2>1, <2>2, <2>3, <2>4
  <1>7. h = Second * b
    <2>1. PICK m \in Nat : m = LimbBits - 2
      BY <1>1, ScalarsAssumption
    <2>2. PICK n \in Nat : n = CurveLen - 1
      BY <1>1
    <2>3. LimbBits * n \in Nat /\ m + LimbBits * n = CurveLen * LimbBits - 2
      <3>1. CurveLen = n + 1 /\ (n + 1) * LimbBits = LimbBits * n + LimbBits
        BY <1>1, <2>2
      <3>2. LimbBits * n \in Nat
        BY <1>1
      <3> QED BY <1>1, <2>1, <3>1, <3>2
    <2>4. Pow(Pow(2, LimbBits), n) = Pow(2, LimbBits * n)
      <3>1. PICK two \in Nat \ {0} : two = 2
        OBVIOUS
      <3>2. Pow(Pow(two, LimbBits), n) = Pow(two, LimbBits * n)
        BY ONLY <1>1, n \in Nat, two \in Nat \ {0}, PowTimes
      <3> QED BY <3>1, <3>2
    <2>5. PICK l \in Nat : l = LimbBits * n
      BY <2>3
    <2>6. Pow(2, m + l) = Pow(2, m) * Pow(2, l)
      BY PowAdd
    <2> QED BY <2>1, <2>2, <2>3, <2>4, <2>5, <2>6 DEF Base, Second
  <1>8. r = d * b + (t * Base + f) /\ t \in Nat /\ t < z
    BY LittleIs
  <1>9. k = c[CurveLen] * b + (Between(c) * Base + c[1])
    BY <1>3, LittleIs
  <1>10. Between(c) = t
    <2>1. \A i \in 1 .. CurveLen - 2 : c[CurveLen - i] = raw[CurveLen - i]
      <3> SUFFICES ASSUME NEW i \in 1 .. CurveLen - 2 PROVE c[CurveLen - i] = raw[CurveLen - i]
        OBVIOUS
      <3>1. PICK j \in 1 .. CurveLen : j = CurveLen - i
        BY <1>1
      <3>2. j # 1 /\ j # CurveLen
        BY <1>1, <3>1
      <3> QED BY <1>3, <3>1, <3>2
    <2>2. [i \in 1 .. CurveLen - 2 |-> c[CurveLen - i]] = [i \in 1 .. CurveLen - 2 |-> raw[CurveLen - i]]
      BY <2>1
    <2> QED BY <2>2 DEF Between
  <1>11. k = (Second + (d % Second)) * b + (t * Base + (f - (f % Low)))
    BY <1>5, <1>9, <1>10
  <1>12. d \in Nat /\ r \in Int /\ k \in Int
    <2>1. d \in Nat /\ f \in Int
      BY <1>1, <1>4
    <2> DEFINE e == d % Second
               g == f % Low
    <2>2. e \in Int /\ g \in Int
      <3>1. d \in Int
        BY <2>1
      <3> HIDE DEF d, f
      <3> QED BY ONLY <1>1, <2>1, <3>1, DivModIs
    <2> HIDE DEF d, f, b, t, e, g, k, r
    <2>3. d * b \in Int /\ t * Base \in Int
      BY <1>1, <1>6, <1>8, <2>1
    <2>4. (Second + e) * b \in Int
      <3>1. PICK y \in Int : y = Second + e
        BY <1>1, <2>2
      <3>2. y * b \in Int
        BY <1>6
      <3> QED BY <3>1, <3>2
    <2>5. k = (Second + e) * b + (t * Base + (f - g))
      BY <1>11 DEF e, g
    <2> QED BY <1>8, <2>1, <2>2, <2>3, <2>4, <2>5
  <1> HIDE DEF z, b, h, d, f, t, k, r
  <1>13. k % Low = 0 /\ k \div (Second * b) = 1 /\ (r - k) % (Second * b) \in 0 .. Low - 1
    <2>1. /\ Low \in Nat \ {0} /\ Second \in Nat \ {0} /\ Base \in Nat \ {0}
          /\ z \in Nat \ {0} /\ b \in Nat \ {0} /\ d \in Nat /\ t \in Nat
          /\ f \in 0 .. Base - 1 /\ k \in Int /\ r \in Int
      BY <1>1, <1>4, <1>6, <1>8, <1>12
    <2>2. /\ Base = Low * x /\ b = Base * z /\ t < z
          /\ k = (Second + (d % Second)) * b + (t * Base + (f - (f % Low)))
          /\ r = d * b + (t * Base + f)
      BY <1>2, <1>6, <1>8, <1>11
    <2>3. Clamped(Low, Second, x, z, Base, b, d, f, t, k, r)
      BY <2>1, <2>2 DEF Clamped
    <2> QED BY ONLY <2>3, ClampArithmetic
  <1>14. k % Low = 0 /\ k \div h = 1 /\ (r - k) % h \in 0 .. Low - 1
    BY <1>7, <1>13
  <1>15. CanonicalX25519(c)
    BY <1>3, <1>14 DEF CanonicalX25519, k, h, r, Low
  <1>16. c \in Seq(Digits)
    BY <1>1, <1>3
  <1> QED BY <1>15, <1>16 DEF c

-----------------------------------------------------------------------------
(* The scalar. *)

ScalarsInv ==
    /\ raw = Unset => order = Unset /\ scalar = Unset /\ taken = 0
    /\ order # Unset =>
           /\ order \in Orders /\ Divided
           /\ scalar # Unset => CanonicalP521(scalar)
    /\ order = Unset /\ scalar # Unset =>
           CanonicalX25519(scalar)

LEMMA ScalarsInvHolds == ScalarsSpec => []ScalarsInv
  <1> USE ScalarsAssumption
  <1>1. ScalarsInit => ScalarsInv
    BY DEF ScalarsInit, ScalarsInv
  <1>2. ScalarsInv /\ [ScalarsNext]_scalars_vars => ScalarsInv'
    <2> SUFFICES ASSUME ScalarsInv, [ScalarsNext]_scalars_vars PROVE ScalarsInv'
      OBVIOUS
    <2>1. CASE StartP521
      <3>1. /\ raw = Unset /\ raw' \in [1 .. RawLen -> Digits] /\ order' \in Orders
            /\ rem' = Zeros(RawLen) /\ taken' = taken /\ scalar' = scalar
        BY <2>1 DEF StartP521
      <3>2. taken' = 0 /\ scalar' = Unset
        BY <3>1 DEF ScalarsInv
      <3>3. raw' # Unset /\ order' # Unset
        <4>1. \A s \in [1 .. RawLen -> Digits] : s \in Seq(Digits)
          OBVIOUS
        <4> QED BY <3>1, <4>1
      <3>4. Divided'
        <4>1. (order \in Orders /\ raw \in [1 .. RawLen -> Digits] /\ rem = Zeros(RawLen)
                  /\ taken = 0)' => Divided'
          BY DividedStarts, PTL
        <4> QED BY <3>1, <3>2, <4>1
      <3> QED BY <3>1, <3>2, <3>3, <3>4 DEF ScalarsInv
    <2>2. CASE DivideBit
      <3>1. order # Unset /\ raw' = raw /\ order' = order /\ scalar' = scalar
        BY <2>2 DEF DivideBit
      <3>2. order \in Orders /\ Divided
        BY <3>1 DEF ScalarsInv
      <3>3. Divided'
        BY <2>2, <3>2, DividedGoesOn
      <3>4. CanonicalP521(scalar)' <=> CanonicalP521(scalar)
        BY <3>1 DEF CanonicalP521
      <3> QED BY <3>1, <3>2, <3>3, <3>4 DEF ScalarsInv
    <2>3. CASE FinishP521
      <3>1. /\ order # Unset /\ taken = RawLen * LimbBits
            /\ scalar' = BeAddOne(SubSeq(rem, RawLen - Len(order) + 1, RawLen))
            /\ raw' = raw /\ order' = order /\ rem' = rem /\ taken' = taken
        BY <2>3 DEF FinishP521
      <3>2. order \in Orders /\ Divided /\ raw # Unset
        BY <3>1 DEF ScalarsInv
      <3>3. CanonicalP521(scalar')
        BY <3>1, <3>2, DividedEnds
      <3>4. CanonicalP521(scalar)'
        BY <3>1, <3>3 DEF CanonicalP521
      <3>5. Divided'
        BY <3>1, <3>2 DEF Divided, Prefix, Size
      <3> QED BY <3>1, <3>2, <3>4, <3>5 DEF ScalarsInv
    <2>4. CASE ClampX25519
      <3>1. /\ raw = Unset /\ raw' \in [1 .. CurveLen -> Digits]
            /\ scalar' = Clamp(raw') /\ order' = order
        BY <2>4 DEF ClampX25519
      <3>2. order' = Unset
        BY <3>1 DEF ScalarsInv
      <3>3. raw' # Unset
        <4>1. \A s \in [1 .. CurveLen -> Digits] : s \in Seq(Digits)
          BY ClampBitsAre
        <4> QED BY <3>1, <4>1
      <3>4. CanonicalX25519(scalar)'
        <4>1. (raw \in [1 .. CurveLen -> Digits])' => CanonicalX25519(Clamp(raw))'
          BY ClampedIsCanonical, PTL
        <4>2. CanonicalX25519(Clamp(raw))'
          BY <3>1, <4>1
        <4> QED BY <3>1, <4>2 DEF CanonicalX25519
      <3> QED BY <3>2, <3>3, <3>4 DEF ScalarsInv
    <2>5. CASE UNCHANGED scalars_vars
      <3>1. /\ raw' = raw /\ order' = order /\ rem' = rem /\ taken' = taken /\ scalar' = scalar
        BY <2>5 DEF scalars_vars
      <3>2. Divided' <=> Divided
        BY <3>1 DEF Divided, Prefix, Size
      <3>3. /\ CanonicalP521(scalar)' <=> CanonicalP521(scalar)
            /\ CanonicalX25519(scalar)' <=> CanonicalX25519(scalar)
        BY <3>1 DEF CanonicalP521, CanonicalX25519
      <3> QED BY <3>1, <3>2, <3>3 DEF ScalarsInv
    <2> QED BY <2>1, <2>2, <2>3, <2>4, <2>5 DEF ScalarsNext
  <1> QED BY <1>1, <1>2, PTL DEF ScalarsSpec

(* Every scalar is the one that arithmetic on the raw number gives: the    *)
(* long division over bytes, its shifts, comparisons, subtractions and the *)
(* final increment lose nothing, for bytes of any width, raw values of any *)
(* length and any order that fits; and clamping is what RFC 7748 says.     *)
THEOREM ScalarsAreCanonical == ScalarsSpec => []ScalarIsCanonical
  <1>1. ScalarsInv => ScalarIsCanonical
    BY DEF ScalarsInv, ScalarIsCanonical, CanonicalP521, CanonicalX25519
  <1> QED BY <1>1, ScalarsInvHolds, PTL

-----------------------------------------------------------------------------
(* Cutting bits into groups. *)

LEMMA TwoIs ==
    /\ Pow(2, 0) = 1
    /\ \A n \in Nat : Pow(2, n) \in Nat \ {0}
    /\ \A m, n \in Nat : Pow(2, m + n) = Pow(2, m) * Pow(2, n)
  <1>1. PICK two \in Nat \ {0} : two = 2
    OBVIOUS
  <1>2. /\ Pow(two, 0) = 1
        /\ \A n \in Nat : Pow(two, n) \in Nat \ {0}
        /\ \A m, n \in Nat : Pow(two, m + n) = Pow(two, m) * Pow(two, n)
    BY PowIs, PowAdd
  <1> QED BY <1>1, <1>2

(* The remainder of a product: groups of digits one by one.                *)
LEMMA ModSplit ==
    ASSUME NEW p \in Nat \ {0}, NEW q \in Nat \ {0}, NEW a \in Nat
    PROVE  a % (p * q) = ((a \div p) % q) * p + (a % p)
  <1> DEFINE y == a \div p
             r == a % p
             z == y \div q
             s == y % q
  <1>1. y \in Int /\ y \in Nat /\ r \in 0 .. p - 1 /\ a = y * p + r
    <2>1. a \in Int
      OBVIOUS
    <2> QED BY ONLY p \in Nat \ {0}, a \in Nat, <2>1, DivModIs
  <1> HIDE DEF y, r
  <1>2. z \in Int /\ s \in 0 .. q - 1 /\ y = z * q + s
    BY ONLY q \in Nat \ {0}, <1>1, DivModIs
  <1> HIDE DEF z, s
  <1>3. PICK b \in Nat \ {0} : b = p * q
    OBVIOUS
  <1>4. s * p + r \in 0 .. b - 1
    <2>1. (s + 1) * p <= q * p
      BY <1>2
    <2>2. (s + 1) * p = s * p + p /\ s * p \in Nat
      BY <1>2
    <2> QED BY <1>1, <1>3, <2>1, <2>2
  <1>5. PICK e \in 0 .. b - 1 : e = s * p + r
    BY <1>4
  <1>6. a = z * b + e
    <2>1. (z * q + s) * p = z * (p * q) + s * p
      BY <1>2
    <2>2. z * (p * q) \in Int /\ s * p \in Int
      BY <1>2
    <2> QED BY <1>1, <1>2, <1>3, <1>5, <2>1, <2>2
  <1>7. (z * b + e) % b = e
    BY ONLY b \in Nat \ {0}, e \in 0 .. b - 1, <1>2, DivModUnique
  <1> QED BY <1>3, <1>5, <1>6, <1>7 DEF r, s, y

(* What overflows the accumulator is not missed.                           *)
LEMMA MaskIs ==
    ASSUME NEW b \in Nat, NEW c \in Nat, b <= c, NEW x \in Nat
    PROVE  (x % Pow(2, c)) % Pow(2, b) = x % Pow(2, b) /\ x % Pow(2, c) \in Nat
  <1>1. PICK d \in Nat : c = b + d
    <2>1. c - b \in Nat /\ c = b + (c - b)
      OBVIOUS
    <2> QED BY <2>1
  <1> DEFINE p == Pow(2, b)
             q == Pow(2, d)
             y == (x \div p) % q
             r == x % p
  <1>2. p \in Nat \ {0} /\ q \in Nat \ {0} /\ Pow(2, c) = p * q
    BY <1>1, TwoIs
  <1> HIDE DEF p, q
  <1>3. r \in 0 .. p - 1 /\ y \in Nat
    <2>1. x \in Int
      OBVIOUS
    <2>2. x % p \in 0 .. p - 1 /\ x \div p \in Int
      BY ONLY <1>2, <2>1, DivModIs
    <2>3. (x \div p) % q \in 0 .. q - 1
      BY ONLY <1>2, <2>2, DivModIs
    <2> QED BY <1>2, <2>2, <2>3
  <1>4. x % (p * q) = y * p + r
    BY ONLY <1>2, x \in Nat, ModSplit
  <1> HIDE DEF y, r
  <1>5. (y * p + r) % p = r
    <2>1. y \in Int
      BY <1>3
    <2> QED BY ONLY <1>2, <1>3, <2>1, DivModUnique
  <1>6. y * p + r \in Nat
    <2>1. y * p \in Nat
      BY <1>2, <1>3
    <2> QED BY <1>3, <2>1
  <1> QED BY <1>2, <1>4, <1>5, <1>6 DEF p, r

(* The groups that are taken out, and the bits that stay.                  *)
Groups(e, acc, b, w, m) ==
    /\ e \in [1 .. m -> 0 .. Pow(2, w) - 1]
    /\ b - m * w \in 0 .. w - 1 /\ b - m * w = b % w
    /\ acc % Pow(2, b) = Value(e, Pow(2, w), m) * Pow(2, b - m * w)
                         + (acc % Pow(2, b - m * w))

LEMMA EmittedIs ==
    ASSUME NEW acc \in Nat, NEW b \in Nat, NEW w \in Nat \ {0}, NEW m \in Nat, m = b \div w
    PROVE  Groups(Emitted(acc, b, w), acc, b, w, m)
  <1> DEFINE e == Emitted(acc, b, w)
             W == Pow(2, w)
             Rest(k) == b - k * w
             G == {k \in 0 .. m : acc % Pow(2, b) = Value(e, W, k) * Pow(2, Rest(k)) + (acc % Pow(2, Rest(k)))}
  <1>1. W \in Nat \ {0}
    BY TwoIs
  <1>2. b = m * w + (b % w) /\ (b % w) \in 0 .. w - 1
    <2>1. b \in Int
      OBVIOUS
    <2> QED BY ONLY m = b \div w, w \in Nat \ {0}, <2>1, DivModIs
  <1>3. ASSUME NEW k \in 0 .. m PROVE Rest(k) \in Nat
    <2>1. k * w <= m * w /\ k * w \in Nat /\ m * w \in Nat
      OBVIOUS
    <2>2. m * w <= b
      BY <1>2, <2>1
    <2> QED BY <2>1, <2>2
  <1>4. ASSUME NEW k \in 1 .. m
        PROVE  e[k] = (acc \div Pow(2, Rest(k))) % W /\ e[k] \in 0 .. W - 1 /\ e[k] \in Int
    <2>1. e[k] = (acc \div Pow(2, Rest(k))) % W
      BY DEF Emitted
    <2> DEFINE p == Pow(2, Rest(k))
    <2>2. p \in Nat \ {0}
      <3>1. Rest(k) \in Nat
        BY <1>3
      <3> HIDE DEF Rest
      <3> QED BY <3>1, TwoIs
    <2> HIDE DEF p, W, e
    <2>3. acc \in Int
      OBVIOUS
    <2>4. acc \div p \in Int
      BY ONLY <2>2, <2>3, DivModIs
    <2>5. (acc \div p) % W \in 0 .. W - 1
      BY ONLY <1>1, <2>4, DivModIs
    <2> QED BY <1>1, <2>1, <2>5 DEF p
  <1>5. e = [k \in 1 .. m |-> e[k]]
    BY DEF Emitted
  <1> HIDE DEF e, W
  <1>6. /\ Value(e, W, 0) = 0
        /\ \A k \in 0 .. m : Value(e, W, k) \in Int
        /\ \A k \in 1 .. m : Value(e, W, k) = Value(e, W, k - 1) * W + e[k]
    <2>1. W \in Int /\ \A k \in 1 .. m : e[k] \in Int
      BY <1>1, <1>4
    <2> QED BY ONLY m \in Nat, <2>1, ValueIs
  <1>7. 0 \in G
    <2>1. Rest(0) = b
      OBVIOUS
    <2>2. 0 \in 0 .. m
      OBVIOUS
    <2>3. Pow(2, b) \in Nat \ {0}
      BY TwoIs
    <2>4. acc % Pow(2, b) \in Int
      <3> DEFINE p == Pow(2, b)
      <3> HIDE DEF p
      <3>1. p \in Nat \ {0} /\ acc \in Int
        BY <2>3 DEF p
      <3>2. acc % p \in 0 .. p - 1
        BY ONLY <3>1, DivModIs
      <3> QED BY <3>1, <3>2 DEF p
    <2>5. acc % Pow(2, b) = Value(e, W, 0) * Pow(2, b) + (acc % Pow(2, b))
      BY <1>6, <2>3, <2>4
    <2> QED BY <2>1, <2>2, <2>5
  <1>8. ASSUME NEW k \in 0 .. m - 1, k \in G PROVE k + 1 \in G
    <2>1. PICK j \in 1 .. m : j = k + 1
      OBVIOUS
    <2>2. j - 1 = k /\ k \in 0 .. m /\ j \in 0 .. m
      BY <2>1
    <2>3. PICK r \in Nat : r = Rest(j)
      BY <1>3, <2>2
    <2>4. Rest(k) = r + w
      <3>1. j * w = k * w + w /\ k * w \in Int
        BY <2>1
      <3> QED BY <2>3, <3>1
    <2> DEFINE p == Pow(2, r)
               v == Value(e, W, k)
               d == e[j]
    <2>5. p \in Nat \ {0} /\ Pow(2, r + w) = p * W
      BY TwoIs DEF W
    <2>6. v \in Int /\ d \in Int /\ Value(e, W, j) = v * W + d
      BY <1>4, <1>6, <2>2
    <2>7. d = (acc \div p) % W
      BY <1>4, <2>3
    <2>8. acc % (p * W) = d * p + (acc % p)
      <3> HIDE DEF p, d
      <3>1. p \in Nat \ {0}
        BY <2>5
      <3>2. acc % (p * W) = ((acc \div p) % W) * p + (acc % p)
        BY ONLY acc \in Nat, <1>1, <3>1, ModSplit
      <3> QED BY ONLY <2>7, <3>2
    <2>9. acc % Pow(2, b) = v * (p * W) + (acc % (p * W))
      BY <1>8, <2>4, <2>5
    <2>10. acc % p \in Int
      <3>1. acc \in Int
        OBVIOUS
      <3> HIDE DEF p
      <3>2. acc % p \in 0 .. p - 1
        BY ONLY <2>5, <3>1, DivModIs
      <3> QED BY <2>5, <3>2
    <2> DEFINE s == acc % p
    <2> HIDE DEF p, v, d, s
    <2>11. v * (p * W) + (d * p + s) = (v * W + d) * p + s
      BY <1>1, <2>5, <2>6, <2>10 DEF s
    <2>12. acc % Pow(2, b) = Value(e, W, j) * p + s
      BY <2>6, <2>8, <2>9, <2>11 DEF s
    <2> HIDE DEF Rest
    <2> QED BY <2>1, <2>2, <2>3, <2>12 DEF p, s
  <1>9. \A k \in 0 .. m : k \in G
    <2> HIDE DEF G
    <2> QED BY <1>7, <1>8, IntervalInduction
  <1>10. m \in 0 .. m
    OBVIOUS
  <1>11. acc % Pow(2, b) = Value(e, W, m) * Pow(2, Rest(m)) + (acc % Pow(2, Rest(m)))
    BY <1>9, <1>10
  <1>12. Rest(m) \in 0 .. w - 1 /\ Rest(m) = b % w
    <2>1. m * w \in Int
      OBVIOUS
    <2> QED BY <1>2, <2>1
  <1>13. e \in [1 .. m -> 0 .. W - 1]
    BY <1>4, <1>5
  <1> QED BY <1>11, <1>12, <1>13 DEF e, W, Groups

(* A function on 1 .. m is a sequence, and the other way round.            *)
LEMMA FunctionIsSeq ==
    ASSUME NEW D, NEW m \in Nat, NEW e \in [1 .. m -> D]
    PROVE  e \in Seq(D) /\ Len(e) = m
  OBVIOUS

LEMMA SeqIsFunction ==
    ASSUME NEW D, NEW o \in Seq(D)
    PROVE  /\ Len(o) \in Nat /\ o \in [1 .. Len(o) -> D]
           /\ Len(o) \in 0 .. Len(o) /\ \A i \in 1 .. Len(o) : o[i] \in D
  OBVIOUS

LEMMA ValueConcat ==
    ASSUME NEW b \in Nat \ {0}, NEW r \in Seq(0 .. b - 1), NEW s \in Seq(0 .. b - 1)
    PROVE  /\ r \o s \in Seq(0 .. b - 1) /\ Len(r \o s) = Len(r) + Len(s)
           /\ Value(r \o s, b, Len(r) + Len(s))
                 = Value(r, b, Len(r)) * Pow(b, Len(s)) + Value(s, b, Len(s))
  <1> DEFINE D == 0 .. b - 1
             m == Len(r)
             n == Len(s)
             t == r \o s
             u == r
             v == s
  <1>1. m \in Nat /\ n \in Nat
    OBVIOUS
  <1>2. /\ t \in Seq(D) /\ Len(t) = m + n
        /\ \A i \in 1 .. m + n : t[i] = IF i <= m THEN u[i] ELSE v[i - m]
    BY ConcatProperties
  <1>3. /\ \A i \in 1 .. m : u[i] \in D
        /\ \A i \in 1 .. n : v[i] \in D
    OBVIOUS
  <1>4. D \subseteq Int
    OBVIOUS
  <1>5. t \in Seq(0 .. b - 1) /\ Len(t) = Len(r) + Len(s)
    BY <1>2
  <1> HIDE DEF t, m, n, u, v, D
  <1>6. ASSUME NEW i \in 1 .. m + n PROVE t[i] \in Int
    <2>1. CASE i <= m
      <3>1. i \in 1 .. m
        BY <1>1, <2>1
      <3> QED BY <1>2, <1>3, <1>4, <2>1, <3>1
    <2>2. CASE ~ i <= m
      <3>1. i - m \in 1 .. n
        BY <1>1, <2>2
      <3> QED BY <1>2, <1>3, <1>4, <2>2, <3>1
    <2> QED BY <2>1, <2>2
  <1>7. ASSUME NEW i \in 1 .. n PROVE v[i] = t[m + i]
    <2>1. PICK j \in 1 .. m + n : j = m + i
      BY <1>1
    <2>2. ~ j <= m /\ j - m = i
      BY <1>1, <2>1
    <2> QED BY <1>2, <2>1, <2>2
  <1>8. \A i \in 1 .. m : t[i] = u[i]
    BY <1>1, <1>2
  <1>9. Value(t, b, m + n) = Value(t, b, m) * Pow(b, n) + Value(v, b, n)
    <2>1. m \in Nat
      BY <1>1
    <2>2. n \in Nat
      BY <1>1
    <2>3. \A i \in 1 .. m + n : t[i] \in Int
      BY <1>6
    <2>4. \A i \in 1 .. n : v[i] = t[m + i]
      BY <1>7
    <2>5. Splits(t, v, m, n)
      BY <2>3, <2>4 DEF Splits
    <2> QED BY ONLY b \in Nat \ {0}, <2>1, <2>2, <2>5, ValueSplits
  <1>10. Value(u, b, m) = Value(t, b, m)
    <2>1. \A i \in 1 .. m : u[i] \in Int
      BY ONLY <1>3, <1>4
    <2>2. b \in Int
      OBVIOUS
    <2> QED BY ONLY <1>1, <1>8, <2>1, <2>2, ValueSame
  <1> QED BY <1>5, <1>9, <1>10 DEF t, m, n, u, v

(* A packing loop on the way: the bits it was given, how many and the      *)
(* number they make, are in the groups that are out and in the lowest bits *)
(* of the accumulator, whatever is left above them.                        *)
Packing(s, width, count, number) ==
    /\ s.acc \in Nat /\ s.bits \in 0 .. width - 1
    /\ s.out \in Seq(0 .. Pow(2, width) - 1)
    /\ count = Len(s.out) * width + s.bits
    /\ number = Value(s.out, Pow(2, width), Len(s.out)) * Pow(2, s.bits)
                    + (s.acc % Pow(2, s.bits))

LEMMA StartIs ==
    ASSUME NEW w \in Nat \ {0}
    PROVE  Packing(Start, w, 0, 0)
  <1>1. /\ Start.acc = 0 /\ Start.bits = 0 /\ Start.out = <<>>
        /\ <<>> \in Seq(0 .. Pow(2, w) - 1) /\ Len(<<>>) = 0
    BY DEF Start
  <1>2. Value(<<>>, Pow(2, w), 0) = 0
    <2>1. PICK z \in Nat : z = 0
      OBVIOUS
    <2> DEFINE e == <<>>
               W == Pow(2, w)
    <2>2. W \in Int
      <3>1. W \in Nat \ {0}
        BY TwoIs
      <3> HIDE DEF W
      <3> QED BY <3>1
    <2>3. \A i \in 1 .. z : e[i] \in Int
      BY <2>1
    <2> HIDE DEF e, W
    <2>4. Value(e, W, 0) = 0
      BY ONLY z \in Nat, <2>2, <2>3, ValueIs
    <2> QED BY <2>4 DEF e, W
  <1>3. Pow(2, 0) = 1
    BY TwoIs
  <1>4. 0 \in 0 .. w - 1 /\ 0 \in Nat /\ 0 = 0 * w + 0 /\ 0 = 0 * 1 + (0 % 1)
    OBVIOUS
  <1> QED BY <1>1, <1>2, <1>3, <1>4 DEF Packing

LEMMA PushIs ==
    ASSUME NEW w \in Nat \ {0}, NEW n \in Nat, w - 1 + n <= AccBits, AccBits \in Nat,
           NEW value \in Nat, value < Pow(2, n),
           NEW count \in Nat, NEW number \in Nat, NEW s, Packing(s, w, count, number)
    PROVE  Packing(Push(s, n, value, w), w, count + n, number * Pow(2, n) + value)
  <1> DEFINE W == Pow(2, w)
             a == s.acc
             h == s.bits
             o == s.out
             full == a * Pow(2, n) + value
             acc == full % Pow(2, AccBits)
             b == h + n
             m == b \div w
             l == b % w
             e == Emitted(acc, b, w)
             t == Push(s, n, value, w)
             vo == Value(o, W, Len(o))
             ve == Value(e, W, m)
             ph == Pow(2, h)
             pn == Pow(2, n)
             pb == Pow(2, b)
             pl == Pow(2, l)
             r == a % ph
  <1>1. /\ a \in Nat /\ h \in 0 .. w - 1 /\ o \in Seq(0 .. W - 1) /\ h \in Nat
        /\ count = Len(o) * w + h /\ number = vo * ph + r
    BY DEF Packing
  <1>2. t.acc = acc /\ t.bits = l /\ t.out = o \o e
    BY DEF Push
  <1> HIDE DEF a, h, o
  <1>3. W \in Nat \ {0} /\ ph \in Nat \ {0} /\ pn \in Nat \ {0} /\ pb = ph * pn
    BY <1>1, TwoIs
  <1>4. b \in Nat /\ b <= AccBits
    BY <1>1
  <1>5. full \in Nat
    <2> HIDE DEF pn
    <2>1. a * pn \in Nat
      BY <1>1, <1>3
    <2>2. a * pn + value \in Nat
      BY <2>1
    <2> QED BY <2>2 DEF pn
  <1>6. acc % pb = full % pb /\ acc \in Nat
    <2> HIDE DEF full, b
    <2> QED BY <1>4, <1>5, MaskIs
  <1> HIDE DEF acc
  <1>7. r \in 0 .. ph - 1 /\ \E q \in Int : a = q * ph + r
    <2> HIDE DEF ph
    <2>1. a \in Int
      BY <1>1
    <2>2. r \in 0 .. ph - 1 /\ a \div ph \in Int /\ a = (a \div ph) * ph + r
      BY ONLY <1>3, <2>1, DivModIs
    <2> QED BY <2>2
  <1> HIDE DEF r
  <1>8. full % pb = r * pn + value
    <2>1. PICK q \in Int : a = q * ph + r
      BY <1>7
    <2> HIDE DEF ph, pn, pb
    <2>2. value < pn
      BY DEF pn
    <2>3. r * pn + value \in 0 .. pb - 1
      <3>1. (r + 1) * pn <= ph * pn
        BY <1>3, <1>7
      <3>2. (r + 1) * pn = r * pn + pn /\ r * pn \in Nat
        BY <1>3, <1>7
      <3>3. ph * pn \in Nat
        BY <1>3
      <3> QED BY <1>3, <2>2, <3>1, <3>2, <3>3
    <2>4. PICK x \in 0 .. pb - 1 : x = r * pn + value
      BY <2>3
    <2>5. full = q * pb + x
      <3>1. (q * ph + r) * pn = q * (ph * pn) + r * pn
        BY <1>3, <1>7
      <3>2. q * (ph * pn) \in Int /\ r * pn \in Int
        BY <1>3, <1>7
      <3> QED BY <1>3, <2>1, <2>4, <3>1, <3>2 DEF pn
    <2>6. pb \in Nat \ {0}
      BY <1>3
    <2>7. (q * pb + x) % pb = x
      BY ONLY q \in Int, x \in 0 .. pb - 1, <2>6, DivModUnique
    <2> QED BY <2>4, <2>5, <2>7
  <1>9. m \in Nat
    <2> HIDE DEF b
    <2>1. b \in Int
      BY <1>4
    <2> QED BY ONLY w \in Nat \ {0}, <1>4, <2>1, DivModIs
  <1>10. /\ e \in [1 .. m -> 0 .. W - 1]
         /\ b - m * w \in 0 .. w - 1 /\ b - m * w = l
         /\ acc % Pow(2, b) = ve * Pow(2, b - m * w) + (acc % Pow(2, b - m * w))
    <2>1. m = b \div w
      OBVIOUS
    <2> HIDE DEF b, m, l
    <2>2. acc \in Nat /\ b \in Nat /\ m \in Nat
      BY <1>4, <1>6, <1>9
    <2>3. Groups(Emitted(acc, b, w), acc, b, w, m)
      BY ONLY w \in Nat \ {0}, <2>1, <2>2, EmittedIs
    <2> HIDE DEF e
    <2>4. Groups(e, acc, b, w, m)
      BY <2>3 DEF e
    <2> QED BY <2>4 DEF Groups, l
  <1>11. l \in 0 .. w - 1 /\ b = m * w + l /\ l \in Nat
         /\ acc % pb = ve * pl + (acc % pl)
    <2> DEFINE x == m * w
    <2>1. x \in Int
      BY <1>9
    <2>2. b - x = l /\ l \in 0 .. w - 1
      BY <1>10
    <2>3. acc % pb = ve * pl + (acc % pl)
      BY <1>10
    <2> HIDE DEF x, l, b, pb, pl, ve
    <2>4. b = x + l /\ l \in Nat
      BY <1>4, <2>1, <2>2
    <2> QED BY <2>2, <2>3, <2>4 DEF x
  <1> HIDE DEF e, m, l
  <1>12. e \in Seq(0 .. W - 1) /\ Len(e) = m
    <2>1. e \in [1 .. m -> 0 .. W - 1]
      BY <1>10
    <2> HIDE DEF W
    <2> QED BY ONLY <1>9, <2>1, FunctionIsSeq
  <1>13. /\ o \o e \in Seq(0 .. W - 1) /\ Len(o \o e) = Len(o) + m
         /\ Value(o \o e, W, Len(o) + m) = vo * Pow(W, m) + ve
    <2>1. /\ o \o e \in Seq(0 .. W - 1) /\ Len(o \o e) = Len(o) + Len(e)
          /\ Value(o \o e, W, Len(o) + Len(e)) = Value(o, W, Len(o)) * Pow(W, Len(e)) + Value(e, W, Len(e))
      <3> HIDE DEF W
      <3> QED BY ONLY <1>1, <1>3, <1>12, ValueConcat
    <2> QED BY <1>12, <2>1
  <1>14. Pow(W, m) * pl = pb
    <2>1. PICK two \in Nat \ {0} : two = 2
      OBVIOUS
    <2>2. Pow(Pow(two, w), m) = Pow(two, w * m)
      <3>1. w \in Nat
        OBVIOUS
      <3> QED BY ONLY two \in Nat \ {0}, <1>9, <3>1, PowTimes
    <2>3. PICK k \in Nat : k = w * m
      BY <1>9
    <2>4. Pow(2, k + l) = Pow(2, k) * Pow(2, l)
      BY <1>11, TwoIs
    <2>5. k + l = b
      BY <1>9, <1>11, <2>3
    <2> QED BY <2>1, <2>2, <2>3, <2>4, <2>5
  <1>15. vo \in Nat /\ ve \in Int /\ pl \in Nat \ {0} /\ Pow(W, m) \in Nat /\ acc % pl \in Int
    <2>1. vo \in Nat
      <3> HIDE DEF W
      <3>1. Len(o) \in Nat /\ Len(o) \in 0 .. Len(o) /\ \A i \in 1 .. Len(o) : o[i] \in 0 .. W - 1
        <4>1. o \in Seq(0 .. W - 1)
          BY <1>1
        <4> QED BY ONLY <4>1, SeqIsFunction
      <3> QED BY ONLY <1>3, <3>1, ValueBounds
    <2>2. ve \in Int
      <3> HIDE DEF W
      <3>1. m \in 0 .. m /\ W \in Int /\ \A i \in 1 .. m : e[i] \in Int
        BY <1>3, <1>9, <1>10
      <3> QED BY ONLY <1>9, <3>1, ValueIs
    <2>3. pl \in Nat \ {0}
      BY <1>11, TwoIs
    <2>4. Pow(W, m) \in Nat
      <3> HIDE DEF W
      <3> QED BY <1>3, <1>9, PowIs
    <2>5. acc % pl \in Int
      <3> HIDE DEF pl
      <3>1. acc \in Int
        BY <1>6
      <3>2. acc % pl \in 0 .. pl - 1
        BY ONLY <2>3, <3>1, DivModIs
      <3> QED BY <2>3, <3>2
    <2> QED BY <2>1, <2>2, <2>3, <2>4, <2>5
  <1>16. number * pn + value = (vo * Pow(W, m) + ve) * pl + (acc % pl)
    <2> DEFINE x == Pow(W, m)
               y == acc % pl
    <2>1. r * pn + value = ve * pl + y
      BY <1>6, <1>8, <1>11
    <2> HIDE DEF vo, ve, pl, ph, pn, pb, x, y
    <2>2. (vo * ph + r) * pn = vo * (ph * pn) + r * pn
      BY <1>3, <1>7, <1>15
    <2>3. (vo * x + ve) * pl = vo * (x * pl) + ve * pl
      BY <1>15 DEF x
    <2>4. x * pl = ph * pn
      BY <1>3, <1>14 DEF x
    <2>5. PICK i \in Int, j \in Int, g \in Int : i = vo * (ph * pn) /\ j = r * pn /\ g = ve * pl
      BY <1>3, <1>7, <1>15
    <2>6. number * pn = i + j /\ (vo * x + ve) * pl = i + g
      BY <1>1, <2>2, <2>3, <2>4, <2>5
    <2>7. j + value = g + y /\ y \in Int /\ value \in Int
      BY <1>15, <2>1, <2>5 DEF y
    <2>8. number * pn + value = (vo * x + ve) * pl + y
      BY ONLY i \in Int, j \in Int, g \in Int, <2>6, <2>7
    <2> QED BY <2>8 DEF x, y
  <1>17. count + n = (Len(o) + m) * w + l
    <2>1. (Len(o) + m) * w = Len(o) * w + m * w /\ Len(o) * w \in Int /\ m * w \in Int
      BY <1>1, <1>9
    <2> DEFINE x == Len(o) * w
               y == m * w
    <2> HIDE DEF x, y
    <2>2. count = x + h /\ h + n = y + l /\ (Len(o) + m) * w = x + y /\ x \in Int /\ y \in Int
      BY <1>1, <1>11, <2>1 DEF x, y
    <2>3. h \in Int /\ l \in Int /\ n \in Int
      BY <1>1, <1>11
    <2> QED BY ONLY <2>2, <2>3
  <1> DEFINE num == number * Pow(2, n) + value
  <1>18. num = Value(o \o e, W, Len(o \o e)) * Pow(2, l) + (acc % Pow(2, l))
    BY <1>13, <1>16
  <1> HIDE DEF num, t
  <1>19. Packing(t, w, count + n, num)
    BY <1>2, <1>6, <1>11, <1>13, <1>17, <1>18 DEF Packing
  <1> QED BY <1>19 DEF t, num

(* The states of a packing loop.                                           *)
PackStates(w) == [acc : Nat, bits : 0 .. w - 1, out : Seq(0 .. Pow(2, w) - 1)]

LEMMA StateIsPacking ==
    ASSUME NEW w \in Nat \ {0}, NEW t \in PackStates(w)
    PROVE  \E count, number \in Nat : Packing(t, w, count, number)
  <1> DEFINE W == Pow(2, w)
             o == t.out
             L == Len(o)
             ph == Pow(2, t.bits)
             v == Value(o, W, L)
             r == t.acc % ph
             count == L * w + t.bits
             number == v * ph + r
  <1>1. t.acc \in Nat /\ t.bits \in 0 .. w - 1 /\ t.bits \in Nat /\ o \in Seq(0 .. W - 1)
    BY DEF PackStates
  <1>2. W \in Nat \ {0} /\ ph \in Nat \ {0}
    BY <1>1, TwoIs
  <1> HIDE DEF W, o, ph
  <1>3. L \in Nat /\ v \in Nat
    <2>1. Len(o) \in Nat /\ Len(o) \in 0 .. Len(o) /\ \A i \in 1 .. Len(o) : o[i] \in 0 .. W - 1
      BY ONLY <1>1, SeqIsFunction
    <2>2. Value(o, W, Len(o)) \in Nat
      BY ONLY <1>2, <2>1, ValueBounds
    <2> QED BY <2>1, <2>2
  <1>4. r \in Nat
    <2>1. t.acc \in Int
      BY <1>1
    <2>2. r \in 0 .. ph - 1
      BY ONLY <1>2, <2>1, DivModIs
    <2> QED BY <1>2, <2>2
  <1> HIDE DEF v, r, L
  <1>5. count \in Nat
    <2>1. L * w \in Nat
      BY <1>3
    <2> QED BY <1>1, <2>1
  <1>6. number \in Nat
    <2>1. v * ph \in Nat
      BY <1>2, <1>3
    <2> QED BY <1>4, <2>1
  <1> HIDE DEF count, number
  <1>7. Packing(t, w, count, number)
    BY <1>1 DEF Packing, count, number, v, r, L, W, o, ph
  <1> QED BY <1>5, <1>6, <1>7

LEMMA PushStays ==
    ASSUME NEW w \in Nat \ {0}, NEW n \in Nat, w - 1 + n <= AccBits, AccBits \in Nat,
           NEW value \in 0 .. Pow(2, n) - 1, NEW t \in PackStates(w)
    PROVE  Push(t, n, value, w) \in PackStates(w)
  <1> DEFINE q == Push(t, n, value, w)
  <1>1. PICK count \in Nat, number \in Nat : Packing(t, w, count, number)
    BY StateIsPacking
  <1>2. value \in Nat /\ value < Pow(2, n)
    <2>1. Pow(2, n) \in Nat \ {0}
      BY TwoIs
    <2> QED BY <2>1
  <1>3. Packing(q, w, count + n, number * Pow(2, n) + value)
    BY <1>1, <1>2, PushIs
  <1>4. q = [acc |-> q.acc, bits |-> q.bits, out |-> q.out]
    BY DEF Push
  <1> HIDE DEF q
  <1>5. q.acc \in Nat /\ q.bits \in 0 .. w - 1 /\ q.out \in Seq(0 .. Pow(2, w) - 1)
    BY <1>3 DEF Packing
  <1>6. q \in PackStates(w)
    BY <1>4, <1>5 DEF PackStates
  <1> QED BY <1>6 DEF q

PackSteps(f, values, n, w, L) ==
    f = [i \in 0 .. L |-> IF i = 0 THEN Start ELSE Push(f[i - 1], n, values[i], w)]

LEMMA PackExists ==
    ASSUME NEW w \in Nat \ {0}, NEW n \in Nat, w - 1 + n <= AccBits, AccBits \in Nat,
           NEW L \in Nat, NEW values, \A i \in 1 .. L : values[i] \in 0 .. Pow(2, n) - 1
    PROVE  \E f : PackSteps(f, values, n, w, L)
  <1> DEFINE T == PackStates(w)
             step == [p \in T \X (1 .. L) |-> Push(p[1], n, values[p[2]], w)]
  <1>1. ASSUME NEW t \in T, NEW i \in 1 .. L
        PROVE  step[<<t, i>>] = Push(t, n, values[i], w) /\ Push(t, n, values[i], w) \in T
    <2>1. step[<<t, i>>] = Push(t, n, values[i], w)
      <3> HIDE DEF T
      <3> QED OBVIOUS
    <2>2. PICK v \in 0 .. Pow(2, n) - 1 : v = values[i]
      OBVIOUS
    <2>3. Push(t, n, v, w) \in T
      BY PushStays
    <2> QED BY <2>1, <2>2, <2>3
  <1>2. \A t \in T, i \in 1 .. L : step[<<t, i>>] \in T
    <2> HIDE DEF T, step
    <2> QED BY <1>1
  <1>3. Start \in T
    <2>1. Packing(Start, w, 0, 0)
      BY StartIs
    <2>2. Start.acc \in Nat /\ Start.bits \in 0 .. w - 1 /\ Start.out \in Seq(0 .. Pow(2, w) - 1)
      BY <2>1 DEF Packing
    <2>3. Start = [acc |-> Start.acc, bits |-> Start.bits, out |-> Start.out]
      BY DEF Start
    <2> QED BY <2>2, <2>3 DEF PackStates
  <1> HIDE DEF step, T
  <1> DEFINE start == Start
  <1>4. start \in T
    BY <1>3
  <1> HIDE DEF start
  <1>5. PICK f : Steps(f, L, T, start, step)
    BY ONLY L \in Nat, <1>2, <1>4, StepFunction
  <1>6. /\ f \in [0 .. L -> T] /\ f[0] = start
        /\ \A i \in 1 .. L : f[i] = step[<<f[i - 1], i>>]
    BY <1>5 DEF Steps
  <1>7. ASSUME NEW i \in 0 .. L
        PROVE  f[i] = IF i = 0 THEN Start ELSE Push(f[i - 1], n, values[i], w)
    <2>1. CASE i = 0
      BY <1>6, <2>1 DEF start
    <2>2. CASE i # 0
      <3>1. i \in 1 .. L /\ i - 1 \in 0 .. L
        BY <2>2
      <3>2. f[i - 1] \in T
        BY <1>6, <3>1
      <3>3. step[<<f[i - 1], i>>] = Push(f[i - 1], n, values[i], w)
        BY <1>1, <3>1, <3>2
      <3> QED BY <1>6, <2>2, <3>1, <3>3
    <2> QED BY <2>1, <2>2
  <1>8. f = [i \in 0 .. L |-> f[i]]
    BY <1>6
  <1>9. PackSteps(f, values, n, w, L)
    BY ONLY <1>7, <1>8 DEF PackSteps
  <1> QED BY <1>9

(* After the last value: all of them, as one number.                       *)
LEMMA PackedIs ==
    ASSUME NEW w \in Nat \ {0}, NEW n \in Nat, w - 1 + n <= AccBits, AccBits \in Nat,
           NEW L \in Nat, NEW values, Len(values) = L,
           \A i \in 1 .. L : values[i] \in 0 .. Pow(2, n) - 1
    PROVE  Packing(Packed(values, n, w), w, L * n, Value(values, Pow(2, n), L))
  <1> DEFINE f == CHOOSE g : PackSteps(g, values, n, w, L)
             N == Pow(2, n)
             V(i) == Value(values, N, i)
             G == {i \in 0 .. L : Packing(f[i], w, i * n, V(i))}
  <1>1. PackSteps(f, values, n, w, L)
    <2>1. \E g : PackSteps(g, values, n, w, L)
      BY PackExists
    <2> QED BY ONLY <2>1
  <1>2. Packed(values, n, w) = f[L]
    BY DEF Packed, PackSteps
  <1> HIDE DEF f
  <1>3. f[0] = Start /\ \A i \in 1 .. L : f[i] = Push(f[i - 1], n, values[i], w)
    <2>1. \A i \in 0 .. L : f[i] = IF i = 0 THEN Start ELSE Push(f[i - 1], n, values[i], w)
      BY ONLY <1>1 DEF PackSteps
    <2>2. 0 \in 0 .. L /\ \A i \in 1 .. L : i # 0 /\ i \in 0 .. L
      OBVIOUS
    <2> QED BY ONLY <2>1, <2>2
  <1>4. N \in Nat \ {0}
    BY TwoIs
  <1>5. /\ V(0) = 0 /\ \A i \in 0 .. L : V(i) \in Nat
        /\ \A i \in 1 .. L : V(i) = V(i - 1) * N + values[i]
    <2> HIDE DEF N
    <2>1. N \in Int /\ \A i \in 1 .. L : values[i] \in Int
      BY <1>4 DEF N
    <2>2. \A i \in 1 .. L : values[i] \in 0 .. N - 1
      BY DEF N
    <2>3. \A i \in 0 .. L : Value(values, N, i) \in Nat
      BY ONLY L \in Nat, <1>4, <2>2, ValueBounds
    <2>4. /\ Value(values, N, 0) = 0
          /\ \A i \in 1 .. L : Value(values, N, i) = Value(values, N, i - 1) * N + values[i]
      BY ONLY L \in Nat, <2>1, ValueIs
    <2> QED BY <2>3, <2>4
  <1>6. 0 \in G
    <2>1. Packing(Start, w, 0, 0)
      BY StartIs
    <2>2. 0 \in 0 .. L /\ 0 * n = 0
      OBVIOUS
    <2> HIDE DEF N, V
    <2>3. Packing(f[0], w, 0 * n, V(0))
      BY ONLY <1>3, <1>5, <2>1, <2>2
    <2> QED BY <2>2, <2>3
  <1>7. ASSUME NEW i \in 0 .. L - 1, i \in G PROVE i + 1 \in G
    <2>1. PICK j \in 1 .. L : j = i + 1
      OBVIOUS
    <2>2. j - 1 = i /\ i \in 0 .. L /\ j \in 0 .. L
      BY <2>1
    <2>3. PICK v \in Nat : v = values[j] /\ v < N
      <3>1. values[j] \in 0 .. N - 1
        OBVIOUS
      <3> HIDE DEF N
      <3> QED BY <1>4, <3>1
    <2>4. PICK count \in Nat : count = i * n
      OBVIOUS
    <2>5. PICK number \in Nat : number = V(i)
      BY <1>5, <2>2
    <2>6. PICK s : s = f[i]
      OBVIOUS
    <2>7. Packing(s, w, count, number)
      BY <1>7, <2>4, <2>5, <2>6
    <2>8. Packing(Push(s, n, v, w), w, count + n, number * Pow(2, n) + v)
      BY <2>3, <2>7, PushIs
    <2>9. count + n = j * n
      BY <2>1, <2>4
    <2> HIDE DEF V
    <2>10. number * N + v = V(j)
      BY <1>5, <2>2, <2>3, <2>5
    <2>11. f[j] = Push(s, n, v, w)
      BY <1>3, <2>2, <2>3, <2>6
    <2> HIDE DEF N
    <2>12. number * N + v = number * Pow(2, n) + v
      BY DEF N
    <2>13. Packing(f[j], w, j * n, V(j))
      BY ONLY <2>8, <2>9, <2>10, <2>11, <2>12
    <2> QED BY <2>1, <2>2, <2>13
  <1>8. \A i \in 0 .. L : i \in G
    <2>1. \A i \in 0 .. L - 1 : i \in G => i + 1 \in G
      <3> HIDE DEF G
      <3> QED BY ONLY <1>7
    <2>2. L \in Int /\ 0 \in Int
      OBVIOUS
    <2> HIDE DEF G
    <2> QED BY ONLY <1>6, <2>1, <2>2, IntervalInduction
  <1>9. L \in 0 .. L
    OBVIOUS
  <1> QED BY <1>2, <1>8, <1>9

(* A quotient by a power of two of a number with so many bits.             *)
LEMMA HighBits ==
    ASSUME NEW b \in Nat, NEW k \in 0 .. b, NEW x \in 0 .. Pow(2, b) - 1
    PROVE  x \div Pow(2, b - k) \in Nat /\ x \div Pow(2, b - k) < Pow(2, k)
  <1>1. PICK c \in Nat : c = b - k
    OBVIOUS
  <1> DEFINE p == Pow(2, c)
             q == Pow(2, k)
             y == x \div p
  <1>2. p \in Nat \ {0} /\ q \in Nat \ {0} /\ Pow(2, b) = q * p
    <2>1. b = k + c /\ k \in Nat
      BY <1>1
    <2> QED BY <2>1, TwoIs
  <1> HIDE DEF p, q
  <1>3. x \in Nat /\ x < q * p
    <2>1. q * p \in Nat
      BY <1>2
    <2> QED BY <1>2, <2>1
  <1>4. y \in Nat /\ y * p <= x
    <2>1. x \in Int
      BY <1>3
    <2>2. x \div p \in Int /\ (x % p) \in 0 .. p - 1 /\ x = (x \div p) * p + (x % p)
          /\ (x \in Nat => x \div p \in Nat)
      BY ONLY <1>2, <2>1, DivModIs
    <2> DEFINE z == y * p
    <2>3. z \in Int
      BY <1>2, <2>2
    <2> QED BY <1>2, <1>3, <2>2, <2>3
  <1> HIDE DEF y
  <1>5. y < q
    <2> SUFFICES ASSUME q <= y PROVE FALSE
      BY <1>2, <1>4
    <2>1. q * p <= y * p /\ q * p \in Nat /\ y * p \in Nat
      BY <1>2, <1>4
    <2> QED BY <1>3, <1>4, <2>1
  <1> QED BY <1>1, <1>4, <1>5 DEF p, q, y

LEMMA OneMoreTimes ==
    \A a, c, m \in Int : m = a + 1 => m * c = a * c + c /\ m * c \in Int
  OBVIOUS

LEMMA Cancel ==
    ASSUME NEW a \in Int, NEW b \in Int, NEW c \in Nat \ {0}, a * c = b * c
    PROVE  a = b
  <1>1. PICK d \in Int : d = a - b
    OBVIOUS
  <1>2. d * c = 0
    BY <1>1
  <1>3. d = 0
    BY <1>2
  <1> QED BY <1>1, <1>3

-----------------------------------------------------------------------------
(* A seed and its words. *)

LEMMA SizesAre ==
    /\ ByteBits \in Nat \ {0} /\ WordBits \in Nat \ {0} /\ AccBits \in Nat
    /\ ByteBits - 1 + WordBits <= AccBits
    /\ Bytes = 0 .. Pow(2, ByteBits) - 1 /\ Words = 0 .. Pow(2, WordBits) - 1
    /\ Pow(2, ByteBits) \in Nat \ {0} /\ Pow(2, WordBits) \in Nat \ {0}
    /\ Pow(2, 0) = 1
  <1>1. /\ ByteBits \in Nat \ {0} /\ WordBits \in Nat \ {0} /\ AccBits \in Nat
        /\ AccBits >= ByteBits + WordBits - 1
    BY InputAssumption
  <1>2. ByteBits - 1 + WordBits <= AccBits
    BY ONLY <1>1
  <1> QED BY <1>1, <1>2, TwoIs DEF Bytes, Words

LEMMA EncodingIs ==
    ASSUME NEW len \in SeedLens, NEW seed \in [1 .. len -> Bytes]
    PROVE  EntropyToIndices(seed) \in Seq(Words) /\ Encodes(EntropyToIndices(seed), seed)
  <1> DEFINE k == ChecksumBits(len)
             d == Digest(seed)
             checksum == d \div Pow(2, ByteBits - k)
             p == Packed(seed, ByteBits, WordBits)
             q == Push(p, k, checksum, WordBits)
             number == Value(seed, Pow(2, ByteBits), len)
             total == number * Pow(2, k) + checksum
  <1>1. /\ len \in Nat \ {0} /\ len \in Nat /\ k \in 1 .. ByteBits
        /\ (len * ByteBits + k) % WordBits = 0
        /\ d \in Bytes
    BY InputAssumption
  <1>2. seed \in Seq(Bytes) /\ Len(seed) = len
    BY ONLY <1>1, seed \in [1 .. len -> Bytes], FunctionIsSeq
  <1>3. EntropyToIndices(seed) = q.out
    BY <1>2 DEF EntropyToIndices
  <1> HIDE DEF k, d
  <1>4. k \in Nat /\ k \in 0 .. ByteBits
    BY <1>1, SizesAre
  <1>5. checksum \in Nat /\ checksum < Pow(2, k)
    <2>1. ByteBits \in Nat /\ d \in 0 .. Pow(2, ByteBits) - 1
      BY <1>1, SizesAre
    <2> QED BY ONLY <1>4, <2>1, HighBits
  <1> HIDE DEF checksum
  <1>6. Packing(p, WordBits, len * ByteBits, number)
    <2> DEFINE a == seed
    <2>1. /\ WordBits \in Nat \ {0} /\ ByteBits \in Nat /\ AccBits \in Nat
          /\ WordBits - 1 + ByteBits <= AccBits
      BY SizesAre
    <2>2. Len(a) = len /\ \A i \in 1 .. len : a[i] \in 0 .. Pow(2, ByteBits) - 1
      BY <1>2, SizesAre
    <2> HIDE DEF a
    <2>3. Packing(Packed(a, ByteBits, WordBits), WordBits, len * ByteBits, Value(a, Pow(2, ByteBits), len))
      BY ONLY <1>1, <2>1, <2>2, PackedIs
    <2> QED BY <2>3 DEF a
  <1> HIDE DEF p
  <1>7. number \in Nat
    <2> DEFINE a == seed
               B == Pow(2, ByteBits)
    <2>1. B \in Nat \ {0} /\ \A i \in 1 .. len : a[i] \in 0 .. B - 1
      BY SizesAre
    <2>2. len \in 0 .. len
      BY <1>1
    <2> HIDE DEF a, B
    <2>3. Value(a, B, len) \in Nat
      BY ONLY <1>1, <2>1, <2>2, ValueBounds
    <2> QED BY <2>3 DEF a, B
  <1> HIDE DEF number
  <1>8. Packing(q, WordBits, len * ByteBits + k, total)
    <2>1. /\ WordBits \in Nat \ {0} /\ AccBits \in Nat /\ WordBits - 1 + k <= AccBits
      BY <1>4, SizesAre
    <2>2. PICK count \in Nat : count = len * ByteBits
      BY <1>1, SizesAre
    <2>3. Packing(p, WordBits, count, number)
      BY <1>6, <2>2
    <2>4. Packing(Push(p, k, checksum, WordBits), WordBits, count + k, number * Pow(2, k) + checksum)
      BY ONLY <1>4, <1>5, <1>7, <2>1, <2>2, <2>3, PushIs
    <2> QED BY <2>2, <2>4
  <1> HIDE DEF q, total
  <1> DEFINE o == q.out
             W == Pow(2, WordBits)
  <1>9. /\ q.acc \in Nat /\ q.bits \in 0 .. WordBits - 1 /\ o \in Seq(0 .. W - 1)
        /\ len * ByteBits + k = Len(o) * WordBits + q.bits
        /\ total = Value(o, W, Len(o)) * Pow(2, q.bits) + (q.acc % Pow(2, q.bits))
    BY <1>8 DEF Packing
  <1> HIDE DEF o, W
  <1>10. Len(o) \in Nat /\ \A i \in 1 .. Len(o) : o[i] \in 0 .. W - 1
    BY ONLY <1>9, SeqIsFunction
  <1>11. q.bits = 0
    <2>1. (Len(o) * WordBits + q.bits) % WordBits = q.bits
      <3>1. WordBits \in Nat \ {0} /\ Len(o) \in Int
        BY <1>10, SizesAre
      <3> QED BY ONLY <1>9, <3>1, DivModUnique
    <2> QED BY <1>1, <1>9, <2>1
  <1>12. total = Value(o, W, Len(o)) /\ len * ByteBits + k = Len(o) * WordBits
    <2>1. Value(o, W, Len(o)) \in Nat
      <3>1. W \in Nat \ {0}
        BY SizesAre DEF W
      <3>2. Len(o) \in 0 .. Len(o)
        BY <1>10
      <3> QED BY ONLY <1>10, <3>1, <3>2, ValueBounds
    <2>2. q.acc % 1 = 0
      BY <1>9
    <2>3. Len(o) * WordBits \in Nat
      BY <1>10, SizesAre
    <2> QED BY <1>9, <1>11, <2>1, <2>2, <2>3, SizesAre
  <1>13. Number(o, WordBits) = total
    BY <1>12 DEF Number, W
  <1>14. Number(seed, ByteBits) = number
    BY <1>2 DEF Number, number
  <1>15. Encodes(o, seed)
    BY <1>2, <1>12, <1>13, <1>14 DEF Encodes, total, checksum, k, d
  <1>16. o \in Seq(Words)
    BY <1>9, SizesAre DEF W
  <1> QED BY <1>3, <1>15, <1>16 DEF o

(* Two word lists that stand for the same number are the same.             *)
SameNumbers(a, c, b, N) ==
    /\ \A i \in 1 .. N : a[i] \in 0 .. b - 1
    /\ \A i \in 1 .. N : c[i] \in 0 .. b - 1
    /\ Value(a, b, N) = Value(c, b, N)

LEMMA SameNumbersAre ==
    ASSUME NEW N \in Nat, NEW b \in Nat \ {0}, NEW a, NEW c, SameNumbers(a, c, b, N)
    PROVE  \A i \in 1 .. N : a[i] = c[i]
  BY ValueInjective DEF SameNumbers

LEMMA NumberInjective ==
    ASSUME NEW w \in Nat \ {0}, NEW r \in Seq(0 .. Pow(2, w) - 1), NEW s \in Seq(0 .. Pow(2, w) - 1),
           Len(r) = Len(s), Number(r, w) = Number(s, w)
    PROVE  r = s
  <1> DEFINE W == Pow(2, w)
             D == 0 .. W - 1
             n == Len(r)
             a == r
             b == s
  <1>1. W \in Nat \ {0}
    BY TwoIs
  <1>2. n \in Nat /\ a \in [1 .. n -> D] /\ \A i \in 1 .. n : a[i] \in D
    <2> HIDE DEF D
    <2>1. r \in Seq(D)
      BY DEF D
    <2> QED BY ONLY <2>1, SeqIsFunction
  <1>3. b \in [1 .. n -> D] /\ \A i \in 1 .. n : b[i] \in D
    <2> HIDE DEF D
    <2>1. s \in Seq(D)
      BY DEF D
    <2>2. s \in [1 .. Len(s) -> D]
      BY ONLY <2>1, SeqIsFunction
    <2> QED BY <2>2
  <1>4. Value(a, W, n) = Value(b, W, n)
    BY DEF Number
  <1> HIDE DEF a, b, n, W
  <1>5. \A i \in 1 .. n : a[i] = b[i]
    <2>1. /\ \A i \in 1 .. n : a[i] \in 0 .. W - 1
          /\ \A i \in 1 .. n : b[i] \in 0 .. W - 1
      BY <1>2, <1>3
    <2>2. n \in Nat
      BY <1>2
    <2>3. SameNumbers(a, b, W, n)
      BY <1>4, <2>1 DEF SameNumbers
    <2> QED BY ONLY <1>1, <2>2, <2>3, SameNumbersAre
  <1>6. a = b
    <2> HIDE DEF D
    <2> QED BY <1>2, <1>3, <1>5
  <1> QED BY <1>6 DEF a, b

LEMMA EncodingIsUnique ==
    ASSUME NEW seed, NEW r \in Seq(Words), NEW s \in Seq(Words), Encodes(r, seed), Encodes(s, seed)
    PROVE  r = s
  <1>1. Len(r) * WordBits = Len(s) * WordBits /\ Number(r, WordBits) = Number(s, WordBits)
    BY DEF Encodes
  <1>2. Len(r) \in Int /\ Len(s) \in Int
    OBVIOUS
  <1>3. Len(r) = Len(s)
    <2>1. WordBits \in Nat \ {0}
      BY SizesAre
    <2> QED BY ONLY <1>1, <1>2, <2>1, Cancel
  <1>4. r \in Seq(0 .. Pow(2, WordBits) - 1) /\ s \in Seq(0 .. Pow(2, WordBits) - 1)
    BY SizesAre
  <1>5. WordBits \in Nat \ {0}
    BY SizesAre
  <1> QED BY ONLY <1>1, <1>3, <1>4, <1>5, NumberInjective

(* The seed that the words would be of: all their bits but the last ones,  *)
(* which are as many as its checksum has.                                  *)
LEMMA CandidateIs ==
    ASSUME NEW words \in Seq(Words), Len(words) \in WordCounts,
           NEW len, len = SeedLen(Len(words)), NEW k, k = ChecksumBits(len)
    PROVE  /\ Candidate(words) \in [1 .. len -> Bytes]
           /\ \E x \in 0 .. Pow(2, k) - 1 :
                  Number(words, WordBits) =
                      Value(Candidate(words), Pow(2, ByteBits), len) * Pow(2, k) + x
  <1> DEFINE n == Len(words)
             B == Pow(2, ByteBits)
             p == Packed(words, WordBits, ByteBits)
             o == p.out
             h == p.bits
             number == Number(words, WordBits)
  <1>1. /\ n \in Nat /\ len \in Nat \ {0} /\ len \in Nat /\ k \in 1 .. ByteBits
        /\ n * WordBits = len * ByteBits + k
    BY InputAssumption
  <1>2. B \in Nat \ {0} /\ Bytes = 0 .. B - 1
    BY SizesAre
  <1>3. Packing(p, ByteBits, n * WordBits, number)
    <2> DEFINE a == words
               L == n
    <2>1. /\ WordBits \in Nat /\ ByteBits \in Nat \ {0} /\ AccBits \in Nat
          /\ ByteBits - 1 + WordBits <= AccBits
      BY SizesAre
    <2>2. Len(a) = L /\ L \in Nat /\ \A i \in 1 .. L : a[i] \in 0 .. Pow(2, WordBits) - 1
      <3>1. \A i \in 1 .. Len(words) : words[i] \in Words
        BY ONLY words \in Seq(Words), SeqIsFunction
      <3> QED BY <1>1, <3>1, SizesAre
    <2> HIDE DEF a, L
    <2>3. Packing(Packed(a, WordBits, ByteBits), ByteBits, L * WordBits, Value(a, Pow(2, WordBits), L))
      BY ONLY <2>1, <2>2, PackedIs
    <2> QED BY <2>3 DEF a, L, Number
  <1> HIDE DEF p
  <1>4. /\ p.acc \in Nat /\ h \in 0 .. ByteBits - 1 /\ o \in Seq(0 .. B - 1)
        /\ n * WordBits = Len(o) * ByteBits + h
        /\ number = Value(o, B, Len(o)) * Pow(2, h) + (p.acc % Pow(2, h))
    BY <1>3 DEF Packing
  <1> DEFINE padded == (p.acc * Pow(2, ByteBits - h)) % Pow(2, ByteBits)
  <1>5. Candidate(words) = SubSeq(IF h > 0 THEN Append(o, padded) ELSE o, 1, len)
    BY DEF Candidate, Unpacked, p
  <1> DEFINE c == Candidate(words)
  <1> HIDE DEF number, o, h, B, c, n, padded
  <1>6. /\ Len(o) \in Nat /\ o \in [1 .. Len(o) -> 0 .. B - 1] /\ Len(o) \in 0 .. Len(o)
        /\ \A i \in 1 .. Len(o) : o[i] \in 0 .. B - 1
    BY ONLY <1>4, SeqIsFunction
  <1>7. ByteBits \in Nat \ {0}
    BY SizesAre
  <1>8. CASE k < ByteBits
    <2>1. Len(o) = len /\ h = k
      <3>1. PICK x \in Int : x = len * ByteBits + k
        BY <1>1, <1>7
      <3>2. x = Len(o) * ByteBits + h
        BY <1>1, <1>4, <3>1
      <3>3. k \in 0 .. ByteBits - 1 /\ len \in Int /\ Len(o) \in Int
        BY <1>1, <1>6, <1>7, <1>8
      <3>4. (len * ByteBits + k) \div ByteBits = len /\ (len * ByteBits + k) % ByteBits = k
        BY ONLY <1>7, <3>3, DivModUnique
      <3>5. (Len(o) * ByteBits + h) \div ByteBits = Len(o) /\ (Len(o) * ByteBits + h) % ByteBits = h
        BY ONLY <1>4, <1>7, <3>3, DivModUnique
      <3> QED BY <3>1, <3>2, <3>4, <3>5
    <2>2. c = o
      <3>1. h > 0
        BY <1>1, <2>1
      <3>2. c = SubSeq(Append(o, padded), 1, len)
        BY <1>5, <3>1 DEF c
      <3>3. SubSeq(Append(o, padded), 1, Len(o)) = o
        BY ONLY <1>4, <1>6
      <3> QED BY <2>1, <3>2, <3>3
    <2>3. c \in [1 .. len -> Bytes]
      BY <1>2, <1>6, <2>1, <2>2
    <2>4. (p.acc % Pow(2, k)) \in 0 .. Pow(2, k) - 1
      <3> DEFINE q == Pow(2, k)
      <3>1. q \in Nat \ {0}
        <4>1. k \in Nat
          BY <1>1
        <4> QED BY <4>1, TwoIs
      <3> HIDE DEF q
      <3>2. p.acc \in Int
        BY <1>4
      <3>3. p.acc % q \in 0 .. q - 1
        BY ONLY <3>1, <3>2, DivModIs
      <3> QED BY <3>3 DEF q
    <2>5. number = Value(c, B, len) * Pow(2, k) + (p.acc % Pow(2, k))
      BY <1>4, <2>1, <2>2
    <2> QED BY <2>3, <2>4, <2>5 DEF c, B, number
  <1>9. CASE ~ k < ByteBits
    <2>1. k = ByteBits
      BY <1>1, <1>7, <1>9
    <2>2. Len(o) = len + 1 /\ h = 0
      <3>1. PICK m \in Int : m = len + 1
        BY <1>1
      <3>2. PICK z \in 0 .. ByteBits - 1 : z = 0
        BY <1>7
      <3>3. m * ByteBits + z = Len(o) * ByteBits + h
        <4>1. m * ByteBits = len * ByteBits + ByteBits /\ m * ByteBits \in Int
          <5>1. len \in Int /\ ByteBits \in Int
            BY <1>1, <1>7
          <5> QED BY ONLY <3>1, <5>1, m \in Int, OneMoreTimes
        <4> QED BY <1>1, <1>4, <2>1, <3>2, <4>1
      <3>4. (m * ByteBits + z) \div ByteBits = m /\ (m * ByteBits + z) % ByteBits = z
        BY ONLY <1>7, m \in Int, z \in 0 .. ByteBits - 1, DivModUnique
      <3>5. Len(o) \in Int
        BY <1>6
      <3>6. (Len(o) * ByteBits + h) \div ByteBits = Len(o) /\ (Len(o) * ByteBits + h) % ByteBits = h
        BY ONLY <1>4, <1>7, <3>5, DivModUnique
      <3> QED BY <3>1, <3>2, <3>3, <3>4, <3>6
    <2>3. /\ c \in [1 .. len -> 0 .. B - 1]
          /\ \A i \in 1 .. len : c[i] = o[i]
      <3>1. c = SubSeq(o, 1, len)
        BY <1>5, <2>2 DEF c
      <3>2. c = [i \in 1 .. len |-> o[i]]
        BY ONLY <1>1, <1>4, <1>6, <2>2, <3>1
      <3>3. \A i \in 1 .. len : i \in 1 .. Len(o)
        BY <1>1, <2>2
      <3> QED BY <1>6, <3>2, <3>3
    <2>4. Value(o, B, len + 1) = Value(o, B, len) * B + o[len + 1]
      <3> DEFINE a == o
      <3>1. PICK m \in Nat : m = len + 1
        BY <1>1
      <3>2. \A i \in 1 .. m : a[i] \in Int
        BY <1>2, <1>6, <2>2, <3>1
      <3>3. m \in 1 .. m /\ m - 1 = len /\ B \in Int
        BY <1>1, <1>2, <3>1
      <3> HIDE DEF a
      <3>4. \A i \in 1 .. m : Value(a, B, i) = Value(a, B, i - 1) * B + a[i]
        BY ONLY m \in Nat, <3>2, <3>3, ValueIs
      <3>5. Value(a, B, m) = Value(a, B, len) * B + a[m]
        BY <3>3, <3>4
      <3> QED BY <3>1, <3>5 DEF a
    <2>5. Value(c, B, len) = Value(o, B, len)
      <3> DEFINE a == o
      <3>1. /\ B \in Int /\ \A i \in 1 .. len : a[i] \in Int
            /\ \A i \in 1 .. len : c[i] = a[i]
        <4>1. \A i \in 1 .. len : i \in 1 .. Len(o)
          BY <1>1, <2>2
        <4> QED BY <1>2, <1>6, <2>3, <4>1
      <3> HIDE DEF a
      <3>2. Value(a, B, len) = Value(c, B, len)
        BY ONLY <1>1, <3>1, ValueSame
      <3> QED BY <3>2 DEF a
    <2>6. number = Value(c, B, len) * B + o[len + 1] /\ o[len + 1] \in 0 .. B - 1
      <3>1. o[len + 1] \in 0 .. B - 1
        BY <1>1, <1>6, <2>2
      <3>2. p.acc % 1 = 0
        BY <1>4
      <3>3. Value(o, B, Len(o)) \in Nat
        BY ONLY <1>2, <1>6, ValueBounds
      <3>4. number = Value(o, B, Len(o)) * 1 + 0
        BY <1>4, <2>2, <3>2, SizesAre
      <3>5. number = Value(o, B, Len(o))
        BY <3>3, <3>4
      <3> QED BY <2>2, <2>4, <2>5, <3>1, <3>5
    <2>7. B = Pow(2, k)
      BY <2>1 DEF B
    <2> QED BY <1>2, <2>3, <2>6, <2>7 DEF c, B, number
  <1> QED BY <1>8, <1>9

(* The words of a seed give it back.                                       *)
LEMMA CodeIsFound ==
    ASSUME NEW words \in Seq(Words), Len(words) \in WordCounts,
           NEW seed \in [1 .. SeedLen(Len(words)) -> Bytes], Encodes(words, seed)
    PROVE  Candidate(words) = seed
  <1> DEFINE len == SeedLen(Len(words))
             k == ChecksumBits(len)
             B == Pow(2, ByteBits)
             q == Pow(2, k)
             c == Candidate(words)
             y == Digest(seed) \div Pow(2, ByteBits - k)
             number == Number(words, WordBits)
             vs == Value(seed, B, len)
             vc == Value(c, B, len)
  <1>1. len \in SeedLens /\ len \in Nat /\ k \in 1 .. ByteBits /\ Digest(seed) \in Bytes
    BY InputAssumption
  <1>2. PICK x \in 0 .. q - 1 : c \in [1 .. len -> Bytes] /\ number = vc * q + x
    BY CandidateIs
  <1>3. Len(seed) = len
    <2> DEFINE L == len
    <2> HIDE DEF len
    <2> QED BY ONLY <1>1, seed \in [1 .. SeedLen(Len(words)) -> Bytes], FunctionIsSeq DEF len
  <1>4. number = vs * q + y
    BY <1>3 DEF Encodes, Number
  <1>5. k \in Nat /\ k \in 0 .. ByteBits /\ ByteBits \in Nat /\ B \in Nat \ {0} /\ Bytes = 0 .. B - 1
    <2> HIDE DEF k
    <2> QED BY <1>1, SizesAre
  <1>6. q \in Nat \ {0}
    <2> HIDE DEF k
    <2> QED BY <1>5, TwoIs
  <1>7. y \in 0 .. q - 1
    <2> DEFINE d == Digest(seed)
    <2>1. d \in 0 .. Pow(2, ByteBits) - 1
      BY <1>1, <1>5
    <2> HIDE DEF k, d
    <2>2. d \div Pow(2, ByteBits - k) \in Nat /\ d \div Pow(2, ByteBits - k) < Pow(2, k)
      BY ONLY <1>5, <2>1, HighBits
    <2>3. y \in Nat /\ y < q
      BY <2>2 DEF d
    <2> HIDE DEF y, q
    <2> QED BY <1>6, <2>3
  <1> HIDE DEF q, y, k
  <1> DEFINE s == seed
             n == len
  <1>8. /\ \A i \in 1 .. n : s[i] \in 0 .. B - 1
        /\ \A i \in 1 .. n : c[i] \in 0 .. B - 1
        /\ n \in Nat /\ n \in 0 .. n
    <2> HIDE DEF len, B, c
    <2>1. s \in [1 .. n -> Bytes] /\ c \in [1 .. n -> Bytes] /\ n \in Nat
      BY <1>1, <1>2 DEF len
    <2> HIDE DEF s, n
    <2> QED BY ONLY <1>5, <2>1
  <1>9. vs \in Int /\ vc \in Int
    <2> HIDE DEF s, c, B, n
    <2>1. Value(s, B, n) \in Nat
      BY ONLY <1>5, <1>8, ValueBounds
    <2>2. Value(c, B, n) \in Nat
      BY ONLY <1>5, <1>8, ValueBounds
    <2> QED BY <2>1, <2>2 DEF s, n
  <1>10. vs = vc
    <2> HIDE DEF vs, vc, number
    <2>1. (vs * q + y) \div q = vs
      BY ONLY <1>6, <1>7, <1>9, DivModUnique
    <2>2. (vc * q + x) \div q = vc
      BY ONLY <1>6, x \in 0 .. q - 1, <1>9, DivModUnique
    <2> QED BY <1>2, <1>4, <2>1, <2>2
  <1>11. \A i \in 1 .. n : s[i] = c[i]
    <2>1. SameNumbers(s, c, B, n)
      <3> HIDE DEF s, c, B, n
      <3>1. Value(s, B, n) = Value(c, B, n)
        BY <1>10 DEF s, n
      <3> QED BY ONLY <1>8, <3>1 DEF SameNumbers
    <2> HIDE DEF s, c, B, n
    <2> QED BY ONLY <1>5, <1>8, <2>1, SameNumbersAre
  <1>12. s \in [1 .. n -> Bytes] /\ c \in [1 .. n -> Bytes]
    BY <1>2
  <1> HIDE DEF s, c, n
  <1>13. s = c
    <2>1. s = [i \in 1 .. n |-> s[i]] /\ c = [i \in 1 .. n |-> c[i]]
      BY ONLY <1>12
    <2>2. [i \in 1 .. n |-> s[i]] = [i \in 1 .. n |-> c[i]]
      BY ONLY <1>11
    <2> QED BY ONLY <2>1, <2>2
  <1> QED BY <1>13 DEF s, c

(* The checksum is accepted exactly for the words of some seed.            *)
LEMMA VerifiedIs ==
    ASSUME NEW words \in Seq(Words), Len(words) \in WordCounts
    PROVE  Verified(words) <=> \E seed \in [1 .. SeedLen(Len(words)) -> Bytes] : Encodes(words, seed)
  <1> DEFINE len == SeedLen(Len(words))
             c == Candidate(words)
  <1>1. len \in SeedLens
    BY InputAssumption
  <1>2. c \in [1 .. len -> Bytes]
    BY CandidateIs
  <1>3. ASSUME Verified(words)
        PROVE  \E seed \in [1 .. len -> Bytes] : Encodes(words, seed)
    <2>1. EntropyToIndices(c) = words
      BY <1>3 DEF Verified
    <2> HIDE DEF c, len
    <2>2. Encodes(EntropyToIndices(c), c)
      BY ONLY <1>1, <1>2, EncodingIs
    <2>3. Encodes(words, c)
      BY ONLY <2>1, <2>2
    <2> QED BY <1>2, <2>3
  <1>4. ASSUME NEW seed \in [1 .. len -> Bytes], Encodes(words, seed)
        PROVE  Verified(words)
    <2>1. Candidate(words) = seed
      BY <1>4, CodeIsFound
    <2>2. EntropyToIndices(seed) \in Seq(Words) /\ Encodes(EntropyToIndices(seed), seed)
      <3> HIDE DEF len
      <3> QED BY ONLY <1>1, seed \in [1 .. len -> Bytes], EncodingIs
    <2>3. EntropyToIndices(seed) = words
      <3> DEFINE t == EntropyToIndices(seed)
      <3>1. t \in Seq(Words) /\ Encodes(t, seed)
        BY <2>2
      <3> HIDE DEF t
      <3>2. t = words
        BY ONLY words \in Seq(Words), <1>4, <3>1, EncodingIsUnique
      <3> QED BY <3>2 DEF t
    <2> QED BY <2>1, <2>3 DEF Verified
  <1> QED BY <1>3, <1>4

-----------------------------------------------------------------------------
(* The field and its verdict. *)

(* The verdict is the one on the words that are shown, and after a compact *)
(* code these are the words of the seed it holds.                          *)
SeedWordsInv ==
    /\ field \in Seq(Words \cup {Unknown})
    /\ status = Verdict(field)
    /\ scanned # None /\ scanned.type = "compact" =>
           \E n \in WordCounts :
               /\ scanned.data \in [1 .. SeedLen(n) -> Bytes]
               /\ field = EntropyToIndices(scanned.data)

LEMMA KnownWords ==
    ASSUME NEW words \in Seq(Words \cup {Unknown})
    PROVE  Unknown \notin ToSet(words) <=> words \in Seq(Words)
  <1> DEFINE D == Words \cup {Unknown}
             n == Len(words)
  <1>1. n \in Nat /\ words \in [1 .. n -> D]
    <2> HIDE DEF D
    <2>1. words \in Seq(D)
      BY DEF D
    <2> QED BY ONLY <2>1, SeqIsFunction
  <1>2. ToSet(words) = {words[i] : i \in 1 .. n}
    BY <1>1 DEF ToSet
  <1>3. ASSUME Unknown \notin ToSet(words) PROVE words \in Seq(Words)
    <2> HIDE DEF n
    <2>1. \A i \in 1 .. n : words[i] \in Words
      BY <1>1, <1>2, <1>3
    <2> DEFINE s == [i \in 1 .. n |-> words[i]]
    <2>2. s \in [1 .. n -> Words]
      BY <2>1
    <2>3. words = s
      BY <1>1
    <2> HIDE DEF s
    <2>4. s \in Seq(Words)
      BY ONLY <1>1, <2>2, FunctionIsSeq
    <2> QED BY <2>3, <2>4
  <1>4. ASSUME words \in Seq(Words) PROVE Unknown \notin ToSet(words)
    <2>1. \A i \in 1 .. n : words[i] \in Words
      BY ONLY <1>4, SeqIsFunction
    <2>2. Unknown \notin Words
      BY InputAssumption
    <2> QED BY <1>2, <2>1, <2>2
  <1> QED BY <1>3, <1>4

(* An imported backup is right exactly if it is some seed's.               *)
LEMMA VerdictIs ==
    ASSUME SeedWordsInv
    PROVE  VerdictIsTrue
  <1>1. field \in Seq(Words \cup {Unknown}) /\ status = Verdict(field)
    BY DEF SeedWordsInv
  <1>2. CASE Len(field) \notin WordCounts
    <2>1. status = None /\ None # "checksum ok"
      BY <1>1, <1>2, InputAssumption DEF Verdict
    <2> QED BY <1>2, <2>1 DEF VerdictIsTrue
  <1>3. CASE Len(field) \in WordCounts
    <2>1. status = "checksum ok" <=> Unknown \notin ToSet(field) /\ Verified(field)
      BY <1>1, <1>3 DEF Verdict, Accepted
    <2>2. ASSUME Unknown \notin ToSet(field)
          PROVE  Verified(field) <=>
                     \E seed \in [1 .. SeedLen(Len(field)) -> Bytes] : Encodes(field, seed)
      <3>1. field \in Seq(Words)
        BY <1>1, <2>2, KnownWords
      <3> QED BY <1>3, <3>1, VerifiedIs
    <2> QED BY <1>3, <2>1, <2>2 DEF VerdictIsTrue
  <1> QED BY <1>2, <1>3

(* What an accepted code's words are.                                      *)
LEMMA EncodingAccepted ==
    ASSUME NEW n \in WordCounts, NEW seed \in [1 .. SeedLen(n) -> Bytes],
           NEW words, words = EntropyToIndices(seed)
    PROVE  /\ words \in Seq(Words) /\ Len(words) = n /\ Encodes(words, seed)
           /\ Verdict(words) = "checksum ok"
  <1> DEFINE len == SeedLen(n)
  <1>1. /\ len \in SeedLens /\ len \in Nat /\ n \in Nat
        /\ n * WordBits = len * ByteBits + ChecksumBits(len)
    BY InputAssumption
  <1>2. words \in Seq(Words) /\ Encodes(words, seed)
    BY <1>1, EncodingIs
  <1>3. Len(seed) = len
    <2> DEFINE L == len
    <2> HIDE DEF len
    <2> QED BY ONLY <1>1, seed \in [1 .. SeedLen(n) -> Bytes], FunctionIsSeq DEF len
  <1>4. Len(words) = n
    <2>1. Len(words) * WordBits = n * WordBits
      BY <1>1, <1>2, <1>3 DEF Encodes
    <2>2. WordBits \in Nat \ {0} /\ Len(words) \in Int /\ n \in Int
      BY <1>1, <1>2, SizesAre
    <2> QED BY ONLY <2>1, <2>2, Cancel
  <1>5. Verified(words)
    <2>1. Len(words) \in WordCounts /\ seed \in [1 .. SeedLen(Len(words)) -> Bytes]
      BY <1>4
    <2>2. words \in Seq(Words) /\ Encodes(words, seed)
      BY <1>2
    <2> QED BY ONLY <2>1, <2>2, VerifiedIs
  <1>6. Unknown \notin ToSet(words)
    <2>1. words \in Seq(Words \cup {Unknown})
      BY <1>2
    <2> QED BY <1>2, <2>1, KnownWords
  <1>7. Verdict(words) = "checksum ok"
    BY <1>4, <1>5, <1>6 DEF Verdict, Accepted
  <1> QED BY <1>2, <1>4, <1>7

LEMMA CompactIs ==
    ASSUME SeedWordsInv
    PROVE  CompactShowsSeed
  <1> SUFFICES ASSUME scanned # None, scanned.type = "compact"
               PROVE  Encodes(field, scanned.data) /\ status = "checksum ok"
    BY DEF CompactShowsSeed
  <1>1. PICK n \in WordCounts :
            /\ scanned.data \in [1 .. SeedLen(n) -> Bytes]
            /\ field = EntropyToIndices(scanned.data)
    BY DEF SeedWordsInv
  <1>2. Encodes(field, scanned.data) /\ Verdict(field) = "checksum ok"
    BY <1>1, EncodingAccepted
  <1> QED BY <1>2 DEF SeedWordsInv

LEMMA SeedWordsInvHolds == Spec => []SeedWordsInv
  <1>1. Init => SeedWordsInv
    <2> SUFFICES ASSUME Init PROVE SeedWordsInv
      OBVIOUS
    <2>1. field = <<>> /\ status = None /\ scanned = None
      BY DEF Init
    <2>2. Verdict(<<>>) = None
      <3>1. \A n \in WordCounts : n # 0
        <4> SUFFICES ASSUME NEW n \in WordCounts, n = 0 PROVE FALSE
          OBVIOUS
        <4> DEFINE len == SeedLen(n)
        <4>1. /\ len \in Nat \ {0} /\ ChecksumBits(len) \in 1 .. ByteBits
              /\ n * WordBits = len * ByteBits + ChecksumBits(len)
          BY InputAssumption
        <4>2. n * WordBits = 0
          BY SizesAre
        <4> HIDE DEF len
        <4>3. len * ByteBits \in Nat
          BY <4>1, SizesAre
        <4> QED BY <4>1, <4>2, <4>3
      <3>2. Len(<<>>) = 0
        OBVIOUS
      <3> QED BY <3>1, <3>2 DEF Verdict
    <2> QED BY <2>1, <2>2 DEF SeedWordsInv
  <1>2. SeedWordsInv /\ [Next]_vars => SeedWordsInv'
    <2> SUFFICES ASSUME SeedWordsInv, [Next]_vars PROVE SeedWordsInv'
      OBVIOUS
    <2> DEFINE D == Words \cup {Unknown}
    <2>1. field \in Seq(D)
      BY DEF SeedWordsInv
    <2>2. ASSUME NEW words \in Seq(D), Shows(words), scanned' = None
          PROVE  SeedWordsInv'
      BY <2>2 DEF Shows, SeedWordsInv, Verdict, Accepted, Verified
    <2>3. CASE TypeWord
      <3>1. PICK w \in D : Shows(Append(field, w)) /\ scanned' = None
        BY <2>3 DEF TypeWord
      <3>2. Append(field, w) \in Seq(D)
        <4> HIDE DEF D
        <4> QED BY ONLY <2>1, w \in D
      <3> QED BY <2>2, <3>1, <3>2
    <2>4. CASE EraseWord
      <3>1. Shows(Front(field)) /\ scanned' = None /\ field # <<>>
        BY <2>4 DEF EraseWord
      <3>2. Front(field) \in Seq(D)
        <4> HIDE DEF D
        <4> QED BY ONLY <2>1, <3>1 DEF Front
      <3> QED BY <2>2, <3>1, <3>2
    <2>5. CASE ClearFields
      <3>1. Shows(<<>>) /\ scanned' = None /\ <<>> \in Seq(D)
        BY <2>5 DEF ClearFields
      <3> QED BY <2>2, <3>1
    <2>6. CASE ApplySuggestion
      <3>1. PICK w \in Words : Shows(Append(Front(field), w)) /\ scanned' = None /\ field # <<>>
        BY <2>6 DEF ApplySuggestion
      <3>2. w \in D
        OBVIOUS
      <3>3. Front(field) \in Seq(D)
        <4> HIDE DEF D
        <4> QED BY ONLY <2>1, <3>1 DEF Front
      <3>4. Append(Front(field), w) \in Seq(D)
        <4> HIDE DEF D
        <4> QED BY ONLY <3>2, <3>3
      <3> QED BY <2>2, <3>1, <3>4
    <2>7. CASE ScanStandard
      <3>1. PICK code \in StandardCodes : InList(code.data) /\ Scan(code, code.data)
        BY <2>7 DEF ScanStandard
      <3>2. PICK n \in WordCounts : code \in [type : {"standard"}, data : [1 .. n -> 0 .. MaxQr]]
        BY DEF StandardCodes
      <3>3. code.type = "standard" /\ code.data \in [1 .. n -> 0 .. MaxQr]
        BY <3>2
      <3> DEFINE words == code.data
      <3>4. words \in Seq(D)
        <4>1. \A i \in 1 .. n : words[i] \in D
          <5>1. ToSet(words) \subseteq Words
            BY <3>1 DEF InList
          <5>2. \A i \in 1 .. n : words[i] \in ToSet(words)
            BY <3>3 DEF ToSet
          <5> QED BY <5>1, <5>2
        <4>2. n \in Nat
          BY InputAssumption
        <4> DEFINE s == [i \in 1 .. n |-> words[i]]
        <4>3. words = s
          BY <3>3
        <4>4. s \in [1 .. n -> D]
          BY <4>1
        <4> HIDE DEF s, D
        <4>5. s \in Seq(D)
          BY ONLY <4>2, <4>4, FunctionIsSeq
        <4> QED BY <4>3, <4>5
      <3>5. /\ field' = words /\ status' = Verdict(words)
            /\ scanned' = code
        BY <3>1 DEF Scan, Shows
      <3>6. status' = Verdict(field)'
        BY <3>5 DEF Verdict, Accepted, Verified
      <3>7. ~ (scanned'.type = "compact")
        BY <3>3, <3>5
      <3> QED BY <3>4, <3>5, <3>6, <3>7 DEF SeedWordsInv
    <2>8. CASE ScanCompact
      <3>1. PICK code \in CompactCodes : Scan(code, EntropyToIndices(code.data))
        BY <2>8 DEF ScanCompact
      <3>2. PICK n \in WordCounts : code \in [type : {"compact"}, data : [1 .. SeedLen(n) -> Bytes]]
        BY DEF CompactCodes
      <3>3. code.data \in [1 .. SeedLen(n) -> Bytes]
        BY <3>2
      <3> DEFINE words == EntropyToIndices(code.data)
      <3>4. words \in Seq(Words)
        <4> HIDE DEF words
        <4>1. words = EntropyToIndices(code.data)
          BY DEF words
        <4> QED BY <3>3, <4>1, EncodingAccepted
      <3> HIDE DEF words
      <3>5. words \in Seq(D)
        BY <3>4
      <3>6. /\ field' = words /\ status' = Verdict(words)
            /\ scanned' = code
        BY <3>1 DEF Scan, Shows, words
      <3>7. status' = Verdict(field)'
        BY <3>6 DEF Verdict, Accepted, Verified
      <3>8. field' = EntropyToIndices(scanned.data)' /\ (scanned.data)' \in [1 .. SeedLen(n) -> Bytes]
        BY <3>3, <3>6 DEF words, EntropyToIndices
      <3> QED BY <3>5, <3>6, <3>7, <3>8 DEF SeedWordsInv
    <2>9. CASE UNCHANGED vars
      BY <2>9 DEF vars, SeedWordsInv, Verdict, Accepted, Verified
    <2> QED BY <2>3, <2>4, <2>5, <2>6, <2>7, <2>8, <2>9 DEF Next
  <1> QED BY <1>1, <1>2, PTL DEF Spec

(* update_import_status: whatever was typed, completed, erased or scanned, *)
(* the screen says "checksum ok" exactly for the words of some seed.       *)
THEOREM SeedWordsVerdictIsTrue == Spec => []VerdictIsTrue
  <1>1. SeedWordsInv => VerdictIsTrue
    BY VerdictIs
  <1> QED BY <1>1, SeedWordsInvHolds, PTL

(* A compact SeedQR fills the field with the words of the seed it holds.   *)
THEOREM CompactCodesShowTheirSeed == Spec => []CompactShowsSeed
  <1>1. SeedWordsInv => CompactShowsSeed
    BY CompactIs
  <1> QED BY <1>1, SeedWordsInvHolds, PTL

(* Writing a seed down loses nothing: for every length the app knows and   *)
(* every seed of it, entropy_to_indices gives as many words as that length *)
(* has, mnemonic_to_entropy takes them, checksum included, and gives the   *)
(* same seed back.  So two seeds never share their words.                  *)
THEOREM SeedIsReadBack ==
    ASSUME NEW n \in WordCounts, NEW seed \in [1 .. SeedLen(n) -> Bytes]
    PROVE  LET words == EntropyToIndices(seed)
           IN  /\ Len(words) = n /\ Accepted(words)
               /\ Candidate(words) = seed
  <1> DEFINE words == EntropyToIndices(seed)
  <1>1. /\ words \in Seq(Words) /\ Len(words) = n /\ Encodes(words, seed)
        /\ Verdict(words) = "checksum ok"
    BY EncodingAccepted
  <1> HIDE DEF words
  <1>2. Len(words) \in WordCounts /\ seed \in [1 .. SeedLen(Len(words)) -> Bytes]
    BY <1>1
  <1>3. Candidate(words) = seed
    BY ONLY <1>1, <1>2, CodeIsFound
  <1>4. Accepted(words)
    BY <1>1, <1>2, InputAssumption DEF Verdict
  <1> QED BY <1>1, <1>3, <1>4 DEF words
=============================================================================
