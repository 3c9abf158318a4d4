------------------------------ MODULE Scalars -------------------------------
(***************************************************************************)
(* Secret scalars from the bytes that HKDF returns for a root and an       *)
(* index.  For P-521 they are reduced modulo the group order less one, by  *)
(* a long division bit by bit over big-endian bytes, and moved up by one;  *)
(* for X25519 some of their bits are fixed.  Any other implementation must *)
(* get the same scalar, or a re-derived key is another key.                *)
(*                                                                         *)
(* Bytes have LimbBits bits and the numbers a few bytes, so that every     *)
(* value can be tried.  The HKDF is external: all its outputs are taken.   *)
(***************************************************************************)
EXTENDS Numerals, SequencesExt

CONSTANTS
    LimbBits,   \* 8
    RawLen,     \* 80: bytes of a raw value for P-521, 14 more than its order
    Orders,     \* {P521_ORDER}
    CurveLen,   \* 32: bytes of a scalar for X25519
    LowBits,    \* 3: low bits that are cleared in it
    Unset

Base == Pow(2, LimbBits)
Digits == 0 .. Base - 1

ASSUME ScalarsAssumption ==
    /\ {LimbBits, RawLen, CurveLen, LowBits} \subseteq Nat \ {0}
    /\ LowBits <= LimbBits /\ LimbBits > 1 /\ CurveLen > 1
    /\ Unset \notin Seq(Digits)
    /\ \A n \in Orders :
           n \in Seq(Digits) /\ Len(n) \in 1 .. RawLen - 1 /\ \E i \in DOMAIN n : n[i] > 1

VARIABLES
    raw,        \* what HKDF-Expand returned, or Unset
    order,      \* the group order to reduce by, or Unset for X25519
    rem,        \* the remainder so far
    taken,      \* bits of raw that were shifted into it
    scalar      \* the result, or Unset

scalars_vars == <<raw, order, rem, taken, scalar>>

-----------------------------------------------------------------------------
(* Arithmetic on big-endian bytes, from the last byte to the first. *)

(* Lexicographic, which is numeric since the lengths are equal.            *)
BeGreater(a, b) ==      \* mutant
    \E i \in DOMAIN a : a[i] > b[i] /\ \A j \in 1 .. i - 1 : a[j] = b[j]
BeGe(a, b) ==
    \A i \in DOMAIN a : a[i] < b[i] => \E j \in 1 .. i - 1 : a[j] > b[j]

(* borrow[k], carry[k]: what the last k bytes pass on to the next one.     *)
BeSubAssign(a, b) ==
    LET len == Len(a)
        borrow[k \in 0 .. len] ==
            IF k = 0 THEN 0
            ELSE LET i == len - k + 1 IN IF a[i] - b[i] - borrow[k - 1] < 0 THEN 1 ELSE 0
    IN  [i \in 1 .. len |-> (a[i] - b[i] - borrow[len - i]) % Base]

BeAddOne(a) ==
    LET len == Len(a)
        carry[k \in 0 .. len] ==
            IF k = 0 THEN 1 ELSE (a[len - k + 1] + carry[k - 1]) \div Base
    IN  [i \in 1 .. len |-> (a[i] + carry[len - i]) % Base]

(* One bit is shifted in at the end; the one shifted out is lost.          *)
ShiftIn(a, bit) ==
    LET len == Len(a)
        carry(i) == IF i = len THEN bit ELSE a[i + 1] \div Pow(2, LimbBits - 1)
    IN  [i \in 1 .. len |-> (2 * a[i] + carry(i)) % Base]

Zeros(n) == [i \in 1 .. n |-> 0]
Padded(a) == Zeros(RawLen - Len(a)) \o a

-----------------------------------------------------------------------------
(* p521_scalar_from_raw *)

One(len) == Append(Zeros(len - 1), 1)
Modulus == Padded(BeSubAssign(order, One(Len(order))))

(* The bits of raw, from the first byte's highest one on.                  *)
BitOf(i) ==
    (raw[i \div LimbBits + 1] \div Pow(2, LimbBits - 1 - (i % LimbBits))) % 2

ReducedUnchecked(r) == BeSubAssign(r, Modulus)      \* mutant
Reduced(r) == IF BeGe(r, Modulus) THEN BeSubAssign(r, Modulus) ELSE r

StartP521 ==
    /\ raw = Unset
    /\ raw' \in [1 .. RawLen -> Digits] /\ order' \in Orders
    /\ rem' = Zeros(RawLen)
    /\ UNCHANGED <<taken, scalar>>

(* One turn of be_reduce's inner loop.                                     *)
DivideBit ==
    /\ order # Unset /\ taken < RawLen * LimbBits
    /\ rem' = Reduced(ShiftIn(rem, BitOf(taken)))
    /\ taken' = taken + 1
    /\ UNCHANGED <<raw, order, scalar>>

FinishP521 ==
    /\ order # Unset /\ taken = RawLen * LimbBits /\ scalar = Unset
    /\ scalar' = BeAddOne(SubSeq(rem, RawLen - Len(order) + 1, RawLen))
    /\ UNCHANGED <<raw, order, rem, taken>>

-----------------------------------------------------------------------------
(* clamp_x25519: little-endian, the first byte is the lowest. *)

Clamp(k) ==
    LET second == Pow(2, LimbBits - 2)
    IN  [k EXCEPT ![1] = @ - (@ % Pow(2, LowBits)),
                  ![Len(k)] = second + (@ % second)]

ClampX25519 ==
    /\ raw = Unset
    /\ raw' \in [1 .. CurveLen -> Digits]
    /\ scalar' = Clamp(raw')
    /\ UNCHANGED <<order, rem, taken>>

ScalarsInit == raw = Unset /\ order = Unset /\ rem = Unset /\ taken = 0 /\ scalar = Unset

ScalarsNext == StartP521 \/ DivideBit \/ FinishP521 \/ ClampX25519

ScalarsSpec == ScalarsInit /\ [][ScalarsNext]_scalars_vars

-----------------------------------------------------------------------------
(* Properties. *)

BigEndian(digits) == Number(digits, LimbBits)
LittleEndian(digits) == BigEndian(Reverse(digits))

(* The long division gives what arithmetic gives: a P-521 scalar is the    *)
(* raw number modulo the order less one, plus one, so that it is never     *)
(* zero and never the order.  An X25519 scalar keeps the raw number but    *)
(* for the bits RFC 7748 fixes: it is a multiple of the cofactor and its   *)
(* highest bit is the second one of the last byte, and clamping it again,  *)
(* as other libraries do, changes nothing.                                 *)
ScalarIsCanonical ==
    scalar # Unset =>
        IF order # Unset
        THEN BigEndian(scalar) = 1 + (BigEndian(raw) % (BigEndian(order) - 1))
        ELSE LET k == LittleEndian(scalar)
                 high == Pow(2, CurveLen * LimbBits - 2)
             IN  /\ k % Pow(2, LowBits) = 0 /\ k \div high = 1
                 /\ (LittleEndian(raw) - k) % high \in 0 .. Pow(2, LowBits) - 1
                 /\ Clamp(scalar) = scalar
=============================================================================
