------------------------------ MODULE Numerals ------------------------------
(***************************************************************************)
(* Powers, and the number that a string of digits stands for.              *)
(***************************************************************************)
EXTENDS Integers, Sequences

(* b ^ n *)
Pow(b, n) ==
    LET power[i \in 0 .. n] == IF i = 0 THEN 1 ELSE b * power[i - 1]
    IN  power[n]

(* The first n digits, in this base, the highest one first.                *)
Value(digits, base, n) ==
    LET value[i \in 0 .. n] == IF i = 0 THEN 0 ELSE value[i - 1] * base + digits[i]
    IN  value[n]

Number(digits, width) == Value(digits, Pow(2, width), Len(digits))
=============================================================================
