----------------------------- MODULE MCPgpCore ------------------------------
(***************************************************************************)
(* Small instances of the library's operations: the parts of a key and     *)
(* their locks, seed words, armored files, secret scalars, the copy of     *)
(* decrypted plaintext, and a draw of random bytes.  They share no         *)
(* variable, so each is checked alone: the first state picks one of them   *)
(* and the others stay as they are.                                        *)
(***************************************************************************)
EXTENDS MCKeyParts, MCSeedWords, ArmorBlocks, Scalars, DecryptStream, TrngDraw

CONSTANTS c1, c2

VARIABLE operation

core_vars ==
    <<operation, parts_vars, vars, armor_vars, scalars_vars, stream_vars, trng_vars>>

(* One byte of the first order is zero; taking one off the second borrows; *)
(* the third fills its bytes.                                              *)
MCOrders == {<<0, 5>>, <<2, 0>>, <<7, 7>>}

MCMessages ==
    [form : {"binary", "armored", "junk"}, mine : BOOLEAN, layers : 0 .. 2,
     size : {0, 3, 4, 5, 7}, sound : BOOLEAN]

CoreInit ==
    /\ operation \in {"parts", "words", "armor", "scalars", "stream", "trng"}
    /\ PartsInit /\ Init /\ ArmorInit /\ ScalarsInit /\ StreamInit /\ TrngInit

CoreNext ==
    /\ \/ /\ operation = "parts" /\ PartsNext
          /\ UNCHANGED <<vars, armor_vars, scalars_vars, stream_vars, trng_vars>>
       \/ /\ operation = "words" /\ Next
          /\ UNCHANGED <<parts_vars, armor_vars, scalars_vars, stream_vars, trng_vars>>
       \/ /\ operation = "armor" /\ ArmorNext
          /\ UNCHANGED <<parts_vars, vars, scalars_vars, stream_vars, trng_vars>>
       \/ /\ operation = "scalars" /\ ScalarsNext
          /\ UNCHANGED <<parts_vars, vars, armor_vars, stream_vars, trng_vars>>
       \/ /\ operation = "stream" /\ StreamNext
          /\ UNCHANGED <<parts_vars, vars, armor_vars, scalars_vars, trng_vars>>
       \/ /\ operation = "trng" /\ TrngNext
          /\ UNCHANGED <<parts_vars, vars, armor_vars, scalars_vars, stream_vars>>
    /\ UNCHANGED operation

CoreSpec == CoreInit /\ [][CoreNext]_core_vars
=============================================================================
