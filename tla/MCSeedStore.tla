---------------------------- MODULE MCSeedStore -----------------------------
(* A small instance of SeedStore: two seeds, this device and another one.  *)
EXTENDS SeedStore

CONSTANTS s1, s2, d1, d2

Sealed(s, d) == [header |-> s, body |-> [root |-> s, device |-> d]]

(* No file, the app's own, one another device sealed, and damaged ones.    *)
MCFiles ==
    { Absent, Garbage, Sealed(s1, d1), Sealed(s1, d2),
      [header |-> s2, body |-> None] }
=============================================================================
