----------------------------- MODULE MCKeychain -----------------------------
(* Small instances of Keychain.                                            *)
EXTENDS KeychainRefines, TLC

CONSTANTS k1, k2, f1, f2, g1, p1, p2

Public(k) == [id |-> k, secret |-> FALSE, rev |-> 0, pass |-> p1]
Secret(k, p) == [id |-> k, secret |-> TRUE, rev |-> 0, pass |-> p]

MCFileOf == k1 :> f1 @@ k2 :> f2

(* One public copy, one secret copy, both copies of one key in either      *)
(* order, and a file of two keys.                                          *)
MCImportFiles ==
    { <<Public(k1)>>, <<Secret(k1, p1)>>,
      <<Public(k1), Secret(k1, p2)>>, <<Secret(k1, p1), Public(k1)>>,
      <<Secret(k1, p1), Public(k2)>> }

EmptyDisk == [f \in Files |-> Absent]
MCDisks == { EmptyDisk, [EmptyDisk EXCEPT ![f1] = Secret(k1, p1)],
             [EmptyDisk EXCEPT ![f1] = Torn] }

(* A file a user put into /pgp-keys under a name of their own.             *)
MCForeignDisks ==
    { [f \in Files |-> IF f = g1 THEN Secret(k1, p1) ELSE Absent] }
MCAllDisks == MCDisks \cup MCForeignDisks
=============================================================================
