----------------------------- MODULE MCKeyParts -----------------------------
(* Small instance of KeyParts: keys the app makes and imported ones.       *)
EXTENDS KeyParts

CONSTANTS p1, p2

Part(use, cipher, lock, created) ==
    [signs |-> use = "sign", reads |-> use = "read", cipher |-> cipher,
     lock |-> lock, created |-> created]

(* A key of another program with a subkey of another passphrase; one with  *)
(* an unlocked subkey; one whose primary key is elsewhere; one with the    *)
(* subkeys "sign, encrypt" of one RSA family; two subkeys that sign; a     *)
(* lone RSA key; one that cannot sign.                                     *)
MCImports ==
    { <<Part("sign", FALSE, p1, 0), Part("read", TRUE, p2, 0)>>,
      <<Part("none", FALSE, p1, 0), Part("sign", FALSE, Plain, 1), Part("read", TRUE, p1, 0)>>,
      <<Part("none", FALSE, Stub, 0), Part("read", TRUE, p1, 0), Part("sign", FALSE, p1, 0)>>,
      <<Part("none", TRUE, p1, 0), Part("sign", TRUE, p1, 0), Part("read", TRUE, p1, 0)>>,
      <<Part("none", FALSE, p1, 0), Part("sign", FALSE, p1, 1), Part("read", TRUE, p2, 0),
        Part("sign", FALSE, p2, 0)>>,
      <<[Part("sign", TRUE, p1, 0) EXCEPT !.reads = TRUE]>>,
      <<Part("none", FALSE, Plain, 0), Part("read", TRUE, Plain, 1)>> }
=============================================================================
