--------------------------- MODULE KeychainRefines --------------------------
(***************************************************************************)
(* The keychain of files, screens and handlers keeps the promise of        *)
(* KeyVault.  A certificate is stored when the file save_key names after   *)
(* it holds it; it counts as open also while with_secret_key_owned has     *)
(* taken it out of the state.                                              *)
(***************************************************************************)
EXTENDS Keychain

StoredVersion ==
    [k \in Keys |->
        IF disk[FileOf[k]] \in Copies THEN disk[FileOf[k]] ELSE None]

OpenId ==
    IF current # None THEN current.key.id
    ELSE IF handler # None /\ handler.op \in {"Edit", "Repass"} THEN InHand.id
    ELSE None

Vault == INSTANCE KeyVault
            WITH vault <- StoredVersion, open <- OpenId, Lossy <- Faults # {}

(* Every step of the app is a step of the promise or none at all.          *)
KeepsVaultPromise == Vault!Spec
=============================================================================
