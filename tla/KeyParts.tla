------------------------------ MODULE KeyParts ------------------------------
(***************************************************************************)
(* The open secret key as the sequence of its parts: the primary key and   *)
(* its subkeys, each locked for itself.  Which part signs, which one a     *)
(* message is encrypted to, which ones a passphrase must open for that,    *)
(* and the loop that moves all of them to another passphrase.              *)
(*                                                                         *)
(* Keychain treats a key as having one passphrase.  Keys the app makes do; *)
(* an imported one may not: its parts may have different passphrases, some *)
(* none, and the secret of a part may not be on this device at all.        *)
(***************************************************************************)
EXTENDS Integers, Sequences

CONSTANTS
    Passes,     \* what may be typed
    Empty,      \* the empty passphrase
    Plain,      \* the lock of a part that has none
    Stub,       \* of a part whose secret is elsewhere, as gpg exports it
    Imports,    \* keys in files
    NoPart

Locks == (Passes \ {Empty}) \cup {Plain, Stub}

(* signs, reads: the key flags of the newest self-certification or of the  *)
(* first binding signature; cipher: algorithm().can_encrypt().             *)
Parts == [signs : BOOLEAN, reads : BOOLEAN, cipher : BOOLEAN, lock : Locks, created : Nat]

ASSUME PartsAssumption ==
    /\ Empty \in Passes
    /\ Plain \notin Passes /\ Stub \notin Passes /\ Plain # Stub
    /\ Imports \subseteq Seq(Parts) \ {<<>>}

VARIABLES
    parts,      \* State.current's key, or <<>> before there is one
    derived,    \* whether it is the one derived from the seed
    foreign,    \* the locks of an imported key before its first change of
                \* passphrase, else <<>>; recorded for the properties
    mail,       \* parts that messages to the key were encrypted to
    sent        \* the part this app encrypted to last, or NoPart

parts_vars == <<parts, derived, foreign, mail, sent>>

Primary == 1
Subkeys(key) == 2 .. Len(key)
LocksOf(key) == [i \in DOMAIN key |-> key[i].lock]

(* SecretKey::unlock: a part without a lock opens whatever was typed.      *)
Opens(part, pass) == part.lock \in {Plain, pass}

-----------------------------------------------------------------------------
(* Making a key. *)

(* set_password, or nothing for an empty passphrase.                       *)
Lock(pass) == IF pass = Empty THEN Plain ELSE pass

(* apply_passphrase: the primary key, then each subkey.                    *)
ApplyPrimaryOnly(key, pass) == [key EXCEPT ![Primary].lock = Lock(pass)]    \* mutant
ApplyPassphrase(key, pass) ==
    [i \in DOMAIN key |-> [key[i] EXCEPT !.lock = Lock(pass)]]

(* What sign_primary_self_cert and sign_subkey_binding certify.            *)
PrimaryPart(cipher) ==
    [signs |-> TRUE, reads |-> FALSE, cipher |-> cipher, lock |-> Plain, created |-> 0]
SubkeyPart ==
    [signs |-> FALSE, reads |-> TRUE, cipher |-> TRUE, lock |-> Plain, created |-> 0]
AssembleKey(cipher) == <<PrimaryPart(cipher), SubkeyPart>>

(* Another key is open: one that no message was encrypted to yet.          *)
NewKey(key) ==
    /\ parts' = key /\ derived' = FALSE
    /\ mail' = {} /\ sent' = NoPart

(* RSA is the one algorithm that could encrypt to the primary key.         *)
GenerateRsa ==
    /\ \E pass \in Passes : NewKey(ApplyPassphrase(AssembleKey(TRUE), pass))
    /\ foreign' = <<>>

GenerateCurve ==
    /\ \E pass \in Passes : NewKey(ApplyPassphrase(AssembleKey(FALSE), pass))
    /\ foreign' = <<>>

(* The same root and index give the same key again, under the passphrase   *)
(* typed now: messages to the one before are messages to it.               *)
DeriveKey ==
    /\ \E pass \in Passes : parts' = ApplyPassphrase(AssembleKey(FALSE), pass)
    /\ derived' = TRUE /\ foreign' = <<>>
    /\ IF derived THEN UNCHANGED <<mail, sent>> ELSE mail' = {} /\ sent' = NoPart

ImportKey == \E key \in Imports : NewKey(key) /\ foreign' = LocksOf(key)

-----------------------------------------------------------------------------
(* Which part does what. *)

(* select_signer: the primary key if it signs, else the newest subkey that *)
(* does, the last of equally new ones.                                     *)
Signers(key) == {i \in Subkeys(key) : key[i].signs}
Newest(key, S) ==
    CHOOSE i \in S : \A j \in S \ {i} :
        key[j].created < key[i].created \/ (key[j].created = key[i].created /\ j < i)
Signer(key) ==
    IF key[Primary].signs THEN Primary
    ELSE IF Signers(key) = {} THEN NoPart
    ELSE Newest(key, Signers(key))

(* The first subkey whose algorithm can encrypt, as encrypt_stream and the *)
(* test unlock of decrypt_stream look for it.                              *)
FirstCipher(key) ==
    LET S == {i \in Subkeys(key) : key[i].cipher}
    IN  IF S = {} THEN NoPart ELSE CHOOSE i \in S : \A j \in S : i <= j

Recipient(key) == FirstCipher(key)

Tried(key) == IF FirstCipher(key) = NoPart THEN Primary ELSE FirstCipher(key)

-----------------------------------------------------------------------------
(* What a passphrase is good for. *)

CheckPassphrase(key, pass) == Opens(key[Primary], pass)

Signs(key, pass) == Signer(key) # NoPart /\ Opens(key[Signer(key)], pass)

(* decrypt_stream: the test unlock, then the library looks for the part    *)
(* the message is for.                                                     *)
Decrypts(key, pass, i) == Opens(key[Tried(key)], pass) /\ Opens(key[i], pass)

(* change_passphrase: remove_password and set_password for the primary key *)
(* and for each subkey, until one refuses.                                 *)
Relocked(part, new) == [part EXCEPT !.lock = Lock(new)]
ConvertedSkipping(key, old, new) ==     \* mutant
    [ok |-> Opens(key[Primary], old),
     key |-> [i \in DOMAIN key |->
                 IF Opens(key[i], old) THEN Relocked(key[i], new) ELSE key[i]]]
Converted(key, old, new) ==
    [ok |-> \A i \in DOMAIN key : Opens(key[i], old),
     key |-> [i \in DOMAIN key |->
                 IF \A j \in 1 .. i : Opens(key[j], old)
                 THEN Relocked(key[i], new) ELSE key[i]]]

(* with_secret_key_owned: if the loop stopped half way, the half converted *)
(* key is dropped and the stored one read again.                           *)
OwnedKept(stored, result) == result.key     \* mutant
Owned(stored, result) == IF result.ok THEN result.key ELSE stored

ChangePassphrase ==
    /\ parts # <<>>
    /\ \E old, new \in Passes :
           LET result == Converted(parts, old, new)
           IN  /\ parts' = Owned(parts, result)
               /\ foreign' = IF result.ok THEN <<>> ELSE foreign
    /\ UNCHANGED <<derived, mail, sent>>

-----------------------------------------------------------------------------
(* Messages to the key. *)

(* on_encrypt_file with the open key: to one part, or an error.            *)
Encrypt ==
    /\ parts # <<>> /\ Recipient(parts) # NoPart
    /\ mail' = mail \cup {Recipient(parts)}
    /\ sent' = Recipient(parts)
    /\ UNCHANGED <<parts, derived, foreign>>

(* Another program encrypts to a part that says it is for that.            *)
Receive ==
    /\ \E i \in DOMAIN parts :
           parts[i].reads /\ parts[i].cipher /\ mail' = mail \cup {i}
    /\ UNCHANGED <<parts, derived, foreign, sent>>

PartsInit ==
    /\ parts = <<>> /\ derived = FALSE /\ foreign = <<>>
    /\ mail = {} /\ sent = NoPart

PartsNext ==
    \/ GenerateRsa \/ GenerateCurve \/ DeriveKey \/ ImportKey
    \/ ChangePassphrase \/ Encrypt \/ Receive

PartsSpec == PartsInit /\ [][PartsNext]_parts_vars

-----------------------------------------------------------------------------
(* Properties. *)

(* All parts are locked alike, by a passphrase or not at all.              *)
OneLock(key) == \A i, j \in DOMAIN key : key[i].lock = key[j].lock

(* change_passphrase converts a key part by part and may be refused in the *)
(* middle.  The open key is never half converted: as long as no change has *)
(* succeeded, an imported key has the locks it came with.                  *)
NeverHalfChanged == foreign # <<>> => LocksOf(parts) = foreign

(* "Primary and subkeys share one passphrase everywhere in this app, so a  *)
(* single pass covers either signer": on a key made here, on one whose     *)
(* passphrase was changed here, and on an imported one whose parts have    *)
(* one lock, what opens the primary key for an edit also signs (if the key *)
(* can), moves the key to another passphrase and decrypts every message,   *)
(* also those encrypted before a change; and nothing else does.            *)
OnePassphraseServes ==
    parts # <<>> /\ (foreign = <<>> \/ OneLock(parts)) =>
        \A pass \in Passes :
            LET opens == CheckPassphrase(parts, pass)
            IN  /\ Signer(parts) # NoPart => (Signs(parts, pass) <=> opens)
                /\ Converted(parts, pass, pass).ok <=> opens
                /\ \A i \in mail : Decrypts(parts, pass, i) <=> opens

(* "Encrypt to the encryption-capable subkey": a file is encrypted to a    *)
(* part whose key flags say that it is for encryption.                     *)
EncryptsToEncryptionSubkey == sent # NoPart => parts[sent].reads
=============================================================================
