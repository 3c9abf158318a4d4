--------------------------- MODULE PgpCoreProofs ---------------------------
(***************************************************************************)
(* Proofs about three parts of pgp-core, each for every value of its       *)
(* constants: the locks of a key's parts (KeyParts), the cap on what a     *)
(* decryption releases (DecryptStream), and the draws of random bytes      *)
(* (TrngDraw).                                                             *)
(***************************************************************************)
EXTENDS KeyParts, DecryptStream, TrngDraw, Induction, TLAPS

-----------------------------------------------------------------------------
(* One passphrase serves a whole key, and a refused change of it changes   *)
(* nothing, for every set of passphrases and imported keys, with any       *)
(* number of parts.                                                        *)

(* What has been made here or changed here has one lock; what was imported *)
(* has the locks it came with.                                             *)
PartsTyped ==
    /\ parts \in Seq(Parts)
    /\ foreign # <<>> => parts # <<>>
    /\ mail \subseteq DOMAIN parts
    /\ derived => DOMAIN parts = 1 .. 2

PartsInv ==
    /\ PartsTyped
    /\ foreign = <<>> => OneLock(parts)
    /\ NeverHalfChanged

-----------------------------------------------------------------------------
(* The part that signs is a part of the key. *)

(* The comparison by which Newest chooses.                                 *)
Older(key, j, i) ==
    key[j].created < key[i].created \/ (key[j].created = key[i].created /\ j < i)

IsNewest(key, i, S) == i \in S /\ \A j \in S \ {i} : Older(key, j, i)

(* Among the first n parts of a key, any choice of some has a newest one.  *)
(* The least n for which this fails cannot exist.                          *)
LEMMA NewestExists ==
    ASSUME NEW key \in Seq(Parts), NEW S, S \subseteq DOMAIN key, S # {}
    PROVE  \E i \in S : IsNewest(key, i, S)
  <1> DEFINE Good(n) == \A U \in SUBSET (1 .. n) :
                            U \subseteq DOMAIN key /\ U # {} => \E i \in U : IsNewest(key, i, U)
             Bad == {n \in Nat : ~ Good(n)}
  <1>0. \A i \in DOMAIN key : key[i].created \in Nat /\ i \in Nat
    <2>1. \A i \in DOMAIN key : key[i] \in Parts /\ i \in Nat
      OBVIOUS
    <2> QED BY <2>1 DEF Parts
  <1>1. Bad = {}
    <2>1. SUFFICES ASSUME Bad # {} PROVE FALSE
      OBVIOUS
    <2>2. PICK n \in Bad : \A m \in Bad : n <= m
      BY <2>1, LeastNatural
    <2>3. PICK U \in SUBSET (1 .. n) :
              U \subseteq DOMAIN key /\ U # {} /\ ~ \E i \in U : IsNewest(key, i, U)
      BY <2>2
    <2>4. n \in Nat /\ n > 0
      <3>1. PICK x \in U : x \in 1 .. n
        BY <2>3
      <3> QED BY <2>2, <3>1
    <2>5. Good(n - 1)
      <3>1. n - 1 \in Nat /\ n - 1 \notin Bad
        BY <2>2, <2>4
      <3> QED BY <3>1
    <2> DEFINE V == U \ {n}
    <2>6. V \in SUBSET (1 .. n - 1) /\ V \subseteq DOMAIN key
      BY <2>3, <2>4
    <2>7. n \in U
      <3>1. SUFFICES ASSUME n \notin U PROVE FALSE
        OBVIOUS
      <3>2. V = U
        BY <3>1
      <3> QED BY <2>3, <2>5, <2>6, <3>2
    <2>8. V # {}
      <3>1. SUFFICES ASSUME V = {} PROVE FALSE
        OBVIOUS
      <3>2. U = {n}
        BY <2>7, <3>1
      <3>3. IsNewest(key, n, U)
        BY <3>2 DEF IsNewest
      <3> QED BY <2>3, <2>7, <3>3
    <2>9. PICK m \in V : IsNewest(key, m, V)
      BY <2>5, <2>6, <2>8
    <2>10. m \in U /\ m < n /\ m \in DOMAIN key /\ n \in DOMAIN key
      BY <2>3, <2>6, <2>7
    <2>11. CASE key[m].created <= key[n].created
      <3>1. Older(key, m, n)
        BY <1>0, <2>10, <2>11 DEF Older
      <3>2. ASSUME NEW j \in U \ {n, m} PROVE Older(key, j, n)
        <4>1. Older(key, j, m) /\ j \in DOMAIN key /\ j < n
          BY <2>3, <2>9, <2>10 DEF IsNewest
        <4> QED BY <1>0, <2>10, <2>11, <4>1 DEF Older
      <3>3. IsNewest(key, n, U)
        BY <2>7, <3>1, <3>2 DEF IsNewest
      <3> QED BY <2>3, <2>7, <3>3
    <2>12. CASE key[m].created > key[n].created
      <3>1. Older(key, n, m)
        BY <1>0, <2>10, <2>12 DEF Older
      <3>2. IsNewest(key, m, U)
        BY <2>9, <2>10, <3>1 DEF IsNewest
      <3> QED BY <2>3, <2>10, <3>2
    <2> QED BY <1>0, <2>10, <2>11, <2>12
  <1>2. Good(Len(key))
    <2>1. Len(key) \in Nat
      OBVIOUS
    <2> QED BY <1>1, <2>1
  <1>3. S \in SUBSET (1 .. Len(key))
    OBVIOUS
  <1> HIDE DEF Bad
  <1> QED BY <1>2, <1>3

LEMMA SignerIsPart ==
    ASSUME NEW key \in Seq(Parts), key # <<>>, Signer(key) # NoPart
    PROVE  Signer(key) \in DOMAIN key
  <1>1. CASE key[Primary].signs
    BY <1>1 DEF Signer, Primary
  <1>2. CASE ~ key[Primary].signs
    <2> DEFINE S == Signers(key)
    <2>1. S # {} /\ S \subseteq DOMAIN key /\ Signer(key) = Newest(key, S)
      BY <1>2 DEF Signer, Signers, Subkeys
    <2> HIDE DEF S
    <2>2. PICK i \in S : IsNewest(key, i, S)
      BY <2>1, NewestExists
    <2>3. Newest(key, S) \in S
      BY <2>2 DEF Newest, IsNewest, Older
    <2> QED BY <2>1, <2>3
  <1> QED BY <1>1, <1>2

LEMMA FirstCipherIsPart ==
    ASSUME NEW key \in Seq(Parts), FirstCipher(key) # NoPart
    PROVE  FirstCipher(key) \in DOMAIN key
  <1> DEFINE S == {i \in Subkeys(key) : key[i].cipher}
  <1>1. S \subseteq Nat /\ S \subseteq DOMAIN key
    BY DEF Subkeys
  <1>2. S # {} /\ FirstCipher(key) = CHOOSE i \in S : \A j \in S : i <= j
    BY DEF FirstCipher
  <1> HIDE DEF S
  <1>3. \E i \in S : \A j \in S : i <= j
    BY <1>1, <1>2, LeastNatural
  <1> QED BY <1>1, <1>2, <1>3

-----------------------------------------------------------------------------
(* Keys under one passphrase. *)

(* Any function of the positions of a key that yields parts is a key with  *)
(* the same positions.                                                     *)
LEMMA PartwiseType ==
    ASSUME NEW key \in Seq(Parts), NEW F \in [DOMAIN key -> Parts]
    PROVE  F \in Seq(Parts) /\ DOMAIN F = DOMAIN key
  <1>1. Len(key) \in Nat /\ DOMAIN key = 1 .. Len(key)
    OBVIOUS
  <1> QED BY <1>1

LEMMA LockType == \A pass \in Passes : Lock(pass) \in Locks
  BY DEF Lock, Locks

LEMMA RelockType ==
    ASSUME NEW part \in Parts, NEW lock \in Locks
    PROVE  LET q == [part EXCEPT !.lock = lock] IN q \in Parts /\ q.lock = lock
  BY DEF Parts

LEMMA AssembleType ==
    ASSUME NEW cipher \in BOOLEAN
    PROVE  LET key == AssembleKey(cipher)
           IN  /\ key \in Seq(Parts) /\ DOMAIN key = 1 .. 2
               /\ \A i \in DOMAIN key : key[i] \in Parts
  <1>1. PrimaryPart(cipher) \in Parts /\ SubkeyPart \in Parts
    BY DEF PrimaryPart, SubkeyPart, Parts, Locks
  <1> QED BY <1>1 DEF AssembleKey

(* A key made here has two parts and one lock.                             *)
LEMMA MadeHere ==
    ASSUME NEW cipher \in BOOLEAN, NEW pass \in Passes,
           NEW key, key = ApplyPassphrase(AssembleKey(cipher), pass)
    PROVE  key \in Seq(Parts) /\ DOMAIN key = 1 .. 2 /\ OneLock(key)
  <1> DEFINE made == AssembleKey(cipher)
  <1>1. /\ made \in Seq(Parts) /\ DOMAIN made = 1 .. 2
        /\ \A i \in DOMAIN made : made[i] \in Parts
    BY AssembleType
  <1> HIDE DEF made
  <1>2. key = [i \in DOMAIN made |-> [made[i] EXCEPT !.lock = Lock(pass)]]
    BY DEF ApplyPassphrase, made
  <1>3. ASSUME NEW i \in DOMAIN made
        PROVE  key[i] \in Parts /\ key[i].lock = Lock(pass)
    <2>1. made[i] \in Parts
      BY <1>1
    <2>3. Lock(pass) \in Locks
      BY LockType
    <2>2. key[i] = [made[i] EXCEPT !.lock = Lock(pass)]
      BY <1>2
    <2> QED BY <2>1, <2>2, <2>3, RelockType
  <1>4. key \in [DOMAIN made -> Parts]
    BY <1>2, <1>3
  <1> QED BY <1>1, <1>3, <1>4, PartwiseType DEF OneLock

(* A change that succeeds locks every part alike; one that is refused      *)
(* leaves the stored key.                                                  *)
LEMMA ConvertedType ==
    ASSUME NEW key \in Seq(Parts), NEW old \in Passes, NEW new \in Passes,
           NEW after, after = Owned(key, Converted(key, old, new))
    PROVE  /\ after \in Seq(Parts) /\ DOMAIN after = DOMAIN key
           /\ Converted(key, old, new).ok => OneLock(after)
           /\ ~ Converted(key, old, new).ok => after = key
  <1>1. CASE ~ Converted(key, old, new).ok
    BY <1>1 DEF Owned
  <1>2. CASE Converted(key, old, new).ok
    <2>1. \A i \in DOMAIN key : Opens(key[i], old)
      BY <1>2 DEF Converted
    <2>2. \A i \in DOMAIN key : \A j \in 1 .. i : j \in DOMAIN key
      OBVIOUS
    <2>3. after = [i \in DOMAIN key |->
                      IF \A j \in 1 .. i : Opens(key[j], old)
                      THEN Relocked(key[i], new) ELSE key[i]]
      BY <1>2 DEF Owned, Converted
    <2>4. after = [i \in DOMAIN key |-> Relocked(key[i], new)]
      BY <2>1, <2>2, <2>3
    <2>5. ASSUME NEW i \in DOMAIN key
          PROVE  after[i] \in Parts /\ after[i].lock = Lock(new)
      <3>1. key[i] \in Parts /\ Lock(new) \in Locks
        BY LockType
      <3>2. after[i] = [key[i] EXCEPT !.lock = Lock(new)]
        BY <2>4 DEF Relocked
      <3> QED BY <3>1, <3>2, RelockType
    <2>6. after \in [DOMAIN key -> Parts]
      BY <2>4, <2>5
    <2> QED BY <1>2, <2>5, <2>6, PartwiseType DEF OneLock
  <1> QED BY <1>1, <1>2

-----------------------------------------------------------------------------
LEMMA PartsInitInv == PartsInit => PartsInv
  BY DEF PartsInit, PartsInv, PartsTyped, OneLock, NeverHalfChanged

LEMMA PartsNextInv == PartsInv /\ [PartsNext]_parts_vars => PartsInv'
  <1> SUFFICES ASSUME PartsInv, [PartsNext]_parts_vars PROVE PartsInv'
    OBVIOUS
  <1> USE DEF PartsInv, PartsTyped, NeverHalfChanged
  <1>1. CASE GenerateRsa \/ GenerateCurve
    <2>1. PICK cipher \in BOOLEAN, pass \in Passes :
              NewKey(ApplyPassphrase(AssembleKey(cipher), pass)) /\ foreign' = <<>>
      BY <1>1 DEF GenerateRsa, GenerateCurve
    <2>2. parts' \in Seq(Parts) /\ OneLock(parts')
      BY <2>1, MadeHere DEF NewKey
    <2> QED BY <2>1, <2>2 DEF NewKey, OneLock
  <1>2. CASE DeriveKey
    <2>1. parts' \in Seq(Parts) /\ DOMAIN parts' = 1 .. 2 /\ OneLock(parts')
      BY <1>2, MadeHere DEF DeriveKey
    <2>2. mail' \subseteq 1 .. 2
      BY <1>2 DEF DeriveKey
    <2> QED BY <1>2, <2>1, <2>2 DEF DeriveKey, OneLock
  <1>3. CASE ImportKey
    <2>1. PICK key \in Imports : NewKey(key) /\ foreign' = LocksOf(key)
      BY <1>3 DEF ImportKey
    <2>2. key \in Seq(Parts) /\ key # <<>> /\ Len(key) > 0
      BY <2>1, PartsAssumption
    <2>3. LocksOf(key) # <<>>
      BY <2>2 DEF LocksOf
    <2> QED BY <2>1, <2>2, <2>3 DEF NewKey, LocksOf
  <1>4. CASE ChangePassphrase
    <2>1. PICK old \in Passes, new \in Passes :
              LET made == Converted(parts, old, new)
              IN  /\ parts' = Owned(parts, made)
                  /\ foreign' = IF made.ok THEN <<>> ELSE foreign
      BY <1>4 DEF ChangePassphrase
    <2>2. /\ parts' \in Seq(Parts) /\ DOMAIN parts' = DOMAIN parts
          /\ Converted(parts, old, new).ok => OneLock(parts')
          /\ ~ Converted(parts, old, new).ok => parts' = parts
      BY <2>1, ConvertedType
    <2>3. parts # <<>> /\ UNCHANGED <<derived, mail>>
      BY <1>4 DEF ChangePassphrase
    <2>4. CASE Converted(parts, old, new).ok
      BY <2>1, <2>2, <2>3, <2>4 DEF OneLock
    <2>5. CASE ~ Converted(parts, old, new).ok
      BY <2>1, <2>2, <2>3, <2>5 DEF OneLock
    <2> QED BY <2>4, <2>5
  <1>5. CASE Encrypt
    <2>1. Recipient(parts) \in DOMAIN parts
      BY <1>5, FirstCipherIsPart DEF Encrypt, Recipient
    <2> QED BY <1>5, <2>1 DEF Encrypt, OneLock, LocksOf
  <1>6. CASE Receive
    BY <1>6 DEF Receive, OneLock, LocksOf
  <1>7. CASE UNCHANGED parts_vars
    BY <1>7 DEF parts_vars, OneLock, LocksOf
  <1> QED
    BY <1>1, <1>2, <1>3, <1>4, <1>5, <1>6, <1>7 DEF PartsNext

LEMMA PartsInvHolds == PartsSpec => []PartsInv
  BY PartsInitInv, PartsNextInv, PTL DEF PartsSpec

(* However many parts a key has and whichever of them refuses, a change of *)
(* passphrase that does not succeed leaves every lock as it was.           *)
THEOREM KeyIsNeverHalfChanged == PartsSpec => []NeverHalfChanged
  <1>1. PartsInv => NeverHalfChanged
    BY DEF PartsInv
  <1> QED BY <1>1, PartsInvHolds, PTL

(* Whatever made the key and however often its passphrase was changed, the *)
(* passphrase that opens the primary key signs, decrypts every message and *)
(* changes the passphrase, and no other does.                              *)
THEOREM OnePassphraseAlwaysServes == PartsSpec => []OnePassphraseServes
  <1>1. ASSUME PartsInv PROVE OnePassphraseServes
    <2> SUFFICES ASSUME parts # <<>>, OneLock(parts), NEW pass \in Passes
                 PROVE  LET opens == CheckPassphrase(parts, pass)
                        IN  /\ Signer(parts) # NoPart => (Signs(parts, pass) <=> opens)
                            /\ Converted(parts, pass, pass).ok <=> opens
                            /\ \A i \in mail : Decrypts(parts, pass, i) <=> opens
      BY <1>1 DEF OnePassphraseServes, PartsInv
    <2>1. parts \in Seq(Parts) /\ mail \subseteq DOMAIN parts /\ Primary \in DOMAIN parts
      BY <1>1 DEF PartsInv, PartsTyped, Primary
    <2>2. \A i \in DOMAIN parts : Opens(parts[i], pass) <=> Opens(parts[Primary], pass)
      BY <2>1 DEF OneLock, Opens
    <2>3. Signer(parts) # NoPart => (Signs(parts, pass) <=> CheckPassphrase(parts, pass))
      BY <2>1, <2>2, SignerIsPart DEF Signs, CheckPassphrase
    <2>4. Converted(parts, pass, pass).ok <=> CheckPassphrase(parts, pass)
      BY <2>1, <2>2 DEF Converted, CheckPassphrase
    <2>5. Tried(parts) \in DOMAIN parts
      BY <2>1, FirstCipherIsPart DEF Tried
    <2>6. \A i \in mail : Decrypts(parts, pass, i) <=> CheckPassphrase(parts, pass)
      BY <2>1, <2>2, <2>5 DEF Decrypts, CheckPassphrase
    <2> QED BY <2>3, <2>4, <2>6
  <1> QED BY <1>1, PartsInvHolds, PTL

-----------------------------------------------------------------------------
(* What a message is encrypted to.  A run shows an imported key on which   *)
(* it is the wrong subkey; here is that no other keys are concerned.       *)

(* The first subkey that could take messages of each imported key also     *)
(* says that it is for them.                                               *)
ProperlyFlagged ==
    \A key \in Imports : FirstCipher(key) # NoPart => key[FirstCipher(key)].reads

(* Two keys with the same parts, but for their locks.                      *)
SameUse(key, after) ==
    /\ DOMAIN after = DOMAIN key
    /\ \A i \in DOMAIN key : after[i].cipher = key[i].cipher /\ after[i].reads = key[i].reads

LEMMA SameCipher ==
    ASSUME NEW key \in Seq(Parts), NEW after \in Seq(Parts), SameUse(key, after)
    PROVE  FirstCipher(after) = FirstCipher(key)
  <1>1. Len(after) = Len(key)
    BY DEF SameUse
  <1>2. Subkeys(after) = Subkeys(key) /\ Subkeys(key) \subseteq DOMAIN key
    BY <1>1 DEF Subkeys
  <1> DEFINE S == {i \in Subkeys(after) : after[i].cipher}
             T == {i \in Subkeys(key) : key[i].cipher}
  <1>3. S = T
    BY <1>2 DEF SameUse
  <1>4. /\ FirstCipher(after) = IF S = {} THEN NoPart ELSE CHOOSE i \in S : \A j \in S : i <= j
        /\ FirstCipher(key) = IF T = {} THEN NoPart ELSE CHOOSE i \in T : \A j \in T : i <= j
    BY DEF FirstCipher
  <1> HIDE DEF S, T
  <1> QED BY <1>3, <1>4

(* A change of passphrase, successful or not, leaves what parts are for.   *)
LEMMA ConvertedUse ==
    ASSUME NEW key \in Seq(Parts), NEW old \in Passes, NEW new \in Passes
    PROVE  SameUse(key, Owned(key, Converted(key, old, new)))
  <1> DEFINE after == [i \in DOMAIN key |->
                          IF \A j \in 1 .. i : Opens(key[j], old)
                          THEN Relocked(key[i], new) ELSE key[i]]
  <1>1. SameUse(key, key)
    BY DEF SameUse
  <1>2. ASSUME NEW i \in DOMAIN key
        PROVE  after[i].cipher = key[i].cipher /\ after[i].reads = key[i].reads
    <2>1. key[i] \in Parts
      OBVIOUS
    <2>2. /\ Relocked(key[i], new).cipher = key[i].cipher
          /\ Relocked(key[i], new).reads = key[i].reads
      BY <2>1 DEF Relocked, Parts
    <2> QED BY <2>2
  <1>3. SameUse(key, after)
    BY <1>2 DEF SameUse
  <1>4. Converted(key, old, new).key = after
    BY DEF Converted
  <1> HIDE DEF after
  <1> QED BY <1>1, <1>3, <1>4 DEF Owned

(* A key made here takes messages with its one subkey, which is for that.  *)
LEMMA MadeForMail ==
    ASSUME NEW cipher \in BOOLEAN, NEW pass \in Passes,
           NEW key, key = ApplyPassphrase(AssembleKey(cipher), pass)
    PROVE  FirstCipher(key) = 2 /\ key[2].reads
  <1> DEFINE made == AssembleKey(cipher)
  <1>1. made \in Seq(Parts) /\ DOMAIN made = 1 .. 2
    BY AssembleType
  <1>2. made[2] = SubkeyPart
    BY DEF AssembleKey
  <1> HIDE DEF made
  <1>3. key = [i \in DOMAIN made |-> [made[i] EXCEPT !.lock = Lock(pass)]]
    BY DEF ApplyPassphrase, made
  <1>4. key[2] = [SubkeyPart EXCEPT !.lock = Lock(pass)]
    BY <1>1, <1>2, <1>3
  <1>5. key[2].cipher /\ key[2].reads
    BY <1>4 DEF SubkeyPart
  <1>6. Len(key) = 2
    <2>1. key \in Seq(Parts) /\ DOMAIN key = 1 .. 2
      BY MadeHere
    <2> QED BY <2>1
  <1>7. {i \in Subkeys(key) : key[i].cipher} = {2}
    BY <1>5, <1>6 DEF Subkeys
  <1>8. (CHOOSE i \in {2} : \A j \in {2} : i <= j) = 2
    OBVIOUS
  <1> QED BY <1>5, <1>7, <1>8 DEF FirstCipher

MailInv ==
    /\ PartsInv
    /\ sent # NoPart => sent = FirstCipher(parts)
    /\ FirstCipher(parts) # NoPart => parts[FirstCipher(parts)].reads
    /\ derived => FirstCipher(parts) = 2

LEMMA MailInitInv == PartsInit => MailInv
  <1> SUFFICES ASSUME PartsInit PROVE MailInv
    OBVIOUS
  <1>1. Subkeys(parts) = {}
    BY DEF PartsInit, Subkeys
  <1>2. FirstCipher(parts) = NoPart
    BY <1>1 DEF FirstCipher
  <1> QED BY <1>2, PartsInitInv DEF MailInv, PartsInit

LEMMA MailNextInv ==
    ASSUME ProperlyFlagged, MailInv, [PartsNext]_parts_vars
    PROVE  MailInv'
  <1>1. PartsInv'
    BY PartsNextInv DEF MailInv
  <1>2. CASE GenerateRsa \/ GenerateCurve
    <2>1. PICK cipher \in BOOLEAN, pass \in Passes :
              NewKey(ApplyPassphrase(AssembleKey(cipher), pass))
      BY <1>2 DEF GenerateRsa, GenerateCurve
    <2>2. FirstCipher(parts') = 2 /\ parts'[2].reads
      BY <2>1, MadeForMail DEF NewKey
    <2> QED BY <1>1, <2>1, <2>2 DEF MailInv, NewKey
  <1>3. CASE DeriveKey
    <2>1. FirstCipher(parts') = 2 /\ parts'[2].reads
      BY <1>3, MadeForMail DEF DeriveKey
    <2>2. sent' = NoPart \/ (derived /\ sent' = sent)
      BY <1>3 DEF DeriveKey
    <2> QED BY <1>1, <2>1, <2>2 DEF MailInv
  <1>4. CASE ImportKey
    BY <1>1, <1>4 DEF ImportKey, NewKey, MailInv, ProperlyFlagged
  <1>5. CASE ChangePassphrase
    <2>1. SameUse(parts, parts') /\ UNCHANGED <<derived, mail, sent>>
      BY <1>5, ConvertedUse DEF ChangePassphrase, MailInv, PartsInv, PartsTyped
    <2>2. parts \in Seq(Parts) /\ parts' \in Seq(Parts)
      BY <1>1 DEF MailInv, PartsInv, PartsTyped
    <2>3. FirstCipher(parts') = FirstCipher(parts)
      BY <2>1, <2>2, SameCipher
    <2>4. FirstCipher(parts) # NoPart => FirstCipher(parts) \in DOMAIN parts
      BY <2>2, FirstCipherIsPart
    <2> QED BY <1>1, <2>1, <2>3, <2>4 DEF MailInv, SameUse
  <1>6. CASE Encrypt
    BY <1>1, <1>6 DEF Encrypt, Recipient, MailInv
  <1>7. CASE Receive \/ UNCHANGED parts_vars
    BY <1>1, <1>7 DEF Receive, parts_vars, MailInv
  <1> QED
    BY <1>2, <1>3, <1>4, <1>5, <1>6, <1>7 DEF PartsNext

(* As long as the first subkey that could take messages of every imported  *)
(* key is meant for them, each file is encrypted to such a subkey, on all  *)
(* keys and after any changes of passphrase.  So the one cause of the      *)
(* violation that a run finds is that encrypt_stream does not look at the  *)
(* key flags of subkeys another program has bound.                         *)
THEOREM EncryptsAsFlagged ==
    ASSUME ProperlyFlagged
    PROVE  PartsSpec => []EncryptsToEncryptionSubkey
  <1>1. MailInv => EncryptsToEncryptionSubkey
    BY DEF MailInv, EncryptsToEncryptionSubkey
  <1>2. MailInv /\ [PartsNext]_parts_vars => MailInv'
    BY MailNextInv
  <1> QED BY <1>1, <1>2, MailInitInv, PTL DEF PartsSpec

-----------------------------------------------------------------------------
(* The cap on decrypted output is exact for every limit, every size of the *)
(* plaintext below 2^64 and every split of it into reads and writes.       *)

StreamTyped ==
    /\ limit \in 0 .. MaxU64
    /\ step \in {"idle", "unlock", "parse", "unwrap", "decompress", "copy", "done"}
    /\ unread \in Nat /\ buffer \in Nat /\ written \in Nat /\ released \in Nat
    /\ step # "idle" => msg \in Messages
    /\ step = "idle" => limit = 0
    /\ result # "running" <=> step = "done"

(* The plaintext is in three places: still to be read, read, released; and *)
(* what the writer has counted is what was released.  So the sum that the  *)
(* writer compares with the limit is never over the size of the plaintext. *)
Conserved ==
    /\ written = released
    /\ step \in {"idle", "unlock", "parse", "unwrap", "decompress"} => buffer = 0 /\ released = 0
    /\ step # "idle" => released + buffer + unread = msg.size

StreamInv == StreamTyped /\ Conserved /\ CapIsExact

-----------------------------------------------------------------------------
LEMMA MessageFacts ==
    ASSUME NEW m \in Messages
    PROVE  m.size \in Nat /\ m.size <= MaxU64 /\ m.sound \in BOOLEAN
  BY StreamAssumption DEF MessageType

(* The writer refuses exactly what does not fit; the sum does not saturate,*)
(* since no message has 2^64 bytes.                                        *)
LEMMA RefusesExactly ==
    ASSUME StreamInv, step = "copy"
    PROVE  Refuses <=> released + buffer > limit
  <1>1. released + buffer <= MaxU64
    BY MessageFacts, StreamAssumption DEF StreamInv, StreamTyped, Conserved
  <1> QED BY <1>1, StreamAssumption DEF Refuses, SaturatingAdd, StreamInv, StreamTyped, Conserved

LEMMA StreamInitInv == StreamInit => StreamInv
  BY StreamAssumption DEF StreamInit, StreamInv, StreamTyped, Conserved, CapIsExact

LEMMA StreamNextInv == StreamInv /\ [StreamNext]_stream_vars => StreamInv'
  <1> SUFFICES ASSUME StreamInv, [StreamNext]_stream_vars PROVE StreamInv'
    OBVIOUS
  <1> USE StreamAssumption DEF StreamInv, StreamTyped, Conserved, CapIsExact, Returns
  <1>1. CASE Call
    <2>1. msg' \in Messages /\ limit' \in 0 .. MaxU64 /\ unread' = msg'.size
      BY <1>1 DEF Call
    <2> QED BY <1>1, <2>1, MessageFacts DEF Call
  <1>2. CASE Unlock \/ Parse \/ Unwrap \/ Decompress
    BY <1>2 DEF Unlock, Parse, Unwrap, Decompress
  <1>3. CASE Read
    <2>1. msg \in Messages /\ step = "copy" /\ buffer = 0
      BY <1>3 DEF Read
    <2>2. CASE \E n \in 1 .. MaxRead :
                   /\ n <= unread
                   /\ buffer' = n /\ unread' = unread - n
                   /\ UNCHANGED <<step, result>>
      BY <1>3, <2>1, <2>2, MessageFacts DEF Read
    <2>3. CASE UNCHANGED <<buffer, unread>>
      <3>1. CASE unread = 0 /\ msg.sound /\ result' = "ok"
        BY <1>3, <2>1, <2>3, <3>1 DEF Read
      <3>2. CASE result' = "error"
        BY <1>3, <2>1, <2>3, <3>2 DEF Read
      <3> QED BY <1>3, <2>3, <3>1, <3>2 DEF Read
    <2> QED BY <1>3, <2>2, <2>3 DEF Read
  <1>4. CASE Write
    <2>1. PICK n \in 1 .. buffer :
              released' = released + n /\ written' = written + n /\ buffer' = buffer - n
      BY <1>4 DEF Write, Counted
    <2>2. released + buffer <= limit
      BY <1>4, RefusesExactly DEF Write
    <2> QED BY <1>4, <2>1, <2>2, MessageFacts DEF Write
  <1>5. CASE RefuseWrite
    <2>1. released + buffer > limit
      BY <1>5, RefusesExactly DEF RefuseWrite
    <2>2. msg.size > limit
      <3>1. step = "copy" /\ msg \in Messages
        BY <1>5 DEF RefuseWrite
      <3>2. released + buffer + unread = msg.size
        BY <3>1
      <3>3. /\ limit \in Nat /\ msg.size \in Nat
            /\ released \in Nat /\ buffer \in Nat /\ unread \in Nat
        BY <3>1, MessageFacts
      <3> HIDE DEF StreamInv, StreamTyped, Conserved, CapIsExact
      <3> QED BY <2>1, <3>2, <3>3
    <2> QED BY <1>5, <2>2 DEF RefuseWrite
  <1>6. CASE SinkFails
    BY <1>6 DEF SinkFails
  <1>7. CASE UNCHANGED stream_vars
    BY <1>7 DEF stream_vars
  <1> QED BY <1>1, <1>2, <1>3, <1>4, <1>5, <1>6, <1>7 DEF StreamNext

(* No byte over the limit reaches the caller's sink, plaintext that fits   *)
(* is never refused, and a success has released all of a sound message.    *)
THEOREM CapIsAlwaysExact == StreamSpec => []CapIsExact
  <1>1. StreamInv => CapIsExact
    BY DEF StreamInv
  <1> QED BY <1>1, StreamInitInv, StreamNextInv, PTL DEF StreamSpec

-----------------------------------------------------------------------------
(* What a caller gets of a draw, for every length of a draw, of a word and *)
(* of the tail that is checked.                                            *)

(* The server fills from the front, so what it left is the stamp up to the *)
(* end; and a fresh page is fresh throughout.                              *)
FilledFromFront ==
    /\ \A i, j \in 1 .. len : page[i] = "stamp" /\ i <= j => page[j] = "stamp"
    /\ \A i, j \in 1 .. len : page[i] = "fresh" => page[j] = "fresh"

AllDrawn == \A i \in 1 .. len : page[i] \in Drawn

TrngInv ==
    /\ draw \in {"idle", "connect", "map", "lend", "check", "return", "done"}
    /\ len \in Nat
    /\ dest \in [1 .. len -> PageBytes \cup {"caller"}]
    /\ draw \in {"lend", "check", "return"} => page \in [1 .. len -> PageBytes]
    /\ draw \in {"connect", "map", "lend"} => ~ honest
    /\ draw \in {"connect", "map", "lend", "check"} => outcome = "running"
    /\ draw = "lend" => page = Stamped
    /\ draw = "check" => FilledFromFront /\ (honest => AllDrawn)
    /\ OnlyTailUnfilled
    /\ HonestDrawIsServed

-----------------------------------------------------------------------------
(* So many words hold n bytes: the division rounds up.                     *)
LEMMA WordsSuffice ==
    ASSUME NEW n \in Nat
    PROVE  WordsFor(n) \in Nat /\ WordsFor(n) * WordLen \in Nat /\ n <= WordsFor(n) * WordLen
  <1> DEFINE q == n \div WordLen
             r == n % WordLen
  <1>1. WordLen \in Nat /\ WordLen > 0
    BY TrngAssumption
  <1>2. q \in Nat /\ r \in 0 .. WordLen - 1 /\ n = q * WordLen + r
    BY <1>1
  <1>3. WordsFor(n) = IF r # 0 THEN q + 1 ELSE q
    BY <1>2 DEF WordsFor
  <1> HIDE DEF q, r
  <1>4. (q + 1) * WordLen = q * WordLen + WordLen /\ q * WordLen \in Nat
    BY <1>1, <1>2
  <1> QED BY <1>1, <1>2, <1>3, <1>4

(* What the server's answer leaves on a stamped page.                      *)
LEMMA FilledIs ==
    ASSUME len \in Nat, page = Stamped, NEW n \in Nat, NEW k \in Nat,
           NEW accident \in {"likeStamp", "likeZero"}, page' = Filled(n, k, accident),
           len' = len
    PROVE  /\ page' \in [1 .. len -> PageBytes]
           /\ FilledFromFront'
           /\ len <= n => AllDrawn'
  <1>1. ASSUME NEW i \in 1 .. len
        PROVE  /\ i > n => page'[i] = "stamp"
               /\ ~ (i > n) => page'[i] \in {"random", accident}
    BY DEF Filled, Stamped
  <1>2. ASSUME NEW i \in 1 .. len PROVE page'[i] \in PageBytes
    BY <1>1 DEF PageBytes, Drawn, LooksStamped, LooksZero
  <1>3. page' \in [1 .. len -> PageBytes]
    BY <1>2 DEF Filled
  <1>4. FilledFromFront'
    <2>1. ASSUME NEW i \in 1 .. len, NEW j \in 1 .. len, page'[i] = "stamp", i <= j
          PROVE  page'[j] = "stamp"
      <3>1. i > n
        BY <1>1, <2>1
      <3>2. j > n
        BY <2>1, <3>1
      <3> QED BY <1>1, <3>2
    <2>2. ASSUME NEW i \in 1 .. len PROVE page'[i] # "fresh"
      BY <1>1
    <2> QED BY <2>1, <2>2 DEF FilledFromFront
  <1>5. ASSUME len <= n PROVE AllDrawn'
    <2>1. ASSUME NEW i \in 1 .. len PROVE page'[i] \in {"random", accident}
      BY <1>1, <1>5
    <2> QED BY <2>1 DEF AllDrawn, Drawn
  <1> QED BY <1>3, <1>4, <1>5

(* What passes the check has at most a short unfilled tail.                *)
LEMMA PassedIs ==
    ASSUME len \in Nat, FilledFromFront, ~ LooksUnfilled,
           NEW i \in 1 .. len, page[i] \in {"stamp", "fresh"}
    PROVE  len < i + MinTailCheck
  <1> SUFFICES ASSUME ~ (len < i + MinTailCheck) PROVE FALSE
    OBVIOUS
  <1>1. MinTailCheck \in Nat \ {0}
    BY TrngAssumption
  <1>2. len >= MinTailCheck /\ len - MinTailCheck + 1 \in 1 .. len /\ i <= len - MinTailCheck + 1
    BY <1>1
  <1>3. CASE page[i] = "stamp"
    <2>1. \A j \in len - MinTailCheck + 1 .. len : j \in 1 .. len /\ i <= j
      BY <1>1, <1>2
    <2>2. StampedFrom(len - MinTailCheck + 1)
      BY <1>3, <2>1 DEF StampedFrom, FilledFromFront, LooksStamped
    <2> QED BY <1>2, <2>2 DEF LooksUnfilled
  <1>4. CASE page[i] = "fresh"
    BY <1>2, <1>4 DEF LooksUnfilled, FilledFromFront, LooksZero
  <1> QED BY <1>3, <1>4

(* What is refused has no random byte at its end.                          *)
LEMMA RefusedIs ==
    ASSUME len \in Nat, LooksUnfilled, NEW i \in 1 .. len, len < i + MinTailCheck
    PROVE  page[i] # "random"
  <1>1. MinTailCheck \in Nat \ {0}
    BY TrngAssumption
  <1>2. CASE StampedFrom(1)
    BY <1>2 DEF StampedFrom, LooksStamped
  <1>3. CASE StampedFrom(len - MinTailCheck + 1)
    <2>1. i \in len - MinTailCheck + 1 .. len
      BY <1>1
    <2> QED BY <1>3, <2>1 DEF StampedFrom, LooksStamped
  <1>4. CASE \A j \in 1 .. len : page[j] \in LooksZero
    BY <1>4 DEF LooksZero
  <1> QED BY <1>2, <1>3, <1>4 DEF LooksUnfilled

LEMMA TrngInitInv == TrngInit => TrngInv
  BY DEF TrngInit, TrngInv, NoPage, OnlyTailUnfilled, HonestDrawIsServed

LEMMA TrngNextInv == TrngInv /\ [TrngNext]_trng_vars => TrngInv'
  <1> SUFFICES ASSUME TrngInv, [TrngNext]_trng_vars PROVE TrngInv'
    OBVIOUS
  <1> USE DEF TrngInv
  <1>1. CASE StartDraw
    BY <1>1 DEF StartDraw, OnlyTailUnfilled, HonestDrawIsServed
  <1>2. CASE Connect
    BY <1>2 DEF Connect, OnlyTailUnfilled, HonestDrawIsServed
  <1>3. CASE MapAndStamp
    <2>1. Stamped \in [1 .. len -> PageBytes]
      BY DEF Stamped, PageBytes, LooksStamped
    <2>2. Stamped' = [i \in 1 .. len |-> "stamp"]
      BY <1>3 DEF MapAndStamp, Stamped
    <2> QED BY <1>3, <2>1, <2>2 DEF MapAndStamp, Stamped, OnlyTailUnfilled, HonestDrawIsServed
  <1>4. CASE Lend
    <2>1. /\ draw = "lend" /\ UNCHANGED <<len, conn, dest>> /\ page = Stamped
          /\ ~ honest /\ outcome = "running" /\ len \in Nat
      BY <1>4 DEF Lend
    <2>2. OnlyTailUnfilled' \/ outcome' # "running"
      BY <2>1 DEF OnlyTailUnfilled
    <2> DEFINE asked == WordsFor(len) * WordLen
    <2>3. CASE /\ \E n \in 0 .. asked : \E k \in 0 .. n :
                   \E accident \in {"likeStamp", "likeZero"} :
                       page' = Filled(n, k, accident) /\ honest' = (n = asked)
               /\ draw' = "check" /\ UNCHANGED outcome
      <3>1. asked \in Nat /\ len <= asked
        BY <2>1, WordsSuffice
      <3> HIDE DEF asked
      <3>2. PICK n \in 0 .. asked : \E k \in 0 .. n :
                \E accident \in {"likeStamp", "likeZero"} :
                    page' = Filled(n, k, accident) /\ honest' = (n = asked)
        BY <2>3
      <3>3. n \in Nat
        BY <3>1
      <3>4. /\ page' \in [1 .. len -> PageBytes] /\ FilledFromFront'
            /\ len <= n => AllDrawn'
        <4>1. PICK k \in 0 .. n, accident \in {"likeStamp", "likeZero"} :
                  page' = Filled(n, k, accident)
          BY <3>2
        <4>2. k \in Nat
          BY <3>3
        <4> QED BY <2>1, <3>3, <4>1, <4>2, FilledIs
      <3>5. honest' => n = asked
        BY <3>2, Zenon
      <3>6. honest' => AllDrawn'
        BY <3>1, <3>4, <3>5
      <3> QED BY <2>1, <2>2, <2>3, <3>4, <3>6 DEF HonestDrawIsServed
    <2>4. CASE /\ page' = [i \in 1 .. len |-> "fresh"] /\ draw' = "check"
               /\ UNCHANGED <<honest, outcome>>
      <3>1. page' \in [1 .. len -> PageBytes]
        BY <2>4 DEF PageBytes, LooksZero
      <3>2. FilledFromFront'
        BY <2>1, <2>4 DEF FilledFromFront
      <3> QED BY <2>1, <2>2, <2>4, <3>1, <3>2 DEF HonestDrawIsServed
    <2>5. CASE draw' = "return" /\ outcome' = "syscall" /\ UNCHANGED <<page, honest>>
      BY <2>1, <2>5 DEF OnlyTailUnfilled, HonestDrawIsServed
    <2> QED BY <1>4, <2>3, <2>4, <2>5 DEF Lend
  <1>5. CASE Check
    <2>1. /\ draw = "check" /\ draw' = "return" /\ len \in Nat /\ outcome = "running"
          /\ UNCHANGED <<len, conn, page, honest>> /\ page \in [1 .. len -> PageBytes]
          /\ FilledFromFront /\ (honest => AllDrawn)
      BY <1>5 DEF Check
    <2>2. CASE LooksUnfilled
      <3>1. outcome' = "unfilled" /\ dest' = dest
        BY <1>5, <2>2 DEF Check
      <3>2. HonestDrawIsServed'
        BY <2>1, <2>2, <3>1, RefusedIs DEF HonestDrawIsServed
      <3>3. OnlyTailUnfilled'
        BY <2>1, <3>1 DEF OnlyTailUnfilled
      <3> QED BY <2>1, <3>1, <3>2, <3>3
    <2>3. CASE ~ LooksUnfilled
      <3>1. outcome' = "ok" /\ dest' = page
        BY <1>5, <2>3 DEF Check
      <3>2. HonestDrawIsServed'
        BY <2>1, <3>1 DEF HonestDrawIsServed, AllDrawn
      <3>3. OnlyTailUnfilled'
        <4>1. \A i \in 1 .. len :
                  page[i] \in {"stamp", "fresh"} => len < i + MinTailCheck
          BY <2>1, <2>3, PassedIs
        <4>2. \A i \in 1 .. len : page[i] # "caller"
          BY <2>1 DEF PageBytes, Drawn, LooksStamped, LooksZero
        <4> QED BY <2>1, <3>1, <4>1, <4>2 DEF OnlyTailUnfilled
      <3> QED BY <2>1, <3>1, <3>2, <3>3
    <2> QED BY <2>2, <2>3
  <1>6. CASE ReturnPage
    BY <1>6 DEF ReturnPage, OnlyTailUnfilled, HonestDrawIsServed
  <1>7. CASE UNCHANGED trng_vars
    BY <1>7 DEF trng_vars, OnlyTailUnfilled, HonestDrawIsServed, Stamped,
                FilledFromFront, AllDrawn
  <1> QED BY <1>1, <1>2, <1>3, <1>4, <1>5, <1>6, <1>7 DEF TrngNext

(* Whatever the server does, the caller's buffer has no unfilled byte but  *)
(* in its last MIN_TAIL_CHECK - 1, which the check of looks_unfilled does  *)
(* not cover; so of a draw that is shorter nothing is said.                *)
THEOREM OnlyTailStaysUnfilled == TrngSpec => []OnlyTailUnfilled
  <1>1. TrngInv => OnlyTailUnfilled
    BY DEF TrngInv
  <1> QED BY <1>1, TrngInitInv, TrngNextInv, PTL DEF TrngSpec

(* A server that fills the words it is asked for fills the draw, of any    *)
(* length, and is refused only for accidents.                              *)
THEOREM HonestDrawIsAlwaysServed == TrngSpec => []HonestDrawIsServed
  <1>1. TrngInv => HonestDrawIsServed
    BY DEF TrngInv
  <1> QED BY <1>1, TrngInitInv, TrngNextInv, PTL DEF TrngSpec
=============================================================================
