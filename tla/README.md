# TLA+ models of Prime OpenPGP Keys

Prime OpenPGP Keys is a KeyOS app (Rust, Slint) that makes, imports, edits and
uses OpenPGP keys on a device without a network. `src/main.rs` holds the whole
application: the state, every callback of the screens, the files. The crate
`pgp-core` holds the operations on keys: generation, derivation from a seed,
editing of certificates, signing, encryption, decryption, the sealed store of
an imported seed. Paths below are relative to the repository; `lib.rs`,
`store.rs` and `import.rs` are those of `pgp-core/src`.

This directory models the parts whose correctness depends on an ORDER of
events: what is held open against what is stored, what a screen shows against
what its buttons act on, what a failure or power loss half way leaves behind,
and which of several signatures counts. TLC checks them on small instances;
TLAPS proves every safety property of the passing runs for all of them.

## 1. The system

### 1.1 Components

| Component | State | Operations | Must hold | Status |
|---|---|---|---|---|
| **Keychain** (`main.rs`) | `/pgp-keys/*.asc`, `State.current`, `State.browse_mode`, globals `KeyList`, `Detail`, `Ui.screen`, `Ui.busy` | open, close, import, generate, derive, edit expiration and user IDs, change passphrase, delete, and the timer jobs | the open key is the stored key; screens show what buttons act on; secret material is never lost to a public copy; the overlay lifts | modelled, proved (but liveness) |
| **Imported seed** (`main.rs`, `store.rs`) | `AppData/imported_key`, header and fingerprint on the create screen, typed words | start-up, import with read-back, derive, forget | the root on show is the stored one and opens; keys name the root they come from | modelled, proved |
| **Self-certifications** (`lib.rs`) | user IDs, the signatures on them, the device's clock | `set_expiration`, `add_user_id`, `remove_user_id`, `latest_self_cert` | edits take effect whatever the clock says; nothing else changes | modelled, proved |
| **File jobs** (`main.rs`, `lib.rs`) | the user's files, the staged target, the confirmation | sign, encrypt, decrypt, export | only verified plaintext stays; success means whole; only the output changes | modelled (checksum: Keychain), proved |
| **File browser** (`main.rs`) | location, path, listing, mode, target | open, change location, descend, go back, tap, cancel | the target is the file named; no job reaches the keychain's folder | modelled: mode in Keychain, the rest in FileJobs, proved |
| **Streaming** (`lib.rs`) | none between calls | unlock, parse, unwrap, decompress, copy out under a cap | no byte over the cap; error on tampering, at the end | decryption modelled and proved (DecryptStream, FileJobs); packet writing is the library's |
| Provenance note (`lib.rs`) | a notation on self-certifications | write, parse, carry over | survives every edit | partly: in SelfCerts; the grammar is not modelled |
| **Passphrases** (`lib.rs`) | locks on the primary key and subkeys | check, change | one passphrase serves the whole key; a refused change leaves it as it was | modelled, proved (KeyParts) |
| **Import parsing** (`lib.rs`) | none | `split_armor_blocks`, `parse_keys` | every certificate of every block once, or an error | modelled, proved |
| **Seed words** (`import.rs`, `import/bip39.rs`, `main.rs`) | the words field and its verdict | type, complete, scan a SeedQR, pack and unpack BIP-39 words | the verdict is right; a code shows the seed it holds | modelled, proved |
| **Key derivation** (`lib.rs`) | none | HKDF, clamping, reduction modulo the group order | every implementation gets the same scalar | modelled, proved; HKDF is external |
| Generation and signing (`lib.rs`) | none | assemble a key, choose the part that signs or decrypts | parts, flags and locks fit together | partly: in KeyParts; the rest is calls into rPGP |
| **Random generator** (`vendor/getrandom`) | the connection | fill, detect an unfilled buffer | an unfilled buffer is refused, but for a tail too short to tell; a filled one is used | modelled, proved |
| Screens (`ui/*.slint`) | modals, input fields, theme | - | a tap reaches what is on show | partly: screen number, overlay, modals |
| Vendored security API, scripts, tests, translations | - | - | - | not modelled: interface definitions, build checks, data |

### 1.2 How they interact

Everything runs on ONE thread. Slint calls a callback, the callback runs to its
end, and the next event is taken. There are no locks and no tasks, so what can
interleave is this:

- **Callbacks and timers.** A slow operation raises the `busy` overlay and arms
  a `Timer::single_shot` of 150 ms so that the overlay is painted; the job runs
  later and reads `State.current` THEN. Between the two any callback that the
  overlay does not hide could run.
- **Steps of one callback and the storage.** A callback writes several files in
  turn (an import of several keys) or one file and then the state. Each write
  may fail, and power may be lost inside it. Files are overwritten in place:
  KeyOS `rename` does not replace a file, third-party apps cannot flush.
- **Screens and state.** The screen keeps the file name, the title and the row
  numbers it was drawn with, and hands them back to the next callback.
- **Components.** The keychain calls the certificate edits with the open key
  moved out of the state (`with_secret_key_owned`) and must put it back on every
  path. File jobs borrow the open key. Deriving a key opens the sealed seed and
  ends in the keychain's save. The browser belongs to the keychain's import, to
  the checksum and to the file jobs.

### 1.3 What is hard to test in it

`PROJECT.json` lists the hazards with their lines. The main groups: failures
between the in-memory change and the save (`persist_current`, import loops);
in-place writes cut short (key files, the sealed seed, decrypted output); a
screen or a timer acting on what it remembered; decisions taken from a read
that failed; signatures whose dates disagree with the clock; names derived from
other names.

## 2. Modules

| Module | What it is |
|---|---|
| `Keychain` | the keychain, one action per callback step |
| `KeyVault` | what the keychain promises, without files, screens or handlers |
| `KeychainRefines` | the refinement mapping from `Keychain` to `KeyVault` |
| `KeychainProofs` | invariants and action properties of `Keychain`, and the refinement, proved |
| `SeedStore`, `SeedStoreProofs` | the imported seed; its invariants, proved |
| `SelfCerts`, `SelfCertsProofs` | certificates, self-certifications and the edits; what each edit keeps, proved |
| `FileJobs`, `FileJobsProofs` | the file browser; sign, encrypt, decrypt, export; invariants, proved |
| `ArmorBlocks`, `ArmorBlocksProofs` | cutting a file into armored blocks and reading them; proved against a reading line by line |
| `SeedWords` | the words field, SeedQR codes, the packing of words and its checksum |
| `Scalars` | secret scalars from derived bytes |
| `Numerals` | powers, and the number a string of digits stands for |
| `NumeralsProofs` | `SeedWords` and `Scalars`, proved against plain arithmetic |
| `KeyParts` | the parts of the open key, their locks and uses |
| `DecryptStream` | one call of `decrypt_stream`, byte by byte |
| `TrngDraw` | one draw of random bytes from the server |
| `PgpCoreProofs` | `KeyParts`, `DecryptStream` and `TrngDraw`, proved |
| `Induction` | induction over the naturals, stated for sets, and functions defined step by step |
| `MCKeychain`, `MCSeedStore`, `MCSelfCerts`, `MCFileJobs`, `MCSeedWords`, `MCKeyParts` | instances for TLC |
| `MCPgpCore` | one instance of `SeedWords`, `Scalars`, `ArmorBlocks`, `KeyParts`, `DecryptStream` and `TrngDraw`; its first state picks which of them runs |

Operators whose line ends in `\* mutant` are deliberate faults kept beside the
operator they replace (`PROJECT.json`, `mutants`): each property is shown to
fail when the code model is broken in that way. No action uses them.

### 2.1 Keychain

`disk` maps the names of `*.asc` files in `/pgp-keys` to what reading one finds:
a certificate, nothing (`Absent`), or a file no parser accepts (`Torn`). A
certificate has an identity, a flag for secret material, a passphrase, and
`rev`, which counts the edits that the detail screen shows. `current` is
`State.current`, `detail` the `Detail` global, `list` the `KeyList` rows,
`screen`/`mode`/`busy` the `Ui` globals, `job` what a timer will start.

A callback that saves is cut at each save, so that failure and power loss can
fall between two: `handler` holds the certificates it still has to write. One
that saves nothing is one action. While `handler # None` nothing else runs,
since there is one thread.

| Action | Code |
|---|---|
| `TapRow`, `OpenKey` | `open_key` (`main.rs:193`) and its callers |
| `CloseDetail`, `CancelImport`, `CancelCreate`, `ShowCreate`, `OpenBrowser` | navigation callbacks, with the scans they do or do not make |
| `ImportEntry`, `SaveNewKey`, `KeepStoredSecret`, `ShowNewKey` | the import loop (`main.rs:529`), and the tail of a creation |
| `EditKey`, `ChangePassphrase`, `PersistCurrent` | `with_secret_key_owned` and `persist_current` |
| `SaveFails` | the error paths of all saves: the file is the old one, torn, or the new one |
| `DeleteKey` | `on_delete_key` |
| `RequestCreate`, `RunCreate`, `RequestFileJob`, `RunFileJob`, `RunChecksum`, `RequestSignQr`, `RunSignQr` | the slow operations and their timers |
| `Crash` | power loss, inside a save or elsewhere, and a new start |

`Faults` turns on failing saves (`"write"`), failing reads (`"read"`) and power
loss (`"crash"`). A key generated at random is new; a derived one may already be
stored, edited or relocked. A key without a passphrase (`NoPass`) opens whatever
was typed, as in rPGP.

Left out: `on_refresh_keys` (no `.slint` file invokes it), changes of
`/pgp-keys` by another program or by file jobs while the app runs, two
certificates with the same 64-bit key ID (`FileOf` is injective), writes lost
after they returned, size caps. That file jobs leave `/pgp-keys` alone is not
assumed: `KeychainUntouched` of FileJobs says so.

`KeyVault` says what a user of the keychain relies on: at most one key is open,
only it is edited, by someone who knows its passphrase, one edit at a time and
from the stored version; keys enter while none is open and never turn stored
secret material into a public copy; only the open key is deleted; when storage
fails (`Lossy`), only the key being written may be damaged. `KeychainRefines`
maps the files to the vault (a key counts as open also while
`with_secret_key_owned` has taken it out) and states `KeepsVaultPromise`.

### 2.2 SeedStore

`file` is the sealed file: a cleartext header that names a root, and a
ciphertext with a root and the device it was sealed on. The cipher is external;
what is modelled of it is that a ciphertext opens on its own device and under
its own header only (`HeaderBound`: the header is the associated data,
`store.rs:216`). `HalfWritten` has every file an interrupted overwrite can
leave: the new header, or a header mixed of two, over the old ciphertext; the new
header over a mixed ciphertext; garbage. A fault `"silent"` lets a write return
although it is half done. An import is two actions, the write (`ImportWrites`)
and the read-back (`ImportVerifies`), with power loss between them.

`missed` is a history: whether the last start or import met a read or write
error, after which a usable root may be off the screen. `keys` is another: which
root each derived key was made from and which one its provenance notes. The save
of a derived key is Keychain's.

### 2.3 SelfCerts

A certificate is a creation time and a sequence of user IDs, each with a
sequence of signatures (self or foreign, certification or revocation, creation
time, expiration, note, sign flag, primary flag). `Effective` is what
`key_info`, `provenance` and `select_signer` read: the NEWEST self-certification
over all user IDs, the first in the certificate among equally new ones. Every
edit dates its signatures by `clock`, which the user may set to anything. An
operation that fails leaves the certificate as it was, since the caller reads
the file again. Time is in days and a 32-bit overflow is `MaxSpan`.

### 2.4 FileJobs

`storage` maps names to contents; a name is a sequence of parts (stem,
extensions), so that `PlainPath` (`strip_pgp_ext`) is defined on `f.gpg`, on
`f`, and on a file called just `.gpg`. Plaintext carries two marks: `whole`, and
`verified` (it came from a message whose integrity check passed). A job has
three phases: `armed` (timer set), `stream` (output emptied, plaintext being
released), `cleanup` (an error was returned; the output will be emptied, which
may itself fail). `Finish` is the end of the stream: the integrity check, the
size cap, the flush. Sign and export write their output in one call and do not
clean up. `spoiled` is a history: the outputs that a job left holding unverified
plaintext because power was lost or they could not be emptied; emptying one
clears it.

The browser is `at`, a location and a folder in it, with the storage of every
location a sparse map from folders and names. `Listed` is what the listing
shows: the keychain's folder is hidden at the root of the user's
location only, so that `ChangeLocation`, `OpenFolder`, `GoBack` and `OpenBrowser`
must not lead into it any other way.

Left out: the contents of keys and signatures, a signature inside an encrypted
message (the code does not check it when it decrypts). Any listed file may be
signed, encrypted or decrypted. A message tells its plaintext by `Data` only:
one that was encrypted again decrypts to a plain file, and a key, a signature
or an emptied file counts as a small one (`Small`) when it is encrypted.

### 2.5 SeedWords

The words on the create screen, as indices into the word list, and the verdict
`update_import_status` shows after each change. Both packing loops of `bip39.rs`
are `Push`, repeated over the words or the bytes by `Packed`, with their
accumulator of `AccBits` bits; the groups that the inner `while` takes out are
`Emitted`. The reference in the properties, `Encodes`, is arithmetic on one
large number instead. Widths are constants: 8, 11 and 32 in the code, 3, 4 and 7
in the run, chosen so that words straddle bytes, the accumulator overflows, one
length leaves a part of a byte over (12 words in the code) and another fills a
whole byte with checksum (24 words).

Left out: the text itself (case, Unicode, spaces, newlines), which words a
prefix suggests, the derivation of the root from the words (external).

### 2.6 KeyParts

Keychain gives a key one passphrase. Here a key is the sequence of its parts,
the primary key first, each with its key flags, whether its algorithm can
encrypt, its creation time and its lock: a passphrase, none (`Plain`), or a
secret that is elsewhere (`Stub`, what gpg exports for an offline primary key).
The generators and derivations are what `assemble_key` and `apply_passphrase`
make. `Signer`, `Recipient` and `Tried` are the choices of `select_signer`,
`encrypt_stream` and of the test unlock in `decrypt_stream`. `Converted` is the
loop of `change_passphrase` and how far it came; `Owned` is what the callback
keeps of it. `foreign` is a history: the locks an imported key came with, until
its passphrase is changed here; `mail` another: the parts that messages were
encrypted to, by this app or by another program.

Taken from rPGP: a part without a lock opens whatever is typed, `can_encrypt`
looks at the algorithm and not at the flags. Left out: public copies, public
subkeys inside a secret key, saving (Keychain), a re-import, which starts a new
key here.

### 2.7 ArmorBlocks, Scalars, DecryptStream, TrngDraw

These hold no state between calls; their variables are those of one call.

- `ArmorBlocks`: a file is a sequence of lines. `Body` is what is taken from the
  library: it skips to the first BEGIN line, stops at the first END line, and
  fails without one. The reference of `EveryBlockOnce` speaks of lines only and
  knows no pieces.
- `Scalars`: `be_ge`, `be_sub_assign`, `be_add_one` and the shift of `be_reduce`
  byte by byte, with their borrow and carry as recursive functions; the long
  division is one action per bit; the reference is `%` on numbers.
- `DecryptStream`: the steps of `decrypt_stream` in their order. `Read` returns
  any number of bytes, the sink takes any part of what it is offered, a damaged
  message fails anywhere and at the latest at its end.
- `TrngDraw`: connection, mapping, stamp, lending, check, return of the page.
  A byte is told by who wrote it and what it looks like, so that random bytes
  may look like the sentinel, or like zero, by accident. The server fills from
  the front all, a part or nothing of what it was asked for, or sends back a
  fresh page. The check of `trng_check.rs` is meant to let an unfilled tail
  shorter than `MIN_TAIL_CHECK` pass (its comment and a unit test say so), and a
  short all-zero draw; the properties state that exception.

## 3. Runs

All runs use two or three values of each set. Two keys are enough for a
creation or an import beside the open key; files of two certificates have the
public and secret copy of one key in both orders; `MaxRev = 2` lets a version be
compared with a newer and an older one. Model values stand for names; no
symmetry is used, since most sets hold distinguished values.

| Run | Faults | Shows |
|---|---|---|
| `keychain_faults` | saves, power loss | `ListIsFresh`: the list is what is stored. `ImportedSoFar`: half-way through an import all passed keys are stored with their secret part. `DetailKeepsOpenKey`: only a failed save takes the open key from under the detail screen. `NeverDowngrade`, `DeletesOnlyShownKey`, and `KeepsVaultPromise` (refinement). Under fairness, the overlay always lifts (`OverlayLifts`) |
| `keychain_all_faults` | saves, reads, power loss, a key file under a foreign name | `OpenKeyIsStored`, `DetailShowsOpenKey`, `OpenKeyHasScreen`, `OverlayCoversWork`, `JobUsesShownKey` |
| `seed_faults` | reads, writes, lying writes, power loss | `ShownRootIsStored`, `FingerprintOpens`, `ShownRootIsKept`, `DerivesFromShownRoot`; `UsableRootIsOffered`: a root that opens is on show, so no import is offered over it, unless the last start or import met an error |
| `selfcerts` | clock set back | On certificates the app made and on imported ones (disagreeing, future-dated, revoked, foreign or no self-certifications): `SetExpirationTakesEffect`, `EditsKeepEffective`, `AddKeepsEffective`, `ThirdPartySigsStay`; where they held before an edit, `UserIdsAgree` and `AtMostOnePrimary` hold after it |
| `pgp_core` | any reads, writes, locks and server answers | `VerdictIsTrue`: "checksum ok" exactly for words that spell a seed and its checksum. `CompactShowsSeed`: a compact code shows the words of its seed. `NeverHalfChanged`: a refused change of passphrase leaves every lock as it was. `OnePassphraseServes`: what opens the primary key signs, decrypts and changes the passphrase, and nothing else does, on every key made here, changed here or imported with one lock. `EveryBlockOnce`: an import takes every certificate of every block once, or fails. `ScalarIsCanonical`: scalars are what arithmetic says. `CapIsExact`: no byte over the limit is released and nothing that fits is refused. `OnlyTailUnfilled`: a byte handed out that the server did not write is among the last seven of the draw. `HonestDrawIsServed`: a server that fills the words it is asked for fills the draw, and is refused only for bytes that look unfilled by accident |
| `filejobs` | failing streams, writes and truncations, power loss | `OnlyVerifiedPlaintext` between jobs, `SuccessMeansWhole`, `JobUsesNamedFile`, `OnlyOutputChanges`, `KeychainUntouched` |

Bounds. Keychain: 2 keys, 2 passphrases (one of them none), 2 files and 2
edits, or 3 files and 1 edit; five import files. SeedStore: 2 seeds, 2 devices,
5 initial files. SelfCerts: 2 user ID strings, at most 3 user IDs, clock 0 to 3,
spans up to 5, expirations 0 and 4 days ahead, so that the check rejects a span
of zero or less and one that overflows. SeedWords: all seeds of 1 and 3 bytes,
all fields of up to 3 words or unknown words, all codes; a code is scanned over
at most one word, since it replaces the field whatever it held. KeyParts: three
passphrases, one of them empty, and seven imported keys (parts with different
locks, without one, without a secret; no signing part, several; subkeys in
either order). ArmorBlocks: files of up to 7 lines, enough for two blocks with
text around them. Scalars: bytes of 3 bits, 3 of them, all values; one order
has a leading zero byte, one makes the subtraction of one borrow, one fills its
bytes. DecryptStream: numbers below 8 as the 64-bit ones, limits 0, 4 and 7,
messages of 0 to 7 bytes, so that the limit is below, at and over the size; as
in the code no size reaches 2^64, so that the saturating branch of the sum is
never taken and nothing is shown of it; reads of up to 3 bytes. TrngDraw: all
lengths to 13: shorter than the checked tail, as long and longer, at every
length modulo a word. FileJobs: names of at most 2 of 4 parts (20 names), 2
contents of which one is over the size cap; a file and its message, which is
sound, tampered with, too big or for another key, or a message alone; two
locations with one folder each, both called `pgp-keys`, one of them the
keychain. `pgp_core` turns the deadlock check off: its operations end.

Fairness. `FairSpec` has weak fairness of the steps that the program takes by
itself: the next write of a callback that is running (`Running`) and a timer
that is armed (`Timer`). Slint's event loop does both as long as the process
lives. No user action is fair, and neither is a failure.

### 3.1 Runs that find a violation

Each states what a comment or the README of the repository says, and TLC shows
that the code does something else. They are listed as findings.

| Run | What happens |
|---|---|
| `keychain_empty_detail` | An edit succeeds and its save fails: the key was moved out of the state and is not put back. The detail screen stays with no key open. |
| `keychain_downgrade` | The never-downgrade check takes a failed read for a missing file, so a public copy is written over the stored secret key. |
| `keychain_foreign` | A change of passphrase of a key whose file is not called `<KEYID>.asc` starts a second file instead of writing "over its existing file". The detail screen keeps the old name, so a delete removes the old file, and the secret key that the dialog says is gone stays stored. |
| `seed_words` | Words typed in the From-seed form stay in the input fields when the screen is left by a successful Generate. |
| `key_parts_foreign` | A file is encrypted to the signing subkey of an imported key, since the first subkey whose algorithm can encrypt is taken and its key flags are not looked at. |
| `selfcerts_revoked` | Setting the expiration drops the revocation of a revoked user ID with the certifications it replaces. |

One deviation is known to the code and is no finding: `decrypt_stream` asks its
callers to treat its output as a scratch file until it returns (`lib.rs:1554`),
`on_decrypt_file` gives it the final name, and `open_output` says why
(`main.rs:1605`: a rename cannot replace a file on this storage). What it costs
is in the model: power loss or a failed truncation leaves unverified plaintext,
`spoiled` records whose, and `OnlyVerifiedPlaintext` says that nothing else does.

## 4. Proofs

All theorems about behaviours are of the form `Spec => []Inv`, `Spec =>
[][A]_vars` or `Spec => Abstract!Spec` and hold for every value of the constants
that the named assumptions allow:

- `InputAssumption` and its like: the types of the parameters. Of `SeedWords` it
  also asks that the accumulator holds a byte beside all but one bit of a word,
  that each number of words has the bits of its seed and checksum and no others,
  and nothing of the checksum function but its range. Of `Scalars`
  (`ScalarsAssumption`): an order has fewer bytes than a raw value and is at
  least 2. Of `ArmorBlocks` (`ArmorAssumption`): the kinds of lines are told apart.
- `SentinelAssumption`: `None`, `Absent`, ... are none of the values they are told
  from.
- `FileOfAssumption`, for the keychain: two keys never share a file name.

TLC evaluates them on every run. What a theorem assumes beyond them stands in
its ASSUME or in front of its arrow and is repeated below.

**KeychainProofs, invariants.** Inductive invariant: `TypeOK`, `OpenKeyIsStored`,
`DetailShowsOpenKey`, `OpenKeyHasScreen`, `OverlayCoversWork`, and two facts
that are not properties by themselves. `JobOK`: an armed job belongs to the
screen it was started from; without it a timer could end a creation over a
detail screen. `HandlerOK`: inside its writes a callback has no key in the state
and an edit writes one secret certificate; without it a save could change the
file of an open key. Theorems: `TypeCorrect`, `OpenKeyIsAlwaysStored`,
`DetailAlwaysShowsOpenKey`, `JobAlwaysUsesShownKey`, `OverlayAlwaysCoversWork`,
`OpenKeyAlwaysHasScreen`, `NeverDowngrades` (assuming that reads do not fail, as
the run does) and `ListIsAlwaysFresh` (which needs that the list is fresh under
the checksum browser too, since a checksum returns to it without a scan).
`DetailAlwaysKeepsOpenKey` shows action by action that only `SaveFails` leaves
the detail screen with nothing open: a refused operation finds its certificate
in the file, since what is open is what is stored. `DeletesOnlyTheShownKey`
needs `ShownIsStored`: on the detail screen, and in the browsers it opens, the
file behind the screen holds a copy of the certificate on show, if any, also
after a failed save. `ImportIsAlwaysKept` assumes that reads do not fail and that
`WellNamed` holds of the initial disks: the file named after a certificate holds
no other one. A saved certificate then displaces only a copy of itself, and
`NextKept` shows that it displaces nothing secret.

**KeychainProofs, refinement.** `ImplementsKeyVault`: Keychain implements KeyVault,
if reads do not fail (with them it does not: `keychain_downgrade`) and every
file has at first the name `save_key` gives to its certificate (without that an
edit starts a second file: `keychain_foreign`). `VInv` adds what the step
mapping needs: names stay proper; the file behind the detail screen is the one
named after what it shows, so that a delete takes the open key; a version being
saved is an edition of the stored one; and a detail screen with nothing open
exists only where storage may fail (`Backed`), so that a delete from it is
`Damage`. `StepRefines` maps each action: showing is `Open`, closing `Close`, a
save of a new key `Add`, of an edit `Edit`, the confirmed delete `Delete`, and
failing or interrupted saves `Damage` or `Close`; everything else changes neither
vault nor open key, the taking and putting back of `with_secret_key_owned`
included.

**The causes of findings.** A run that finds a violation shows one way to it; for
four of the six a theorem says that its cause is the only one. `DetailAlwaysHasOpenKey`: while files can be
read and written, the detail screen has an open key, power loss included (the
cause of `keychain_empty_detail` is a storage error). `DeletedKeysAreGone`: with
proper names and readable files a delete takes the open key itself, whatever was
edited before and whatever saves failed, since an edit then stays in its file,
which is `EditsStayInTheirFile` (`keychain_foreign`). `EncryptsAsFlagged`, in PgpCoreProofs: if the first subkey
of each imported key that could take messages says that it is for them, so does
the one a file is encrypted to, on every key and after any changes of passphrase
(`key_parts_foreign`). `NeverDowngrades` says the same of `keychain_downgrade`.

**SeedStoreProofs.** `ShownRootIsStored` and `FingerprintOpens` are inductive
with `JobOK`: an import is under way only while no root is on show, and nothing
else is armed while it is being verified. So an import never writes under a
heading, and the heading is set only from what was read back. Theorems:
`TypeCorrect`, `ShownRootIsAlwaysStored`, `FingerprintAlwaysOpens`,
`ShownRootIsAlwaysKept`, `AlwaysDerivesFromShownRoot`, and
`UsableRootIsAlwaysOffered`: a start or an import that met no error shows whatever
opens, and between them the file and the heading change together.

**FileJobsProofs.** `OutputDiffers` shows by the lengths of names that no output
has the name of its input, and `OutputIsName` that it has a name at all. With
`JobOK` (the staged target is the file the confirmation names) this gives types, `JobAlwaysUsesNamedFile`,
`OnlyOutputEverChanges` and `KeychainStaysUntouched`. `SuccessAlwaysMeansWhole`
needs that no job runs and the browser is closed while a success message is on
show. `OnlyVerifiedPlaintextStays` rests on the inductive `Clean`: a file is
sound, or the output of the job that is filling it, or recorded in `spoiled`;
every way out of a job ends in a verified, an emptied or a recorded file.

**SelfCertsProofs.** Inductive: the certificate is well formed (`SelfCertsInv`).
That needs what `Kept` returns, a selection from a sequence of any length
(`KeptIs`: the signatures of others, in their order, and no more). `NewestExists`
finds the newest of any set of self-certifications by taking a least element
three times (age, user ID, position), `NewestUnique` says that there is one.
Each edit is then described by what it writes: setting the expiration leaves ONE
self-certification on every user ID, dated by the clock and copied from the
newest one (`SetExpirationSays`); an addition adds one such copy (`AddSays`); a
removal only renumbers the user IDs behind the removed one (`Moved`,
`RemoveSays`). `AgreeIs` and `EffectiveIs` reduce the properties to the set of what
self-certifications say (`Said`). Theorems: `UserIdsStayAgreed`,
`AlwaysAtMostOnePrimary`, `EditsAlwaysKeepEffective`,
`SetExpirationAlwaysTakesEffect`, `ThirdPartySigsAlwaysStay`, and
`AddAlwaysKeepsEffective`, which needs no agreement of the user IDs: after an
addition the newest certification is the old one or the new copy of it, whatever
the clock says.

**Induction.** The library's induction theorems take an operator as a parameter,
which the installed provers cannot instantiate. Here induction speaks of a SET of
naturals: one that has 0 and with every number the next has them all
(`SetInduction`, from `LeastNatural`; `IntervalInduction` and `DownInduction` for
intervals). `StepFunction` says that a function defined by a first value and a
step exists and has its type, `SameSteps` that there is one. With them every
recursive function of the model can be reasoned about for inputs of any length.

**ArmorBlocksProofs.** `ImportTakesEveryBlockOnce`, for files of any number of
lines. `InOrder` lists a set of line numbers in order (`InOrderIsListed`).
`Taken(n)` is what the property takes of the first n lines; it grows line by line
(`TakenStep`). The proof follows the pieces: each runs from a marker to the next
(`PiecesAre`), what the library reads of one is what the property takes of its
lines (`BodyIs`, `BlockIs`, `TakenBlock`), so the concatenation of the pieces read
so far is `Taken` up to where they end (`FlattenIs`, `ParseKeysIs`).

**NumeralsProofs, Scalars.** `ScalarsAreCanonical`. The byte arithmetic is shown to be
arithmetic on the numbers the bytes stand for: comparison (`BeGeIs`), subtraction
of a number that is not larger (`SubIs`), addition of one (`AddIs`, `CarryChain`)
and the shift of a number whose double still fits (`ShiftIs`). The invariant of the long division is `Divided`: the bits
taken so far make a number that is congruent to the remainder modulo the order
less one, and the remainder is smaller than that. So a shift never loses a bit,
one subtraction is enough, and the bytes cut off at the end are zero. For X25519,
`ClampArithmetic` and `LittleIs`.

**NumeralsProofs, SeedWords.** The accumulator of the packing loops is never masked
to the bits it still needs, and it overflows. The invariant `Packing` says why
that is harmless: the number the loop was given is the one the groups taken out
make, followed by the LOWEST `bits` bits of the accumulator (`PushIs`, for a
`Push` of any width the accumulator has room for; `PackedIs` for all of them).
From it: what is encoded is the seed followed by its checksum (`EncodingIs`), no
other words are (`EncodingIsUnique`), what is decoded is the words without their
last bits (`CandidateIs`), and the words of a seed are decoded to it
(`CodeIsFound`). Theorems: `SeedWordsVerdictIsTrue`, `CompactCodesShowTheirSeed`,
and `SeedIsReadBack`: every seed, written as words, is accepted and read back.

**PgpCoreProofs, KeyParts.** Inductive: types, `NeverHalfChanged`, and that all parts
of a key have one lock unless it was imported with several. The conversion either
fails and changes nothing or gives every part the new lock. That a part is
always chosen to sign and a cipher to read is shown by a least counterexample,
for keys of any number of parts. Theorems: `KeyIsNeverHalfChanged`,
`OnePassphraseAlwaysServes` and `EncryptsAsFlagged`; the last one from `MailInv`,
which follows the first cipher through changes of passphrase and re-derivations.

**PgpCoreProofs, DecryptStream.** `CapIsAlwaysExact` from `Conserved`: what is unread,
what is in the buffer and what is released add up to the plaintext, and the
writer's count is what is released. So every sum the writer compares with the
limit stays below 2^64, and the comparison is exact for every limit and every
split; the saturating branch is never taken, and nothing is proved of it.

**PgpCoreProofs, TrngDraw.** The server fills from the front, so that the bytes it
did not write are a stamped tail or a fresh page (`FilledFromFront`, `Stamped`).
`OnlyTailStaysUnfilled`: the check sees either, except in the last
`MinTailCheck - 1` bytes of a draw; of a draw that is shorter than that nothing
is said, and it may be handed out unfilled if the page came back zero.
`HonestDrawIsAlwaysServed`: the words asked for hold the bytes wanted
(`WordsSuffice`, the division rounds up), so a server that fills them all fills
the draw. Both hold for every length of a draw and of a word.

Only model-checked: liveness (`OverlayLifts`), which the prover does not handle; and the findings, each of which is one behaviour that TLC shows.

## 5. Not modelled

The cryptography of rPGP and of the sealing cipher (external; used through what
it accepts), the drawing and wording of the screens, logging, the KeyOS storage
service beyond success, failure and half-done writes, stack and heap limits
(`scripts/check-stack-frames.sh` covers the former), the grammar of the
provenance note (parsing, covered by unit tests), the packets that encryption
and signing write, and the interface definitions of the vendored security API.
`theme.rs` and `build.rs` set colours and compile the screens.

## 6. Plan

What is left, in this order:

1. `App`: Keychain, SeedStore and FileJobs over one storage. The three meet in
   few places (a derived key is saved by the keychain, a file job borrows the
   open key), which each module now has from its own side; the composition would
   show them against each other under one power loss.
2. Two certificates with one 64-bit key ID, which `FileOf` rules out: the second
   import overwrites the file of the first.
3. The grammar of the provenance note: what is written is read back.
4. Proofs: with `App`, that each module's invariants carry over to the
   composition.
