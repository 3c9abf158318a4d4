----------------------------- MODULE SeedStore ------------------------------
(***************************************************************************)
(* The imported seed: the one sealed file AppData/imported_key, the header *)
(* the create screen shows of it, the words typed to import one, and the   *)
(* keys derived from it.                                                   *)
(*                                                                         *)
(* A sealed file has a cleartext header that names the root (root_id, word *)
(* count) and a ciphertext that only opens with the seed of the device it  *)
(* was sealed on and under the very header it was sealed with.  At start   *)
(* the app reads the header alone; an import and a derivation open the     *)
(* ciphertext.                                                             *)
(*                                                                         *)
(* An import writes the file, reads it back, opens it and only then        *)
(* reports success, because a write is not known to have reached the       *)
(* storage.  Power may fail between these steps (variable verifying).      *)
(***************************************************************************)

CONSTANTS
    Seeds,          \* seed phrase and passphrase, named by the root they give
    Invalid,        \* any input derive_root rejects
    Blank,          \* the emptied input fields
    Devices,
    ThisDevice,
    Mixed,          \* a readable header that names no root: two headers mixed
    Garbage,        \* a file peek_meta rejects
    Absent, None,
    InitialFiles,
    Faults          \* subset of {"read", "write", "silent", "crash"}

Inputs == Seeds \cup {Invalid}
Headers == Seeds \cup {Mixed}

(* The ciphertext: the root in it, the header it is bound to (the same     *)
(* root's) and the device whose seed seals it; None is a mixture of two.   *)
Bodies == [root : Seeds, device : Devices] \cup {None}
Blobs == [header : Headers, body : Bodies]
Stored == Blobs \cup {Garbage, Absent}

Headings == [id : Headers, xfp : Seeds \cup {None}]
Jobs == [kind : {"Import"}, input : Inputs \cup {Blank}]
            \cup [kind : {"Derive", "Generate"}, input : {Blank}]
DerivedKeys == [root : Seeds, note : Headers]

ASSUME InputAssumption ==
    /\ ThisDevice \in Devices
    /\ InitialFiles \subseteq Stored
    /\ Faults \subseteq {"read", "write", "silent", "crash"}

ASSUME SentinelAssumption ==
    /\ None \notin Seeds \cup Blobs \cup Headings \cup Jobs
    /\ None \notin {Garbage, Absent, Blank, Invalid, Mixed}
    /\ Mixed \notin Seeds
    /\ {Invalid, Blank} \cap Seeds = {} /\ Invalid # Blank
    /\ {Garbage, Absent} \cap Blobs = {} /\ Garbage # Absent

VARIABLES
    file,       \* AppData/imported_key
    shown,      \* Ui.has-imported-root, root-id, root-xfp; None for no root
    words,      \* Ui.import-mnemonic and import-passphrase
    screen,     \* Ui.screen: the create screen or another
    mode,       \* Ui.create-mode
    job,        \* the work a timer will start under the overlay, or None
    verifying,  \* the root an import has written but not yet read back
    keys,       \* the keys derived: the root used, the root noted in them
    missed      \* the last start or import met a read or write error; this
                \* and keys are recorded for the properties

vars == <<file, shown, words, screen, mode, job, verifying, keys, missed>>

-----------------------------------------------------------------------------
(* store.rs: seal_root, peek_meta, open_root. *)

SealRoot(s) == [header |-> s, body |-> [root |-> s, device |-> ThisDevice]]

PeekMeta(f) == IF f \in Blobs THEN f.header ELSE None

(* The header is the associated data of the ciphertext: it opens under its *)
(* own header only.                                                        *)
HeaderUnbound(b) == TRUE        \* mutant
HeaderBound(b) == b.header = b.body.root

Opens(f) ==
    /\ f \in Blobs
    /\ f.body # None
    /\ f.body.device = ThisDevice
    /\ HeaderBound(f)

-----------------------------------------------------------------------------
(* Storage. *)

Reads == {file} \cup (IF "read" \in Faults THEN {None} ELSE {})

(* What a write of new that stopped half way leaves.  The file is written  *)
(* in place and every sealed file is as long as any other, so over another *)
(* one it leaves the first bytes of the new and the last of the old.       *)
HalfWritten(new) ==
    {file}
    \cup (IF file \in Blobs
          THEN {[header |-> h, body |-> file.body] : h \in {new.header, Mixed}}
          ELSE {Garbage})
    \cup (IF file # Absent THEN {[header |-> new.header, body |-> None]} ELSE {})

(* The heading set at start-up from the cleartext header.                  *)
HeadingHidden(f) == None                                        \* mutant
HeadingUnchecked(f) == [id |-> PeekMeta(f), xfp |-> None]       \* mutant
Heading(f) ==
    IF PeekMeta(f) = None THEN None ELSE [id |-> PeekMeta(f), xfp |-> None]

(* A start whose read fails logs a warning and shows no root.              *)
BootHeading(f, failed) == IF failed THEN None ELSE Heading(f)
ReadFailures == IF "read" \in Faults THEN BOOLEAN ELSE {FALSE}

Init ==
    /\ file \in InitialFiles
    /\ missed \in ReadFailures
    /\ shown = BootHeading(file, missed)
    /\ words = Blank /\ screen = "other" /\ mode = "random"
    /\ job = None /\ verifying = None /\ keys = {}

-----------------------------------------------------------------------------
(* The create screen. *)

Tap == job = None /\ verifying = None

ShowCreate ==
    /\ Tap /\ screen = "other"
    /\ screen' = "create" /\ mode' = "random" /\ words' = Blank
    /\ UNCHANGED <<file, shown, job, verifying, keys, missed>>

CancelCreate ==
    /\ Tap /\ screen = "create"
    /\ screen' = "other" /\ words' = Blank
    /\ UNCHANGED <<file, shown, mode, job, verifying, keys, missed>>

SwitchMode ==
    /\ Tap /\ screen = "create"
    /\ mode' \in {"random", "seed"} \ {mode}
    /\ UNCHANGED <<file, shown, words, screen, job, verifying, keys, missed>>

ImportOfferedAlways == TRUE     \* mutant
ImportOffered == shown = None

OnForm == Tap /\ screen = "create" /\ mode = "seed"

(* Typed, completed from a suggestion, or scanned as a SeedQR.             *)
EnterWords ==
    /\ OnForm /\ ImportOffered
    /\ words' \in Inputs
    /\ UNCHANGED <<file, shown, screen, mode, job, verifying, keys, missed>>

Arm(kind, input) ==
    /\ job' = [kind |-> kind, input |-> input]
    /\ UNCHANGED <<file, shown, words, screen, mode, verifying, keys, missed>>

(* The one button of the form: Import, Derive or Generate.                 *)
PressButton ==
    \/ OnForm /\ ImportOffered /\ Arm("Import", words)
    \/ OnForm /\ shown # None /\ Arm("Derive", Blank)
    \/ Tap /\ screen = "create" /\ mode = "random" /\ Arm("Generate", Blank)

-----------------------------------------------------------------------------
(* Jobs of the timer. *)

Fires(kind) == job # None /\ job.kind = kind /\ job' = None

(* A key was generated and opened on the detail screen, or it was not.     *)
RunGenerate ==
    /\ Fires("Generate")
    /\ screen' \in {"create", "other"}
    /\ UNCHANGED <<file, shown, words, mode, verifying, keys, missed>>

(* The words are rejected, the device is locked, or the write fails.       *)
ImportFails ==
    /\ Fires("Import")
    /\ \/ UNCHANGED <<file, missed>>
       \/ /\ "write" \in Faults /\ job.input \in Seeds /\ missed' = TRUE
          /\ file' \in HalfWritten(SealRoot(job.input)) \cup {SealRoot(job.input)}
    /\ words' = Blank
    /\ UNCHANGED <<shown, screen, mode, verifying, keys>>

(* The write returns; it may not have done what it reports.                *)
ImportWrites ==
    /\ Fires("Import")
    /\ job.input \in Seeds
    /\ verifying' = job.input
    /\ file' \in {SealRoot(job.input)} \cup
           (IF "silent" \in Faults THEN HalfWritten(SealRoot(job.input)) ELSE {})
    /\ UNCHANGED <<shown, words, screen, mode, keys, missed>>

(* The file is read back and opened; the heading shows what was read.      *)
VerifiedUnopened(f) == f \in Blobs /\ f.body # None    \* mutant
Verified(f) == Opens(f)

ImportVerifies ==
    /\ verifying # None
    /\ \E f \in Reads :
           /\ shown' = IF Verified(f)
                       THEN [id |-> PeekMeta(f), xfp |-> f.body.root]
                       ELSE shown
           /\ missed' = (f = None)
    /\ verifying' = None
    /\ words' = Blank
    /\ UNCHANGED <<file, screen, mode, job, keys>>

(* open_imported_root, the derivation and the save of the key.             *)
RunDerive ==
    /\ Fires("Derive")
    /\ \/ UNCHANGED <<shown, screen, keys>>
       \/ /\ Opens(file)
          /\ shown' = [shown EXCEPT !.xfp = file.body.root]
          /\ \/ UNCHANGED <<screen, keys>>
             \/ /\ keys' = keys \cup
                       {[root |-> file.body.root, note |-> PeekMeta(file)]}
                /\ screen' \in {"create", "other"}
    /\ UNCHANGED <<file, words, mode, verifying, missed>>

(* The confirmed Forget.                                                   *)
HeadingKept == shown        \* mutant
HeadingCleared == None

ForgetSeed ==
    /\ OnForm /\ shown # None
    /\ file' = Absent
    /\ shown' = HeadingCleared
    /\ UNCHANGED <<words, screen, mode, job, verifying, keys, missed>>

-----------------------------------------------------------------------------
(* Power loss, inside the write of an import or elsewhere, and a restart.  *)
Crash ==
    /\ "crash" \in Faults
    /\ \/ file' = file
       \/ /\ job # None /\ job.kind = "Import" /\ job.input \in Seeds
          /\ file' \in HalfWritten(SealRoot(job.input))
    /\ missed' \in ReadFailures
    /\ shown' = BootHeading(file', missed')
    /\ words' = Blank /\ screen' = "other" /\ mode' = "random"
    /\ job' = None /\ verifying' = None
    /\ UNCHANGED keys

Next ==
    \/ ShowCreate \/ CancelCreate \/ SwitchMode \/ EnterWords \/ PressButton
    \/ RunGenerate \/ ImportFails \/ ImportWrites \/ ImportVerifies \/ RunDerive
    \/ ForgetSeed \/ Crash

Spec == Init /\ [][Next]_vars

-----------------------------------------------------------------------------
(* Properties. *)

(* The types of the state.                                                 *)
TypeOK ==
    /\ file \in Stored
    /\ shown \in Headings \cup {None}
    /\ words \in Inputs \cup {Blank}
    /\ screen \in {"create", "other"}
    /\ mode \in {"random", "seed"}
    /\ job \in Jobs \cup {None}
    /\ verifying \in Seeds \cup {None}
    /\ keys \in SUBSET DerivedKeys
    /\ missed \in BOOLEAN

(* The root named on the create screen is the one the file names, whatever *)
(* import failed or was cut short before.                                  *)
ShownRootIsStored == shown # None => PeekMeta(file) = shown.id

(* A fingerprint is on show only while the stored root opens on this       *)
(* device, and it is the fingerprint of that root: a successful import is  *)
(* still usable, even if a write lied.                                     *)
FingerprintOpens ==
    shown # None /\ shown.xfp # None =>
        Opens(file) /\ shown.xfp = file.body.root /\ shown.xfp = shown.id

(* While a root is on show its file changes only by the confirmed Forget:  *)
(* no import, failed or not, writes over a root the user was told of.      *)
ShownRootIsKept ==
    [][shown # None /\ file' # file => file' = Absent /\ OnForm]_vars

(* A key is derived from the root on the create screen, and the provenance *)
(* noted in the key is the root it really comes from, whatever mixture of  *)
(* two sealed files a failed write left.                                   *)
DerivesFromShownRoot ==
    [][\A k \in keys' \ keys :
           /\ shown # None /\ k.note = shown.id
           /\ k.root = k.note]_vars

(* A stored root that opens is on show between operations, after power     *)
(* loss and after writes that lied too: the user is not asked to import    *)
(* over one, unless the last start or import met a read or write error.    *)
UsableRootIsOffered ==
    ~missed /\ verifying = None /\ Opens(file) => shown # None

(* Leaving the create screen leaves no words behind in the input fields.   *)
WordsStayOnForm == words # Blank => screen = "create"
=============================================================================
