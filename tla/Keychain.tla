------------------------------ MODULE Keychain ------------------------------
(***************************************************************************)
(* The keychain of the app: the certificates stored in /pgp-keys, the key  *)
(* list and the detail screen that show them, the one certificate held     *)
(* open in memory, and every callback of src/main.rs that reads or writes  *)
(* one of them.                                                            *)
(*                                                                         *)
(* The app has one thread.  A callback runs to completion, except that     *)
(*   - it may fail, or the device may lose power, inside any file write;   *)
(*   - a slow operation shows the busy overlay and does its work in a job  *)
(*     that a 150 ms timer starts later.                                   *)
(* So a callback that writes is cut at each write (variable handler), and  *)
(* between the pieces only a crash can happen; a slow one is cut at the    *)
(* timer (variable job), and between the pieces only the overlay keeps     *)
(* other taps away.                                                        *)
(***************************************************************************)
EXTENDS Naturals, Sequences

CONSTANTS
    Keys,           \* certificates, named by fingerprint
    DerivedKeys,    \* those of Keys that "From seed" re-creates
    Files,          \* names of *.asc files in /pgp-keys
    FileOf,         \* the name <KEYID>.asc save_key gives to each key
    Passes,         \* OpenPGP passphrases
    NoPass,         \* the empty one, which leaves a key unprotected
    MaxRev,         \* BOUND: edits of one certificate
    ImportFiles,    \* what parse_keys returns for the files a user imports
    InitialDisks,   \* contents of /pgp-keys when the app first starts
    Faults,         \* subset of {"read", "write", "crash"}
    None, Absent, Torn

(***************************************************************************)
(* A stored certificate.  rev counts the edits of what the detail screen   *)
(* shows (user IDs, expiration); pass locks the secret material.           *)
(***************************************************************************)
Copies == [id : Keys, secret : BOOLEAN, rev : 0 .. MaxRev, pass : Passes]
Contents == Copies \cup {Absent, Torn}

(* What the screens show of a certificate: everything but the passphrase.  *)
View(c) == [id |-> c.id, secret |-> c.secret, rev |-> c.rev]
Views == [id : Keys, secret : BOOLEAN, rev : 0 .. MaxRev]
Rows == [file : Files, view : Views]

ASSUME FileOfAssumption ==
    /\ FileOf \in [Keys -> Files]
    /\ \A j, k \in Keys : FileOf[j] = FileOf[k] => j = k

ASSUME InputAssumption ==
    /\ DerivedKeys \subseteq Keys
    /\ MaxRev \in Nat /\ NoPass \in Passes
    /\ ImportFiles \subseteq Seq(Copies) \ {<<>>}
    /\ InitialDisks \subseteq [Files -> Contents]
    /\ Faults \subseteq {"read", "write", "crash"}

Screens == {"list", "detail", "browser", "create"}
Modes == {"Import", "SignFile", "Encrypt", "Decrypt", "Checksum"}
KeyModes == {"SignFile", "Encrypt", "Decrypt"}
ReturnScreen(m) == IF m \in KeyModes THEN "detail" ELSE "list"

(* A certificate held open; the work of a timer, with the certificate that *)
(* was open when the user asked for it (recorded for the properties only); *)
(* and a callback inside its writes: the certificates it writes, the next  *)
(* one, and the file open_key will show at the end.                        *)
Opened == [file : Files, key : Copies]
Jobs == [kind : KeyModes \cup {"Create", "Checksum", "SignQr"},
         pass : Passes,
         shown : Opened \cup {None}]
Handlers == [op : {"Import", "Create", "Edit", "Repass"},
             keys : Seq(Copies) \ {<<>>},
             at : Nat \ {0},
             first : Files \cup {None}]

ASSUME SentinelAssumption ==
    /\ Absent # Torn
    /\ {Absent, Torn} \cap Copies = {}
    /\ None \notin Copies /\ None \notin Files /\ None \notin Keys
    /\ None \notin Rows /\ None \notin Opened
    /\ None \notin Jobs /\ None \notin Handlers

VARIABLES
    disk,       \* /pgp-keys: file name -> what reading it would find
    current,    \* State.current, the certificate held open, or None
    detail,     \* the Detail global: file name and fields on show, or None
    list,       \* the rows of the KeyList global
    screen,     \* Ui.screen
    mode,       \* State.browse_mode
    busy,       \* Ui.busy, the overlay that swallows every tap
    job,        \* the work a single-shot timer will start, or None
    handler     \* the callback that is inside its key writes, or None

vars == <<disk, current, detail, list, screen, mode, busy, job, handler>>

-----------------------------------------------------------------------------
(* Reading /pgp-keys. *)

(* load_key(f): the certificate, or None for an error.                     *)
LoadResults(f) ==
    (IF disk[f] \in Copies THEN {disk[f]} ELSE {None})
        \cup (IF "read" \in Faults THEN {None} ELSE {})

StoredRows(d) ==
    {[file |-> f, view |-> View(d[f])] : f \in {g \in Files : d[g] \in Copies}}

(* refresh_keys: every file that loads; one that does not is skipped.      *)
Listings(d) ==
    IF "read" \in Faults THEN SUBSET StoredRows(d) ELSE {StoredRows(d)}

(* A tap on screen s reaches a callback.                                   *)
TapThroughOverlay(s) == handler = None /\ screen = s    \* mutant
Tap(s) == ~busy /\ handler = None /\ screen = s

(* open_key(f), the tail of a list tap, of an import and of a creation.    *)
OpenKey(f) ==
    \E c \in LoadResults(f) :
        IF c = None
        THEN UNCHANGED <<current, detail, screen>>
        ELSE /\ current' = [file |-> f, key |-> c]
             /\ detail' = [file |-> f, view |-> View(c)]
             /\ screen' = "detail"

-----------------------------------------------------------------------------
(* Navigation. *)

Init ==
    /\ disk \in InitialDisks
    /\ list \in Listings(disk)
    /\ current = None /\ detail = None /\ job = None /\ handler = None
    /\ screen = "list" /\ mode = "Import" /\ busy = FALSE

TapRow ==
    /\ Tap("list")
    /\ \E r \in list : OpenKey(r.file)
    /\ UNCHANGED <<disk, list, mode, busy, job, handler>>

ClosedWithoutTaking == current      \* mutant
Closed == None

CloseDetail ==
    /\ Tap("detail")
    /\ current' = Closed
    /\ screen' = "list"
    /\ list' \in Listings(disk)
    /\ UNCHANGED <<disk, detail, mode, busy, job, handler>>

OpenBrowser(m) ==
    /\ Tap(ReturnScreen(m))
    /\ m \in {"SignFile", "Decrypt"} => detail.view.secret
    /\ mode' = m
    /\ screen' = "browser"
    /\ UNCHANGED <<disk, current, detail, list, busy, job, handler>>

(* Going back to the list scans /pgp-keys again, going back to the detail  *)
(* screen does not.                                                        *)
RefreshedNever(s) == {list}     \* mutant
Refreshed(s) == IF s = "list" THEN Listings(disk) ELSE {list}

CancelImport ==
    /\ Tap("browser")
    /\ mode' = "Import"
    /\ screen' = ReturnScreen(mode)
    /\ list' \in Refreshed(screen')
    /\ UNCHANGED <<disk, current, detail, busy, job, handler>>

ShowCreate ==
    /\ Tap("list")
    /\ screen' = "create"
    /\ UNCHANGED <<disk, current, detail, list, mode, busy, job, handler>>

CancelCreate ==
    /\ Tap("create")
    /\ screen' = "list"
    /\ list' \in Listings(disk)
    /\ UNCHANGED <<disk, current, detail, mode, busy, job, handler>>

-----------------------------------------------------------------------------
(* Writing /pgp-keys.  save_key opens <KEYID>.asc with CREATE and writes   *)
(* over it from offset 0, so an interrupted one leaves the old file, a     *)
(* mixture no parser accepts, or the whole new text.                       *)

Begin(op, keys) == [op |-> op, keys |-> keys, at |-> 1, first |-> None]

Writing == handler # None /\ handler.at <= Len(handler.keys)
InHand == handler.keys[handler.at]
Target == FileOf[InHand.id]

(* Never downgrade: a public copy is not written over a stored secret one. *)
ReachesSaveAlways == TRUE       \* mutant
ReachesSave ==
    \/ InHand.secret
    \/ \E c \in LoadResults(Target) : IF c = None THEN TRUE ELSE ~c.secret

InterruptedSaves ==
    {disk} \cup {[disk EXCEPT ![Target] = x] : x \in {Torn, InHand}}

Advance ==
    handler' = [handler EXCEPT !.at = @ + 1,
                               !.first = IF @ = None THEN Target ELSE @]

(* One more certificate of an import, or the one just generated.           *)
SaveNewKey ==
    /\ Writing /\ handler.op \in {"Import", "Create"} /\ ReachesSave
    /\ disk' = [disk EXCEPT ![Target] = InHand]
    /\ Advance
    /\ UNCHANGED <<current, detail, list, screen, mode, busy, job>>

KeepStoredSecret ==
    /\ Writing /\ handler.op = "Import" /\ ~InHand.secret
    /\ \E c \in LoadResults(Target) : IF c = None THEN FALSE ELSE c.secret
    /\ Advance
    /\ UNCHANGED <<disk, current, detail, list, screen, mode, busy, job>>

(* The end of an import or a creation: refresh_keys, then open_key.        *)
ShowNewKey ==
    /\ handler # None /\ handler.at > Len(handler.keys)
    /\ list' \in Listings(disk)
    /\ OpenKey(handler.first)
    /\ busy' = FALSE
    /\ handler' = None
    /\ UNCHANGED <<disk, mode, job>>

(* persist_current: save, then put the certificate back into the state.    *)
(* Only change_passphrase does not redraw the detail screen.               *)
RedrawnByNone == {}     \* mutant
RedrawnBy == {"Edit"}

PersistCurrent ==
    /\ Writing /\ handler.op \in {"Edit", "Repass"}
    /\ disk' = [disk EXCEPT ![Target] = InHand]
    /\ current' = [file |-> Target, key |-> InHand]
    /\ detail' = IF handler.op \in RedrawnBy
                 THEN [file |-> Target, view |-> View(InHand)]
                 ELSE detail
    /\ handler' = None
    /\ UNCHANGED <<list, screen, mode, busy, job>>

(* A save that failed: the error is shown, the overlay of a creation comes *)
(* down, and nothing is done about the file or the state.                  *)
FailRestoring ==        \* mutant
    /\ disk' \in InterruptedSaves /\ busy' = FALSE
    /\ current' = [file |-> Target, key |-> InHand]
FailUnderOverlay ==     \* mutant
    disk' \in InterruptedSaves /\ UNCHANGED <<busy, current>>
FailCleaningUp ==       \* mutant
    /\ disk' = [disk EXCEPT ![Target] = Absent]
    /\ busy' = FALSE /\ current' = current
Fail == disk' \in InterruptedSaves /\ busy' = FALSE /\ current' = current

SaveFails ==
    /\ "write" \in Faults
    /\ Writing /\ ReachesSave
    /\ Fail
    /\ handler' = None
    /\ UNCHANGED <<detail, list, screen, mode, job>>

-----------------------------------------------------------------------------
(* The callbacks that write. *)

ImportEntry ==
    /\ Tap("browser") /\ mode = "Import"
    /\ \E keys \in ImportFiles : handler' = Begin("Import", keys)
    /\ UNCHANGED <<disk, current, detail, list, screen, mode, busy, job>>

(* with_secret_key_owned takes the certificate out of the state for the    *)
(* operation.  When the operation refuses (a wrong passphrase, a bad       *)
(* date), it is put back by reading its file again.                        *)
CanEdit ==
    Tap("detail") /\ detail.view.secret /\ current # None /\ current.key.secret

TakeFor(op, new) == handler' = Begin(op, <<new>>) /\ current' = None

RestoredUnchecked(c) == [file |-> current.file, key |-> c]  \* mutant
RestoredNever(c) == None                                    \* mutant
Restored(c) == IF c = None THEN None ELSE [file |-> current.file, key |-> c]

RestoreCurrent ==
    /\ \E c \in LoadResults(current.file) : current' = Restored(c)
    /\ handler' = None

(* An unprotected key opens whatever was typed.                            *)
Unlocks(entered) == current.key.pass \in {entered, NoPass}

(* extend_expiry, add_uid and remove_uid.                                  *)
EditKey(entered) ==
    /\ CanEdit
    /\ \/ /\ Unlocks(entered) /\ current.key.rev < MaxRev
          /\ TakeFor("Edit", [current.key EXCEPT !.rev = @ + 1])
       \/ RestoreCurrent
    /\ UNCHANGED <<disk, detail, list, screen, mode, busy, job>>

ChangePassphrase(old, new) ==
    /\ CanEdit
    /\ \/ /\ Unlocks(old)
          /\ TakeFor("Repass", [current.key EXCEPT !.pass = new])
       \/ RestoreCurrent
    /\ UNCHANGED <<disk, detail, list, screen, mode, busy, job>>

(* The confirmation names Detail.title and passes Detail.filename.         *)
DeleteKey ==
    /\ Tap("detail")
    /\ disk[detail.file] # Absent
    /\ disk' = [disk EXCEPT ![detail.file] = Absent]
    /\ current' = None
    /\ screen' = "list"
    /\ list' \in Listings(disk')
    /\ UNCHANGED <<detail, mode, busy, job, handler>>

-----------------------------------------------------------------------------
(* Slow operations: the callback raises the overlay and arms a timer; the  *)
(* job the timer runs lowers it.                                           *)

Arm(kind, pass) ==
    /\ busy' = TRUE
    /\ job' = [kind |-> kind, pass |-> pass, shown |-> current]
    /\ UNCHANGED <<disk, current, detail, list, screen, mode, handler>>

(* create_key and create_derived_key, at the Generate button.              *)
RequestCreate(pass) == Tap("create") /\ Arm("Create", pass)

(* The confirmed passphrase modal of sign, encrypt or decrypt; a checksum  *)
(* starts at the tap on the file.                                          *)
RequestFileJob(pass) ==
    Tap("browser") /\ mode # "Import" /\ Arm(mode, pass)

RequestSignQr(pass) ==
    /\ Tap("detail") /\ detail.view.secret
    /\ current # None /\ current.key.secret
    /\ Arm("SignQr", pass)

Fires(kinds) ==
    handler = None /\ job # None /\ job.kind \in kinds /\ job' = None

(* Key generation: a random certificate is new, a derived one may already  *)
(* be stored, edited or locked with another passphrase.                    *)
Generated ==
    DerivedKeys \cup
    {k \in Keys : /\ disk[FileOf[k]] = Absent
                  /\ \A f \in Files : disk[f] \in Copies => disk[f].id # k}

CreateFailsUnderOverlay == handler' = None /\ busy' = busy      \* mutant
CreateFails == handler' = None /\ busy' = FALSE

RunCreate ==
    /\ Fires({"Create"})
    /\ \/ /\ \E k \in Generated :
                 handler' = Begin("Create",
                     <<[id |-> k, secret |-> TRUE, rev |-> 0, pass |-> job.pass]>>)
          /\ busy' = busy
       \/ CreateFails
    /\ UNCHANGED <<disk, current, detail, list, screen, mode>>

(* What the operation needs of the certificate held open: with_secret_key  *)
(* and the passphrase for sign and decrypt, any certificate for encrypt.   *)
KeyServes(kind, pass) ==
    /\ current # None
    /\ kind # "Encrypt" => current.key.secret /\ Unlocks(pass)

RunFileJob ==
    /\ Fires(KeyModes)
    /\ busy' = FALSE
    /\ \/ /\ KeyServes(job.kind, job.pass)
          /\ mode' = "Import" /\ screen' = "detail"
       \/ UNCHANGED <<mode, screen>>
    /\ UNCHANGED <<disk, current, detail, list, handler>>

RunChecksum ==
    /\ Fires({"Checksum"})
    /\ busy' = FALSE
    /\ \/ mode' = "Import" /\ screen' = "list"
       \/ UNCHANGED <<mode, screen>>
    /\ UNCHANGED <<disk, current, detail, list, handler>>

RunSignQr ==
    /\ Fires({"SignQr"})
    /\ busy' = FALSE
    /\ UNCHANGED <<disk, current, detail, list, screen, mode, handler>>

-----------------------------------------------------------------------------
(* The app is killed or the device loses power, then the app starts again. *)
Crash ==
    /\ "crash" \in Faults
    /\ disk' \in IF Writing /\ ReachesSave THEN InterruptedSaves ELSE {disk}
    /\ list' \in Listings(disk')
    /\ current' = None /\ detail' = None /\ job' = None /\ handler' = None
    /\ screen' = "list" /\ mode' = "Import" /\ busy' = FALSE

User ==
    \/ TapRow \/ CloseDetail \/ CancelImport \/ ShowCreate \/ CancelCreate
    \/ ImportEntry \/ DeleteKey
    \/ \E m \in Modes : OpenBrowser(m)
    \/ \E p \in Passes : \/ EditKey(p) \/ RequestCreate(p)
                         \/ RequestFileJob(p) \/ RequestSignQr(p)
    \/ \E p, q \in Passes : ChangePassphrase(p, q)

(* The running callback, and the timer of the event loop.                  *)
Running ==
    SaveNewKey \/ KeepStoredSecret \/ ShowNewKey \/ PersistCurrent \/ SaveFails
Timer == RunCreate \/ RunFileJob \/ RunChecksum \/ RunSignQr

Next == User \/ Running \/ Timer \/ Crash

Spec == Init /\ [][Next]_vars

(* The event loop keeps running; nothing is asked of the user.             *)
FairSpec == Spec /\ WF_vars(Running) /\ WF_vars(Timer)

-----------------------------------------------------------------------------
(* Properties. *)

(* The types of the state.                                                 *)
TypeOK ==
    /\ disk \in [Files -> Contents]
    /\ current \in Opened \cup {None}
    /\ detail \in Rows \cup {None}
    /\ list \in SUBSET Rows
    /\ screen \in Screens
    /\ mode \in Modes
    /\ busy \in BOOLEAN
    /\ job \in Jobs \cup {None}
    /\ handler \in Handlers \cup {None}

(* The certificate an edit starts from, a signature uses and an export     *)
(* writes is the one its file holds: whatever failed or crashed before, an *)
(* edit never overwrites a newer version with one made from an older.      *)
OpenKeyIsStored == current # None => disk[current.file] = current.key

(* The identity, the expiration and the secret flag on the detail screen   *)
(* are those of the certificate that the buttons below them act on.        *)
DetailShowsOpenKey ==
    current # None => detail # None /\ detail.view = View(current.key)

(* A detail screen is backed by an open certificate: its buttons do not    *)
(* answer "No key open".                                                   *)
DetailHasOpenKey == screen = "detail" /\ handler = None => current # None

(* Only a save that failed takes the certificate away from under the       *)
(* detail screen; a refused edit, a wrong passphrase or a job does not.    *)
DetailKeepsOpenKey ==
    [][(current # None \/ handler # None)
           /\ screen' = "detail" /\ handler' = None /\ current' = None
           /\ "read" \notin Faults
       => SaveFails]_vars

(* No certificate stays open beneath the list, the create form, the import *)
(* browser or a checksum, so an import or a creation can never change the  *)
(* file of a certificate that is held in memory.                           *)
OpenKeyHasScreen ==
    current # None =>
        \/ screen = "detail"
        \/ screen = "browser" /\ mode \in KeyModes

(* The home list shows exactly the certificates that are stored, also      *)
(* after an import that stopped half way, a failed save or a restart.      *)
ListIsFresh ==
    "read" \notin Faults /\ screen = "list" => list = StoredRows(disk)

(* The overlay is up exactly while work is scheduled or a creation is      *)
(* writing: no early return leaves it up with nothing left to lower it.    *)
OverlayCoversWork ==
    busy <=> (job # None \/ (handler # None /\ handler.op = "Create"))

(* The certificate a timer's job finds open is the one that was open when  *)
(* the user confirmed the operation.                                       *)
JobUsesShownKey == job # None => job.shown = current

(* Half way through a multi-key import every certificate already passed is *)
(* stored, with its secret part if the imported copy had one, whatever the *)
(* order of the public and secret copies in the file.                      *)
ImportedSoFar ==
    "read" \notin Faults /\ handler # None /\ handler.op = "Import" =>
        \A i \in 1 .. handler.at - 1 :
            LET c == handler.keys[i]
                stored == disk[FileOf[c.id]]
            IN  /\ stored \in Copies
                /\ stored.id = c.id
                /\ c.secret => stored.secret

(* No step replaces stored secret material by a public copy.               *)
NeverDowngrade ==
    [][\A f \in Files :
        disk[f] \in Copies /\ disk'[f] \in Copies /\ disk[f].secret
            => disk'[f].secret]_vars

(* A file goes away only by the confirmed delete of the certificate whose  *)
(* name the confirmation showed, the same one that is held open.           *)
DeletesOnlyShownKey ==
    [][\A f \in Files :
        disk[f] # Absent /\ disk'[f] = Absent
            => /\ screen = "detail" /\ detail.file = f
               /\ disk[f] \in Copies => disk[f].id = detail.view.id
               /\ current # None => current.key.id = detail.view.id]_vars

(* The confirmed delete removes the file of the certificate held open, of  *)
(* which the dialog says that it will be gone, also after edits.           *)
DeletedKeyIsGone ==
    [][DeleteKey /\ current # None => disk'[current.file] = Absent]_vars

(* An edit writes over the file its certificate was opened from; it does   *)
(* not leave that file behind and start another one.                       *)
EditsExistingFile ==
    [][handler # None /\ handler.op \in {"Edit", "Repass"}
        => \A f \in Files : disk[f] = Absent => disk'[f] = Absent]_vars

(* The overlay always comes down again, if only the event loop keeps       *)
(* running.                                                                *)
OverlayLifts == busy ~> ~busy
=============================================================================
