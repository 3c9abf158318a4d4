------------------------------ MODULE FileJobs ------------------------------
(***************************************************************************)
(* The file browser, and what it is opened for with a key on show: to      *)
(* sign, encrypt or decrypt one of the user's files.  Also the export of   *)
(* the open key.  Each job reads one file and writes another one beside    *)
(* it, IN PLACE: this storage cannot replace a file by a renamed scratch   *)
(* copy, so the output is emptied first and filled as the stream goes.     *)
(*                                                                         *)
(* The keychain lives on the same storage as the user's files, and a job   *)
(* started there would change it behind the open key's back.  The browser  *)
(* does not list its directory.                                            *)
(*                                                                         *)
(* A decryption releases plaintext before the integrity check at the end   *)
(* of the message, so what a failed job wrote must not stay: every failure *)
(* ends with truncating the output, and that may fail too.  A job runs in  *)
(* one go on the only thread; power may be lost inside it.                 *)
(***************************************************************************)
EXTENDS Naturals, Sequences, SequencesExt

CONSTANTS
    Locations,      \* Internal, Airlock and USB
    User,           \* the internal one
    Folders,        \* names of folders
    KeysDir,        \* the folder of User that holds the keychain
    Places,         \* the folders there are, the roots included
    Parts,          \* what a file name is made of: stems and extensions
    MaxParts,       \* BOUND: parts of a name
    PgpExts,        \* the extensions gpg, pgp and asc
    Sig, Gpg, Out,  \* the extensions the app appends
    ExportPaths,    \* where the open key is exported
    Data,           \* file contents
    TooBig,         \* those of Data longer than MAX_DECRYPT_OUTPUT
    Small,          \* what an empty file, a signature or a key counts as
    Keys,           \* keys a message may be encrypted to
    OpenKey,        \* the one held open while the browser is up
    InitialFiles,
    Faults,         \* subset of {"io", "truncate", "crash"}
    None, Empty

(* A user's file or a decrypted one; an OpenPGP message; what a signature  *)
(* or an export wrote.  whole: all of it is there; verified: it came from  *)
(* a message that passed its integrity check, or from the user.            *)
Plains == [type : {"plain"}, data : Data, whole : BOOLEAN, verified : BOOLEAN]
Messages == [type : {"message"}, data : Data, to : Keys,
             intact : BOOLEAN, whole : BOOLEAN]
Others == [type : {"signature", "key"}, whole : BOOLEAN]
Contents == Plains \cup Messages \cup Others \cup {Empty}

Names == UNION {[1 .. n -> Parts] : n \in 1 .. MaxParts}

(* A path and its Location: the folder, and the name in it.                *)
Paths == [at : Places, name : Names]
Root(loc) == [loc |-> loc, dir |-> <<>>]
Parent(place) == [place EXCEPT !.dir = SubSeq(@, 1, Len(@) - 1)]
Child(place, folder) == [place EXCEPT !.dir = Append(@, folder)]

(* What the storage holds: a function on the paths at which a file is.     *)
IsStorage(s) == DOMAIN s \subseteq Paths /\ s \in [DOMAIN s -> Contents]

Kinds == {"SignFile", "Encrypt", "Decrypt"}
(* named: the file the confirmation named, recorded for the properties.    *)
Jobs == [kind : Kinds, target : Paths, named : Paths,
         phase : {"armed", "stream", "cleanup"}]

ASSUME PlacesAssumption ==
    /\ User \in Locations
    /\ Places \subseteq [loc : Locations, dir : Seq(Folders)]
    /\ \A loc \in Locations : Root(loc) \in Places
    /\ \A p \in Places : p.dir # <<>> => Parent(p) \in Places

ASSUME InputAssumption ==
    /\ MaxParts \in Nat /\ PgpExts \cup {Sig, Out} \subseteq Parts
    /\ Gpg \in PgpExts /\ {Sig, Out} \cap PgpExts = {}
    /\ TooBig \subseteq Data /\ Small \in Data \ TooBig /\ OpenKey \in Keys /\ ExportPaths \subseteq Paths
    /\ \A p \in ExportPaths : p.at.dir = <<>>
    /\ \A files \in InitialFiles :
           /\ IsStorage(files)
           /\ \A p \in DOMAIN files :
                  files[p] \in Plains => files[p].whole /\ files[p].verified
    /\ Faults \subseteq {"io", "truncate", "crash"}
    /\ None \notin Paths \cup Kinds \cup Jobs
    /\ Empty \notin Plains \cup Messages \cup Others

VARIABLES
    storage,    \* path -> what the file holds
    at,         \* State.import_location and import_path, the folder listed
    mode,       \* the kind of job the browser is open for, or None
    target,     \* State.browse_target, or None
    modal,      \* the confirmation on show names this file, or None
    job,        \* the job armed or running, or None
    told,       \* the output named by the last success message, or None
    spoiled     \* outputs of a job that lost power or failed to empty them,
                \* and left them unverified: recorded for the properties

vars == <<storage, at, mode, target, modal, job, told, spoiled>>

-----------------------------------------------------------------------------
(* Output names. *)

PlainPathBare(n) == IF Len(n) > 1 /\ Last(n) \in PgpExts THEN Front(n) ELSE n   \* mutant
PlainPathNoStem(n) == IF Last(n) \in PgpExts THEN Front(n) ELSE Append(n, Out)   \* mutant

(* strip_pgp_ext: never the input's own name, and never an empty stem.     *)
PlainPath(n) ==
    IF Len(n) > 1 /\ Last(n) \in PgpExts THEN Front(n) ELSE Append(n, Out)

OutputName(kind, n) ==
    CASE kind = "SignFile" -> Append(n, Sig)
      [] kind = "Encrypt" -> Append(n, Gpg)
      [] kind = "Decrypt" -> PlainPath(n)
Output(kind, p) == [p EXCEPT !.name = OutputName(kind, @)]

Input == storage[job.target]
JobOutput == Output(job.kind, job.target)
Put(p, c) ==
    storage' = [q \in DOMAIN storage \cup {p} |-> IF q = p THEN c ELSE storage[q]]
Write(c) == Put(JobOutput, c)

(* Plaintext that is a part only, or not known to be what was encrypted.   *)
Unverified ==
    {p \in DOMAIN storage :
        storage[p] \in Plains /\ ~(storage[p].whole /\ storage[p].verified)}
LeftAsItIs == UNCHANGED storage /\ spoiled' = spoiled \cup (Unverified \cap {JobOutput})

-----------------------------------------------------------------------------
(* The browser and its confirmations. *)

Init ==
    /\ storage \in InitialFiles
    /\ at = Root(User)
    /\ mode = None /\ target = None /\ modal = None /\ job = None /\ told = None
    /\ spoiled = {}

OpenBrowser ==
    /\ job = None /\ mode = None
    /\ mode' \in Kinds
    /\ at' = Root(User)
    /\ target' = None /\ told' = None
    /\ UNCHANGED <<storage, modal, job, spoiled>>

Browsing == job = None /\ mode # None /\ modal = None

GoTo(place) ==
    /\ at' = place
    /\ UNCHANGED <<storage, mode, target, modal, job, told, spoiled>>

EnteredKeepingFolder(loc) == [at EXCEPT !.loc = loc]     \* mutant
Entered(loc) == Root(loc)

ChangeLocation == Browsing /\ \E loc \in Locations : GoTo(Entered(loc))

(* The app hides its own folder from the listing.                          *)
Listed(folder) == ~(at = Root(User) /\ folder = KeysDir)

OpenFolder ==
    /\ Browsing
    /\ \E folder \in Folders :
           Listed(folder) /\ Child(at, folder) \in Places /\ GoTo(Child(at, folder))

(* The root has no Back row.                                               *)
GoBack == Browsing /\ at.dir # <<>> /\ GoTo(Parent(at))

StagedOnce(p) == IF target = None THEN p ELSE target    \* mutant
Staged(p) == p

(* A tap on a file, whatever it holds, stages it and asks for the          *)
(* passphrase.  BOUND: the length of the output's name.                    *)
TapFile ==
    /\ Browsing
    /\ \E p \in DOMAIN storage :
           /\ p.at = at
           /\ Len(OutputName(mode, p.name)) <= MaxParts
           /\ target' = Staged(p)
           /\ modal' = p
    /\ UNCHANGED <<storage, at, mode, job, told, spoiled>>

CancelModal ==
    /\ modal # None
    /\ modal' = None
    /\ UNCHANGED <<storage, at, mode, target, job, told, spoiled>>

CancelBrowser ==
    /\ Browsing
    /\ mode' = None /\ target' = None
    /\ UNCHANGED <<storage, at, modal, job, told, spoiled>>

(* The confirmation closes, the overlay rises and a timer will start the   *)
(* job on the file staged.                                                 *)
Confirm ==
    /\ modal # None /\ target # None
    /\ job' = [kind |-> mode, target |-> target, named |-> modal, phase |-> "armed"]
    /\ told' = None
    /\ modal' = None
    /\ UNCHANGED <<storage, at, mode, target, spoiled>>

(* A failed job shows its error and leaves the browser up for a retry.     *)
Ends(message) == job' = None /\ told' = message /\ UNCHANGED <<at, modal>>

Succeeds == Ends(JobOutput) /\ mode' = None /\ UNCHANGED target
Fails == Ends(None) /\ UNCHANGED <<mode, target>>

-----------------------------------------------------------------------------
(* The sign job: the signature is made before its file is touched, and a   *)
(* write that fails is not cleaned up.                                     *)

Signature(whole) == [type |-> "signature", whole |-> whole]

RunSign ==
    /\ job # None /\ job.kind = "SignFile" /\ UNCHANGED spoiled
    /\ \/ Succeeds /\ Write(Signature(TRUE))
       \/ Fails /\ UNCHANGED storage
       \/ "io" \in Faults /\ Fails /\ Write(Signature(FALSE))

-----------------------------------------------------------------------------
(* Encrypt and decrypt jobs. *)

At(phase) == job # None /\ job.kind # "SignFile" /\ job.phase = phase
Goto(phase) ==
    /\ job' = [job EXCEPT !.phase = phase]
    /\ UNCHANGED <<at, mode, target, modal, told>>

Emptied == Write(Empty) /\ spoiled' = spoiled \ {JobOutput}

(* Open the input, then open and empty the output; one of them may fail.   *)
OpenFiles ==
    /\ At("armed")
    /\ \/ Goto("stream") /\ Emptied
       \/ Goto("cleanup") /\ UNCHANGED <<storage, spoiled>>

VerifiedNever(m) == m.whole     \* mutant
VerifiedBy(m) == m.intact /\ m.whole

(* What the stream turns the input into, of which part or all is written.  *)
(* A message tells its plaintext only by Data, whatever was encrypted.     *)
Plaintext(c) == IF c \in Plains \cup Messages THEN c.data ELSE Small
Encrypted(whole) ==
    [type |-> "message", data |-> Plaintext(Input), to |-> OpenKey,
     intact |-> TRUE, whole |-> whole]
Decrypted(whole) ==
    [type |-> "plain", data |-> Input.data, whole |-> whole,
     verified |-> whole /\ Input.intact /\ Input.whole]

(* A wrong passphrase, or a message for another key or no message at all,  *)
(* ends a decryption before anything is written.                           *)
Readable == job.kind = "Encrypt" \/ (Input \in Messages /\ Input.to = OpenKey)
Result(whole) == IF job.kind = "Encrypt" THEN Encrypted(whole) ELSE Decrypted(whole)

(* Some of the output has reached the file, not all of it.                 *)
Stream ==
    /\ At("stream") /\ Readable
    /\ Write(Result(FALSE))
    /\ UNCHANGED <<at, mode, target, modal, job, told, spoiled>>

(* Anything up to the last flush may go wrong.                             *)
Breaks == At("stream") /\ Goto("cleanup") /\ UNCHANGED <<storage, spoiled>>

(* The end of the stream: the integrity check of a decryption, the cap on  *)
(* its size, and the flush of the last buffer.                             *)
Finish ==
    /\ At("stream") /\ Readable
    /\ job.kind = "Decrypt" => VerifiedBy(Input) /\ Input.data \notin TooBig
    /\ Write(Result(TRUE)) /\ UNCHANGED spoiled
    /\ Succeeds

CleanedUpNever == UNCHANGED <<storage, spoiled>>    \* mutant
CleanedUp ==
    \/ Emptied
    \/ "truncate" \in Faults /\ LeftAsItIs

(* truncate_output; its own error is ignored.                              *)
TruncateOutput == At("cleanup") /\ CleanedUp /\ Fails

-----------------------------------------------------------------------------
(* Export of the open key: overwritten in place, no cleanup.               *)

ExportedKey(p, whole) == Put(p, [type |-> "key", whole |-> whole])

ExportKey ==
    /\ job = None /\ mode = None
    /\ \/ \E p \in ExportPaths : ExportedKey(p, TRUE) /\ told' = p
       \/ /\ "io" \in Faults /\ told' = None
          /\ UNCHANGED storage \/ \E p \in ExportPaths : ExportedKey(p, FALSE)
    /\ UNCHANGED <<at, mode, target, modal, job, spoiled>>

(* Power is lost; what has reached the storage stays, a half-written       *)
(* signature or export included.                                           *)
Crash ==
    /\ "crash" \in Faults
    /\ \/ job # None /\ LeftAsItIs
       \/ job # None /\ job.kind = "SignFile" /\ Write(Signature(FALSE)) /\ UNCHANGED spoiled
       \/ job = None /\ UNCHANGED <<storage, spoiled>>
       \/ /\ job = None /\ mode = None
          /\ \E p \in ExportPaths : ExportedKey(p, FALSE)
          /\ UNCHANGED spoiled
    /\ at' = Root(User)
    /\ mode' = None /\ target' = None /\ modal' = None /\ job' = None
    /\ told' = None

Next ==
    \/ OpenBrowser \/ ChangeLocation \/ OpenFolder \/ GoBack \/ TapFile \/ CancelModal \/ CancelBrowser \/ Confirm
    \/ RunSign \/ OpenFiles \/ Stream \/ Breaks \/ Finish \/ TruncateOutput
    \/ ExportKey \/ Crash

Spec == Init /\ [][Next]_vars

-----------------------------------------------------------------------------
(* Properties. *)

(* The types of the state; no job is ever given a file without a name.     *)
TypeOK ==
    /\ IsStorage(storage)
    /\ at \in Places
    /\ mode \in Kinds \cup {None}
    /\ target \in Paths \cup {None}
    /\ modal \in Paths \cup {None}
    /\ job \in Jobs \cup {None}
    /\ told \in Paths \cup {None}
    /\ spoiled \subseteq Paths

(* A file named in a success message is all there, and if it is a          *)
(* decryption, it passed the integrity check and the size limit.           *)
SuccessMeansWhole ==
    told # None =>
        /\ told \in DOMAIN storage /\ storage[told] # Empty
        /\ storage[told].whole
        /\ storage[told] \in Plains =>
               storage[told].verified /\ storage[told].data \notin TooBig

(* The files that a step creates, removes or writes.                       *)
Changed ==
    {p \in DOMAIN storage' : p \in DOMAIN storage => storage'[p] # storage[p]}
        \cup (DOMAIN storage \ DOMAIN storage')

(* No job changes any file but its own output, and its output is never its *)
(* own input, whatever the input is called.                                *)
OnlyOutputChanges ==
    [][job # None => Changed \subseteq {JobOutput} \ {job.target}]_vars

(* Nothing but the keychain itself changes what the keychain's folder      *)
(* holds: no way through folders and locations leads the browser there, so *)
(* no file job reads or writes it.                                         *)
InKeychain(place) ==
    place.loc = User /\ place.dir # <<>> /\ place.dir[1] = KeysDir
KeychainUntouched ==
    [][/\ \A p \in Changed : ~InKeychain(p.at)
       /\ target' # None => ~InKeychain(target'.at)]_vars

(* The file a job works on is the one the confirmation named, also after   *)
(* confirmations were cancelled and the browser was left and reopened.     *)
JobUsesNamedFile == job # None => job.target = job.named

(* Between jobs no file holds plaintext that did not pass its integrity    *)
(* check: a failed decryption leaves nothing to be mistaken for a good one.*)
(* Only the output of a job that lost power, or failed to empty it, may.   *)
OnlyVerifiedPlaintext ==
    job = None => Unverified \subseteq spoiled
=============================================================================
