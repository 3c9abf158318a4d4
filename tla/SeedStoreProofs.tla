-------------------------- MODULE SeedStoreProofs ---------------------------
(***************************************************************************)
(* What the runs of SeedStore check on two seeds and two devices, proved   *)
(* for every set of seeds, devices, initial files and faults.              *)
(*                                                                         *)
(* The three invariants are inductive only together with what the create   *)
(* form guarantees at the moment its button is pressed: an import is under *)
(* way only while no root is on show, a derivation only while one is, and  *)
(* nothing else is scheduled while an import is being verified.            *)
(***************************************************************************)
EXTENDS SeedStore, TLAPS

JobOK ==
    /\ job # None /\ job.kind = "Import" => shown = None
    /\ job # None /\ job.kind = "Derive" => shown # None
    /\ verifying # None => shown = None /\ job = None

IInv == TypeOK /\ ShownRootIsStored /\ FingerprintOpens /\ JobOK

-----------------------------------------------------------------------------
(* Lemmas about the operators. *)

LEMMA SealRootType == \A s \in Seeds : SealRoot(s) \in Blobs
BY InputAssumption DEF SealRoot, Blobs, Bodies, Headers

(* Only a sealed file has a readable header, and it is the header's root.  *)
LEMMA PeekMetaFacts ==
    ASSUME NEW f \in Stored
    PROVE  /\ PeekMeta(f) # None => f \in Blobs
           /\ f \in Blobs => PeekMeta(f) = f.header /\ f.header \in Headers
           /\ PeekMeta(f) \in Headers \cup {None}
           /\ None \notin Headers
BY SentinelAssumption DEF PeekMeta, Blobs, Headers

(* What opens names the root that is in it.                                *)
LEMMA OpensFacts ==
    ASSUME NEW f \in Stored, Opens(f)
    PROVE  /\ f \in Blobs
           /\ f.body.root \in Seeds
           /\ PeekMeta(f) = f.body.root
<1>1. f \in Blobs /\ f.body # None /\ f.header = f.body.root
  BY DEF Opens, HeaderBound
<1>2. f.body \in [root : Seeds, device : Devices]
  BY <1>1 DEF Blobs, Bodies
<1> QED BY <1>1, <1>2, PeekMetaFacts

LEMMA HeadingFacts ==
    ASSUME NEW f \in Stored
    PROVE  /\ Heading(f) \in Headings \cup {None}
           /\ Heading(f) # None =>
                  PeekMeta(f) = Heading(f).id /\ Heading(f).xfp = None
BY PeekMetaFacts DEF Heading, Headings

(* An interrupted import leaves some file the rest of the app can name.    *)
LEMMA HalfWrittenType ==
    ASSUME TypeOK, NEW s \in Seeds
    PROVE  HalfWritten(SealRoot(s)) \subseteq Stored
<1>1. SealRoot(s) \in Blobs /\ SealRoot(s).header \in Headers
  BY SealRootType DEF Blobs
<1>2. file \in Blobs => \A h \in Headers : [header |-> h, body |-> file.body] \in Blobs
  BY DEF Blobs
<1>3. \A h \in Headers : [header |-> h, body |-> None] \in Blobs
  BY DEF Blobs, Bodies
<1> QED BY <1>1, <1>2, <1>3 DEF HalfWritten, TypeOK, Stored, Headers

(* A start of the app shows the header of the file, or nothing.            *)
LEMMA BootIsSound ==
    ASSUME NEW f \in Stored, NEW failed \in ReadFailures
    PROVE  /\ BootHeading(f, failed) \in Headings \cup {None}
           /\ BootHeading(f, failed) # None =>
                  /\ PeekMeta(f) = BootHeading(f, failed).id
                  /\ BootHeading(f, failed).xfp = None
           /\ failed \in BOOLEAN
           /\ ~failed /\ Opens(f) => BootHeading(f, failed) # None
<1>1. failed \in BOOLEAN
  BY DEF ReadFailures
<1>2. Opens(f) => Heading(f) # None
  BY PeekMetaFacts, SentinelAssumption DEF Opens, Heading, Headings
<1> QED BY <1>1, <1>2, HeadingFacts DEF BootHeading

-----------------------------------------------------------------------------
LEMMA InitIInv == Init => IInv
<1> SUFFICES ASSUME Init PROVE IInv
  OBVIOUS
<1>1. file \in Stored /\ missed \in ReadFailures /\ shown = BootHeading(file, missed)
  BY InputAssumption DEF Init
<1>2. TypeOK
  BY <1>1, BootIsSound DEF Init, TypeOK
<1>3. ShownRootIsStored /\ FingerprintOpens
  BY <1>1, BootIsSound DEF ShownRootIsStored, FingerprintOpens
<1>4. JobOK
  BY DEF Init, JobOK
<1> QED BY <1>2, <1>3, <1>4 DEF IInv

(* A step that leaves the file and its heading alone keeps what relates    *)
(* them.                                                                   *)
LEMMA SameFileSameHeading ==
    ASSUME IInv, UNCHANGED <<file, shown>>
    PROVE  ShownRootIsStored' /\ FingerprintOpens'
BY DEF IInv, ShownRootIsStored, FingerprintOpens, Opens, PeekMeta

LEMMA NoHeading ==
    ASSUME shown' = None
    PROVE  ShownRootIsStored' /\ FingerprintOpens'
BY DEF ShownRootIsStored, FingerprintOpens

LEMMA NextIInv == IInv /\ [Next]_vars => IInv'
<1> SUFFICES ASSUME IInv, [Next]_vars PROVE IInv'
  OBVIOUS
<1> USE SentinelAssumption
<1>t. TypeOK /\ ShownRootIsStored /\ FingerprintOpens /\ JobOK
  BY DEF IInv
<1>1. CASE ShowCreate \/ CancelCreate \/ SwitchMode
  <2>1. TypeOK'
    BY <1>t, <1>1 DEF TypeOK, ShowCreate, CancelCreate, SwitchMode
  <2>2. JobOK'
    BY <1>t, <1>1 DEF JobOK, ShowCreate, CancelCreate, SwitchMode
  <2>3. UNCHANGED <<file, shown>>
    BY <1>1 DEF ShowCreate, CancelCreate, SwitchMode
  <2> QED BY <2>1, <2>2, <2>3, SameFileSameHeading DEF IInv
<1>2. CASE EnterWords
  <2>1. TypeOK' /\ JobOK' /\ UNCHANGED <<file, shown>>
    BY <1>t, <1>2 DEF TypeOK, JobOK, EnterWords
  <2> QED BY <2>1, SameFileSameHeading DEF IInv
<1>3. CASE PressButton
  <2>1. UNCHANGED <<file, shown, words, screen, mode, verifying, keys, missed>>
    BY <1>3 DEF PressButton, Arm
  <2>2. job' \in Jobs
    BY <1>t, <1>3 DEF PressButton, Arm, Jobs, TypeOK
  <2>3. TypeOK'
    BY <1>t, <2>1, <2>2 DEF TypeOK
  <2>4. verifying = None /\ (job'.kind = "Import" => shown = None)
                         /\ (job'.kind = "Derive" => shown # None)
    BY <1>3 DEF PressButton, Arm, OnForm, Tap, ImportOffered
  <2>5. JobOK'
    BY <2>1, <2>4 DEF JobOK
  <2> QED BY <2>1, <2>3, <2>5, SameFileSameHeading DEF IInv
<1>4. CASE RunGenerate
  <2>1. TypeOK' /\ JobOK' /\ UNCHANGED <<file, shown>>
    BY <1>t, <1>4 DEF TypeOK, JobOK, RunGenerate, Fires
  <2> QED BY <2>1, SameFileSameHeading DEF IInv
<1>5. CASE ImportFails
  <2>1. shown = None /\ shown' = None
    BY <1>t, <1>5 DEF ImportFails, Fires, JobOK
  <2>2. file' \in Stored
    <3>1. CASE file' = file
      BY <3>1, <1>t DEF TypeOK
    <3>2. CASE file' # file
      <4>1. job.input \in Seeds /\
            file' \in HalfWritten(SealRoot(job.input)) \cup {SealRoot(job.input)}
        BY <1>5, <3>2 DEF ImportFails
      <4> QED BY <4>1, <1>t, HalfWrittenType, SealRootType DEF Stored
    <3> QED BY <3>1, <3>2
  <2>3. TypeOK' /\ JobOK'
    BY <1>t, <1>5, <2>1, <2>2 DEF TypeOK, JobOK, ImportFails, Fires
  <2> QED BY <2>1, <2>3, NoHeading DEF IInv
<1>6. CASE ImportWrites
  <2>1. shown = None /\ shown' = None
    BY <1>t, <1>6 DEF ImportWrites, Fires, JobOK
  <2>2. file' \in Stored
    <3>1. job.input \in Seeds
      BY <1>6 DEF ImportWrites
    <3>2. file' \in HalfWritten(SealRoot(job.input)) \cup {SealRoot(job.input)}
      BY <1>6 DEF ImportWrites
    <3> QED BY <3>1, <3>2, <1>t, HalfWrittenType, SealRootType DEF Stored
  <2>3. TypeOK' /\ JobOK'
    BY <1>t, <1>6, <2>1, <2>2 DEF TypeOK, JobOK, ImportWrites, Fires
  <2> QED BY <2>1, <2>3, NoHeading DEF IInv
<1>7. CASE ImportVerifies
  <2>1. file' = file /\ job' = job /\ verifying' = None /\ words' = Blank
        /\ UNCHANGED <<screen, mode, keys>> /\ missed' \in BOOLEAN
    BY <1>7 DEF ImportVerifies
  <2>2. shown = None /\ job = None
    BY <1>t, <1>7 DEF ImportVerifies, JobOK
  <2>3. PICK f \in Reads :
          shown' = IF Verified(f)
                   THEN [id |-> PeekMeta(f), xfp |-> f.body.root] ELSE shown
    BY <1>7 DEF ImportVerifies
  <2>4. JobOK'
    BY <2>1, <2>2 DEF JobOK
  <2>5. CASE ~Verified(f)
    <3>1. shown' = None
      BY <2>2, <2>3, <2>5
    <3>2. TypeOK'
      BY <1>t, <2>1, <3>1 DEF TypeOK
    <3> QED BY <2>4, <3>1, <3>2, NoHeading DEF IInv
  <2>6. CASE Verified(f)
    <3>1. Opens(f) /\ f \in Blobs
      BY <2>6 DEF Verified, Opens
    <3>2. f = file
      BY <3>1 DEF Reads
    <3>3. Opens(file) /\ file \in Stored
      BY <3>1, <3>2, <1>t DEF TypeOK
    <3>4. file.body.root \in Seeds /\ PeekMeta(file) = file.body.root
      BY <3>3, OpensFacts
    <3>5. shown' = [id |-> PeekMeta(file), xfp |-> file.body.root]
      BY <2>3, <2>6, <3>2
    <3>6. shown' \in Headings
      BY <3>4, <3>5 DEF Headings, Headers
    <3>7. TypeOK'
      BY <1>t, <2>1, <3>6 DEF TypeOK
    <3>8. ShownRootIsStored'
      BY <2>1, <3>5 DEF ShownRootIsStored, PeekMeta
    <3>9. FingerprintOpens'
      BY <2>1, <3>3, <3>4, <3>5 DEF FingerprintOpens, Opens
    <3> QED BY <2>4, <3>7, <3>8, <3>9 DEF IInv
  <2> QED BY <2>5, <2>6
<1>8. CASE RunDerive
  <2>1. /\ file' = file /\ job' = None /\ UNCHANGED <<words, mode, verifying, missed>>
        /\ shown # None /\ verifying = None
    BY <1>t, <1>8 DEF RunDerive, Fires, JobOK
  <2>2. CASE UNCHANGED <<shown, screen, keys>>
    <3>1. TypeOK' /\ JobOK'
      BY <1>t, <2>1, <2>2 DEF TypeOK, JobOK
    <3> QED BY <2>1, <2>2, <3>1, SameFileSameHeading DEF IInv
  <2>3. CASE Opens(file) /\ shown' = [shown EXCEPT !.xfp = file.body.root]
    <3>1. file.body.root \in Seeds /\ PeekMeta(file) = file.body.root
      BY <2>3, <1>t, OpensFacts DEF TypeOK
    <3>2. shown \in Headings /\ PeekMeta(file) = shown.id
      BY <1>t, <2>1 DEF TypeOK, ShownRootIsStored
    <3>3. shown' \in Headings /\ shown'.id = shown.id /\ shown'.xfp = file.body.root
      BY <2>3, <3>1, <3>2 DEF Headings
    <3>4. keys' \in SUBSET DerivedKeys /\ screen' \in {"create", "other"}
      BY <1>8, <1>t, <3>1 DEF RunDerive, TypeOK, DerivedKeys, Headers
    <3>5. TypeOK'
      BY <1>t, <2>1, <3>3, <3>4 DEF TypeOK
    <3>6. ShownRootIsStored'
      BY <2>1, <3>2, <3>3 DEF ShownRootIsStored, PeekMeta
    <3>7. FingerprintOpens'
      BY <2>1, <2>3, <3>1, <3>2, <3>3 DEF FingerprintOpens, Opens
    <3>8. JobOK'
      BY <2>1 DEF JobOK
    <3> QED BY <3>5, <3>6, <3>7, <3>8 DEF IInv
  <2> QED BY <1>8, <2>2, <2>3 DEF RunDerive
<1>9. CASE ForgetSeed
  <2>1. TypeOK' /\ JobOK' /\ shown' = None
    BY <1>t, <1>9 DEF TypeOK, JobOK, ForgetSeed, HeadingCleared, Stored, OnForm, Tap
  <2> QED BY <2>1, NoHeading DEF IInv
<1>10. CASE Crash
  <2>1. /\ missed' \in ReadFailures /\ shown' = BootHeading(file', missed')
        /\ words' = Blank /\ screen' = "other"
        /\ mode' = "random" /\ job' = None /\ verifying' = None /\ keys' = keys
    BY <1>10 DEF Crash
  <2>2. file' \in Stored
    <3>1. CASE file' = file
      BY <3>1, <1>t DEF TypeOK
    <3>2. CASE file' # file
      BY <1>10, <3>2, <1>t, HalfWrittenType DEF Crash
    <3> QED BY <3>1, <3>2
  <2>3. TypeOK'
    BY <1>t, <2>1, <2>2, BootIsSound DEF TypeOK
  <2>4. ShownRootIsStored' /\ FingerprintOpens'
    BY <2>1, <2>2, BootIsSound DEF ShownRootIsStored, FingerprintOpens, PeekMeta
  <2>5. JobOK'
    BY <2>1 DEF JobOK
  <2> QED BY <2>3, <2>4, <2>5 DEF IInv
<1>11. CASE UNCHANGED vars
  <2>1. TypeOK' /\ JobOK' /\ UNCHANGED <<file, shown>>
    BY <1>t, <1>11 DEF TypeOK, JobOK, vars
  <2> QED BY <2>1, SameFileSameHeading DEF IInv
<1> QED
  BY <1>1, <1>2, <1>3, <1>4, <1>5, <1>6, <1>7, <1>8, <1>9, <1>10, <1>11 DEF Next

LEMMA SpecIInv == Spec => []IInv
BY InitIInv, NextIInv, PTL DEF Spec

-----------------------------------------------------------------------------
(* A root that opens is offered: every step that can hide one sets missed, *)
(* starts a verification, or leaves no file that opens.                    *)
LEMMA NextOffers ==
    ASSUME IInv, UsableRootIsOffered, [Next]_vars
    PROVE  UsableRootIsOffered'
<1>t. TypeOK /\ JobOK
  BY DEF IInv
<1>1. CASE /\ UNCHANGED <<file, missed, verifying>> /\ shown' = shown
  BY <1>1 DEF UsableRootIsOffered, Opens
<1>2. CASE ImportFails
  BY <1>1, <1>2 DEF ImportFails, UsableRootIsOffered
<1>3. CASE ImportWrites
  <2>1. verifying' # None
    BY <1>3, SentinelAssumption DEF ImportWrites
  <2> QED BY <2>1 DEF UsableRootIsOffered
<1>4. CASE ImportVerifies
  <2>1. PICK f \in Reads :
            /\ shown' = IF Verified(f)
                        THEN [id |-> PeekMeta(f), xfp |-> f.body.root]
                        ELSE shown
            /\ missed' = (f = None)
    BY <1>4 DEF ImportVerifies
  <2>2. file' = file
    BY <1>4 DEF ImportVerifies
  <2>3. CASE f = None
    BY <2>1, <2>3 DEF UsableRootIsOffered
  <2>4. CASE f = file /\ Verified(f)
    <3>1. file \in Stored /\ Opens(file)
      BY <2>4, <1>t DEF TypeOK, Verified
    <3>2. shown' \in Headings
      BY <2>1, <2>4, <3>1, OpensFacts DEF Headings, Headers
    <3>3. shown' # None
      BY <3>2, SentinelAssumption
    <3> QED BY <3>3 DEF UsableRootIsOffered
  <2>5. CASE f = file /\ ~Verified(f)
    BY <2>2, <2>5 DEF UsableRootIsOffered, Verified, Opens
  <2> QED BY <2>3, <2>4, <2>5 DEF Reads
<1>5. CASE RunDerive
  <2>1. UNCHANGED <<file, missed, verifying>> /\ shown # None
    BY <1>t, <1>5 DEF RunDerive, Fires, JobOK
  <2>2. CASE shown' = shown
    BY <1>1, <2>1, <2>2
  <2>3. CASE Opens(file) /\ shown' = [shown EXCEPT !.xfp = file.body.root]
    <3>1. file.body.root \in Seeds /\ shown \in Headings
      BY <2>1, <2>3, <1>t, OpensFacts DEF TypeOK
    <3>2. shown' \in Headings
      BY <2>3, <3>1 DEF Headings
    <3>3. shown' # None
      BY <3>2, SentinelAssumption
    <3> QED BY <3>3 DEF UsableRootIsOffered
  <2> QED BY <1>5, <2>2, <2>3 DEF RunDerive
<1>6. CASE ForgetSeed
  BY <1>6, SentinelAssumption DEF ForgetSeed, UsableRootIsOffered, Opens
<1>7. CASE Crash
  <2>1. missed' \in ReadFailures /\ shown' = BootHeading(file', missed')
    BY <1>7 DEF Crash
  <2>2. IInv'
    BY NextIInv
  <2>3. file' \in Stored
    BY <2>2 DEF IInv, TypeOK
  <2>4. ~missed' /\ Opens(file') => shown' # None
    BY <2>1, <2>3, BootIsSound
  <2> QED BY <2>4 DEF UsableRootIsOffered, Opens
<1>8. CASE ShowCreate \/ CancelCreate \/ SwitchMode \/ EnterWords \/ PressButton
           \/ RunGenerate \/ UNCHANGED vars
  <2>1. UNCHANGED <<file, shown, missed, verifying>>
    BY <1>8 DEF ShowCreate, CancelCreate, SwitchMode, EnterWords, PressButton, Arm,
                RunGenerate, vars
  <2> QED BY <1>1, <2>1
<1> QED BY <1>2, <1>3, <1>4, <1>5, <1>6, <1>7, <1>8 DEF Next

-----------------------------------------------------------------------------
(* The types of the state hold.                                            *)
THEOREM TypeCorrect == Spec => []TypeOK
<1>1. IInv => TypeOK
  BY DEF IInv
<1> QED BY <1>1, SpecIInv, PTL

(* The root named on the create screen is the one the file names.          *)
THEOREM ShownRootIsAlwaysStored == Spec => []ShownRootIsStored
<1>1. IInv => ShownRootIsStored
  BY DEF IInv
<1> QED BY <1>1, SpecIInv, PTL

(* A fingerprint on show belongs to a stored root that opens here.         *)
THEOREM FingerprintAlwaysOpens == Spec => []FingerprintOpens
<1>1. IInv => FingerprintOpens
  BY DEF IInv
<1> QED BY <1>1, SpecIInv, PTL

(* While a root is on show, only the confirmed Forget changes its file;    *)
(* power loss does not, because no import can then be under way.           *)
THEOREM ShownRootIsAlwaysKept == Spec => ShownRootIsKept
<1>1. IInv /\ [Next]_vars => [shown # None /\ file' # file => file' = Absent /\ OnForm]_vars
  <2> SUFFICES ASSUME IInv, Next, shown # None, file' # file
               PROVE  file' = Absent /\ OnForm
    OBVIOUS
  <2>t. JobOK
    BY DEF IInv
  <2>1. ~(ShowCreate \/ CancelCreate \/ SwitchMode \/ EnterWords \/ PressButton
          \/ RunGenerate \/ ImportVerifies \/ RunDerive)
    BY DEF ShowCreate, CancelCreate, SwitchMode, EnterWords, PressButton, Arm,
           RunGenerate, ImportVerifies, RunDerive
  <2>2. ~(ImportFails \/ ImportWrites)
    BY <2>t DEF ImportFails, ImportWrites, Fires, JobOK
  <2>3. ~Crash
    BY <2>t DEF Crash, JobOK
  <2>4. CASE ForgetSeed
    BY <2>4 DEF ForgetSeed
  <2> QED BY <2>1, <2>2, <2>3, <2>4 DEF Next
<1> QED BY <1>1, SpecIInv, PTL DEF Spec, ShownRootIsKept

(* Every derived key comes from the root on show and notes that root as    *)
(* its provenance.                                                         *)
THEOREM AlwaysDerivesFromShownRoot == Spec => DerivesFromShownRoot
<1>1. IInv /\ [Next]_vars =>
        [\A k \in keys' \ keys :
            /\ shown # None /\ k.note = shown.id
            /\ k.root = k.note]_vars
  <2> SUFFICES ASSUME IInv, Next, NEW k \in keys' \ keys
               PROVE  shown # None /\ k.note = shown.id /\ k.root = k.note
    OBVIOUS
  <2>1. RunDerive
    BY DEF Next, ShowCreate, CancelCreate, SwitchMode, EnterWords, PressButton, Arm,
           RunGenerate, ImportFails, ImportWrites, ImportVerifies, ForgetSeed, Crash
  <2>2. Opens(file) /\ k = [root |-> file.body.root, note |-> PeekMeta(file)]
    BY <2>1 DEF RunDerive
  <2>3. file \in Stored /\ shown # None /\ PeekMeta(file) = shown.id
    BY <2>1 DEF IInv, TypeOK, JobOK, ShownRootIsStored, RunDerive, Fires
  <2> QED BY <2>2, <2>3, OpensFacts
<1> QED BY <1>1, SpecIInv, PTL DEF Spec, DerivesFromShownRoot

(* A stored root that opens is on show, unless the last start or import    *)
(* reported an error.                                                      *)
THEOREM UsableRootIsAlwaysOffered == Spec => []UsableRootIsOffered
<1>1. Init => UsableRootIsOffered
  BY BootIsSound, InputAssumption DEF Init, UsableRootIsOffered
<1> QED BY <1>1, NextOffers, SpecIInv, PTL DEF Spec
=============================================================================
