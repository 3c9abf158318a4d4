--------------------------- MODULE FileJobsProofs ---------------------------
(***************************************************************************)
(* What the runs of FileJobs check on a handful of files, proved for every *)
(* set of names, contents and faults.                                      *)
(*                                                                         *)
(* A job's storage steps are typed only because the file on which it was   *)
(* confirmed is still there, and that no output has the name of its input  *)
(* keeps it what it was.                                                   *)
(***************************************************************************)
EXTENDS FileJobs, SequenceTheorems, TLAPS

(* What the tap on a file established: it is there, and its output can be  *)
(* named.                                                                  *)
Fits(kind, n) == n \in Paths /\ n \in DOMAIN storage /\ Output(kind, n) \in Paths

JobOK ==
    /\ modal # None => mode # None /\ job = None /\ target = modal /\ Fits(mode, modal)
    /\ job # None => job.target = job.named /\ Fits(job.kind, job.target)

IInv == TypeOK /\ JobOK

-----------------------------------------------------------------------------
(* Names. *)

LEMMA NameIsSeq ==
    \A n : n \in Names <=> n \in Seq(Parts) /\ Len(n) \in 1 .. MaxParts
<1>1. ASSUME NEW n, n \in Names PROVE n \in Seq(Parts) /\ Len(n) \in 1 .. MaxParts
  <2>1. PICK k \in 1 .. MaxParts : n \in [1 .. k -> Parts]
    BY <1>1 DEF Names
  <2>2. MaxParts \in Nat /\ k \in Nat
    BY <2>1, InputAssumption
  <2>3. n \in Seq(Parts)
    BY <2>1, <2>2, SeqDef
  <2>4. Len(n) = k
    BY <2>1, <2>2, <2>3, LenProperties
  <2> QED BY <2>1, <2>3, <2>4
<1>2. ASSUME NEW n, n \in Seq(Parts), Len(n) \in 1 .. MaxParts PROVE n \in Names
  BY <1>2, LenProperties DEF Names
<1> QED BY <1>1, <1>2

(* An output has a name that fits, or the file could not be tapped.        *)
LEMMA OutputNameIsName ==
    ASSUME NEW kind \in Kinds, NEW n \in Names, Len(OutputName(kind, n)) <= MaxParts
    PROVE  OutputName(kind, n) \in Names
<1>1. n \in Seq(Parts) /\ Len(n) \in 1 .. MaxParts /\ MaxParts \in Nat
  BY NameIsSeq, InputAssumption
<1>2. Sig \in Parts /\ Gpg \in Parts /\ Out \in Parts
  BY InputAssumption
<1>3. ASSUME NEW e \in Parts, Len(Append(n, e)) <= MaxParts
      PROVE  Append(n, e) \in Names
  <2>1. Append(n, e) \in Seq(Parts) /\ Len(Append(n, e)) = Len(n) + 1
    BY <1>1, AppendProperties
  <2>2. Len(Append(n, e)) \in 1 .. MaxParts
    BY <1>1, <1>3, <2>1
  <2> QED BY <2>1, <2>2, NameIsSeq
<1>4. CASE kind = "Decrypt" /\ Len(n) > 1 /\ Last(n) \in PgpExts
  <2>1. OutputName(kind, n) = SubSeq(n, 1, Len(n) - 1)
    BY <1>4 DEF OutputName, PlainPath, Front
  <2>2. SubSeq(n, 1, Len(n) - 1) \in Seq(Parts)
    BY <1>1, <1>4, SubSeqProperties
  <2>3. Len(SubSeq(n, 1, Len(n) - 1)) = Len(n) - 1
    BY <1>1, <1>4, SubSeqProperties
  <2> QED BY <1>1, <1>4, <2>1, <2>2, <2>3, NameIsSeq
<1>5. CASE ~(kind = "Decrypt" /\ Len(n) > 1 /\ Last(n) \in PgpExts)
  BY <1>2, <1>3, <1>5 DEF OutputName, PlainPath, Kinds
<1> QED BY <1>4, <1>5

(* No output has the name of its own input.                                *)
LEMMA OutputNameDiffers ==
    \A kind \in Kinds : \A n \in Names : OutputName(kind, n) # n
<1> SUFFICES ASSUME NEW kind \in Kinds, NEW n \in Names
             PROVE  Len(OutputName(kind, n)) # Len(n)
  OBVIOUS
<1>1. n \in Seq(Parts) /\ Len(n) \in Nat
  BY NameIsSeq, LenProperties
<1>2. \A e \in Parts : Len(Append(n, e)) = Len(n) + 1
  BY <1>1, AppendProperties
<1>3. CASE kind = "Decrypt" /\ Len(n) > 1 /\ Last(n) \in PgpExts
  <2>1. OutputName(kind, n) = SubSeq(n, 1, Len(n) - 1)
    BY <1>3 DEF OutputName, PlainPath, Front
  <2>2. Len(SubSeq(n, 1, Len(n) - 1)) = Len(n) - 1
    BY <1>1, <1>3, SubSeqProperties
  <2>3. Len(n) - 1 # Len(n)
    BY <1>1
  <2> QED BY <2>1, <2>2, <2>3, Zenon
<1>4. CASE ~(kind = "Decrypt" /\ Len(n) > 1 /\ Last(n) \in PgpExts)
  BY <1>1, <1>2, <1>4, InputAssumption DEF OutputName, PlainPath, Kinds
<1> QED BY <1>3, <1>4

(* The output is in the folder of its input, under another name.           *)
LEMMA OutputIsPath ==
    ASSUME NEW kind \in Kinds, NEW p \in Paths,
           Len(OutputName(kind, p.name)) <= MaxParts
    PROVE  Output(kind, p) \in Paths
<1>1. p.name \in Names /\ p.at \in Places /\ p = [at |-> p.at, name |-> p.name]
  BY DEF Paths
<1>2. OutputName(kind, p.name) \in Names
  BY <1>1, OutputNameIsName
<1>3. Output(kind, p) = [at |-> p.at, name |-> OutputName(kind, p.name)]
  BY <1>1 DEF Output
<1> QED BY <1>1, <1>2, <1>3 DEF Paths

LEMMA OutputDiffers ==
    ASSUME NEW kind \in Kinds, NEW p \in Paths
    PROVE  Output(kind, p) # p /\ Output(kind, p).at = p.at
<1>1. p.name \in Names /\ p = [at |-> p.at, name |-> p.name]
  BY DEF Paths
<1>2. Output(kind, p) = [at |-> p.at, name |-> OutputName(kind, p.name)]
  BY <1>1 DEF Output
<1>3. OutputName(kind, p.name) # p.name
  BY <1>1, OutputNameDiffers
<1> QED BY <1>1, <1>2, <1>3

-----------------------------------------------------------------------------
(* Contents. *)

LEMMA ContentFacts ==
    /\ \A w \in BOOLEAN : Signature(w) \in Others
    /\ \A w \in BOOLEAN : [type |-> "key", whole |-> w] \in Others
    /\ Plains \cap (Messages \cup Others \cup {Empty}) = {}
    /\ Empty \notin Messages \cup Others
    /\ Empty \in Contents
BY InputAssumption DEF Signature, Others, Plains, Messages, Contents

(* What a stream writes.                                                   *)
LEMMA ResultFacts ==
    ASSUME TypeOK, JobOK, job # None, job.kind # "SignFile", Readable, NEW w \in BOOLEAN
    PROVE  /\ job.kind = "Encrypt" => Result(w) \in Messages /\ Result(w).whole = w
           /\ job.kind = "Decrypt" =>
                  /\ Input \in Messages
                  /\ Result(w) \in Plains
                  /\ Result(w).whole = w
                  /\ Result(w).data = Input.data
                  /\ Result(w).verified = (w /\ Input.intact /\ Input.whole)
<1>1. CASE job.kind = "Encrypt"
  <2>1. Plaintext(Input) \in Data
    BY InputAssumption DEF Plaintext, Plains, Messages
  <2> QED BY <1>1, <2>1, InputAssumption DEF Result, Encrypted, Messages
<1>2. CASE job.kind = "Decrypt"
  <2>1. Input \in Messages
    BY <1>2 DEF Readable
  <2> QED BY <1>2, <2>1 DEF Result, Decrypted, Messages, Plains
<1>3. job.kind \in Kinds
  BY DEF TypeOK, Jobs
<1> QED BY <1>1, <1>2, <1>3 DEF Kinds

-----------------------------------------------------------------------------
(* The inductive invariant. *)

LEMMA InitIInv == Init => IInv
BY InputAssumption, PlacesAssumption DEF Init, IInv, TypeOK, JobOK

(* A write of typed contents leaves the storage typed and touches nothing  *)
(* but the file it is about.                                               *)
LEMMA PutFacts ==
    ASSUME IsStorage(storage), NEW p \in Paths, NEW c \in Contents, Put(p, c)
    PROVE  /\ IsStorage(storage')
           /\ DOMAIN storage' = DOMAIN storage \cup {p}
           /\ storage'[p] = c
           /\ \A q \in DOMAIN storage : q # p => storage'[q] = storage[q]
           /\ Changed \subseteq {p}
<1>1. /\ DOMAIN storage' = DOMAIN storage \cup {p}
      /\ storage'[p] = c
      /\ \A q \in DOMAIN storage : q # p => storage'[q] = storage[q]
  BY DEF Put
<1>2. IsStorage(storage')
  BY DEF Put, IsStorage
<1>3. Changed \subseteq {p}
  BY <1>1 DEF Changed
<1> QED BY <1>1, <1>2, <1>3

LEMMA WriteFacts ==
    ASSUME TypeOK, JobOK, job # None, NEW c \in Contents, Write(c)
    PROVE  /\ IsStorage(storage')
           /\ JobOutput \in Paths /\ job.target \in Paths /\ JobOutput # job.target
           /\ DOMAIN storage' = DOMAIN storage \cup {JobOutput}
           /\ storage'[JobOutput] = c
           /\ \A n \in DOMAIN storage : n # JobOutput => storage'[n] = storage[n]
           /\ Changed \subseteq {JobOutput}
<1>1. job.kind \in Kinds /\ job.target \in Paths
  BY DEF TypeOK, Jobs
<1>2. JobOutput \in Paths
  BY DEF JobOK, Fits, JobOutput
<1>3. JobOutput # job.target
  BY <1>1, OutputDiffers DEF JobOutput
<1>4. IsStorage(storage)
  BY DEF TypeOK
<1> QED BY <1>1, <1>2, <1>3, <1>4, PutFacts DEF Write

(* Every step of a running job: the storage is left alone, or the output   *)
(* alone is written, with typed contents.                                  *)
RunStep == RunSign \/ OpenFiles \/ Stream \/ Breaks \/ Finish \/ TruncateOutput

LEMMA RunStepWrites ==
    ASSUME TypeOK, JobOK, RunStep
    PROVE  /\ job # None
           /\ UNCHANGED storage \/ \E c \in Contents : Write(c)
<1>1. \A w \in BOOLEAN : Signature(w) \in Contents
  BY ContentFacts DEF Contents
<1>2. Empty \in Contents
  BY ContentFacts
<1>3. ASSUME job # None, job.kind # "SignFile", Readable, NEW w \in BOOLEAN
      PROVE  Result(w) \in Contents
  <2>1. job.kind \in Kinds
    BY <1>3 DEF TypeOK, Jobs
  <2> QED BY <1>3, <2>1, ResultFacts DEF Contents, Kinds
<1>4. CASE RunSign
  BY <1>1, <1>4 DEF RunSign
<1>5. CASE OpenFiles
  BY <1>2, <1>5 DEF OpenFiles, Emptied, At
<1>6. CASE Stream
  BY <1>3, <1>6 DEF Stream, At
<1>7. CASE Breaks
  BY <1>7 DEF Breaks, At
<1>8. CASE Finish
  BY <1>3, <1>8 DEF Finish, At
<1>9. CASE TruncateOutput
  BY <1>2, <1>9 DEF TruncateOutput, CleanedUp, Emptied, LeftAsItIs, At
<1> QED BY <1>4, <1>5, <1>6, <1>7, <1>8, <1>9 DEF RunStep

(* The rest of such a step: the job goes on in another phase or ends, and  *)
(* no confirmation appears.                                                *)
LEMMA RunStepControl ==
    ASSUME TypeOK, JobOK, RunStep
    PROVE  /\ modal = None /\ UNCHANGED <<at, target, modal>>
           /\ spoiled' \subseteq spoiled \cup {JobOutput}
           /\ \/ /\ UNCHANGED <<mode, told>>
                 /\ \E phase \in {"stream", "cleanup"} :
                        job' = [job EXCEPT !.phase = phase]
              \/ /\ job' = None
                 /\ mode' \in {mode, None} /\ told' \in {JobOutput, None}
<1>1. job # None /\ modal = None
  BY RunStepWrites DEF JobOK
<1>2. job \in Jobs
  BY <1>1 DEF TypeOK
<1>3. CASE RunSign
  BY <1>1, <1>3 DEF RunSign, Succeeds, Fails, Ends
<1>4. CASE OpenFiles
  BY <1>1, <1>4 DEF OpenFiles, Emptied, Goto
<1>5. CASE Stream
  <2>1. job' = [job EXCEPT !.phase = "stream"]
    BY <1>2, <1>5 DEF Stream, At, Jobs
  <2> QED BY <1>1, <1>5, <2>1 DEF Stream
<1>6. CASE Breaks
  BY <1>1, <1>6 DEF Breaks, Goto
<1>7. CASE Finish
  BY <1>1, <1>7 DEF Finish, Succeeds, Ends
<1>8. CASE TruncateOutput
  BY <1>1, <1>8 DEF TruncateOutput, CleanedUp, Emptied, LeftAsItIs, Fails, Ends
<1> QED BY <1>3, <1>4, <1>5, <1>6, <1>7, <1>8 DEF RunStep

LEMMA RunStepKeepsIInv ==
    ASSUME IInv, RunStep
    PROVE  IInv'
<1>1. TypeOK /\ JobOK
  BY DEF IInv
<1>2. job # None /\ job \in Jobs /\ None \notin Jobs
  BY <1>1, RunStepWrites, InputAssumption DEF TypeOK
<1>3. /\ JobOutput \in Paths /\ job.target \in Paths
      /\ job.target = job.named /\ Fits(job.kind, job.target)
  BY <1>1, <1>2 DEF JobOK, Fits, JobOutput, Jobs
<1>4. /\ IsStorage(storage')
      /\ job.target \in DOMAIN storage' /\ storage'[job.target] = storage[job.target]
  <2>1. CASE UNCHANGED storage
    BY <1>1, <1>3, <2>1 DEF TypeOK, Fits
  <2>2. ASSUME NEW c \in Contents, Write(c)
        PROVE  /\ IsStorage(storage')
               /\ job.target \in DOMAIN storage' /\ storage'[job.target] = storage[job.target]
    BY <1>1, <1>2, <1>3, <2>2, WriteFacts DEF Fits
  <2> QED BY <1>1, <2>1, <2>2, RunStepWrites
<1>5. job' \in Jobs \cup {None}
  BY <1>1, <1>2, RunStepControl DEF Jobs
<1>6. TypeOK'
  BY <1>1, <1>3, <1>4, <1>5, RunStepControl DEF TypeOK
<1>7. ASSUME job' # None
      PROVE  job'.target = job'.named /\ Fits(job.kind, job.target)' /\ job'.kind = job.kind
  <2>1. PICK phase \in {"stream", "cleanup"} : job' = [job EXCEPT !.phase = phase]
    BY <1>1, <1>7, RunStepControl
  <2>2. job'.target = job.target /\ job'.named = job.named /\ job'.kind = job.kind
    BY <1>2, <2>1 DEF Jobs
  <2> QED BY <1>3, <1>4, <2>2 DEF Fits
<1>8. JobOK'
  BY <1>1, <1>7, RunStepControl DEF JobOK
<1> QED BY <1>6, <1>8 DEF IInv

LEMMA ExportedKeyType ==
    ASSUME TypeOK, NEW p \in ExportPaths, NEW w \in BOOLEAN, ExportedKey(p, w)
    PROVE  /\ IsStorage(storage') /\ p \in Paths
           /\ DOMAIN storage' = DOMAIN storage \cup {p}
           /\ storage'[p] = [type |-> "key", whole |-> w]
           /\ \A n \in DOMAIN storage : n # p => storage'[n] = storage[n]
           /\ Changed \subseteq {p}
<1>1. p \in Paths /\ [type |-> "key", whole |-> w] \in Contents
  BY ContentFacts, InputAssumption DEF Contents
<1>2. IsStorage(storage)
  BY DEF TypeOK
<1> QED BY <1>1, <1>2, PutFacts DEF ExportedKey

LEMMA CrashType ==
    ASSUME IInv, Crash
    PROVE  IsStorage(storage') /\ spoiled' \subseteq Paths
<1>1. TypeOK /\ JobOK
  BY DEF IInv
<1>2. CASE UNCHANGED storage /\ (UNCHANGED spoiled \/ LeftAsItIs)
  BY <1>1, <1>2 DEF TypeOK, LeftAsItIs, Unverified, IsStorage
<1>3. ASSUME NEW p \in ExportPaths, ExportedKey(p, FALSE), UNCHANGED spoiled
      PROVE  IsStorage(storage') /\ spoiled' \subseteq Paths
  BY <1>1, <1>3, ExportedKeyType DEF TypeOK
<1>4. CASE job # None /\ Write(Signature(FALSE)) /\ UNCHANGED spoiled
  <2>1. Signature(FALSE) \in Contents
    BY ContentFacts DEF Contents
  <2> QED BY <1>1, <1>4, <2>1, WriteFacts DEF TypeOK
<1> QED BY <1>2, <1>3, <1>4 DEF Crash, LeftAsItIs

Navigate == ChangeLocation \/ OpenFolder \/ GoBack

(* Walking through folders changes nothing but the folder on show.         *)
LEMMA NavigateFacts ==
    ASSUME TypeOK, Navigate
    PROVE  /\ at' \in Places /\ job = None /\ modal = None
           /\ UNCHANGED <<storage, mode, target, modal, job, told, spoiled>>
<1>1. /\ job = None /\ modal = None
      /\ UNCHANGED <<storage, mode, target, modal, job, told, spoiled>>
  BY DEF Navigate, ChangeLocation, OpenFolder, GoBack, GoTo, Browsing
<1>2. at \in Places
  BY DEF TypeOK
<1>3. at' \in Places
  BY <1>2, PlacesAssumption DEF Navigate, ChangeLocation, Entered, OpenFolder, GoBack, GoTo
<1> QED BY <1>1, <1>3

LEMMA StepKeepsIInv ==
    ASSUME IInv, [Next]_vars
    PROVE  IInv'
<1>1. TypeOK /\ JobOK
  BY DEF IInv
<1> USE DEF IInv
<1>2. CASE OpenBrowser
  <2>1. TypeOK'
    BY <1>1, <1>2, PlacesAssumption DEF OpenBrowser, TypeOK
  <2>2. modal = None
    BY <1>1, <1>2 DEF OpenBrowser, JobOK
  <2>3. JobOK'
    BY <1>2, <2>2 DEF OpenBrowser, JobOK
  <2> QED BY <2>1, <2>3
<1>3. CASE TapFile
  <2>1. PICK n \in DOMAIN storage :
            /\ Len(OutputName(mode, n.name)) <= MaxParts
            /\ target' = n /\ modal' = n
    BY <1>3 DEF TapFile, Staged
  <2>2. /\ job = None /\ mode # None /\ mode \in Kinds /\ n \in Paths
        /\ UNCHANGED <<storage, at, mode, job, told, spoiled>>
    BY <1>1, <1>3 DEF TapFile, Browsing, TypeOK, IsStorage
  <2>3. TypeOK'
    BY <1>1, <2>1, <2>2 DEF TypeOK
  <2>4. Output(mode, n) \in Paths
    BY <2>1, <2>2, OutputIsPath
  <2>5. Fits(mode, modal)'
    BY <2>1, <2>2, <2>4 DEF Fits
  <2>6. JobOK'
    BY <2>1, <2>2, <2>5 DEF JobOK
  <2> QED BY <2>3, <2>6
<1>4. CASE CancelModal
  <2>1. job = None
    BY <1>1, <1>4 DEF CancelModal, JobOK
  <2> QED BY <1>1, <1>4, <2>1 DEF CancelModal, TypeOK, JobOK
<1>5. CASE CancelBrowser
  BY <1>1, <1>5 DEF CancelBrowser, Browsing, TypeOK, JobOK
<1>6. CASE Confirm
  <2>1. /\ modal \in Paths /\ target = modal /\ mode \in Kinds
        /\ Fits(mode, modal)
    BY <1>1, <1>6 DEF Confirm, JobOK, TypeOK
  <2>2. job' \in Jobs
    BY <1>6, <2>1 DEF Confirm, Jobs
  <2>3. TypeOK'
    BY <1>1, <1>6, <2>2 DEF Confirm, TypeOK
  <2>4. job'.kind = mode /\ job'.target = target /\ job'.named = modal
    BY <1>6 DEF Confirm
  <2>5. Fits(job.kind, job.target)'
    BY <1>6, <2>1, <2>4 DEF Confirm, Fits
  <2>6. JobOK'
    BY <1>6, <2>1, <2>4, <2>5 DEF Confirm, JobOK
  <2> QED BY <2>3, <2>6
<1>7. CASE RunStep
  BY <1>7, RunStepKeepsIInv
<1>8. CASE ExportKey
  <2>1. job = None /\ modal = None /\ UNCHANGED <<at, mode, target, modal, job, spoiled>>
    BY <1>1, <1>8 DEF ExportKey, JobOK
  <2>2. IsStorage(storage')
    BY <1>1, <1>8, ExportedKeyType DEF ExportKey, TypeOK
  <2>3. told' \in Paths \cup {None}
    BY <1>8, InputAssumption DEF ExportKey
  <2> QED BY <1>1, <2>1, <2>2, <2>3 DEF TypeOK, JobOK
<1>9. CASE Crash
  <2>1. /\ mode' = None /\ target' = None /\ modal' = None /\ job' = None /\ told' = None
        /\ at' \in Places
    BY <1>9, PlacesAssumption DEF Crash
  <2> QED BY <1>9, <2>1, CrashType DEF TypeOK, JobOK
<1>10. CASE Navigate
  BY <1>1, <1>10, NavigateFacts DEF TypeOK, JobOK
<1>11. CASE UNCHANGED vars
  BY <1>1, <1>11 DEF vars, TypeOK, JobOK, Fits
<1> QED
  BY <1>2, <1>3, <1>4, <1>5, <1>6, <1>7, <1>8, <1>9, <1>10, <1>11
  DEF Next, RunStep, Navigate

LEMMA AlwaysIInv == Spec => []IInv
BY InitIInv, StepKeepsIInv, PTL DEF Spec

(* Every state is typed; in particular strip_pgp_ext always leaves a name. *)
THEOREM TypeCorrect == Spec => []TypeOK
BY AlwaysIInv, PTL DEF IInv

(* State.browse_target is always the file the confirmation on show named.  *)
THEOREM JobAlwaysUsesNamedFile == Spec => []JobUsesNamedFile
<1>1. IInv => JobUsesNamedFile
  BY DEF IInv, JobOK, JobUsesNamedFile
<1> QED BY <1>1, AlwaysIInv, PTL

-----------------------------------------------------------------------------
(* What a job may write. *)

(* Whatever the input is called and whatever fails, a job leaves its input *)
(* and every other file alone.                                             *)
THEOREM OnlyOutputEverChanges == Spec => OnlyOutputChanges
<1> DEFINE Alone == job # None => Changed \subseteq {JobOutput} \ {job.target}
<1>1. ASSUME IInv, [Next]_vars
      PROVE  [Alone]_vars
  <2> SUFFICES ASSUME Next, job # None
               PROVE  Changed \subseteq {JobOutput} \ {job.target}
    BY <1>1
  <2>1. TypeOK /\ JobOK
    BY <1>1 DEF IInv
  <2>2. \/ UNCHANGED storage
        \/ \E c \in Contents : Write(c)
    <3>1. CASE RunStep
      BY <2>1, <3>1, RunStepWrites
    <3>2. CASE Crash
      BY <3>2, ContentFacts DEF Crash, LeftAsItIs, Contents
    <3>3. CASE OpenBrowser \/ TapFile \/ CancelModal \/ CancelBrowser \/ Confirm \/ ExportKey
      BY <3>3 DEF OpenBrowser, TapFile, CancelModal, CancelBrowser, Confirm, ExportKey
    <3>4. CASE Navigate
      BY <2>1, <3>4, NavigateFacts
    <3> QED BY <3>1, <3>2, <3>3, <3>4 DEF Next, RunStep, Navigate
  <2>3. ASSUME NEW c \in Contents, Write(c)
        PROVE  Changed \subseteq {JobOutput} \ {job.target}
    BY <2>1, <2>3, WriteFacts
  <2>4. CASE UNCHANGED storage
    BY <2>4 DEF Changed
  <2> QED BY <2>2, <2>3, <2>4
<1> QED BY <1>1, AlwaysIInv, PTL DEF Spec, OnlyOutputChanges

-----------------------------------------------------------------------------
(* The keychain's folder is out of reach. *)

Outside ==
    /\ ~InKeychain(at)
    /\ target # None => ~InKeychain(target.at)
    /\ job # None => ~InKeychain(job.target.at)

(* Going up or down keeps the topmost folder, except from the root, where  *)
(* the keychain's is not listed.                                           *)
LEMMA NavigateStaysOutside ==
    ASSUME TypeOK, ~InKeychain(at), Navigate
    PROVE  ~InKeychain(at')
<1>1. at \in Places /\ at.dir \in Seq(Folders)
  BY PlacesAssumption DEF TypeOK
<1>2. CASE ChangeLocation
  BY <1>2 DEF ChangeLocation, Entered, GoTo, Root, InKeychain
<1>3. CASE OpenFolder
  <2>1. PICK folder \in Folders :
            Listed(folder) /\ at' = [at EXCEPT !.dir = Append(@, folder)]
    BY <1>3 DEF OpenFolder, GoTo, Child
  <2>2. at'.loc = at.loc /\ at'.dir = Append(at.dir, folder)
    BY <1>1, <2>1, PlacesAssumption
  <2>3. CASE at.dir = <<>>
    <3>1. at'.dir[1] = folder
      BY <2>2, <2>3
    <3>2. at = [loc |-> at.loc, dir |-> <<>>]
      BY <1>1, <2>3, PlacesAssumption
    <3> QED BY <2>1, <2>2, <3>1, <3>2 DEF Listed, Root, InKeychain
  <2>4. CASE at.dir # <<>>
    <3>1. at'.dir[1] = at.dir[1]
      BY <1>1, <2>2, <2>4
    <3> QED BY <2>2, <2>4, <3>1 DEF InKeychain
  <2> QED BY <2>3, <2>4
<1>4. CASE GoBack
  <2>1. at.dir # <<>> /\ at' = [at EXCEPT !.dir = SubSeq(@, 1, Len(@) - 1)]
    BY <1>4 DEF GoBack, GoTo, Parent
  <2>2. at'.loc = at.loc /\ at'.dir = SubSeq(at.dir, 1, Len(at.dir) - 1)
    BY <1>1, <2>1, PlacesAssumption
  <2>3. at'.dir # <<>> => at'.dir[1] = at.dir[1]
    BY <1>1, <2>1, <2>2
  <2> QED BY <2>1, <2>2, <2>3 DEF InKeychain
<1> QED BY <1>2, <1>3, <1>4 DEF Navigate

LEMMA StepStaysOutside ==
    ASSUME IInv, Outside, [Next]_vars
    PROVE  Outside'
<1>1. TypeOK /\ JobOK
  BY DEF IInv
<1>2. ~InKeychain(Root(User))
  BY DEF Root, InKeychain
<1>3. CASE Navigate
  BY <1>1, <1>3, NavigateFacts, NavigateStaysOutside DEF Outside
<1>4. CASE RunStep
  <2>1. job # None /\ job \in Jobs /\ UNCHANGED <<at, target>>
    BY <1>1, <1>4, RunStepWrites, RunStepControl DEF TypeOK
  <2>2. job' # None => job'.target = job.target
    BY <1>1, <1>4, <2>1, RunStepControl DEF Jobs
  <2> QED BY <2>1, <2>2 DEF Outside
<1>5. CASE TapFile
  BY <1>5 DEF TapFile, Browsing, Staged, Outside
<1>6. CASE OpenBrowser \/ CancelModal \/ CancelBrowser \/ Crash
  BY <1>2, <1>6
  DEF OpenBrowser, CancelModal, CancelBrowser, Browsing, Crash, Outside
<1>7. CASE Confirm
  <2>1. job'.target = target /\ target # None /\ UNCHANGED <<at, target>>
    BY <1>7 DEF Confirm
  <2> QED BY <2>1 DEF Outside
<1>8. CASE ExportKey \/ UNCHANGED vars
  <2>1. UNCHANGED <<at, target, job>>
    BY <1>8 DEF ExportKey, vars
  <2> QED BY <2>1 DEF Outside
<1> QED BY <1>3, <1>4, <1>5, <1>6, <1>7, <1>8 DEF Next, Navigate, RunStep

(* The browser never stands in the keychain's folder, so whatever a job or *)
(* an export writes, the stored keys are only changed by the keychain.     *)
THEOREM KeychainStaysUntouched == Spec => KeychainUntouched
<1> DEFINE Kept == /\ \A p \in Changed : ~InKeychain(p.at)
                   /\ target' # None => ~InKeychain(target'.at)
<1>1. Init => Outside
  BY DEF Init, Outside, Root, InKeychain
<1>2. ASSUME IInv, Outside, Outside', [Next]_vars
      PROVE  [Kept]_vars
  <2>1. TypeOK /\ JobOK
    BY <1>2 DEF IInv
  <2>2. CASE UNCHANGED storage
    BY <1>2, <2>2 DEF Changed, Outside
  <2>3. ASSUME job # None, NEW c \in Contents, Write(c)
        PROVE  Kept
    <3>1. Changed \subseteq {JobOutput}
      BY <2>1, <2>3, WriteFacts
    <3>2. JobOutput.at = job.target.at
      BY <2>1, <2>3, OutputDiffers DEF JobOutput, TypeOK, Jobs
    <3> QED BY <1>2, <2>3, <3>1, <3>2 DEF Outside
  <2>4. ASSUME NEW p \in ExportPaths, NEW w \in BOOLEAN, ExportedKey(p, w)
        PROVE  Kept
    <3>1. Changed \subseteq {p} /\ p.at.dir = <<>>
      BY <2>1, <2>4, ExportedKeyType, InputAssumption
    <3> QED BY <1>2, <3>1 DEF Outside, InKeychain
  <2>5. CASE RunStep
    BY <2>1, <2>2, <2>3, <2>5, RunStepWrites
  <2>6. CASE ExportKey
    BY <2>2, <2>4, <2>6 DEF ExportKey
  <2>7. CASE Crash
    <3>1. Signature(FALSE) \in Contents
      BY ContentFacts DEF Contents
    <3> QED BY <2>2, <2>3, <2>4, <2>7, <3>1 DEF Crash, LeftAsItIs
  <2>8. CASE Navigate
    BY <2>1, <2>2, <2>8, NavigateFacts
  <2>9. CASE OpenBrowser \/ TapFile \/ CancelModal \/ CancelBrowser \/ Confirm
    BY <1>2, <2>2, <2>9 DEF OpenBrowser, TapFile, CancelModal, CancelBrowser, Confirm
  <2>10. CASE UNCHANGED vars
    BY <2>2, <2>10 DEF vars
  <2> QED
    BY <1>2, <2>5, <2>6, <2>7, <2>8, <2>9, <2>10 DEF Next, RunStep, Navigate
<1>3. IInv /\ Outside /\ [Next]_vars => Outside'
  BY StepStaysOutside
<1> QED BY <1>1, <1>2, <1>3, AlwaysIInv, PTL DEF Spec, KeychainUntouched

-----------------------------------------------------------------------------
(* What a success message promises. *)

ToldOK == SuccessMeansWhole /\ (told # None => job = None /\ mode = None)

LEMMA FinishedIsWhole ==
    ASSUME TypeOK, JobOK, Finish
    PROVE  (SuccessMeansWhole)'
<1>1. /\ job # None /\ job.kind # "SignFile" /\ Readable
      /\ Write(Result(TRUE)) /\ told' = JobOutput
      /\ job.kind = "Decrypt" => VerifiedBy(Input) /\ Input.data \notin TooBig
  BY DEF Finish, At, Succeeds, Ends
<1>2. job.kind \in {"Encrypt", "Decrypt"}
  BY <1>1 DEF TypeOK, Jobs, Kinds
<1>3. Result(TRUE) \in Contents
  BY <1>1, <1>2, ResultFacts DEF Contents
<1>4. JobOutput \in DOMAIN storage' /\ storage'[JobOutput] = Result(TRUE)
  BY <1>1, <1>3, WriteFacts
<1>5. Result(TRUE).whole /\ Result(TRUE) # Empty
  BY <1>1, <1>2, ResultFacts, ContentFacts
<1>6. Result(TRUE) \in Plains =>
          Result(TRUE).verified /\ Result(TRUE).data \notin TooBig
  BY <1>1, <1>2, ResultFacts, ContentFacts DEF VerifiedBy
<1> QED BY <1>1, <1>4, <1>5, <1>6 DEF SuccessMeansWhole

LEMMA StepKeepsToldOK ==
    ASSUME IInv, ToldOK, [Next]_vars
    PROVE  ToldOK'
<1>1. TypeOK /\ JobOK
  BY DEF IInv
<1>2. CASE Finish
  <2>1. job' = None /\ mode' = None
    BY <1>2 DEF Finish, Succeeds, Ends
  <2> QED BY <1>1, <1>2, <2>1, FinishedIsWhole DEF ToldOK
<1>3. CASE RunSign
  <2>1. CASE Succeeds /\ Write(Signature(TRUE))
    <3>1. Signature(TRUE) \in Others /\ Signature(TRUE) \in Contents
      BY ContentFacts DEF Contents
    <3>2. /\ JobOutput \in DOMAIN storage' /\ storage'[JobOutput] = Signature(TRUE)
          /\ told' = JobOutput /\ job' = None /\ mode' = None
      BY <1>1, <1>3, <2>1, <3>1, WriteFacts DEF RunSign, Succeeds, Ends
    <3>3. Signature(TRUE).whole /\ Signature(TRUE) \notin Plains \cup {Empty}
      BY <3>1, ContentFacts DEF Signature
    <3> QED BY <3>2, <3>3 DEF ToldOK, SuccessMeansWhole
  <2>2. CASE Fails
    BY <2>2 DEF Fails, Ends, ToldOK, SuccessMeansWhole
  <2> QED BY <1>3, <2>1, <2>2 DEF RunSign
<1>4. CASE ExportKey
  <2>1. CASE told' = None
    BY <2>1 DEF ToldOK, SuccessMeansWhole
  <2>2. ASSUME NEW p \in ExportPaths, ExportedKey(p, TRUE), told' = p
        PROVE  ToldOK'
    <3> DEFINE Key == [type |-> "key", whole |-> TRUE]
    <3>1. told' \in DOMAIN storage' /\ storage'[told'] = Key
      BY <1>1, <2>2, ExportedKeyType
    <3>2. Key.whole /\ Key \notin Plains \cup {Empty}
      BY ContentFacts
    <3>3. job' = None /\ mode' = None
      BY <1>4 DEF ExportKey
    <3> QED BY <3>1, <3>2, <3>3 DEF ToldOK, SuccessMeansWhole
  <2> QED BY <1>4, <2>1, <2>2 DEF ExportKey
<1>5. CASE OpenBrowser \/ Confirm \/ TruncateOutput \/ Crash
  <2>1. told' = None
    BY <1>5 DEF OpenBrowser, Confirm, TruncateOutput, Fails, Ends, Crash
  <2> QED BY <2>1 DEF ToldOK, SuccessMeansWhole
<1>6. CASE OpenFiles \/ Stream \/ Breaks
  <2>1. job # None /\ told' = told
    BY <1>6 DEF OpenFiles, Stream, Breaks, Goto, At
  <2> QED BY <2>1 DEF ToldOK, SuccessMeansWhole
<1>7. CASE Navigate \/ TapFile \/ CancelModal \/ CancelBrowser \/ UNCHANGED vars
  <2>1. /\ UNCHANGED <<storage, job, told>>
        /\ mode' \in {mode, None}
    BY <1>1, <1>7, NavigateFacts DEF TapFile, CancelModal, CancelBrowser, vars
  <2> QED BY <2>1 DEF ToldOK, SuccessMeansWhole
<1> QED BY <1>2, <1>3, <1>4, <1>5, <1>6, <1>7 DEF Next, Navigate

(* A file that a success message names is complete, and was verified if it *)
(* is a decryption, for as long as the message is on show.                 *)
THEOREM SuccessAlwaysMeansWhole == Spec => []SuccessMeansWhole
<1>1. Init => ToldOK
  BY DEF Init, ToldOK, SuccessMeansWhole
<1>2. ToldOK => SuccessMeansWhole
  BY DEF ToldOK
<1> QED BY <1>1, <1>2, StepKeepsToldOK, AlwaysIInv, PTL DEF Spec

-----------------------------------------------------------------------------
(* What a failed decryption leaves behind. *)

Sound(c) == c \in Plains => c.whole /\ c.verified

(* The output of the job that has opened it may hold anything.             *)
Filling(n) ==
    /\ job # None /\ n = JobOutput
    /\ job.kind # "SignFile" /\ job.phase \in {"stream", "cleanup"}

Clean == \A n \in DOMAIN storage : Sound(storage[n]) \/ Filling(n) \/ n \in spoiled

(* A step that writes something sound, or that writes the output of a job  *)
(* which goes on, keeps the storage clean.                                 *)
LEMMA WriteKeepsClean ==
    ASSUME IInv, Clean, job # None, NEW c \in Contents, Write(c),
           spoiled \ {JobOutput} \subseteq spoiled',
           Sound(c) \/ (job' # None /\ \A n : n = JobOutput => Filling(n)')
    PROVE  Clean'
<1>1. TypeOK /\ JobOK
  BY DEF IInv
<1>2. /\ storage'[JobOutput] = c /\ DOMAIN storage' = DOMAIN storage \cup {JobOutput}
      /\ \A n \in DOMAIN storage : n # JobOutput => storage'[n] = storage[n]
  BY <1>1, WriteFacts
<1>3. ASSUME NEW n \in DOMAIN storage', n # JobOutput
      PROVE  Sound(storage[n])' \/ n \in spoiled'
  BY <1>2, <1>3 DEF Clean, Filling, Sound
<1>4. ASSUME NEW n \in DOMAIN storage', n = JobOutput
      PROVE  Sound(storage[n])' \/ Filling(n)'
  BY <1>2, <1>4 DEF Sound
<1> QED BY <1>3, <1>4 DEF Clean

(* So does one that writes nothing, as long as a file that was being       *)
(* filled still is, or is recorded.                                        *)
LEMMA UnchangedKeepsClean ==
    ASSUME Clean, UNCHANGED storage, spoiled \subseteq spoiled',
           \A n \in DOMAIN storage : Filling(n) => Sound(storage[n]) \/ Filling(n)' \/ n \in spoiled'
    PROVE  Clean'
BY DEF Clean, Sound

(* And so does the end of a job that leaves its output as it is.           *)
LEMMA LeftKeepsClean ==
    ASSUME IInv, Clean, LeftAsItIs
    PROVE  Clean'
<1>1. UNCHANGED storage /\ spoiled \subseteq spoiled'
  BY DEF LeftAsItIs
<1>2. ASSUME NEW n \in DOMAIN storage, Filling(n), ~Sound(storage[n])
      PROVE  n \in spoiled'
  <2>1. n \in Unverified /\ n = JobOutput
    BY <1>2 DEF Unverified, Sound, Filling
  <2> QED BY <2>1 DEF LeftAsItIs
<1> QED BY <1>1, <1>2, UnchangedKeepsClean

LEMMA StepKeepsClean ==
    ASSUME IInv, Clean, [Next]_vars
    PROVE  Clean'
<1>1. TypeOK /\ JobOK
  BY DEF IInv
<1>2. Sound(Empty) /\ Empty \in Contents
  BY ContentFacts DEF Sound
<1>3. \A w \in BOOLEAN : Sound(Signature(w)) /\ Signature(w) \in Contents
  BY ContentFacts DEF Sound, Contents
<1>4. ASSUME job # None, Emptied
      PROVE  Clean'
  BY <1>2, <1>4, WriteKeepsClean DEF Emptied
<1>5. CASE RunSign
  <2>1. CASE UNCHANGED storage
    BY <1>5, <2>1, UnchangedKeepsClean DEF RunSign, Filling
  <2>2. CASE Write(Signature(TRUE)) \/ Write(Signature(FALSE))
    BY <1>3, <1>5, <2>2, WriteKeepsClean DEF RunSign
  <2> QED BY <1>5, <2>1, <2>2 DEF RunSign
<1>6. CASE OpenFiles
  <2>1. CASE Emptied
    BY <1>4, <1>6, <2>1 DEF OpenFiles, At
  <2>2. CASE UNCHANGED <<storage, spoiled>>
    BY <1>6, <2>2, UnchangedKeepsClean DEF OpenFiles, At, Filling
  <2> QED BY <1>6, <2>1, <2>2 DEF OpenFiles
<1>7. CASE Stream
  <2>1. Result(FALSE) \in Contents
    BY <1>1, <1>7, ResultFacts DEF Stream, At, Contents, TypeOK, Jobs, Kinds
  <2>2. job' # None /\ \A n : n = JobOutput => Filling(n)'
    BY <1>7 DEF Stream, At, Filling, JobOutput
  <2>3. job # None /\ Write(Result(FALSE)) /\ UNCHANGED spoiled
    BY <1>7 DEF Stream, At
  <2> QED BY <2>1, <2>2, <2>3, WriteKeepsClean
<1>8. CASE Breaks
  <2>1. /\ job # None /\ job \in Jobs /\ job.phase = "stream"
        /\ job' = [job EXCEPT !.phase = "cleanup"]
    BY <1>1, <1>8 DEF Breaks, Goto, At, TypeOK
  <2>2. /\ job'.kind = job.kind /\ job'.target = job.target
        /\ job'.phase = "cleanup" /\ job' # None
    BY <2>1, InputAssumption DEF Jobs
  <2>3. \A n : Filling(n) => Filling(n)'
    BY <2>2 DEF Filling, JobOutput
  <2> QED BY <1>8, <2>3, UnchangedKeepsClean DEF Breaks
<1>9. CASE Finish
  <2>1. /\ job # None /\ job.kind # "SignFile" /\ Readable /\ Write(Result(TRUE))
        /\ UNCHANGED spoiled
        /\ job.kind = "Decrypt" => VerifiedBy(Input)
    BY <1>9 DEF Finish, At
  <2>2. job.kind \in {"Encrypt", "Decrypt"}
    BY <1>1, <2>1 DEF TypeOK, Jobs, Kinds
  <2>3. Result(TRUE) \in Contents
    BY <1>1, <2>1, <2>2, ResultFacts DEF Contents
  <2>4. Sound(Result(TRUE))
    BY <1>1, <2>1, <2>2, ResultFacts, ContentFacts DEF Sound, VerifiedBy
  <2> QED BY <2>1, <2>3, <2>4, WriteKeepsClean
<1>10. CASE TruncateOutput
  BY <1>4, <1>10, LeftKeepsClean DEF TruncateOutput, CleanedUp, At
<1>11. ASSUME job = None, NEW p \in ExportPaths, NEW w \in BOOLEAN, ExportedKey(p, w),
              UNCHANGED spoiled
       PROVE  Clean'
  <2>1. Sound([type |-> "key", whole |-> w])
    BY ContentFacts DEF Sound
  <2>2. \A n \in DOMAIN storage : Sound(storage[n]) \/ n \in spoiled
    BY <1>11 DEF Clean, Filling
  <2>3. /\ DOMAIN storage' = DOMAIN storage \cup {p}
        /\ storage'[p] = [type |-> "key", whole |-> w]
        /\ \A n \in DOMAIN storage : n # p => storage'[n] = storage[n]
    BY <1>1, <1>11, ExportedKeyType
  <2>4. ASSUME NEW n \in DOMAIN storage' PROVE Sound(storage'[n]) \/ n \in spoiled'
    <3>1. CASE n = p
      BY <2>1, <2>3, <3>1
    <3>2. CASE n # p
      BY <1>11, <2>2, <2>3, <3>2
    <3> QED BY <3>1, <3>2
  <2>5. \A n : Sound(storage'[n]) => Sound(storage[n])'
    BY DEF Sound
  <2> QED BY <2>4, <2>5 DEF Clean
<1>12. CASE ExportKey
  <2>1. job = None /\ UNCHANGED spoiled
    BY <1>12 DEF ExportKey
  <2>2. CASE UNCHANGED storage
    BY <2>1, <2>2, UnchangedKeepsClean DEF Filling
  <2> QED BY <1>11, <1>12, <2>1, <2>2 DEF ExportKey
<1>13. CASE OpenBrowser \/ Navigate \/ TapFile \/ CancelModal \/ CancelBrowser \/ Confirm
  <2>1. job = None /\ UNCHANGED <<storage, spoiled>>
    BY <1>1, <1>13, NavigateFacts
    DEF OpenBrowser, Browsing, TapFile, CancelModal, CancelBrowser, Confirm, JobOK
  <2> QED BY <2>1, UnchangedKeepsClean DEF Filling
<1>14. CASE Crash
  <2>1. CASE LeftAsItIs
    BY <2>1, LeftKeepsClean
  <2>2. CASE job # None /\ Write(Signature(FALSE)) /\ UNCHANGED spoiled
    BY <1>3, <2>2, WriteKeepsClean
  <2>3. CASE job = None /\ UNCHANGED <<storage, spoiled>>
    BY <2>3, UnchangedKeepsClean DEF Filling
  <2>4. ASSUME job = None, NEW p \in ExportPaths, ExportedKey(p, FALSE), UNCHANGED spoiled
        PROVE  Clean'
    BY <1>11, <2>4
  <2> QED BY <1>14, <2>1, <2>2, <2>3, <2>4 DEF Crash
<1>15. CASE UNCHANGED vars
  BY <1>15, UnchangedKeepsClean DEF vars, Filling, JobOutput
<1> QED
  BY <1>5, <1>6, <1>7, <1>8, <1>9, <1>10, <1>12, <1>13, <1>14, <1>15 DEF Next, Navigate

(* Whatever fails and whenever power is lost, plaintext that was not       *)
(* verified is left only by a job that was cut off or could not empty its  *)
(* output.                                                                 *)
THEOREM OnlyVerifiedPlaintextStays == Spec => []OnlyVerifiedPlaintext
<1>1. Init => Clean
  BY InputAssumption DEF Init, Clean, Sound
<1>2. Clean => OnlyVerifiedPlaintext
  BY DEF Clean, Sound, Filling, OnlyVerifiedPlaintext, Unverified
<1>3. IInv /\ Clean /\ [Next]_vars => Clean'
  BY StepKeepsClean
<1> QED BY <1>1, <1>2, <1>3, AlwaysIInv, PTL DEF Spec
=============================================================================
