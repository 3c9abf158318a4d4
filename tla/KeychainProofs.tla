--------------------------- MODULE KeychainProofs ---------------------------
(***************************************************************************)
(* Proofs about Keychain for every set of keys, files, passphrases, import *)
(* files, initial disks and faults; and that it implements KeyVault,       *)
(* whichever writes fail and whenever the app is killed, if reading does   *)
(* not fail and the stored files first have the names that save_key gives  *)
(* them.                                                                   *)
(***************************************************************************)
EXTENDS KeychainRefines, TLAPS

(* What a pending job says about the screen it was started from.           *)
JobOK ==
    job # None =>
        /\ job.shown = current
        /\ job.kind = "Create" => screen = "create"
        /\ job.kind \in KeyModes \cup {"Checksum"}
               => screen = "browser" /\ mode = job.kind

(* What a callback inside its writes says about the rest of the state.     *)
HandlerOK ==
    handler # None =>
        /\ current = None /\ job = None
        /\ handler.at > 1 => handler.first # None
        /\ handler.op = "Import" => screen = "browser" /\ mode = "Import"
        /\ handler.op = "Create" => screen = "create"
        /\ handler.op \in {"Edit", "Repass"} =>
               /\ screen = "detail"
               /\ handler.at = 1 /\ Len(handler.keys) = 1
               /\ handler.keys[1].secret
        /\ handler.op = "Repass" =>
               detail # None /\ detail.view = View(handler.keys[1])

IInv ==
    /\ TypeOK
    /\ OpenKeyIsStored
    /\ DetailShowsOpenKey
    /\ OpenKeyHasScreen
    /\ OverlayCoversWork
    /\ JobOK
    /\ HandlerOK

-----------------------------------------------------------------------------
(* A sequence of one element, as Begin and TakeFor build it.               *)
LEMMA OneElement ==
    ASSUME NEW S, NEW x \in S
    PROVE  /\ <<x>> \in Seq(S) \ {<<>>}
           /\ Len(<<x>>) = 1
           /\ <<x>>[1] = x
  OBVIOUS

(* A sequence that is not empty has a first position to write.             *)
LEMMA SomeElement ==
    ASSUME NEW S, NEW s \in Seq(S) \ {<<>>}
    PROVE  Len(s) \in Nat /\ Len(s) >= 1
  OBVIOUS

(* Begin starts a handler of the right type.                               *)
LEMMA BeginType ==
    ASSUME NEW op \in {"Import", "Create", "Edit", "Repass"},
           NEW keys \in Seq(Copies) \ {<<>>}
    PROVE  /\ Begin(op, keys) \in Handlers
           /\ Begin(op, keys) # None
           /\ Begin(op, keys).op = op
           /\ Begin(op, keys).keys = keys
           /\ Begin(op, keys).at = 1
  BY SentinelAssumption DEF Begin, Handlers

(* What load_key returns is a stored certificate or nothing.               *)
LEMMA LoadType ==
    ASSUME TypeOK, NEW f \in Files, NEW c \in LoadResults(f)
    PROVE  c = None \/ (c \in Copies /\ c # None /\ c = disk[f])
  BY SentinelAssumption DEF LoadResults, TypeOK, Contents

LEMMA ListingType ==
    ASSUME NEW d \in [Files -> Contents], NEW l \in Listings(d)
    PROVE  l \in SUBSET Rows
  <1>1. StoredRows(d) \subseteq Rows
    BY DEF StoredRows, Rows, View, Views, Copies
  <1> QED BY <1>1 DEF Listings

LEMMA InitInv == Init => IInv
  <1> SUFFICES ASSUME Init PROVE IInv
    OBVIOUS
  <1>1. TypeOK
    BY ListingType, InputAssumption DEF Init, TypeOK, Screens, Modes
  <1> QED
    BY <1>1 DEF Init, IInv, OpenKeyIsStored, DetailShowsOpenKey,
        OpenKeyHasScreen, OverlayCoversWork, JobOK, HandlerOK

(* The certificate being written and the file it goes to.                  *)
LEMMA WritingType ==
    ASSUME TypeOK, Writing
    PROVE  InHand \in Copies /\ Target \in Files
  <1>1. handler \in Handlers /\ handler.at \in 1 .. Len(handler.keys)
    BY DEF TypeOK, Writing, Handlers
  <1>2. handler.keys \in Seq(Copies)
    BY <1>1 DEF Handlers
  <1>3. InHand \in Copies
    BY <1>1, <1>2 DEF InHand
  <1> QED
    BY <1>3, FileOfAssumption DEF Target, Copies

(* What an interrupted save can leave is a disk.                           *)
LEMMA InterruptedType ==
    ASSUME TypeOK, Writing, NEW d \in InterruptedSaves
    PROVE  d \in [Files -> Contents]
  BY WritingType DEF InterruptedSaves, TypeOK, Contents

(* Advance moves on to the next certificate and remembers the first file.  *)
LEMMA AdvanceType ==
    ASSUME TypeOK, Writing, Advance
    PROVE  /\ handler' \in Handlers /\ handler' # None
           /\ handler'.op = handler.op
           /\ handler'.keys = handler.keys
           /\ handler'.first # None
  <1>1. handler \in Handlers /\ Target \in Files
    BY WritingType DEF TypeOK, Writing
  <1> DEFINE first == IF handler.first = None THEN Target ELSE handler.first
  <1>2. first \in Files
    BY <1>1 DEF Handlers
  <1>3. handler.at + 1 \in Nat \ {0}
    BY <1>1 DEF Handlers
  <1>4. handler' = [handler EXCEPT !.at = handler.at + 1, !.first = first]
    BY DEF Advance
  <1> HIDE DEF first
  <1>5. /\ handler' \in Handlers
        /\ handler'.op = handler.op
        /\ handler'.keys = handler.keys
        /\ handler'.first = first
    BY <1>1, <1>2, <1>3, <1>4 DEF Handlers
  <1> QED
    BY <1>2, <1>5, SentinelAssumption

(* An operation that refuses puts back what the file holds, which is what  *)
(* was open.                                                               *)
LEMMA RestoreInv ==
    ASSUME IInv, CanEdit, RestoreCurrent,
           UNCHANGED <<disk, detail, list, screen, mode, busy, job>>
    PROVE  IInv'
  <1> USE SentinelAssumption
      DEF IInv, TypeOK, OpenKeyIsStored, DetailShowsOpenKey,
          OpenKeyHasScreen, OverlayCoversWork, JobOK, HandlerOK
  <1>1. job = None /\ handler' = None /\ screen = "detail"
    BY DEF CanEdit, Tap, RestoreCurrent
  <1>2. current.file \in Files
    BY DEF CanEdit, Opened
  <1>3. PICK c \in LoadResults(current.file) :
            current' = IF c = None THEN None
                       ELSE [file |-> current.file, key |-> c]
    BY DEF RestoreCurrent, Restored
  <1>4. CASE c = None
    BY <1>1, <1>3, <1>4
  <1>5. CASE c # None
    <2>1. c = current.key
      BY <1>2, <1>5, LoadType DEF CanEdit
    <2>2. current' = current
      BY <1>3, <1>5, <2>1 DEF CanEdit, Opened
    <2> QED BY <1>1, <2>2
  <1> QED BY <1>4, <1>5

(* Taking the open certificate out of the state starts a handler that      *)
(* knows which screen it came from and, for a new passphrase, that the     *)
(* detail screen need not be redrawn.                                      *)
LEMMA TakeInv ==
    ASSUME IInv, CanEdit,
           NEW op \in {"Edit", "Repass"}, NEW new \in Copies,
           new.secret, op = "Repass" => View(new) = View(current.key),
           TakeFor(op, new),
           UNCHANGED <<disk, detail, list, screen, mode, busy, job>>
    PROVE  IInv'
  <1> DEFINE keys == <<new>>
  <1>1. keys \in Seq(Copies) \ {<<>>} /\ Len(keys) = 1 /\ keys[1] = new
    BY OneElement
  <1>2. op \in {"Import", "Create", "Edit", "Repass"}
    OBVIOUS
  <1>3. handler' = Begin(op, keys)
    BY DEF TakeFor
  <1> HIDE DEF keys
  <1>4. /\ handler' \in Handlers /\ handler' # None
        /\ handler'.op = op /\ handler'.at = 1
        /\ handler'.keys = keys
    BY <1>1, <1>2, <1>3, BeginType
  <1> USE SentinelAssumption
      DEF IInv, TypeOK, OpenKeyIsStored, DetailShowsOpenKey,
          OpenKeyHasScreen, OverlayCoversWork, JobOK, HandlerOK
  <1>5. job = None /\ screen = "detail" /\ current' = None /\ ~busy
    BY DEF CanEdit, Tap, TakeFor
  <1>6. op = "Repass" => detail # None /\ detail.view = View(new)
    BY DEF CanEdit
  <1> QED BY <1>1, <1>4, <1>5, <1>6

LEMMA NextInv == IInv /\ [Next]_vars => IInv'
  <1> SUFFICES ASSUME IInv, [Next]_vars PROVE IInv'
    OBVIOUS
  <1> USE SentinelAssumption
      DEF IInv, TypeOK, OpenKeyIsStored, DetailShowsOpenKey,
          OpenKeyHasScreen, OverlayCoversWork, JobOK, HandlerOK
  <1>1. CASE TapRow
    BY <1>1, LoadType
    DEF TapRow, OpenKey, Tap, Screens, View, Views, Rows, Opened, Copies
  <1>2. CASE CloseDetail
    BY <1>2, ListingType DEF CloseDetail, Closed, Tap, Screens
  <1>3. CASE \E m \in Modes : OpenBrowser(m)
    BY <1>3 DEF OpenBrowser, Tap, Screens, ReturnScreen, KeyModes, Modes
  <1>4. CASE CancelImport
    BY <1>4, ListingType
    DEF CancelImport, Refreshed, Tap, Screens, ReturnScreen, KeyModes, Modes
  <1>5. CASE ShowCreate
    BY <1>5 DEF ShowCreate, Tap, Screens
  <1>6. CASE CancelCreate
    BY <1>6, ListingType DEF CancelCreate, Tap, Screens
  <1>7. CASE ImportEntry
    BY <1>7, BeginType, InputAssumption DEF ImportEntry, Tap, KeyModes
  <1>8. CASE DeleteKey
    BY <1>8, ListingType DEF DeleteKey, Tap, Contents, Screens
  <1>9. CASE \E p \in Passes : EditKey(p)
    <2>1. CanEdit /\ UNCHANGED <<disk, detail, list, screen, mode, busy, job>>
      BY <1>9 DEF EditKey
    <2>2. CASE RestoreCurrent
      BY <2>1, <2>2, RestoreInv
    <2>3. CASE current.key.rev < MaxRev
               /\ TakeFor("Edit", [current.key EXCEPT !.rev = @ + 1])
      <3>1. [current.key EXCEPT !.rev = @ + 1] \in Copies
            /\ [current.key EXCEPT !.rev = @ + 1].secret
        BY <2>1, <2>3, InputAssumption DEF CanEdit, Opened, Copies
      <3> QED BY <2>1, <2>3, <3>1, TakeInv
    <2> QED BY <1>9, <2>2, <2>3 DEF EditKey
  <1>10. CASE \E p, q \in Passes : ChangePassphrase(p, q)
    <2>1. CanEdit /\ UNCHANGED <<disk, detail, list, screen, mode, busy, job>>
      BY <1>10 DEF ChangePassphrase
    <2>2. CASE RestoreCurrent
      BY <2>1, <2>2, RestoreInv
    <2>3. CASE \E q \in Passes :
                   TakeFor("Repass", [current.key EXCEPT !.pass = q])
      <3>1. PICK q \in Passes :
                TakeFor("Repass", [current.key EXCEPT !.pass = q])
        BY <2>3
      <3>2. /\ [current.key EXCEPT !.pass = q] \in Copies
            /\ [current.key EXCEPT !.pass = q].secret
            /\ View([current.key EXCEPT !.pass = q]) = View(current.key)
        BY <2>1 DEF CanEdit, Opened, Copies, View
      <3> QED BY <2>1, <3>1, <3>2, TakeInv
    <2> QED BY <1>10, <2>2, <2>3 DEF ChangePassphrase
  <1>11. CASE \E p \in Passes : \/ RequestCreate(p)
                                \/ RequestFileJob(p)
                                \/ RequestSignQr(p)
    <2> PICK kind \in KeyModes \cup {"Create", "Checksum", "SignQr"},
             p \in Passes :
                 /\ Arm(kind, p) /\ ~busy /\ handler = None
                 /\ kind = "Create" => screen = "create"
                 /\ kind \in KeyModes \cup {"Checksum"}
                        => screen = "browser" /\ mode = kind
      BY <1>11
      DEF RequestCreate, RequestFileJob, RequestSignQr, Tap, Modes, KeyModes
    <2>1. job' \in Jobs /\ job' # None /\ job'.kind = kind
          /\ job'.shown = current
      BY DEF Arm, Jobs
    <2> QED BY <2>1 DEF Arm
  <1>12. CASE SaveNewKey
    <2>1. Writing /\ Advance /\ handler.op \in {"Import", "Create"}
      BY <1>12 DEF SaveNewKey
    <2>2. disk' \in [Files -> Contents]
      BY <1>12, <2>1, WritingType DEF SaveNewKey, Contents
    <2> QED
      BY <1>12, <2>1, <2>2, AdvanceType DEF SaveNewKey, Writing
  <1>13. CASE KeepStoredSecret
    <2>1. Writing /\ Advance /\ handler.op = "Import"
      BY <1>13 DEF KeepStoredSecret
    <2> QED
      BY <1>13, <2>1, AdvanceType DEF KeepStoredSecret, Writing
  <1>14. CASE ShowNewKey
    <2>1. handler.first \in Files /\ handler.at > 1
      BY <1>14, SomeElement DEF ShowNewKey, Handlers
    <2>2. list' \in SUBSET Rows
      BY <1>14, ListingType DEF ShowNewKey
    <2>3. ~(handler.op \in {"Edit", "Repass"})
      BY <2>1, <1>14 DEF ShowNewKey
    <2>4. job = None /\ current = None
      BY <1>14 DEF ShowNewKey
    <2>5. PICK c \in LoadResults(handler.first) :
              IF c = None
              THEN UNCHANGED <<current, detail, screen>>
              ELSE /\ current' = [file |-> handler.first, key |-> c]
                   /\ detail' = [file |-> handler.first, view |-> View(c)]
                   /\ screen' = "detail"
      BY <1>14 DEF ShowNewKey, OpenKey
    <2>6. CASE c = None
      BY <1>14, <2>2, <2>4, <2>5, <2>6 DEF ShowNewKey
    <2>7. CASE c # None
      <3>1. c \in Copies /\ c = disk[handler.first]
        BY <2>1, <2>7, LoadType
      <3>2. current' \in Opened /\ detail' \in Rows /\ screen' \in Screens
        BY <2>1, <2>5, <2>7, <3>1
        DEF Opened, Rows, Views, View, Copies, Screens
      <3>3. /\ current'.file = handler.first /\ current'.key = c
            /\ detail'.view = View(c) /\ screen' = "detail"
        BY <2>5, <2>7
      <3>4. /\ disk' = disk /\ mode' = mode /\ job' = None
            /\ busy' = FALSE /\ handler' = None
        BY <1>14, <2>4 DEF ShowNewKey
      <3> QED
        BY <2>2, <3>1, <3>2, <3>3, <3>4
    <2> QED BY <2>6, <2>7
  <1>15. CASE PersistCurrent
    <2>1. Writing /\ handler.op \in {"Edit", "Repass"} /\ handler.at = 1
      BY <1>15 DEF PersistCurrent, Writing
    <2>2. InHand \in Copies /\ Target \in Files /\ InHand = handler.keys[1]
      BY <2>1, WritingType DEF InHand
    <2>3. disk' \in [Files -> Contents] /\ disk'[Target] = InHand
      BY <1>15, <2>2 DEF PersistCurrent, Contents
    <2>4. current' \in Opened /\ current'.key = InHand /\ current'.file = Target
      BY <1>15, <2>2 DEF PersistCurrent, Opened
    <2>5. detail' \in Rows /\ detail'.view = View(InHand)
      BY <1>15, <2>1, <2>2
      DEF PersistCurrent, RedrawnBy, Rows, Views, View, Copies, Writing
    <2> QED
      BY <1>15, <2>1, <2>3, <2>4, <2>5 DEF PersistCurrent, Writing
  <1>16. CASE SaveFails
    <2>1. disk' \in [Files -> Contents]
      BY <1>16, InterruptedType DEF SaveFails, Fail
    <2> QED
      BY <1>16, <2>1 DEF SaveFails, Fail, Writing
  <1>17. CASE RunCreate
    <2>1. screen = "create" /\ current = None /\ busy /\ job' = None
      BY <1>17 DEF RunCreate, Fires
    <2>2. CASE handler' = None /\ busy' = FALSE
      BY <1>17, <2>1, <2>2 DEF RunCreate
    <2>3. CASE busy' = busy /\ \E k \in Generated : handler' = Begin("Create",
                <<[id |-> k, secret |-> TRUE, rev |-> 0, pass |-> job.pass]>>)
      <3>1. PICK k \in Keys : handler' = Begin("Create",
                <<[id |-> k, secret |-> TRUE, rev |-> 0, pass |-> job.pass]>>)
        BY <2>3, InputAssumption DEF Generated
      <3> DEFINE c == [id |-> k, secret |-> TRUE, rev |-> 0, pass |-> job.pass]
      <3>2. c \in Copies
        BY <1>17, InputAssumption DEF RunCreate, Fires, Jobs, Copies
      <3>3. <<c>> \in Seq(Copies) \ {<<>>}
        BY <3>2, OneElement
      <3> HIDE DEF c
      <3>4. handler' \in Handlers /\ handler'.op = "Create" /\ handler'.at = 1
        BY <3>1, <3>3, BeginType DEF c
      <3> QED
        BY <1>17, <2>1, <2>3, <3>4 DEF RunCreate
    <2> QED BY <1>17, <2>2, <2>3 DEF RunCreate, CreateFails
  <1>18. CASE RunFileJob
    BY <1>18 DEF RunFileJob, Fires, KeyModes, Screens, Modes
  <1>19. CASE RunChecksum
    BY <1>19 DEF RunChecksum, Fires, KeyModes, Screens, Modes
  <1>20. CASE RunSignQr
    BY <1>20 DEF RunSignQr, Fires
  <1>21. CASE Crash
    <2>1. disk' \in [Files -> Contents]
      BY <1>21, InterruptedType DEF Crash
    <2> QED
      BY <1>21, <2>1, ListingType DEF Crash, Screens, Modes
  <1>22. CASE UNCHANGED vars
    BY <1>22 DEF vars, Tap
  <1> QED
    BY <1>1, <1>2, <1>3, <1>4, <1>5, <1>6, <1>7, <1>8, <1>9, <1>10, <1>11,
       <1>12, <1>13, <1>14, <1>15, <1>16, <1>17, <1>18, <1>19, <1>20, <1>21,
       <1>22
    DEF Next, User, Running, Timer

(* The inductive invariant holds in every behaviour.                       *)
LEMMA InvHolds == Spec => []IInv
  BY InitInv, NextInv, PTL DEF Spec

(* Every variable keeps its type.                                          *)
THEOREM TypeCorrect == Spec => []TypeOK
  <1>1. IInv => TypeOK
    BY DEF IInv
  <1> QED BY <1>1, InvHolds, PTL

(* Whatever is imported, edited or deleted, whatever fails to be read or   *)
(* written and wherever the app is killed, the certificate held open is    *)
(* the one its file holds.                                                 *)
THEOREM OpenKeyIsAlwaysStored == Spec => []OpenKeyIsStored
  <1>1. IInv => OpenKeyIsStored
    BY DEF IInv
  <1> QED BY <1>1, InvHolds, PTL

(* The detail screen shows the certificate its buttons act on, although a  *)
(* new passphrase does not redraw it.                                      *)
THEOREM DetailAlwaysShowsOpenKey == Spec => []DetailShowsOpenKey
  <1>1. IInv => DetailShowsOpenKey
    BY DEF IInv
  <1> QED BY <1>1, InvHolds, PTL

(* A job started later by a timer finds the certificate its request named. *)
THEOREM JobAlwaysUsesShownKey == Spec => []JobUsesShownKey
  <1>1. IInv => JobUsesShownKey
    BY DEF IInv, JobOK, JobUsesShownKey
  <1> QED BY <1>1, InvHolds, PTL

(* The busy overlay is up exactly while there is work to lower it.         *)
THEOREM OverlayAlwaysCoversWork == Spec => []OverlayCoversWork
  <1>1. IInv => OverlayCoversWork
    BY DEF IInv
  <1> QED BY <1>1, InvHolds, PTL

-----------------------------------------------------------------------------
(* If reading does not fail, stored secret material is never replaced by a *)
(* public copy: by an import in whatever order, an edit, a save that fails *)
(* half way or a crash inside one.                                         *)
THEOREM NeverDowngrades ==
    ASSUME "read" \notin Faults
    PROVE  Spec => NeverDowngrade
  <1> DEFINE Keeps(d) == \A f \in Files :
                 disk[f] \in Copies /\ d[f] \in Copies /\ disk[f].secret
                     => d[f].secret
  <1>1. ASSUME IInv, Writing, ReachesSave, NEW d \in InterruptedSaves
        PROVE  Keeps(d)
    <2>1. InHand.secret \/ disk[Target] \notin Copies \/ ~disk[Target].secret
      <3>1. CASE disk[Target] \in Copies
        <4>1. LoadResults(Target) = {disk[Target]} /\ disk[Target] # None
          BY <3>1, SentinelAssumption DEF LoadResults
        <4> QED BY <1>1, <4>1 DEF ReachesSave
      <3> QED BY <3>1
    <2>2. CASE d = disk
      BY <2>2
    <2>3. CASE d = [disk EXCEPT ![Target] = Torn]
      BY <1>1, <2>3, SentinelAssumption DEF IInv, TypeOK
    <2>4. CASE d = [disk EXCEPT ![Target] = InHand]
      BY <1>1, <2>1, <2>4 DEF IInv, TypeOK
    <2> QED BY <1>1, <2>2, <2>3, <2>4 DEF InterruptedSaves
  <1>2. ASSUME IInv, [Next]_vars
        PROVE  Keeps(disk')
    <2>1. CASE SaveNewKey
      BY <1>1, <1>2, <2>1 DEF SaveNewKey, InterruptedSaves
    <2>2. CASE PersistCurrent
      <3>1. InHand.secret
        BY <1>2, <2>2 DEF IInv, HandlerOK, PersistCurrent, Writing, InHand
      <3> QED BY <1>1, <1>2, <2>2, <3>1 DEF PersistCurrent, InterruptedSaves, ReachesSave
    <2>3. CASE SaveFails
      BY <1>1, <1>2, <2>3 DEF SaveFails, Fail
    <2>4. CASE Crash
      BY <1>1, <1>2, <2>4 DEF Crash
    <2>5. CASE DeleteKey
      BY <1>2, <2>5, SentinelAssumption DEF DeleteKey, IInv, TypeOK
    <2>6. CASE UNCHANGED disk
      BY <2>6
    <2> QED
      BY <1>2, <2>1, <2>2, <2>3, <2>4, <2>5, <2>6
      DEF Next, User, Running, Timer, vars, TapRow, CloseDetail, OpenBrowser,
          CancelImport, ShowCreate, CancelCreate, ImportEntry, EditKey,
          ChangePassphrase, RequestCreate, RequestFileJob, RequestSignQr, Arm,
          KeepStoredSecret, ShowNewKey, RunCreate, RunFileJob, RunChecksum,
          RunSignQr
  <1> QED BY <1>2, InvHolds, PTL DEF Spec, NeverDowngrade

-----------------------------------------------------------------------------
(* Freshness is inductive once it also covers the checksum browser, whose  *)
(* success path goes back to the list without scanning /pgp-keys again.    *)
Fresh ==
    "read" \notin Faults
    /\ (screen = "list" \/ (screen = "browser" /\ mode = "Checksum"))
        => list = StoredRows(disk)

LEMMA NextFresh == IInv /\ Fresh /\ [Next]_vars => Fresh'
  <1> SUFFICES ASSUME IInv, Fresh, [Next]_vars, "read" \notin Faults,
                      screen' = "list"
                        \/ (screen' = "browser" /\ mode' = "Checksum")
               PROVE  list' = StoredRows(disk')
    BY DEF Fresh, StoredRows, View
  <1>1. \A d : Listings(d) = {StoredRows(d)}
    BY DEF Listings
  <1>2. CASE CloseDetail \/ CancelCreate
    BY <1>1, <1>2 DEF CloseDetail, CancelCreate
  <1>3. CASE DeleteKey \/ Crash
    BY <1>1, <1>3 DEF DeleteKey, Crash
  <1>4. CASE CancelImport
    BY <1>1, <1>4 DEF CancelImport, Refreshed
  <1>5. CASE ShowNewKey
    BY <1>1, <1>5 DEF ShowNewKey
  <1>6. CASE \E m \in Modes : OpenBrowser(m)
    BY <1>6 DEF Fresh, OpenBrowser, Tap, ReturnScreen, KeyModes
  <1>7. CASE TapRow \/ ShowCreate \/ ImportEntry
    BY <1>7 DEF Fresh, TapRow, ShowCreate, ImportEntry, OpenKey
  <1>8. CASE \E p, q \in Passes : \/ EditKey(p) \/ ChangePassphrase(p, q)
                                  \/ RequestCreate(p) \/ RequestFileJob(p)
                                  \/ RequestSignQr(p)
    BY <1>8
    DEF Fresh, EditKey, ChangePassphrase, RequestCreate, RequestFileJob,
        RequestSignQr, Arm
  <1>9. CASE SaveNewKey \/ KeepStoredSecret \/ PersistCurrent \/ SaveFails
    <2>1. screen' = screen /\ mode' = mode /\ handler # None
          /\ handler.op \in {"Import", "Create", "Edit", "Repass"}
      BY <1>9
      DEF SaveNewKey, KeepStoredSecret, PersistCurrent, SaveFails, Writing,
          IInv, TypeOK, Handlers
    <2> QED BY <2>1 DEF IInv, HandlerOK
  <1>10. CASE RunCreate \/ RunFileJob \/ RunSignQr
    BY <1>10 DEF Fresh, RunCreate, RunFileJob, RunSignQr
  <1>11. CASE RunChecksum
    BY <1>11 DEF Fresh, RunChecksum, Fires, IInv, JobOK
  <1>12. CASE UNCHANGED vars
    BY <1>12 DEF Fresh, vars
  <1> QED
    BY <1>2, <1>3, <1>4, <1>5, <1>6, <1>7, <1>8, <1>9, <1>10, <1>11, <1>12
    DEF Next, User, Running, Timer

(* If reading does not fail, the home list is exactly what is stored: no   *)
(* way back to it misses a certificate that an interrupted import or edit  *)
(* has written, or keeps one that is gone.                                 *)
THEOREM ListIsAlwaysFresh == Spec => []ListIsFresh
  <1>1. Init => Fresh
    BY DEF Init, Fresh, Listings
  <1>2. Fresh => ListIsFresh
    BY DEF Fresh, ListIsFresh
  <1> QED BY <1>1, <1>2, InvHolds, NextFresh, PTL DEF Spec

-----------------------------------------------------------------------------
(* No certificate is held open beneath a screen that imports or creates.   *)
THEOREM OpenKeyAlwaysHasScreen == Spec => []OpenKeyHasScreen
  <1>1. IInv => OpenKeyHasScreen
    BY DEF IInv
  <1> QED BY <1>1, InvHolds, PTL

(* Nothing is open on the list, the create form and the import browser.    *)
LEMMA NothingOpen ==
    ASSUME IInv, \/ screen \in {"list", "create"}
                 \/ screen = "browser" /\ mode \notin KeyModes
    PROVE  current = None
  BY DEF IInv, OpenKeyHasScreen

(* A refused operation finds the certificate it took in its file.          *)
LEMMA RestoreFinds ==
    ASSUME IInv, CanEdit, "read" \notin Faults, RestoreCurrent
    PROVE  current' # None
  <1>1. current \in Opened /\ disk[current.file] = current.key
    BY DEF CanEdit, IInv, TypeOK, OpenKeyIsStored
  <1>2. current.key \in Copies /\ current.key # None
    BY <1>1, SentinelAssumption DEF Opened
  <1>3. LoadResults(current.file) = {current.key}
    BY <1>1, <1>2 DEF LoadResults
  <1>4. current' = [file |-> current.file, key |-> current.key]
    BY <1>2, <1>3 DEF RestoreCurrent, Restored
  <1>5. current' \in Opened
    BY <1>1, <1>4 DEF Opened
  <1> QED BY <1>5, SentinelAssumption

(* What an edit or a change of the passphrase hands to its handler.        *)
LEMMA EditedType ==
    ASSUME IInv, CanEdit
    PROVE  /\ current \in Opened /\ current.key \in Copies
           /\ current.key.rev < MaxRev =>
                  [current.key EXCEPT !.rev = @ + 1] \in Copies
           /\ \A q \in Passes : [current.key EXCEPT !.pass = q] \in Copies
  <1>1. current \in Opened /\ current.key \in Copies
    BY DEF CanEdit, IInv, TypeOK, Opened
  <1> QED BY <1>1, InputAssumption DEF Copies

LEMMA TakeHandler ==
    ASSUME NEW op \in {"Edit", "Repass"}, NEW new \in Copies, TakeFor(op, new)
    PROVE  /\ handler' # None /\ handler'.op = op
           /\ handler'.keys[1] = new
  <1> DEFINE keys == <<new>>
  <1>1. keys \in Seq(Copies) \ {<<>>} /\ keys[1] = new
    BY OneElement
  <1>2. handler' = Begin(op, keys)
    BY DEF TakeFor
  <1> HIDE DEF keys
  <1>3. op \in {"Import", "Create", "Edit", "Repass"}
    OBVIOUS
  <1> QED BY <1>1, <1>2, <1>3, BeginType

(* Where reading does not fail, only a save that failed leaves the detail   *)
(* screen with nothing open.                                               *)
LEMMA OnlyFailedSave ==
    ASSUME IInv, [Next]_vars, "read" \notin Faults,
           current # None \/ handler # None,
           screen' = "detail", handler' = None, current' = None
    PROVE  SaveFails
  <1>1. CASE TapRow
    BY <1>1, NothingOpen DEF TapRow, Tap
  <1>2. CASE CloseDetail \/ DeleteKey \/ Crash \/ ShowCreate \/ CancelCreate
    BY <1>2 DEF CloseDetail, DeleteKey, Crash, ShowCreate, CancelCreate
  <1>3. CASE UNCHANGED <<current, handler>>
    BY <1>3
  <1>4. CASE \E p \in Passes : EditKey(p)
    <2>1. CanEdit
      BY <1>4 DEF EditKey
    <2> QED BY <1>4, <2>1, RestoreFinds, EditedType, TakeHandler DEF EditKey
  <1>5. CASE \E p, q \in Passes : ChangePassphrase(p, q)
    <2>1. CanEdit
      BY <1>5 DEF ChangePassphrase
    <2> QED
      BY <1>5, <2>1, RestoreFinds, EditedType, TakeHandler
      DEF ChangePassphrase
  <1>6. CASE ImportEntry
    BY <1>6, BeginType, InputAssumption DEF ImportEntry
  <1>7. CASE SaveNewKey \/ KeepStoredSecret
    BY <1>7, AdvanceType DEF SaveNewKey, KeepStoredSecret, IInv
  <1>8. CASE PersistCurrent
    <2>1. current' \in Opened
      BY <1>8, WritingType DEF PersistCurrent, Opened, IInv
    <2> QED BY <2>1, SentinelAssumption
  <1>9. CASE ShowNewKey
    <2>1. handler \in Handlers /\ handler.at > Len(handler.keys) /\ HandlerOK
      BY <1>9 DEF ShowNewKey, IInv, TypeOK
    <2>2. Len(handler.keys) >= 1
      BY <2>1, SomeElement DEF Handlers
    <2>3. handler.op \in {"Import", "Create"}
      BY <1>9, <2>1 DEF ShowNewKey, HandlerOK, Handlers
    <2>4. screen # "detail" /\ handler.first \in Files
      BY <1>9, <2>1, <2>2, <2>3 DEF ShowNewKey, HandlerOK, Handlers
    <2>5. PICK c \in LoadResults(handler.first) :
              IF c = None THEN screen' = screen
              ELSE current' = [file |-> handler.first, key |-> c]
      BY <1>9 DEF ShowNewKey, OpenKey
    <2>6. c \in Copies
      BY <2>4, <2>5, LoadType DEF IInv
    <2>7. current' \in Opened
      BY <2>4, <2>5, <2>6 DEF Opened
    <2> QED BY <2>7, SentinelAssumption
  <1>10. CASE RunCreate
    BY <1>10, NothingOpen DEF RunCreate, Fires, IInv, JobOK
  <1> QED
    BY <1>1, <1>2, <1>3, <1>4, <1>5, <1>6, <1>7, <1>8, <1>9, <1>10
    DEF Next, User, Running, Timer, vars, OpenBrowser, CancelImport,
        RequestCreate, RequestFileJob, RequestSignQr, Arm, RunFileJob,
        RunChecksum, RunSignQr

(* If reading does not fail, only a save that failed leaves the detail     *)
(* screen with no certificate open: one that an operation refuses is found *)
(* again in its file.                                                      *)
THEOREM DetailAlwaysKeepsOpenKey == Spec => DetailKeepsOpenKey
  <1>1. IInv /\ [Next]_vars =>
            ((current # None \/ handler # None)
                 /\ screen' = "detail" /\ handler' = None /\ current' = None
                 /\ "read" \notin Faults
             => SaveFails)
    BY OnlyFailedSave
  <1> QED BY <1>1, InvHolds, PTL DEF Spec, DetailKeepsOpenKey

-----------------------------------------------------------------------------
(* What the detail screen shows is the certificate of the file behind it,  *)
(* also while nothing is open: an edit writes a version of what is shown.  *)
ShownIsStored ==
    /\ screen = "detail" \/ (screen = "browser" /\ mode \in KeyModes) =>
           /\ detail # None
           /\ disk[detail.file] \in Copies => disk[detail.file].id = detail.view.id
    /\ handler # None /\ handler.op \in {"Edit", "Repass"} =>
           InHand.id = detail.view.id

LEMMA NextShown == IInv /\ ShownIsStored /\ [Next]_vars => ShownIsStored'
  <1> SUFFICES ASSUME IInv, ShownIsStored, [Next]_vars PROVE ShownIsStored'
    OBVIOUS
  <1> DEFINE Shows(scr, m, d, dt) ==
                 scr = "detail" \/ (scr = "browser" /\ m \in KeyModes) =>
                     /\ dt # None
                     /\ d[dt.file] \in Copies => d[dt.file].id = dt.view.id
  <1>0. /\ Shows(screen, mode, disk, detail)
        /\ handler # None /\ handler.op \in {"Edit", "Repass"} =>
               InHand.id = detail.view.id /\ screen = "detail"
    BY DEF ShownIsStored, IInv, HandlerOK
  <1>a. SUFFICES /\ Shows(screen', mode', disk', detail')
                 /\ handler' # None /\ handler'.op \in {"Edit", "Repass"} =>
                        InHand'.id = detail'.view.id
    BY DEF ShownIsStored
  <1>1. ASSUME NEW f \in Files, OpenKey(f), disk' = disk, mode' = mode,
               handler' = None,
               screen # "detail", ~ (screen = "browser" /\ mode \in KeyModes)
        PROVE  Shows(screen', mode', disk', detail')
    <2>1. PICK c \in LoadResults(f) :
              IF c = None THEN UNCHANGED <<detail, screen>>
              ELSE detail' = [file |-> f, view |-> View(c)]
      BY <1>1 DEF OpenKey
    <2>2. CASE c = None
      BY <1>1, <2>1, <2>2
    <2>3. CASE c # None
      <3>1. c \in Copies /\ c = disk[f]
        BY <2>1, <2>3, LoadType DEF IInv
      <3>2. detail' \in Rows /\ detail'.file = f /\ detail'.view.id = c.id
        BY <2>1, <2>3, <3>1 DEF Rows, Views, View, Copies
      <3> QED BY <1>1, <3>1, <3>2, SentinelAssumption
    <2> QED BY <2>2, <2>3
  <1>2. CASE TapRow
    <2>1. PICK f \in Files : OpenKey(f)
      BY <1>2 DEF TapRow, IInv, TypeOK, Rows
    <2> QED BY <1>1, <1>2, <2>1 DEF TapRow, Tap
  <1>3. CASE CloseDetail \/ ShowCreate \/ CancelCreate \/ DeleteKey \/ Crash
    BY <1>3 DEF CloseDetail, ShowCreate, CancelCreate, DeleteKey, Crash, Tap
  <1>4. CASE \E m \in Modes : OpenBrowser(m)
    BY <1>0, <1>4 DEF OpenBrowser, Tap, ReturnScreen
  <1>5. CASE CancelImport
    BY <1>0, <1>5 DEF CancelImport, Tap, ReturnScreen
  <1>6. CASE ImportEntry
    <2>1. handler'.op = "Import"
      BY <1>6, BeginType, InputAssumption DEF ImportEntry
    <2> QED BY <1>0, <1>6, <2>1 DEF ImportEntry
  <1>7. CASE (\E p \in Passes : EditKey(p))
             \/ (\E p, q \in Passes : ChangePassphrase(p, q))
    <2>1. CanEdit /\ UNCHANGED <<disk, detail, screen, mode>>
      BY <1>7 DEF EditKey, ChangePassphrase
    <2>2. current.key.id = detail.view.id
      BY <2>1 DEF CanEdit, IInv, DetailShowsOpenKey, View
    <2>3. ASSUME NEW op \in {"Edit", "Repass"}, NEW new \in Copies,
                 TakeFor(op, new), new.id = current.key.id
          PROVE  InHand'.id = detail'.view.id
      <3>1. handler'.at = 1 /\ handler'.keys[1] = new
        BY <2>3, TakeHandler DEF TakeFor, Begin
      <3> QED BY <2>1, <2>2, <2>3, <3>1 DEF InHand
    <2>4. \/ handler' = None
          \/ \E op \in {"Edit", "Repass"}, new \in Copies :
                 TakeFor(op, new) /\ new.id = current.key.id
      <3>1. current.key.rev < MaxRev =>
                [current.key EXCEPT !.rev = @ + 1].id = current.key.id
        BY <2>1, EditedType DEF Copies
      <3>2. \A q \in Passes : [current.key EXCEPT !.pass = q].id = current.key.id
        BY <2>1, EditedType DEF Copies
      <3> QED BY <1>7, <2>1, <3>1, <3>2, EditedType
              DEF EditKey, ChangePassphrase, RestoreCurrent
    <2> QED BY <1>0, <2>1, <2>3, <2>4
  <1>8. CASE \E p \in Passes : \/ RequestCreate(p) \/ RequestFileJob(p)
                               \/ RequestSignQr(p)
    <2>1. handler' = handler /\ UNCHANGED <<screen, mode, disk, detail>>
      BY <1>8 DEF RequestCreate, RequestFileJob, RequestSignQr, Arm
    <2> QED BY <1>0, <2>1 DEF InHand
  <1>9. CASE SaveNewKey \/ KeepStoredSecret
    <2>1. handler.op \in {"Import", "Create"} /\ handler'.op = handler.op
      BY <1>9, AdvanceType DEF SaveNewKey, KeepStoredSecret, IInv
    <2>2. screen' = screen /\ mode' = mode /\ detail' = detail /\ handler # None
      BY <1>9 DEF SaveNewKey, KeepStoredSecret, Writing
    <2>3. screen # "detail" /\ ~ (screen = "browser" /\ mode \in KeyModes)
      BY <2>1, <2>2 DEF IInv, HandlerOK, KeyModes
    <2> QED BY <2>1, <2>2, <2>3
  <1>10. CASE PersistCurrent
    <2>1. /\ InHand \in Copies /\ Target \in Files
          /\ InHand.id = detail.view.id /\ screen = "detail"
      BY <1>0, <1>10, WritingType DEF PersistCurrent, Writing, IInv
    <2>2. CASE detail' = [file |-> Target, view |-> View(InHand)]
      <3>1. detail' \in Rows /\ detail'.view.id = InHand.id /\ detail'.file = Target
        BY <2>1, <2>2 DEF Rows, Views, View, Copies
      <3> QED BY <1>10, <2>1, <3>1, SentinelAssumption
              DEF PersistCurrent, IInv, TypeOK
    <2>3. CASE detail' = detail
      BY <1>0, <1>10, <2>1, <2>3 DEF PersistCurrent, IInv, TypeOK
    <2> QED BY <1>10, <2>2, <2>3 DEF PersistCurrent
  <1>11. CASE SaveFails
    <2>1. UNCHANGED <<screen, mode, detail>> /\ handler' = None /\ handler # None
      BY <1>11 DEF SaveFails, Writing
    <2>2. InHand \in Copies /\ Target \in Files
      BY <1>11, WritingType DEF SaveFails, IInv
    <2>3. handler.op \in {"Import", "Create", "Edit", "Repass"}
      BY <2>1 DEF IInv, TypeOK, Handlers
    <2>4. CASE handler.op \in {"Edit", "Repass"}
      <3>1. InHand.id = detail.view.id /\ detail # None
        BY <1>0, <2>1, <2>4
      <3>2. disk' = disk \/ disk' = [disk EXCEPT ![Target] = Torn]
            \/ disk' = [disk EXCEPT ![Target] = InHand]
        BY <1>11 DEF SaveFails, Fail, InterruptedSaves
      <3>3. disk \in [Files -> Contents] /\ detail.file \in Files
        BY <3>1 DEF IInv, TypeOK, Rows
      <3>4. disk'[detail.file] \in {disk[detail.file], Torn, InHand}
        BY <3>2, <3>3
      <3>5. disk[detail.file] \in Copies => disk[detail.file].id = detail.view.id
        BY <1>0, <2>1, <2>4
      <3>6. disk'[detail.file] \in Copies => disk'[detail.file].id = detail.view.id
        BY <3>1, <3>4, <3>5, SentinelAssumption
      <3> QED BY <2>1, <3>1, <3>6
    <2>5. CASE handler.op \in {"Import", "Create"}
      BY <2>1, <2>5 DEF IInv, HandlerOK, KeyModes
    <2> QED BY <2>3, <2>4, <2>5
  <1>12. CASE ShowNewKey
    <2>1. handler \in Handlers /\ handler.at > Len(handler.keys) /\ HandlerOK
      BY <1>12 DEF ShowNewKey, IInv, TypeOK
    <2>2. Len(handler.keys) >= 1 /\ handler.op \in {"Import", "Create", "Edit", "Repass"}
      BY <2>1, SomeElement DEF Handlers
    <2>3. handler.op \in {"Import", "Create"}
      BY <1>12, <2>1, <2>2 DEF ShowNewKey, HandlerOK
    <2>4. /\ handler.first \in Files /\ screen # "detail"
          /\ ~ (screen = "browser" /\ mode \in KeyModes)
      BY <1>12, <2>1, <2>2, <2>3 DEF ShowNewKey, HandlerOK, Handlers, KeyModes
    <2> QED BY <1>1, <1>12, <2>4 DEF ShowNewKey
  <1>13. CASE RunCreate
    <2>1. UNCHANGED <<screen, mode, disk, detail>>
      BY <1>13 DEF RunCreate
    <2>2. handler' = None \/ handler'.op = "Create"
      BY <1>13 DEF RunCreate, CreateFails, Begin
    <2> QED BY <1>0, <2>1, <2>2
  <1>14. CASE RunFileJob
    <2>1. handler' = None /\ UNCHANGED <<disk, detail>>
      BY <1>14 DEF RunFileJob, Fires
    <2>2. screen = "browser" /\ mode \in KeyModes
      BY <1>14 DEF RunFileJob, Fires, IInv, JobOK
    <2> QED BY <1>0, <1>14, <2>1, <2>2 DEF RunFileJob
  <1>15. CASE RunChecksum
    BY <1>0, <1>15 DEF RunChecksum, Fires
  <1>16. CASE RunSignQr
    BY <1>0, <1>16 DEF RunSignQr, Fires
  <1>17. CASE UNCHANGED vars
    BY <1>0, <1>17 DEF vars, InHand
  <1> QED
    BY <1>2, <1>3, <1>4, <1>5, <1>6, <1>7, <1>8, <1>9, <1>10, <1>11, <1>12,
       <1>13, <1>14, <1>15, <1>16, <1>17
    DEF Next, User, Running, Timer

(* A file goes away only by the confirmed delete of the certificate whose  *)
(* name the confirmation showed, also after edits and saves that failed.   *)
THEOREM DeletesOnlyTheShownKey == Spec => DeletesOnlyShownKey
  <1>1. Init => ShownIsStored
    BY DEF Init, ShownIsStored
  <1>2. ASSUME IInv, ShownIsStored, [Next]_vars,
               NEW f \in Files, disk[f] # Absent, disk'[f] = Absent
        PROVE  /\ screen = "detail" /\ detail.file = f
               /\ disk[f] \in Copies => disk[f].id = detail.view.id
               /\ current # None => current.key.id = detail.view.id
    <2>1. ASSUME Writing, disk' \in InterruptedSaves
          PROVE  FALSE
      <3>1. InHand \in Copies /\ Target \in Files /\ disk \in [Files -> Contents]
        BY <1>2, <2>1, WritingType DEF IInv, TypeOK
      <3>2. disk'[f] \in {disk[f], Torn, InHand}
        BY <2>1, <3>1 DEF InterruptedSaves
      <3> QED BY <1>2, <3>1, <3>2, SentinelAssumption
    <2>2. CASE SaveNewKey \/ PersistCurrent
      BY <2>1, <2>2 DEF SaveNewKey, PersistCurrent, InterruptedSaves
    <2>3. CASE SaveFails \/ Crash
      BY <1>2, <2>1, <2>3 DEF SaveFails, Fail, Crash
    <2>4. CASE DeleteKey
      <3>1. screen = "detail" /\ detail.file = f
        BY <1>2, <2>4 DEF DeleteKey, Tap, IInv, TypeOK
      <3> QED BY <1>2, <3>1 DEF ShownIsStored, IInv, DetailShowsOpenKey, View
    <2>5. CASE UNCHANGED disk
      BY <1>2, <2>5
    <2> QED
      BY <1>2, <2>2, <2>3, <2>4, <2>5
      DEF Next, User, Running, Timer, vars, TapRow, CloseDetail, OpenBrowser,
          CancelImport, ShowCreate, CancelCreate, ImportEntry, EditKey,
          ChangePassphrase, RequestCreate, RequestFileJob, RequestSignQr, Arm,
          KeepStoredSecret, ShowNewKey, RunCreate, RunFileJob, RunChecksum,
          RunSignQr
  <1>3. IInv /\ ShownIsStored /\ [Next]_vars =>
            \A f \in Files :
                disk[f] # Absent /\ disk'[f] = Absent
                    => /\ screen = "detail" /\ detail.file = f
                       /\ disk[f] \in Copies => disk[f].id = detail.view.id
                       /\ current # None => current.key.id = detail.view.id
    BY <1>2
  <1> QED BY <1>1, <1>3, InvHolds, NextShown, PTL DEF Spec, DeletesOnlyShownKey

-----------------------------------------------------------------------------
(* The file save_key names after a certificate holds no other one: so in   *)
(* the initial disks, and no write changes it.                             *)
WellNamed(d) ==
    \A k \in Keys : d[FileOf[k]] \in Copies => d[FileOf[k]].id = k

LEMMA InterruptedNamed ==
    ASSUME IInv, WellNamed(disk), Writing, NEW d \in InterruptedSaves
    PROVE  WellNamed(d)
  <1>1. /\ InHand \in Copies /\ Target \in Files /\ InHand.id \in Keys
        /\ Target = FileOf[InHand.id] /\ disk \in [Files -> Contents]
    BY WritingType DEF IInv, TypeOK, Target, Copies
  <1>2. SUFFICES ASSUME NEW k \in Keys, d[FileOf[k]] \in Copies
                 PROVE  d[FileOf[k]].id = k
    BY DEF WellNamed
  <1>3. d[FileOf[k]] = disk[FileOf[k]]
        \/ (FileOf[k] = Target /\ d[FileOf[k]] \in {Torn, InHand})
    BY <1>1, FileOfAssumption DEF InterruptedSaves
  <1>4. FileOf[k] = Target => k = InHand.id
    BY <1>1, FileOfAssumption
  <1> QED BY <1>2, <1>3, <1>4, SentinelAssumption DEF WellNamed

LEMMA NextNamed == IInv /\ WellNamed(disk) /\ [Next]_vars => WellNamed(disk')
  <1> SUFFICES ASSUME IInv, WellNamed(disk), [Next]_vars PROVE WellNamed(disk')
    OBVIOUS
  <1>1. CASE Writing /\ disk' \in InterruptedSaves
    BY <1>1, InterruptedNamed
  <1>2. CASE SaveNewKey \/ PersistCurrent
    BY <1>1, <1>2 DEF SaveNewKey, PersistCurrent, InterruptedSaves
  <1>3. CASE disk' = disk
    BY <1>3
  <1>4. CASE SaveFails \/ Crash
    BY <1>1, <1>3, <1>4 DEF SaveFails, Fail, Crash
  <1>5. CASE DeleteKey
    BY <1>5, FileOfAssumption, SentinelAssumption DEF DeleteKey, WellNamed, IInv, TypeOK
  <1> QED
    BY <1>2, <1>3, <1>4, <1>5
    DEF Next, User, Running, Timer, vars, TapRow, CloseDetail, OpenBrowser,
        CancelImport, ShowCreate, CancelCreate, ImportEntry, EditKey,
        ChangePassphrase, RequestCreate, RequestFileJob, RequestSignQr, Arm,
        KeepStoredSecret, ShowNewKey, RunCreate, RunFileJob, RunChecksum,
        RunSignQr

(* A certificate of an import that has been passed is stored.              *)
Kept(c, d) ==
    /\ d[FileOf[c.id]] \in Copies
    /\ d[FileOf[c.id]].id = c.id
    /\ c.secret => d[FileOf[c.id]].secret

(* The next certificate is kept too, and takes nothing from the others: a  *)
(* public copy after the secret one of the same key is passed over.        *)
LEMMA NextKept ==
    ASSUME "read" \notin Faults, IInv, WellNamed(disk),
           SaveNewKey \/ KeepStoredSecret
    PROVE  /\ Kept(InHand, disk')
           /\ \A c \in Copies : Kept(c, disk) => Kept(c, disk')
  <1>1. /\ Writing /\ InHand \in Copies /\ Target \in Files
        /\ InHand.id \in Keys /\ Target = FileOf[InHand.id]
        /\ disk \in [Files -> Contents]
    BY WritingType
    DEF SaveNewKey, KeepStoredSecret, IInv, TypeOK, Target, Copies
  <1>2. CASE KeepStoredSecret
    <2>1. disk' = disk /\ ~ InHand.secret
      BY <1>2 DEF KeepStoredSecret
    <2>2. disk[Target] \in Copies
      BY <1>2, <1>1, LoadType DEF KeepStoredSecret, IInv
    <2> QED BY <1>1, <2>1, <2>2 DEF Kept, WellNamed
  <1>3. CASE SaveNewKey
    <2>1. disk' = [disk EXCEPT ![Target] = InHand]
      BY <1>3 DEF SaveNewKey
    <2>2. disk[Target] \in Copies /\ disk[Target].secret => InHand.secret
      <3>1. CASE disk[Target] \in Copies
        <4>1. LoadResults(Target) = {disk[Target]} /\ disk[Target] # None
          BY <3>1, SentinelAssumption DEF LoadResults
        <4> QED BY <1>3, <4>1 DEF SaveNewKey, ReachesSave
      <3> QED BY <3>1
    <2>3. ASSUME NEW c \in Copies, Kept(c, disk)
          PROVE  Kept(c, disk')
      <3>1. c.id \in Keys
        BY DEF Copies
      <3>2. CASE c.id = InHand.id
        BY <1>1, <2>1, <2>2, <2>3, <3>2 DEF Kept
      <3>3. CASE c.id # InHand.id
        <4>1. FileOf[c.id] # Target /\ FileOf[c.id] \in Files
          BY <1>1, <3>1, <3>3, FileOfAssumption
        <4>2. disk'[FileOf[c.id]] = disk[FileOf[c.id]]
          BY <1>1, <2>1, <4>1
        <4> QED BY <2>3, <4>2 DEF Kept
      <3> QED BY <3>2, <3>3
    <2>4. Kept(InHand, disk')
      BY <1>1, <2>1 DEF Kept
    <2> QED BY <2>3, <2>4
  <1> QED BY <1>2, <1>3

(* If reading does not fail, half way through an import, in whatever order *)
(* its file has public and secret copies of whatever keys, all that has    *)
(* been passed is stored, the secret part included.                        *)
THEOREM ImportIsAlwaysKept ==
    ASSUME "read" \notin Faults, \A d \in InitialDisks : WellNamed(d)
    PROVE  Spec => []ImportedSoFar
  <1>1. Init => WellNamed(disk) /\ ImportedSoFar
    BY DEF Init, ImportedSoFar
  <1>2. ASSUME IInv, WellNamed(disk), ImportedSoFar, [Next]_vars
        PROVE  ImportedSoFar'
    <2>1. CASE SaveNewKey \/ KeepStoredSecret
      <3>1. /\ handler \in Handlers /\ handler # None /\ Writing
            /\ handler' \in Handlers
            /\ handler'.op = handler.op /\ handler'.keys = handler.keys
            /\ handler'.at = handler.at + 1
        BY <1>2, <2>1, AdvanceType
        DEF SaveNewKey, KeepStoredSecret, Writing, IInv, TypeOK, Advance, Handlers
      <3>2. /\ handler.keys \in Seq(Copies) /\ handler.at \in Nat \ {0}
            /\ handler.at <= Len(handler.keys)
        BY <3>1 DEF Handlers, Writing
      <3>3. SUFFICES ASSUME handler'.op = "Import", NEW i \in 1 .. handler'.at - 1
                     PROVE  Kept(handler'.keys[i], disk')
        BY DEF ImportedSoFar, Kept
      <3>4. i \in 1 .. Len(handler.keys) /\ (i = handler.at \/ i \in 1 .. handler.at - 1)
        BY <3>1, <3>2, <3>3
      <3>5. handler.keys[i] \in Copies
        BY <3>2, <3>4
      <3>6. CASE i = handler.at
        BY <1>2, <2>1, <3>1, <3>6, NextKept DEF InHand
      <3>7. CASE i \in 1 .. handler.at - 1
        <4>1. Kept(handler.keys[i], disk)
          BY <1>2, <3>1, <3>3, <3>7 DEF ImportedSoFar, Kept
        <4> QED BY <1>2, <2>1, <3>1, <3>5, <4>1, NextKept
      <3> QED BY <3>4, <3>6, <3>7
    <2>2. CASE ImportEntry
      <3>1. handler'.at = 1
        BY <2>2 DEF ImportEntry, Begin
      <3> QED BY <3>1 DEF ImportedSoFar
    <2>3. CASE (\E p \in Passes : EditKey(p))
               \/ (\E p, q \in Passes : ChangePassphrase(p, q))
      <3>1. handler' = None \/ handler'.op # "Import"
        BY <2>3 DEF EditKey, ChangePassphrase, RestoreCurrent, TakeFor, Begin
      <3> QED BY <3>1 DEF ImportedSoFar
    <2>4. CASE RunCreate
      <3>1. handler' = None \/ handler'.op # "Import"
        BY <2>4 DEF RunCreate, CreateFails, Begin
      <3> QED BY <3>1 DEF ImportedSoFar
    <2>5. CASE handler' = None
      BY <2>5 DEF ImportedSoFar
    <2>6. CASE UNCHANGED <<handler, disk>>
      BY <1>2, <2>6 DEF ImportedSoFar
    <2> QED
      BY <1>2, <2>1, <2>2, <2>3, <2>4, <2>5, <2>6
      DEF Next, User, Running, Timer, vars, TapRow, CloseDetail, OpenBrowser,
          CancelImport, ShowCreate, CancelCreate, DeleteKey, RequestCreate,
          RequestFileJob, RequestSignQr, Arm, ShowNewKey, PersistCurrent,
          SaveFails, RunFileJob, RunChecksum, RunSignQr, Crash, Tap, Fires
  <1>3. IInv /\ WellNamed(disk) /\ ImportedSoFar /\ [Next]_vars => ImportedSoFar'
    BY <1>2
  <1> DEFINE Named == WellNamed(disk)
  <1>4. IInv /\ Named /\ [Next]_vars => Named'
    BY NextNamed DEF WellNamed
  <1>5. Init => Named /\ ImportedSoFar
    BY <1>1
  <1>6. IInv /\ Named /\ ImportedSoFar /\ [Next]_vars => ImportedSoFar'
    BY <1>3
  <1> HIDE DEF Named
  <1> QED BY <1>4, <1>5, <1>6, InvHolds, PTL DEF Spec

-----------------------------------------------------------------------------
(* The refinement.                                                         *)

NamedAlike(d) == \A f \in Files : d[f] \in Copies => FileOf[d[f].id] = f

(* The detail screen, and the browsers it opens.                           *)
OnDetail == screen = "detail" \/ (screen = "browser" /\ mode \in KeyModes)

(* What an edit, or a change of the passphrase, makes of a certificate.    *)
Edition(old, new) ==
    /\ old \in Copies /\ old.secret
    /\ \/ old.rev < MaxRev /\ new = [old EXCEPT !.rev = old.rev + 1]
       \/ \E q \in Passes : new = [old EXCEPT !.pass = q]

Editing == handler # None /\ handler.op \in {"Edit", "Repass"}

(* Only where a save may fail is the detail screen left with nothing open. *)
Backed == OnDetail /\ handler = None /\ current = None => "write" \in Faults

(* The invariant the step mapping needs beyond those above.                *)
VInv ==
    /\ NamedAlike(disk)
    /\ OnDetail => detail # None /\ detail.file = FileOf[detail.view.id]
    /\ Backed
    /\ Editing => Edition(disk[Target], InHand)

AllInv == IInv /\ ShownIsStored /\ VInv

-----------------------------------------------------------------------------
(* The invariant. *)

LEMMA InterruptedAlike ==
    ASSUME IInv, NamedAlike(disk), Writing, NEW d \in InterruptedSaves
    PROVE  NamedAlike(d)
  <1>1. /\ InHand \in Copies /\ Target \in Files
        /\ Target = FileOf[InHand.id] /\ disk \in [Files -> Contents]
    BY WritingType DEF IInv, TypeOK, Target
  <1>2. \A f \in Files : d[f] = disk[f] \/ d[f] = Torn \/ (f = Target /\ d[f] = InHand)
    BY <1>1 DEF InterruptedSaves
  <1> QED BY <1>1, <1>2, SentinelAssumption DEF NamedAlike

LEMMA NextAlike == IInv /\ NamedAlike(disk) /\ [Next]_vars => NamedAlike(disk')
  <1> SUFFICES ASSUME IInv, NamedAlike(disk), [Next]_vars PROVE NamedAlike(disk')
    OBVIOUS
  <1>1. CASE Writing /\ disk' \in InterruptedSaves
    BY <1>1, InterruptedAlike
  <1>2. CASE SaveNewKey \/ PersistCurrent
    BY <1>1, <1>2 DEF SaveNewKey, PersistCurrent, InterruptedSaves
  <1>3. CASE disk' = disk
    BY <1>3
  <1>4. CASE SaveFails \/ Crash
    BY <1>1, <1>3, <1>4 DEF SaveFails, Fail, Crash
  <1>5. CASE DeleteKey
    BY <1>5, SentinelAssumption DEF DeleteKey, NamedAlike, IInv, TypeOK
  <1> QED
    BY <1>2, <1>3, <1>4, <1>5
    DEF Next, User, Running, Timer, vars, TapRow, CloseDetail, OpenBrowser,
        CancelImport, ShowCreate, CancelCreate, ImportEntry, EditKey,
        ChangePassphrase, RequestCreate, RequestFileJob, RequestSignQr, Arm,
        KeepStoredSecret, ShowNewKey, RunCreate, RunFileJob, RunChecksum,
        RunSignQr

(* An import or a creation ends under a screen of its own.                 *)
LEMMA ShowNewFrom ==
    ASSUME IInv, ShowNewKey
    PROVE  /\ ~ OnDetail /\ ~ Editing /\ current = None /\ handler # None
           /\ handler.first \in Files
  <1>1. handler \in Handlers /\ handler.at > Len(handler.keys) /\ HandlerOK
        /\ handler # None
    BY DEF ShowNewKey, IInv, TypeOK
  <1>2. Len(handler.keys) >= 1 /\ handler.op \in {"Import", "Create", "Edit", "Repass"}
    BY <1>1, SomeElement DEF Handlers
  <1>3. handler.op \in {"Import", "Create"}
    BY <1>1, <1>2 DEF HandlerOK
  <1> QED BY <1>1, <1>2, <1>3 DEF HandlerOK, Handlers, KeyModes, OnDetail, Editing

(* open_key changes nothing, or opens a stored certificate.                *)
LEMMA OpensStored ==
    ASSUME IInv, NEW f \in Files, OpenKey(f)
    PROVE  \/ UNCHANGED <<current, detail, screen>>
           \/ /\ disk[f] \in Copies
              /\ current' # None /\ current'.key = disk[f] /\ current'.file = f
              /\ detail' # None /\ detail'.file = f
              /\ detail'.view.id = disk[f].id
              /\ screen' = "detail"
  <1>1. PICK c \in LoadResults(f) :
            IF c = None
            THEN UNCHANGED <<current, detail, screen>>
            ELSE /\ current' = [file |-> f, key |-> c]
                 /\ detail' = [file |-> f, view |-> View(c)]
                 /\ screen' = "detail"
    BY DEF OpenKey
  <1>2. CASE c # None
    <2>1. c \in Copies /\ c = disk[f]
      BY <1>2, LoadType DEF IInv
    <2>2. current' \in Opened /\ detail' \in Rows /\ View(c).id = c.id
      BY <1>1, <1>2, <2>1 DEF Opened, Rows, Views, View, Copies
    <2> QED BY <1>1, <1>2, <2>1, <2>2, SentinelAssumption
  <1> QED BY <1>1, <1>2

(* An operation on the open certificate leaves it open, or hands a version *)
(* of the stored one to its handler.                                       *)
LEMMA EditSteps ==
    ASSUME IInv, "read" \notin Faults,
           \/ \E p \in Passes : EditKey(p)
           \/ \E p, q \in Passes : ChangePassphrase(p, q)
    PROVE  /\ UNCHANGED <<disk, detail, list, screen, mode, busy, job>>
           /\ CanEdit /\ handler = None /\ current # None
           /\ \/ current' = current /\ handler' = None
              \/ /\ current' = None /\ handler' # None
                 /\ InHand'.id = current.key.id
                 /\ Edition(current.key, InHand')
  <1>1. /\ CanEdit /\ handler = None /\ current # None
        /\ UNCHANGED <<disk, detail, list, screen, mode, busy, job>>
    BY DEF EditKey, ChangePassphrase, CanEdit, Tap
  <1>2. /\ current \in Opened /\ current.key \in Copies /\ current.key.secret
        /\ disk[current.file] = current.key
    BY <1>1, EditedType DEF CanEdit, IInv, OpenKeyIsStored
  <1>3. CASE RestoreCurrent
    <2>1. LoadResults(current.file) = {current.key} /\ current.key # None
      BY <1>2, SentinelAssumption DEF LoadResults
    <2>2. current' = [file |-> current.file, key |-> current.key] /\ handler' = None
      BY <1>3, <2>1 DEF RestoreCurrent, Restored
    <2>3. current' = current
      BY <1>2, <2>2 DEF Opened
    <2> QED BY <1>1, <2>2, <2>3
  <1>4. ASSUME NEW op \in {"Edit", "Repass"}, NEW new \in Copies, TakeFor(op, new),
               new.id = current.key.id, Edition(current.key, new)
        PROVE  /\ current' = None /\ handler' # None
               /\ InHand'.id = current.key.id
               /\ Edition(current.key, InHand')
    <2>1. handler' # None /\ handler'.keys[1] = new /\ handler'.at = 1
      BY <1>4, TakeHandler DEF TakeFor, Begin
    <2>2. InHand' = new /\ current' = None
      BY <1>4, <2>1 DEF InHand, TakeFor
    <2> QED BY <1>4, <2>1, <2>2
  <1>5. ASSUME current.key.rev < MaxRev
        PROVE  /\ [current.key EXCEPT !.rev = @ + 1] \in Copies
               /\ [current.key EXCEPT !.rev = @ + 1].id = current.key.id
               /\ Edition(current.key, [current.key EXCEPT !.rev = @ + 1])
    BY <1>1, <1>2, <1>5, EditedType DEF Edition, Copies
  <1>6. ASSUME NEW q \in Passes
        PROVE  /\ [current.key EXCEPT !.pass = q] \in Copies
               /\ [current.key EXCEPT !.pass = q].id = current.key.id
               /\ Edition(current.key, [current.key EXCEPT !.pass = q])
    BY <1>1, <1>2, EditedType DEF Edition, Copies
  <1>7. \/ RestoreCurrent
        \/ /\ current.key.rev < MaxRev
           /\ TakeFor("Edit", [current.key EXCEPT !.rev = @ + 1])
        \/ \E q \in Passes : TakeFor("Repass", [current.key EXCEPT !.pass = q])
    BY DEF EditKey, ChangePassphrase
  <1> QED BY <1>1, <1>3, <1>4, <1>5, <1>6, <1>7

(* The file behind the detail screen is the one named after what it shows. *)
LEMMA NextDetailFile ==
    ASSUME "read" \notin Faults, AllInv, [Next]_vars, OnDetail'
    PROVE  detail' # None /\ detail'.file = FileOf[detail'.view.id]
  <1> DEFINE Shown(dt) == dt # None /\ dt.file = FileOf[dt.view.id]
  <1>0. IInv /\ NamedAlike(disk) /\ (OnDetail => Shown(detail))
    BY DEF AllInv, VInv
  <1>1. ASSUME NEW f \in Files, OpenKey(f), screen' = "detail", screen # "detail"
        PROVE  Shown(detail')
    BY <1>0, <1>1, OpensStored DEF NamedAlike
  <1>2. CASE TapRow
    <2>1. PICK f \in Files : OpenKey(f)
      BY <1>0, <1>2 DEF TapRow, IInv, TypeOK, Rows
    <2> QED BY <1>1, <1>2, <2>1 DEF TapRow, Tap, OnDetail, OpenKey
  <1>3. CASE CloseDetail \/ ShowCreate \/ CancelCreate \/ DeleteKey \/ Crash
    BY <1>3 DEF CloseDetail, ShowCreate, CancelCreate, DeleteKey, Crash, OnDetail
  <1>4. CASE \E m \in Modes : OpenBrowser(m)
    BY <1>0, <1>4 DEF OpenBrowser, Tap, ReturnScreen, OnDetail
  <1>5. CASE CancelImport
    BY <1>0, <1>5 DEF CancelImport, Tap, ReturnScreen, OnDetail
  <1>6. CASE UNCHANGED <<screen, mode, detail>>
    BY <1>0, <1>6 DEF OnDetail
  <1>7. CASE PersistCurrent
    <2>1. InHand \in Copies /\ Target = FileOf[InHand.id] /\ screen' = screen
          /\ mode' = mode
      BY <1>0, <1>7, WritingType DEF PersistCurrent, IInv, Target
    <2>2. CASE detail' = [file |-> Target, view |-> View(InHand)]
      <3>1. Target \in Files
        BY <1>0, <1>7, WritingType DEF PersistCurrent, IInv
      <3>2. detail' \in Rows /\ detail'.view.id = InHand.id /\ detail'.file = Target
        BY <2>1, <2>2, <3>1 DEF Rows, Views, View, Copies
      <3> QED BY <2>1, <3>2, SentinelAssumption
    <2>3. CASE detail' = detail
      BY <1>0, <2>1, <2>3 DEF OnDetail
    <2> QED BY <1>7, <2>2, <2>3 DEF PersistCurrent
  <1>8. CASE ShowNewKey
    <2>1. ~ OnDetail /\ handler.first \in Files /\ OpenKey(handler.first) /\ mode' = mode
      BY <1>0, <1>8, ShowNewFrom DEF ShowNewKey
    <2>2. screen' = "detail" /\ screen # "detail"
      BY <1>0, <2>1, OpensStored DEF OnDetail
    <2> QED BY <1>1, <2>1, <2>2
  <1>9. CASE RunFileJob
    <2>1. screen = "browser" /\ mode \in KeyModes /\ detail' = detail
      BY <1>0, <1>9 DEF RunFileJob, Fires, IInv, JobOK
    <2> QED BY <1>0, <2>1 DEF OnDetail
  <1>10. CASE RunChecksum
    BY <1>0, <1>10 DEF RunChecksum, OnDetail, KeyModes
  <1> QED
    BY <1>0, <1>2, <1>3, <1>4, <1>5, <1>6, <1>7, <1>8, <1>9, <1>10
    DEF Next, User, Running, Timer, vars, ImportEntry, EditKey,
        ChangePassphrase, RequestCreate, RequestFileJob, RequestSignQr, Arm,
        SaveNewKey, KeepStoredSecret, SaveFails, RunCreate, RunSignQr

LEMMA NextBacked ==
    ASSUME "read" \notin Faults, IInv, Backed, [Next]_vars
    PROVE  Backed'
  <1> SUFFICES ASSUME OnDetail', handler' = None, current' = None
               PROVE  "write" \in Faults
    BY DEF Backed
  <1>0. IInv /\ (OnDetail /\ handler = None /\ current = None => "write" \in Faults)
    BY DEF Backed
  <1>1. CASE SaveFails \/ Crash
    BY <1>1 DEF SaveFails, Crash, OnDetail
  <1>2. CASE screen' = "detail" /\ (current # None \/ handler # None)
    BY <1>0, <1>1, <1>2, OnlyFailedSave
  <1>3. CASE UNCHANGED <<screen, mode, current, handler>>
    BY <1>0, <1>3 DEF OnDetail
  <1>4. CASE TapRow
    <2>1. PICK f \in Files : OpenKey(f)
      BY <1>0, <1>4 DEF TapRow, IInv, TypeOK, Rows
    <2> QED BY <1>0, <1>4, <2>1, OpensStored DEF TapRow, Tap, OnDetail
  <1>5. CASE CloseDetail \/ ShowCreate \/ CancelCreate \/ DeleteKey
    BY <1>5 DEF CloseDetail, ShowCreate, CancelCreate, DeleteKey, OnDetail
  <1>6. CASE \E m \in Modes : OpenBrowser(m)
    BY <1>0, <1>6 DEF OpenBrowser, Tap, ReturnScreen, OnDetail
  <1>7. CASE CancelImport
    BY <1>0, <1>7 DEF CancelImport, Tap, ReturnScreen, OnDetail
  <1>8. CASE ImportEntry
    BY <1>0, <1>8, BeginType, InputAssumption DEF ImportEntry
  <1>9. CASE \/ \E p \in Passes : EditKey(p)
             \/ \E p, q \in Passes : ChangePassphrase(p, q)
    BY <1>0, <1>9, EditSteps
  <1>10. CASE SaveNewKey \/ KeepStoredSecret
    BY <1>0, <1>10, AdvanceType DEF SaveNewKey, KeepStoredSecret, IInv
  <1>11. CASE ShowNewKey
    <2>1. ~ OnDetail /\ handler.first \in Files /\ OpenKey(handler.first) /\ mode' = mode
      BY <1>0, <1>11, ShowNewFrom DEF ShowNewKey
    <2> QED BY <1>0, <2>1, OpensStored DEF OnDetail
  <1>12. CASE PersistCurrent
    <2>1. current' \in Opened
      BY <1>0, <1>12, WritingType DEF PersistCurrent, Opened, IInv
    <2> QED BY <2>1, SentinelAssumption
  <1>13. CASE RunCreate
    BY <1>0, <1>13 DEF RunCreate, Fires, OnDetail, IInv, JobOK
  <1>14. CASE RunFileJob
    <2>1. screen = "browser" /\ mode \in KeyModes /\ handler = None /\ current' = current
      BY <1>0, <1>14 DEF RunFileJob, Fires, IInv, JobOK
    <2> QED BY <1>0, <2>1 DEF OnDetail
  <1>15. CASE RunChecksum
    BY <1>0, <1>15 DEF RunChecksum, OnDetail, KeyModes, Fires, IInv, JobOK
  <1> QED
    BY <1>1, <1>3, <1>4, <1>5, <1>6, <1>7, <1>8, <1>9, <1>10, <1>11, <1>12,
       <1>13, <1>14, <1>15
    DEF Next, User, Running, Timer, vars, RequestCreate, RequestFileJob,
        RequestSignQr, Arm, RunSignQr

(* The version in hand was made from the one that is stored.               *)
LEMMA NextEdition ==
    ASSUME "read" \notin Faults, AllInv, [Next]_vars, Editing'
    PROVE  Edition(disk'[Target'], InHand')
  <1>0. IInv /\ NamedAlike(disk) /\ (Editing => Edition(disk[Target], InHand))
    BY DEF AllInv, VInv
  <1>1. CASE \/ \E p \in Passes : EditKey(p)
             \/ \E p, q \in Passes : ChangePassphrase(p, q)
    <2>1. /\ current \in Opened /\ current.key \in Copies
          /\ disk[current.file] = current.key /\ disk' = disk
      BY <1>0, <1>1, EditSteps, EditedType DEF IInv, OpenKeyIsStored
    <2>2. current.file = FileOf[current.key.id]
      BY <1>0, <2>1 DEF NamedAlike, Opened
    <2>3. InHand'.id = current.key.id /\ Edition(current.key, InHand')
      BY <1>0, <1>1, EditSteps DEF Editing
    <2> QED BY <2>1, <2>2, <2>3 DEF Target
  <1>2. CASE UNCHANGED <<disk, handler>>
    BY <1>0, <1>2 DEF Editing, Target, InHand
  <1>3. CASE handler' = None
    BY <1>3 DEF Editing
  <1>4. CASE ImportEntry
    BY <1>4, BeginType, InputAssumption DEF ImportEntry, Editing
  <1>5. CASE SaveNewKey \/ KeepStoredSecret
    <2>1. handler.op \in {"Import", "Create"} /\ handler'.op = handler.op
      BY <1>0, <1>5, AdvanceType DEF SaveNewKey, KeepStoredSecret, IInv
    <2> QED BY <2>1 DEF Editing
  <1>6. CASE RunCreate
    BY <1>6 DEF RunCreate, CreateFails, Begin, Editing
  <1> QED
    BY <1>1, <1>2, <1>3, <1>4, <1>5, <1>6
    DEF Next, User, Running, Timer, vars, TapRow, CloseDetail, OpenBrowser,
        CancelImport, ShowCreate, CancelCreate, DeleteKey, RequestCreate,
        RequestFileJob, RequestSignQr, Arm, ShowNewKey, PersistCurrent,
        SaveFails, RunFileJob, RunChecksum, RunSignQr, Crash, Tap, Fires

LEMMA NextVInv ==
    ASSUME "read" \notin Faults
    PROVE  AllInv /\ [Next]_vars => VInv'
  <1> SUFFICES ASSUME AllInv, [Next]_vars PROVE VInv'
    OBVIOUS
  <1>1. NamedAlike(disk')
    BY NextAlike DEF AllInv, VInv
  <1>2. Backed'
    BY NextBacked DEF AllInv, VInv
  <1> QED
    BY <1>1, <1>2, NextDetailFile, NextEdition DEF VInv, NamedAlike

(* That a detail screen may have no open certificate behind it is due to   *)
(* failing storage alone (persist_current after a save that failed,        *)
(* with_secret_key_owned after a read that failed): while files can be     *)
(* read and written, its buttons never answer "No key open", power loss    *)
(* included.                                                               *)
THEOREM DetailAlwaysHasOpenKey ==
    ASSUME {"read", "write"} \cap Faults = {}
    PROVE  Spec => []DetailHasOpenKey
  <1>1. Init => Backed
    BY DEF Init, Backed, OnDetail
  <1>2. IInv /\ Backed /\ [Next]_vars => Backed'
    BY NextBacked
  <1>3. Backed => DetailHasOpenKey
    BY DEF Backed, DetailHasOpenKey, OnDetail
  <1> QED BY <1>1, <1>2, <1>3, InvHolds, PTL DEF Spec

-----------------------------------------------------------------------------
(* The step mapping. *)

(* Writing the file of a certificate is putting it into the vault.         *)
LEMMA VaultWrite ==
    ASSUME disk \in [Files -> Contents], NEW k \in Keys, NEW x \in Contents,
           disk' = [disk EXCEPT ![FileOf[k]] = x]
    PROVE  StoredVersion' =
               [StoredVersion EXCEPT ![k] = IF x \in Copies THEN x ELSE None]
  <1>1. ASSUME NEW j \in Keys
        PROVE  disk'[FileOf[j]] = IF j = k THEN x ELSE disk[FileOf[j]]
    BY FileOfAssumption
  <1> QED BY <1>1 DEF StoredVersion

LEMMA VaultSame ==
    ASSUME disk' = disk
    PROVE  StoredVersion' = StoredVersion
  BY DEF StoredVersion

LEMMA VaultOf ==
    ASSUME NEW k \in Keys, disk[FileOf[k]] \in Copies
    PROVE  StoredVersion[k] = disk[FileOf[k]]
  BY DEF StoredVersion

(* No certificate counts as open when none is and no edit is under way.    *)
LEMMA NoneOpen ==
    ASSUME current = None, ~ Editing
    PROVE  OpenId = None
  BY DEF OpenId, Editing

(* What a write that was reached may do to a certificate that comes in.    *)
LEMMA EntryAllowed ==
    ASSUME "read" \notin Faults, IInv, Writing, ReachesSave
    PROVE  Vault!MayEnter(InHand)
  <1>1. InHand \in Copies /\ Target = FileOf[InHand.id] /\ InHand.id \in Keys
    BY WritingType DEF IInv, Target, Copies
  <1>2. CASE disk[Target] \in Copies
    <2>1. LoadResults(Target) = {disk[Target]} /\ disk[Target] # None
      BY <1>2, SentinelAssumption DEF LoadResults
    <2>2. InHand.secret \/ ~ disk[Target].secret
      BY <2>1 DEF ReachesSave
    <2> QED BY <1>1, <1>2, <2>2 DEF Vault!MayEnter, StoredVersion
  <1>3. CASE disk[Target] \notin Copies
    BY <1>1, <1>3 DEF Vault!MayEnter, StoredVersion
  <1> QED BY <1>2, <1>3

(* An edition of the stored certificate is one the vault knows.            *)
LEMMA EditionKnown ==
    ASSUME NEW k \in Keys, disk[FileOf[k]] \in Copies,
           OpenId = k, NEW new, Edition(disk[FileOf[k]], new)
    PROVE  \E p \in Passes : new \in Vault!Editions(p)
  <1> DEFINE old == disk[FileOf[k]]
  <1>1. /\ old \in Copies /\ old.secret /\ old.pass \in Passes
        /\ old.rev \in 0 .. MaxRev /\ MaxRev \in Nat
    BY InputAssumption DEF Copies, Edition
  <1>2. StoredVersion[k] = old /\ old # None /\ k # None
    BY <1>1, VaultOf, SentinelAssumption
  <1>3. Vault!Editions(old.pass) =
            {[old EXCEPT !.rev = r] : r \in {old.rev + 1} \cap (0 .. MaxRev)}
                \cup {[old EXCEPT !.pass = q] : q \in Passes}
    BY <1>1, <1>2 DEF Vault!Editions
  <1>4. CASE old.rev < MaxRev /\ new = [old EXCEPT !.rev = old.rev + 1]
    <2>1. old.rev + 1 \in {old.rev + 1} \cap (0 .. MaxRev)
      BY <1>1, <1>4
    <2> HIDE DEF old
    <2> QED BY <1>1, <1>3, <1>4, <2>1
  <1>5. CASE \E q \in Passes : new = [old EXCEPT !.pass = q]
    <2> HIDE DEF old
    <2> QED BY <1>1, <1>3, <1>5
  <1> QED BY <1>4, <1>5 DEF Edition

(* What is known while an edit is inside its write.                        *)
LEMMA WhileEditing ==
    ASSUME AllInv, Editing, Writing
    PROVE  /\ current = None /\ OpenId = InHand.id /\ InHand.id \in Keys
           /\ InHand \in Copies /\ Target = FileOf[InHand.id]
           /\ disk[Target] \in Copies
           /\ \E p \in Passes : InHand \in Vault!Editions(p)
  <1>1. current = None
    BY DEF AllInv, IInv, HandlerOK, Editing
  <1>2. OpenId = InHand.id
    BY <1>1 DEF OpenId, Editing
  <1>3. InHand \in Copies /\ InHand.id \in Keys /\ Target = FileOf[InHand.id]
    BY WritingType DEF AllInv, IInv, Target, Copies
  <1>4. Edition(disk[Target], InHand) /\ disk[Target] \in Copies
    BY DEF AllInv, VInv, Edition
  <1> QED BY <1>1, <1>2, <1>3, <1>4, EditionKnown

(* An interrupted save is a step of the vault that damages at most the     *)
(* certificate in hand, or nothing but the end of an edit.                 *)
LEMMA DamageSteps ==
    ASSUME "read" \notin Faults, AllInv, Writing, ReachesSave,
           disk' \in InterruptedSaves, Faults # {}, OpenId' = None
    PROVE  Vault!Damage \/ Vault!Close
  <1>1. /\ InHand \in Copies /\ InHand.id \in Keys /\ Target = FileOf[InHand.id]
        /\ disk \in [Files -> Contents]
    BY WritingType DEF AllInv, IInv, TypeOK, Target, Copies
  <1>2. CASE disk' = disk
    BY <1>2, VaultSame DEF Vault!Close
  <1>3. ASSUME NEW x \in {Torn, InHand}, disk' = [disk EXCEPT ![Target] = x]
        PROVE  StoredVersion' = [StoredVersion EXCEPT ![InHand.id] =
                                     IF x \in Copies THEN x ELSE None]
    BY <1>1, <1>3, VaultWrite DEF Contents
  <1>4. \/ StoredVersion' = [StoredVersion EXCEPT ![InHand.id] = None]
        \/ Vault!Put(InHand)
        \/ disk' = disk
    BY <1>1, <1>3, SentinelAssumption DEF InterruptedSaves, Vault!Put
  <1>5. CASE Editing
    <2>1. OpenId = InHand.id /\ OpenId # None
          /\ \E p \in Passes : InHand \in Vault!Editions(p)
      BY <1>1, <1>5, WhileEditing, SentinelAssumption
    <2> QED BY <1>2, <1>4, <2>1 DEF Vault!Damage
  <1>6. CASE ~ Editing
    <2>1. current = None
      BY DEF AllInv, IInv, HandlerOK, Writing
    <2>2. OpenId = None
      BY <1>6, <2>1, NoneOpen
    <2>3. Vault!MayEnter(InHand) /\ InHand \in Vault!Copies
      BY <1>1, EntryAllowed DEF AllInv, Vault!Copies, Copies
    <2> QED BY <1>2, <1>4, <2>2, <2>3 DEF Vault!Damage
  <1> QED BY <1>5, <1>6

(* Showing a stored certificate opens it in the vault.                     *)
LEMMA OpenStep ==
    ASSUME IInv, NamedAlike(disk), current = None, ~ Editing,
           NEW f \in Files, OpenKey(f), disk' = disk, handler' = None
    PROVE  Vault!Next \/ UNCHANGED <<StoredVersion, OpenId>>
  <1>1. OpenId = None /\ StoredVersion' = StoredVersion
    BY NoneOpen, VaultSame
  <1>2. CASE current' = None
    BY <1>1, <1>2 DEF OpenId
  <1>3. CASE current' # None
    <2>1. disk[f] \in Copies /\ current'.key = disk[f] /\ FileOf[disk[f].id] = f
          /\ disk[f].id \in Keys
      BY <1>3, OpensStored DEF NamedAlike, Copies
    <2>2. OpenId' = disk[f].id
      BY <1>3, <2>1 DEF OpenId
    <2>3. StoredVersion[disk[f].id] = disk[f] /\ disk[f] # None
      BY <2>1, VaultOf, SentinelAssumption
    <2>4. Vault!Open(disk[f].id)
      BY <1>1, <2>2, <2>3 DEF Vault!Open
    <2> QED BY <2>1, <2>4 DEF Vault!Next
  <1> QED BY <1>2, <1>3

(* The confirmed delete takes away the certificate the screen shows, which *)
(* is the one that is open, if one is.                                     *)
LEMMA DeleteStep ==
    ASSUME AllInv, DeleteKey
    PROVE  Vault!Next
  <1> DEFINE k == detail.view.id
  <1>1. /\ screen = "detail" /\ handler = None
        /\ disk' = [disk EXCEPT ![detail.file] = Absent]
        /\ current' = None /\ handler' = None
    BY DEF DeleteKey, Tap
  <1>2. detail \in Rows /\ detail.file = FileOf[k] /\ k \in Keys
        /\ disk \in [Files -> Contents]
    BY <1>1 DEF AllInv, IInv, TypeOK, VInv, OnDetail, Rows, Views
  <1>3. StoredVersion' = [StoredVersion EXCEPT ![k] = None] /\ OpenId' = None
    BY <1>1, <1>2, VaultWrite, SentinelAssumption DEF Contents, OpenId
  <1>4. CASE current # None
    <2>1. OpenId = k /\ k # None
      BY <1>2, <1>4, SentinelAssumption
      DEF OpenId, AllInv, IInv, DetailShowsOpenKey, View
    <2> QED BY <1>3, <2>1 DEF Vault!Next, Vault!Delete
  <1>5. CASE current = None
    <2>1. OpenId = None /\ Faults # {}
      BY <1>1, <1>5 DEF OpenId, AllInv, VInv, Backed, OnDetail
    <2> DEFINE c == [id |-> k, secret |-> TRUE, rev |-> 0, pass |-> NoPass]
    <2>2. c \in Vault!Copies /\ c.id = k /\ c.secret
      BY <1>2, InputAssumption DEF Vault!Copies
    <2> HIDE DEF c, k
    <2>3. Vault!MayEnter(c)
      BY <2>2 DEF Vault!MayEnter
    <2>4. Vault!Damage
      BY <1>3, <2>1, <2>2, <2>3 DEF Vault!Damage
    <2> QED BY <2>4 DEF Vault!Next
  <1> QED BY <1>4, <1>5

(* Every step of the app is a step of the promise or none at all.          *)
LEMMA StepRefines ==
    ASSUME "read" \notin Faults, AllInv, [Next]_vars
    PROVE  Vault!Next \/ UNCHANGED <<StoredVersion, OpenId>>
  <1>0. IInv /\ NamedAlike(disk)
    BY DEF AllInv, VInv
  <1>1. CASE TapRow
    <2>1. PICK f \in Files : OpenKey(f)
      BY <1>0, <1>1 DEF TapRow, IInv, TypeOK, Rows
    <2>2. current = None /\ ~ Editing
      BY <1>0, <1>1, NothingOpen DEF TapRow, Tap, Editing
    <2> QED BY <1>0, <1>1, <2>1, <2>2, OpenStep DEF TapRow, Tap
  <1>2. CASE ShowNewKey
    <2>1. ~ Editing /\ current = None /\ handler.first \in Files
      BY <1>0, <1>2, ShowNewFrom
    <2> QED BY <1>0, <1>2, <2>1, OpenStep DEF ShowNewKey
  <1>3. CASE CloseDetail
    <2>1. disk' = disk /\ current' = None /\ handler' = None
      BY <1>3 DEF CloseDetail, Closed, Tap
    <2>2. Vault!Close
      BY <2>1, VaultSame DEF Vault!Close, OpenId
    <2> QED BY <2>2 DEF Vault!Next
  <1>4. CASE UNCHANGED <<disk, current, handler>>
    BY <1>4, VaultSame DEF OpenId, InHand
  <1>5. CASE ImportEntry
    <2>1. current = None /\ handler = None
      BY <1>0, <1>5, NothingOpen DEF ImportEntry, Tap, KeyModes
    <2>2. disk' = disk /\ current' = current /\ handler'.op = "Import"
      BY <1>5, BeginType, InputAssumption DEF ImportEntry
    <2> QED BY <2>1, <2>2, VaultSame DEF OpenId
  <1>6. CASE \/ \E p \in Passes : EditKey(p)
             \/ \E p, q \in Passes : ChangePassphrase(p, q)
    <2>1. disk' = disk /\ handler = None /\ current # None /\ OpenId = current.key.id
      BY <1>0, <1>6, EditSteps DEF OpenId
    <2>2. CASE current' = current
      BY <2>1, <2>2, VaultSame DEF OpenId
    <2>3. CASE current' = None /\ handler' # None /\ InHand'.id = current.key.id
      <3>1. handler'.op \in {"Edit", "Repass"}
        BY <1>0, <1>6, <2>1, <2>3, EditedType, TakeHandler
        DEF EditKey, ChangePassphrase, RestoreCurrent
      <3> QED BY <2>1, <2>3, <3>1, VaultSame DEF OpenId
    <2> QED BY <1>0, <1>6, <2>2, <2>3, EditSteps
  <1>7. CASE DeleteKey
    BY <1>7, DeleteStep
  <1>8. CASE SaveNewKey
    <2>1. /\ Writing /\ ReachesSave /\ handler.op \in {"Import", "Create"}
          /\ disk' = [disk EXCEPT ![Target] = InHand]
          /\ handler'.op = handler.op /\ current' = current
      BY <1>0, <1>8, AdvanceType DEF SaveNewKey, IInv
    <2>2. current = None /\ ~ Editing
      BY <1>0, <2>1 DEF IInv, HandlerOK, Writing, Editing
    <2>3. OpenId = None /\ OpenId' = None
      BY <2>1, <2>2 DEF OpenId, Editing
    <2>4. /\ InHand \in Copies /\ InHand.id \in Keys /\ Target = FileOf[InHand.id]
          /\ disk \in [Files -> Contents]
      BY <1>0, <2>1, WritingType DEF IInv, TypeOK, Target, Copies
    <2>5. Vault!Put(InHand)
      BY <2>1, <2>4, VaultWrite DEF Contents, Vault!Put
    <2>6. Vault!Add(InHand) /\ InHand \in Vault!Copies
      BY <1>0, <2>1, <2>3, <2>4, <2>5, EntryAllowed
      DEF Vault!Add, Vault!Copies, Copies
    <2> QED BY <2>6 DEF Vault!Next
  <1>9. CASE KeepStoredSecret
    <2>1. /\ handler.op = "Import" /\ handler'.op = handler.op /\ handler # None
          /\ disk' = disk /\ current' = current
      BY <1>0, <1>9, AdvanceType DEF KeepStoredSecret, Writing, IInv
    <2>2. current = None
      BY <1>0, <2>1 DEF IInv, HandlerOK
    <2> QED BY <2>1, <2>2, VaultSame DEF OpenId
  <1>10. CASE PersistCurrent
    <2>1. Writing /\ Editing
      BY <1>10 DEF PersistCurrent, Writing, Editing
    <2>2. /\ OpenId = InHand.id /\ InHand.id \in Keys /\ InHand \in Copies
          /\ Target = FileOf[InHand.id] /\ Target \in Files
          /\ \E p \in Passes : InHand \in Vault!Editions(p)
      BY <1>0, <2>1, WhileEditing, WritingType DEF IInv
    <2>3. /\ disk' = [disk EXCEPT ![Target] = InHand]
          /\ current' = [file |-> Target, key |-> InHand]
      BY <1>10 DEF PersistCurrent
    <2>4. OpenId' = InHand.id
      <3>1. current' \in Opened /\ current'.key = InHand
        BY <2>2, <2>3 DEF Opened
      <3> QED BY <3>1, SentinelAssumption DEF OpenId
    <2>5. Vault!Put(InHand)
      BY <1>0, <2>2, <2>3, VaultWrite DEF Contents, Vault!Put, IInv, TypeOK
    <2>6. Vault!Edit
      BY <2>2, <2>4, <2>5 DEF Vault!Edit
    <2> QED BY <2>6 DEF Vault!Next
  <1>11. CASE SaveFails
    <2>1. /\ Writing /\ ReachesSave /\ disk' \in InterruptedSaves
          /\ Faults # {} /\ handler' = None /\ current' = current
      BY <1>11 DEF SaveFails, Fail
    <2>2. current = None
      BY <1>0, <2>1 DEF IInv, HandlerOK, Writing
    <2>3. OpenId' = None
      BY <2>1, <2>2 DEF OpenId
    <2>4. Vault!Damage \/ Vault!Close
      BY <2>1, <2>3, DamageSteps
    <2> QED BY <2>4 DEF Vault!Next
  <1>12. CASE RunCreate
    <2>1. disk' = disk /\ current = None /\ current' = None /\ handler = None
      BY <1>0, <1>12, NothingOpen DEF RunCreate, Fires, IInv, JobOK
    <2>2. handler' = None \/ handler'.op = "Create"
      BY <1>12 DEF RunCreate, CreateFails, Begin
    <2> QED BY <2>1, <2>2, VaultSame DEF OpenId
  <1>13. CASE Crash
    <2>1. current' = None /\ handler' = None /\ OpenId' = None /\ Faults # {}
      BY <1>13 DEF Crash, OpenId
    <2>2. CASE Writing /\ ReachesSave
      <3>1. Vault!Damage \/ Vault!Close
        BY <1>13, <2>1, <2>2, DamageSteps DEF Crash
      <3> QED BY <3>1 DEF Vault!Next
    <2>3. CASE ~ (Writing /\ ReachesSave)
      <3>1. disk' = disk
        BY <1>13, <2>3 DEF Crash
      <3>2. Vault!Close
        BY <2>1, <3>1, VaultSame DEF Vault!Close
      <3> QED BY <3>2 DEF Vault!Next
    <2> QED BY <2>2, <2>3
  <1> QED
    BY <1>1, <1>2, <1>3, <1>4, <1>5, <1>6, <1>7, <1>8, <1>9, <1>10, <1>11,
       <1>12, <1>13
    DEF Next, User, Running, Timer, vars, OpenBrowser, CancelImport,
        ShowCreate, CancelCreate, RequestCreate, RequestFileJob,
        RequestSignQr, Arm, RunFileJob, RunChecksum, RunSignQr, Tap, Fires

LEMMA InitRefines == Init => Vault!Init
  BY DEF Init, Vault!Init, StoredVersion, OpenId, Vault!Copies, Copies

LEMMA InitAll ==
    ASSUME \A d \in InitialDisks : NamedAlike(d)
    PROVE  Init => AllInv
  <1>1. ASSUME Init
        PROVE  ShownIsStored /\ VInv
    <2>1. NamedAlike(disk)
      BY <1>1 DEF Init
    <2>2. screen = "list" /\ handler = None
      BY <1>1 DEF Init
    <2> QED BY <2>1, <2>2 DEF ShownIsStored, VInv, Backed, OnDetail, Editing
  <1> QED BY <1>1, InitInv DEF AllInv

LEMMA AllInvHolds ==
    ASSUME "read" \notin Faults, \A d \in InitialDisks : NamedAlike(d)
    PROVE  Spec => []AllInv
  <1>1. Init => AllInv
    BY InitAll
  <1>2. AllInv /\ [Next]_vars => AllInv'
    BY NextInv, NextShown, NextVInv DEF AllInv
  <1> QED BY <1>1, <1>2, PTL DEF Spec

(* An edit starts a second file only if the key's file was not named by    *)
(* save_key (persist_current writes to the name of the key, not to that of *)
(* the file): with proper names and readable files it writes over the file *)
(* its certificate was opened from, whatever saves fail and power is lost. *)
THEOREM EditsStayInTheirFile ==
    ASSUME "read" \notin Faults, \A d \in InitialDisks : NamedAlike(d)
    PROVE  Spec => EditsExistingFile
  <1>1. ASSUME AllInv, [Next]_vars, handler # None, handler.op \in {"Edit", "Repass"}
        PROVE  \A f \in Files : disk[f] = Absent => disk'[f] = Absent
    <2>1. /\ disk[Target] \in Copies /\ Target \in Files /\ disk \in [Files -> Contents]
          /\ Writing
      <3>1. Editing /\ Edition(disk[Target], InHand) /\ IInv
        BY <1>1 DEF AllInv, VInv, Editing
      <3>2. Writing
        BY <1>1, <3>1 DEF IInv, HandlerOK, Writing
      <3> QED BY <3>1, <3>2, WritingType DEF IInv, TypeOK, Edition
    <2>2. disk[Target] # Absent
      BY <2>1, SentinelAssumption
    <2>3. CASE disk' \in InterruptedSaves
      BY <2>1, <2>2, <2>3 DEF InterruptedSaves
    <2>4. CASE disk' = disk
      BY <2>4
    <2>5. CASE disk' = [disk EXCEPT ![Target] = InHand]
      BY <2>1, <2>2, <2>5
    <2> QED
      BY <1>1, <2>1, <2>3, <2>4, <2>5
      DEF Next, User, Running, Timer, vars, TapRow, CloseDetail, OpenBrowser,
          CancelImport, ShowCreate, CancelCreate, ImportEntry, EditKey,
          ChangePassphrase, DeleteKey, RequestCreate, RequestFileJob,
          RequestSignQr, Arm, SaveNewKey, KeepStoredSecret, ShowNewKey,
          PersistCurrent, SaveFails, Fail, RunCreate, RunFileJob, RunChecksum,
          RunSignQr, Crash, Tap, CanEdit, Fires
  <1>2. AllInv /\ [Next]_vars =>
            [handler # None /\ handler.op \in {"Edit", "Repass"}
                => \A f \in Files : disk[f] = Absent => disk'[f] = Absent]_vars
    BY <1>1
  <1> QED BY <1>2, AllInvHolds, PTL DEF Spec, EditsExistingFile

(* The delete passes the file name the detail screen was drawn with, and   *)
(* misses the open certificate only if an edit gave that another file:     *)
(* with proper names and readable files, the certificate on show is gone   *)
(* after any edits, changes of passphrase and failed saves.                *)
THEOREM DeletedKeysAreGone ==
    ASSUME "read" \notin Faults, \A d \in InitialDisks : NamedAlike(d)
    PROVE  Spec => DeletedKeyIsGone
  <1>1. ASSUME AllInv, DeleteKey, current # None
        PROVE  disk'[current.file] = Absent
    <2>1. /\ current \in Opened /\ disk \in [Files -> Contents]
          /\ disk[current.file] = current.key
          /\ detail # None /\ detail.view = View(current.key)
      BY <1>1 DEF AllInv, IInv, TypeOK, OpenKeyIsStored, DetailShowsOpenKey
    <2>2. FileOf[current.key.id] = current.file
      BY <1>1, <2>1 DEF AllInv, VInv, NamedAlike, Opened
    <2>3. detail.file = FileOf[current.key.id]
      BY <1>1, <2>1 DEF AllInv, VInv, OnDetail, DeleteKey, Tap, View
    <2> QED BY <1>1, <2>1, <2>2, <2>3 DEF DeleteKey, Opened
  <1>2. AllInv /\ [Next]_vars =>
            [DeleteKey /\ current # None => disk'[current.file] = Absent]_vars
    BY <1>1
  <1> QED BY <1>2, AllInvHolds, PTL DEF Spec, DeletedKeyIsGone

(* If reading does not fail and the stored files have their proper names,  *)
(* the app keeps the promise of KeyVault: only the certificate that is     *)
(* open is edited or deleted, from its stored version and by who knows its *)
(* passphrase; an import never replaces a secret copy by a public one; and *)
(* an interrupted write damages no certificate but the one being written.  *)
THEOREM ImplementsKeyVault ==
    ASSUME "read" \notin Faults, \A d \in InitialDisks : NamedAlike(d)
    PROVE  Spec => KeepsVaultPromise
  <1>1. Spec => []AllInv
    BY AllInvHolds
  <1>2. Init => Vault!Init
    BY InitRefines
  <1>3. AllInv /\ [Next]_vars => [Vault!Next]_<<StoredVersion, OpenId>>
    BY StepRefines
  <1> QED
    BY <1>1, <1>2, <1>3, PTL DEF Spec, KeepsVaultPromise, Vault!Spec
=============================================================================
