------------------------------ MODULE KeyVault ------------------------------
(***************************************************************************)
(* What the keychain promises its user, with no file, no screen and no     *)
(* handler in sight: at most one certificate is open; only the open one is *)
(* edited, by someone who knows its passphrase, one edit at a time and     *)
(* from the stored version; bringing in a certificate happens with nothing *)
(* open and never turns stored secret material into a public copy; only    *)
(* the open one is deleted.  When storage may fail (Lossy), the one        *)
(* certificate being written may be damaged, and no other.                 *)
(***************************************************************************)
EXTENDS Naturals

CONSTANTS Keys, Passes, MaxRev, Lossy, None

Copies == [id : Keys, secret : BOOLEAN, rev : 0 .. MaxRev, pass : Passes]

VARIABLES
    vault,      \* certificate -> the version stored, or None
    open        \* the certificate that is open, or None

Init == vault \in [Keys -> Copies \cup {None}] /\ open = None

Open(k) ==
    /\ open = None /\ vault[k] # None
    /\ open' = k
    /\ UNCHANGED vault

Close == open' = None /\ UNCHANGED vault

Put(c) == vault' = [vault EXCEPT ![c.id] = c]

(* A certificate comes in: imported, generated or derived again.           *)
MayEnter(c) == vault[c.id] = None \/ ~vault[c.id].secret \/ c.secret
Add(c) == open = None /\ MayEnter(c) /\ Put(c) /\ UNCHANGED open

(* The new versions the holder of passphrase p can make of the open one.   *)
Editions(p) ==
    IF open = None \/ vault[open] = None THEN {}
    ELSE LET c == vault[open]
         IN  IF c.secret /\ c.pass = p
             THEN {[c EXCEPT !.rev = r] : r \in {c.rev + 1} \cap (0 .. MaxRev)}
                      \cup {[c EXCEPT !.pass = q] : q \in Passes}
             ELSE {}

Edit == \E p \in Passes : \E c \in Editions(p) : Put(c) /\ UNCHANGED open

Delete ==
    /\ open # None
    /\ vault' = [vault EXCEPT ![open] = None]
    /\ open' = None

(* A write that failed: the new version got there, or the old one is gone. *)
Damage ==
    /\ Lossy
    /\ open' = None
    /\ \/ \E p \in Passes : \E c \in Editions(p) : Put(c)
       \/ open # None /\ vault' = [vault EXCEPT ![open] = None]
       \/ \E c \in Copies :
              /\ open = None /\ MayEnter(c)
              /\ Put(c) \/ vault' = [vault EXCEPT ![c.id] = None]

Next ==
    \/ \E k \in Keys : Open(k)
    \/ Close \/ Edit \/ Delete \/ Damage
    \/ \E c \in Copies : Add(c)

Spec == Init /\ [][Next]_<<vault, open>>
=============================================================================
