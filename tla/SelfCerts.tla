----------------------------- MODULE SelfCerts ------------------------------
(***************************************************************************)
(* The user IDs of a certificate, the signatures on them, and the edits    *)
(* pgp-core makes of them: set_expiration, add_user_id, remove_user_id.    *)
(*                                                                         *)
(* Nothing in a certificate says when it expires: each user ID carries     *)
(* self-certifications, each with a creation time, an expiration, the      *)
(* key's capabilities and the provenance note, and the newest of all of    *)
(* them counts.  The edits write new ones dated by the device's clock,     *)
(* which the user may set back; imported certificates come with any        *)
(* signatures at all.  Time is in units of the day.                        *)
(***************************************************************************)
EXTENDS Integers, Sequences, FiniteSets

CONSTANTS
    Ids,            \* user ID strings
    Notes,          \* provenance notes
    Days,           \* days a user may enter for a new expiration
    InitialKeys,    \* certificates generated, derived or imported
    MaxTime,        \* BOUND: the device's clock
    MaxSpan,        \* largest time from creation to expiration (a u32)
    MaxIds,         \* BOUND: user IDs of one certificate
    None

Spans == 1 .. MaxSpan

(* A signature on a user ID.  self: issued by the certificate's own key;   *)
(* revokes: a revocation of the user ID and not a certification of it.     *)
Signatures ==
    [self : BOOLEAN, revokes : BOOLEAN, created : 0 .. MaxTime,
     expires : Spans \cup {None}, note : Notes \cup {None},
     sign : BOOLEAN, primary : BOOLEAN]

Users == [id : Ids, sigs : Seq(Signatures)]
Certificates == [created : 0 .. MaxTime, users : Seq(Users) \ {<<>>}]

ASSUME InputAssumption ==
    /\ MaxTime \in Nat /\ MaxSpan \in Nat /\ MaxIds \in Nat
    /\ Days \subseteq Nat
    /\ InitialKeys \subseteq Certificates
    /\ None \notin Nat /\ None \notin Notes /\ None \notin Signatures

VARIABLES
    key,        \* the certificate being edited
    clock       \* the device's clock

vars == <<key, clock>>

-----------------------------------------------------------------------------
(* Reading a certificate. *)

Positions(k) ==
    UNION {{<<i, j>> : j \in DOMAIN k.users[i].sigs} : i \in DOMAIN k.users}
At(k, p) == k.users[p[1]].sigs[p[2]]

SelfCertsAt(k) == {p \in Positions(k) : At(k, p).self /\ ~At(k, p).revokes}

Before(p, q) == p[1] < q[1] \/ (p[1] = q[1] /\ p[2] < q[2])

(* latest_self_cert: of two equally new ones the first in the certificate. *)
LatestSelfCert(k) ==
    LET certs == SelfCertsAt(k)
        Newest(p) == \A q \in certs \ {p} :
            \/ At(k, q).created < At(k, p).created
            \/ At(k, q).created = At(k, p).created /\ Before(p, q)
    IN  IF certs = {} THEN None ELSE At(k, CHOOSE p \in certs : Newest(p))

(* What key_info, provenance and select_signer take from it.               *)
Effective(k) ==
    LET s == LatestSelfCert(k)
    IN  IF s = None THEN [expires |-> None, note |-> None, sign |-> TRUE]
        ELSE [expires |-> s.expires, note |-> s.note, sign |-> s.sign]

ExpiresAt(k) ==
    LET e == Effective(k).expires IN IF e = None THEN None ELSE k.created + e

-----------------------------------------------------------------------------
(* Making a certificate. *)

(* assemble_key: one user ID, certified at the creation time of the key.   *)
Assembled(id, created, note) ==
    [created |-> created,
     users |-> << [id |-> id,
                   sigs |-> << [self |-> TRUE, revokes |-> FALSE,
                                created |-> created, expires |-> None,
                                note |-> note, sign |-> TRUE,
                                primary |-> TRUE] >>] >>]

NoteDropped(template) == None       \* mutant
NoteOf(template) == IF template = None THEN None ELSE template.note

(* resign_user_id: a self-certification dated now, otherwise like template.*)
Resign(template, expires, primary) ==
    [self |-> TRUE, revokes |-> FALSE, created |-> clock,
     expires |-> expires,
     note |-> NoteOf(template),
     sign |-> IF template = None THEN TRUE ELSE template.sign,
     primary |-> primary]

-----------------------------------------------------------------------------
(* The edits.  One that fails leaves the certificate as it was.            *)

FitsLoosely(span) == 0 <= span /\ span <= MaxSpan      \* mutant
Fits(span) == 0 < span /\ span <= MaxSpan

PrimaryEverywhere(i) == TRUE        \* mutant
PrimaryAt(i) == i = 1

KeptAll(sigs) == sigs       \* mutant
KeptNone(sigs) == <<>>      \* mutant
Kept(sigs) ==
    LET kept[n \in 0 .. Len(sigs)] ==
            IF n = 0 THEN <<>>
            ELSE IF sigs[n].self THEN kept[n - 1]
            ELSE Append(kept[n - 1], sigs[n])
    IN  kept[Len(sigs)]

(* Third-party certifications are kept, the key's own ones are replaced.   *)
Replaced(user, sig) == [user EXCEPT !.sigs = Append(Kept(@), sig)]

(* set_expiration; days = None clears the expiration.                      *)
SetExpiration(days) ==
    LET span == IF days = None THEN None ELSE clock + days - key.created
        template == LatestSelfCert(key)
    IN  /\ days # None => Fits(span)
        /\ key' = [key EXCEPT !.users =
               [i \in DOMAIN @ |->
                   Replaced(@[i], Resign(template, span, PrimaryAt(i)))]]
        /\ UNCHANGED clock

ExpirationDropped(template) == None     \* mutant
ExpirationOf(template) == IF template = None THEN None ELSE template.expires

AddUserId(id) ==
    LET template == LatestSelfCert(key)
    IN  /\ Len(key.users) < MaxIds
        /\ key' = [key EXCEPT !.users = Append(@,
               [id |-> id,
                sigs |-> <<Resign(template, ExpirationOf(template), FALSE)>>])]
        /\ UNCHANGED clock

RemoveUserId(i) ==
    /\ Len(key.users) > 1
    /\ i \in DOMAIN key.users
    /\ key' = [key EXCEPT !.users =
           SubSeq(@, 1, i - 1) \o SubSeq(@, i + 1, Len(@))]
    /\ UNCHANGED clock

(* Time passes, or the user sets the clock, back too.                      *)
SetClock == clock' \in (0 .. MaxTime) \ {clock} /\ UNCHANGED key

Init == key \in InitialKeys /\ clock \in 0 .. MaxTime

Next ==
    \/ \E days \in Days \cup {None} : SetExpiration(days)
    \/ \E id \in Ids : AddUserId(id)
    \/ \E i \in 1 .. MaxIds : RemoveUserId(i)
    \/ SetClock

Spec == Init /\ [][Next]_vars

-----------------------------------------------------------------------------
(* Properties. *)

SelfCertificationsOf(k) == {At(k, p) : p \in SelfCertsAt(k)}

(* Every user ID is certified, and all certifications say the same.        *)
Agree(k) ==
    /\ DOMAIN k.users = {p[1] : p \in SelfCertsAt(k)}
    /\ Cardinality({<<s.expires, s.note, s.sign>> : s \in SelfCertificationsOf(k)}) = 1

PrimaryUsers(k) == {p[1] : p \in {q \in SelfCertsAt(k) : At(k, q).primary}}

(* User IDs that agree, as they do in every certificate the app makes, go  *)
(* on agreeing: no reader can see another expiration, whichever            *)
(* certification it takes for the newest.                                  *)
UserIdsAgree == [][Agree(key) => Agree(key')]_vars

(* No edit makes a second user ID the primary one.                         *)
AtMostOnePrimary ==
    [][Cardinality(PrimaryUsers(key)) <= 1
           => Cardinality(PrimaryUsers(key')) <= 1]_vars

(* While the user IDs agree, no edit but set_expiration moves the          *)
(* expiration, and none at all changes the provenance or which key signs,  *)
(* whatever the clock says at each edit.                                   *)
EditsKeepEffective ==
    [][Agree(key) =>
           LET before == Effective(key)
               after == Effective(key')
           IN  /\ after.note = before.note /\ after.sign = before.sign
               /\ after.expires # before.expires =>
                      \E days \in Days \cup {None} : SetExpiration(days)]_vars

(* After set_expiration the certificate expires when the user asked, on    *)
(* every user ID, even if it came with certifications dated in the future  *)
(* or the clock was set back; provenance and capabilities stay.  The span  *)
(* that is stored fits its 32 bits and is not zero, which other programs   *)
(* read as "never".                                                        *)
SetExpirationTakesEffect ==
    [][\A days \in Days \cup {None} :
           SetExpiration(days) =>
               /\ ExpiresAt(key') = IF days = None THEN None ELSE clock + days
               /\ Agree(key')
               /\ Effective(key').expires \in 1 .. MaxSpan \cup {None}
               /\ Effective(key').note = Effective(key).note
               /\ Effective(key').sign = Effective(key).sign]_vars

(* Adding a user ID leaves the effective expiration, provenance and        *)
(* capabilities of any certificate as they were, also of an imported one   *)
(* whose user IDs disagree.                                                *)
AddKeepsEffective ==
    [][(\E id \in Ids : AddUserId(id)) => Effective(key') = Effective(key)]_vars

OthersOn(u) == {u.sigs[j] : j \in {l \in DOMAIN u.sigs : ~u.sigs[l].self}}

(* The certifications other people made stay on every user ID that stays.  *)
ThirdPartySigsStay ==
    [][Len(key'.users) >= Len(key.users) =>
           \A i \in DOMAIN key.users :
               OthersOn(key'.users[i]) = OthersOn(key.users[i])]_vars

Revoked(u) == \E j \in DOMAIN u.sigs : u.sigs[j].self /\ u.sigs[j].revokes

(* set_expiration replaces certifications; it does not bring a revoked     *)
(* user ID back.                                                           *)
RevocationsStay ==
    [][\A days \in Days \cup {None} :
           SetExpiration(days) =>
               \A i \in DOMAIN key.users :
                   Revoked(key.users[i]) => Revoked(key'.users[i])]_vars
=============================================================================
