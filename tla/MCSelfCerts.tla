---------------------------- MODULE MCSelfCerts -----------------------------
(* Small instances of SelfCerts: certificates the app makes, and imported  *)
(* ones with every kind of signature.                                      *)
EXTENDS SelfCerts

CONSTANTS u1, u2, n1

MCMadeKeys == { Assembled(u1, 2, None), Assembled(u1, 0, n1) }

Cert(created, expires, note) ==
    [self |-> TRUE, revokes |-> FALSE, created |-> created, expires |-> expires,
     note |-> note, sign |-> TRUE, primary |-> FALSE]
Revocation(created) == [Cert(created, None, None) EXCEPT !.revokes = TRUE]
Primary(created) == [Cert(created, 1, None) EXCEPT !.primary = TRUE]
Foreign(created) == [Cert(created, None, None) EXCEPT !.self = FALSE]

User(id, sigs) == [id |-> id, sigs |-> sigs]
Imported(users) == [created |-> 1, users |-> users]

(* Two user IDs that disagree, the second from the future; a revoked user  *)
(* ID; a signing subkey; two certifications of the same second; none.      *)
MCImportedKeys ==
    { Imported(<<User(u1, <<Foreign(2), Cert(1, 2, n1)>>), User(u2, <<Cert(3, None, None)>>)>>),
      Imported(<<User(u1, <<Cert(1, 1, None), Revocation(2)>>), User(u2, <<Primary(1)>>)>>),
      Imported(<<User(u1, <<[Cert(2, None, None) EXCEPT !.sign = FALSE], Foreign(3)>>)>>),
      Imported(<<User(u1, <<Cert(2, 3, None), Cert(2, None, n1)>>)>>),
      Imported(<<User(u1, <<Foreign(1)>>)>>) }

MCKeys == MCMadeKeys \cup MCImportedKeys
=============================================================================
