----------------------------- MODULE MCFileJobs -----------------------------
(* A small instance of FileJobs: a file f and its message f.gpg; a message *)
(* in a file that is called just ".gpg"; messages in two folders that are  *)
(* both called pgp-keys, one of them the keychain.                         *)
EXTENDS FileJobs

CONSTANTS f, gpg, sig, out, d1, d2, k1, k2, internal, airlock, keys

MCPlaces == { Root(internal), Root(airlock),
              [loc |-> internal, dir |-> <<keys>>],
              [loc |-> airlock, dir |-> <<keys>>] }

Plain(d) == [type |-> "plain", data |-> d, whole |-> TRUE, verified |-> TRUE]
Message(d, k, intact) ==
    [type |-> "message", data |-> d, to |-> k, intact |-> intact, whole |-> TRUE]

Path(loc, dir, name) == [at |-> [loc |-> loc, dir |-> dir], name |-> name]

Disk(message) ==
    [p \in {Path(internal, <<>>, <<f>>), Path(internal, <<>>, <<f, gpg>>)} |->
        IF p.name = <<f>> THEN Plain(d1) ELSE message]

Lone(name, message) == [p \in {Path(internal, <<>>, name)} |-> message]

KeysDisk == [p \in {Path(loc, <<keys>>, <<f, gpg>>) : loc \in {internal, airlock}}
                |-> Message(d1, k1, TRUE)]

(* The message beside f is sound, tampered with, too big or for another    *)
(* key; or there is no f yet; or the message has no name but ".gpg".       *)
MCFiles ==
    { Disk(m) : m \in { Message(d1, k1, TRUE), Message(d1, k1, FALSE),
                        Message(d2, k1, TRUE), Message(d1, k2, TRUE) } }
    \cup { Lone(<<f, gpg>>, Message(d1, k1, FALSE)), Lone(<<gpg>>, Message(d1, k1, TRUE)),
           KeysDisk }

MCExportPaths == {Path(internal, <<>>, <<f, out>>)}
=============================================================================
