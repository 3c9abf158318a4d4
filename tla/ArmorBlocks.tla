---------------------------- MODULE ArmorBlocks -----------------------------
(***************************************************************************)
(* Reading the keys in a file: the file is cut in front of every marker    *)
(* "-----BEGIN PGP", each piece is read as one armored block, and one bad  *)
(* piece fails the import.  The library reads a piece up to its first END  *)
(* line, skips what stands before its BEGIN line, and does not see what    *)
(* follows the END line.                                                   *)
(*                                                                         *)
(* A file is a sequence of lines.                                          *)
(***************************************************************************)
EXTENDS Integers, Sequences, SequencesExt

CONSTANTS
    Certs,      \* certificates; each fills the lines of its packets as one
    Begin,      \* a line with the marker
    End,        \* an END line
    Text,       \* any other text
    Forged,     \* a certificate whose signatures do not verify
    MaxLines,   \* BOUND: lines of a file
    Error,
    NotRead

Lines == Certs \cup {Begin, End, Text, Forged}

ASSUME ArmorAssumption ==
    /\ MaxLines \in Nat
    /\ Certs \cap {Begin, End, Text, Forged} = {}
    /\ Begin # End /\ Error \notin Seq(Lines)

VARIABLES
    file,       \* what the user picked
    keys        \* what parse_keys returned, or NotRead before it is called

armor_vars == <<file, keys>>

-----------------------------------------------------------------------------
(* split_armor_blocks *)

Starts(data) == {i \in DOMAIN data : data[i] = Begin}

(* The scan: the members of S among the first len lines, in order.         *)
InOrder(S, len) ==
    LET found[i \in 0 .. len] ==
            IF i = 0 THEN <<>>
            ELSE IF i \in S THEN Append(found[i - 1], i) ELSE found[i - 1]
    IN  found[len]

(* From each marker up to the next one; a file with at most one marker is  *)
(* one piece, whatever stands before the marker.                           *)
LastStartOnly(data, starts, n) ==   \* mutant
    IF n < Len(starts) THEN starts[n + 1] - 1 ELSE starts[n]
PieceEnd(data, starts, n) ==
    IF n < Len(starts) THEN starts[n + 1] - 1 ELSE Len(data)

SplitArmorBlocks(data) ==
    LET starts == InOrder(Starts(data), Len(data))
    IN  IF Len(starts) <= 1 THEN <<data>>
        ELSE [n \in DOMAIN starts |-> SubSeq(data, starts[n], PieceEnd(data, starts, n))]

-----------------------------------------------------------------------------
(* parse_armor_block: the library's reader, then verify_bindings of each   *)
(* certificate.                                                            *)

(* The lines between the first BEGIN and the first END after it, or Error. *)
Body(piece) ==
    LET begins == Starts(piece)
        from == CHOOSE i \in begins : \A j \in begins : i <= j
        ends == {i \in DOMAIN piece : piece[i] = End /\ from < i}
    IN  IF begins = {} \/ ends = {} THEN Error
        ELSE SubSeq(piece, from + 1, (CHOOSE i \in ends : \A j \in ends : i <= j) - 1)

ParseArmorBlock(piece) ==
    LET body == Body(piece)
    IN  IF body # Error /\ ToSet(body) \subseteq Certs THEN body ELSE Error

(* parse_keys: the certificates of all pieces, in order.                   *)
ParseKeysLenient(data) ==   \* mutant
    LET blocks == SplitArmorBlocks(data)
        good == SelectSeq(blocks, LAMBDA b : ParseArmorBlock(b) # Error)
        all == FlattenSeq([n \in DOMAIN good |-> ParseArmorBlock(good[n])])
    IN  IF all = <<>> THEN Error ELSE all
ParseKeys(data) ==
    LET blocks == SplitArmorBlocks(data)
        parsed == [n \in DOMAIN blocks |-> ParseArmorBlock(blocks[n])]
    IN  IF Error \in ToSet(parsed) \/ FlattenSeq(parsed) = <<>> THEN Error
        ELSE FlattenSeq(parsed)

-----------------------------------------------------------------------------
(* Somebody writes a file; the app imports it. *)

AddLine ==
    /\ keys = NotRead /\ Len(file) < MaxLines
    /\ \E line \in Lines : file' = Append(file, line)
    /\ UNCHANGED keys

ImportFile ==
    /\ keys = NotRead
    /\ keys' = ParseKeys(file)
    /\ UNCHANGED file

ArmorInit == file = <<>> /\ keys = NotRead

ArmorNext == AddLine \/ ImportFile

ArmorSpec == ArmorInit /\ [][ArmorNext]_armor_vars

-----------------------------------------------------------------------------
(* Properties. *)

(* Line i lies in a block: the last BEGIN or END line before it is a BEGIN.*)
InBlock(i) ==
    \E b \in Starts(file) :
        b < i /\ \A j \in b + 1 .. i - 1 : file[j] \notin {Begin, End}

CertsInBlocks == {i \in DOMAIN file : InBlock(i) /\ file[i] \in Certs}

(* Every BEGIN has its END, and between them stand certificates only.      *)
WellFormed ==
    \A b \in Starts(file) :
        \E e \in b + 1 .. Len(file) :
            file[e] = End /\ \A j \in b + 1 .. e - 1 : file[j] \in Certs

(* An import takes every certificate of every block once and in order,     *)
(* with text before, between and after the blocks; or it takes none, and   *)
(* then some block was cut short, damaged or forged, or there was none:    *)
(* nothing is skipped without a word.                                      *)
EveryBlockOnce ==
    keys # NotRead =>
        keys = IF WellFormed /\ CertsInBlocks # {}
               THEN LET at == InOrder(CertsInBlocks, Len(file))
                    IN  [n \in DOMAIN at |-> file[at[n]]]
               ELSE Error
=============================================================================
