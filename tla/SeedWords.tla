----------------------------- MODULE SeedWords ------------------------------
(***************************************************************************)
(* The seed words on the create screen: typed, completed from the          *)
(* suggestions or scanned from a SeedQR, and the verdict shown under them. *)
(*                                                                         *)
(* A seed is a string of bytes.  Its words are indices into a list: the    *)
(* seed and a checksum are cut into groups of WordBits bits, which end in  *)
(* the middle of bytes.  Both directions shift the bits through an         *)
(* accumulator that is never masked and overflows on every real seed.      *)
(* A byte has ByteBits bits here, so that every seed of a small length can *)
(* be tried.                                                               *)
(***************************************************************************)
EXTENDS Numerals, SequencesExt

CONSTANTS
    ByteBits,       \* 8
    WordBits,       \* 11: the list has 2^WordBits words
    AccBits,        \* 32: width of the accumulator
    ChecksumEvery,  \* 32: seed bits for one bit of checksum
    Digest(_),      \* first byte of the SHA-256 of a seed
    SeedLens,       \* 16, 24, 32: lengths of a seed, in bytes
    WordCounts,     \* 12, 24: numbers of words an import accepts
    MaxQr,          \* 9999: the largest number of four digits
    MaxWords,       \* BOUND: words in the field
    ScanOver,       \* BOUND: words in the field when a code is scanned
    Unknown,        \* any word that is not in the list
    None

Bytes == 0 .. Pow(2, ByteBits) - 1
Words == 0 .. Pow(2, WordBits) - 1

ChecksumBits(len) == (len * ByteBits) \div ChecksumEvery
SeedLen(count) == (count * WordBits * ChecksumEvery) \div (ByteBits * (ChecksumEvery + 1))

ASSUME InputAssumption ==
    /\ {ByteBits, WordBits, ChecksumEvery, AccBits, MaxQr, MaxWords, ScanOver} \subseteq Nat \ {0}
    /\ AccBits >= ByteBits + WordBits - 1
    /\ \A len \in SeedLens :
           /\ len \in Nat \ {0} /\ ChecksumBits(len) \in 1 .. ByteBits
           /\ (len * ByteBits + ChecksumBits(len)) % WordBits = 0
    /\ \A count \in WordCounts :
           LET len == SeedLen(count)
           IN  /\ count \in Nat /\ len \in SeedLens
               /\ count * WordBits = len * ByteBits + ChecksumBits(len)
    /\ \A len \in SeedLens : \A seed \in [1 .. len -> Bytes] : Digest(seed) \in Bytes
    /\ Unknown \notin Words
    /\ None \notin {"checksum ok", "checksum invalid"}

VARIABLES
    field,      \* Ui.import-mnemonic, as words
    status,     \* the verdict in Ui.import-status, or None
    scanned     \* the code the field was filled from, or None; recorded
                \* for the properties

vars == <<field, status, scanned>>

-----------------------------------------------------------------------------
(* Cutting bits into groups. *)

Start == [acc |-> 0, bits |-> 0, out |-> <<>>]

(* One turn of either packing loop: shift n bits of value in, and take     *)
(* groups of width bits out as long as there are enough.                   *)
EmittedHigh(acc, bits, width) ==    \* mutant
    [k \in 1 .. bits \div width |-> acc \div Pow(2, bits - k * width)]
Emitted(acc, bits, width) ==
    [k \in 1 .. bits \div width |->
        (acc \div Pow(2, bits - k * width)) % Pow(2, width)]

Push(s, n, value, width) ==
    LET acc == (s.acc * Pow(2, n) + value) % Pow(2, AccBits)
        bits == s.bits + n
    IN  [acc |-> acc, bits |-> bits % width,
         out |-> s.out \o Emitted(acc, bits, width)]

Packed(values, n, width) ==
    LET packed[i \in 0 .. Len(values)] ==
            IF i = 0 THEN Start ELSE Push(packed[i - 1], n, values[i], width)
    IN  packed[Len(values)]

EntropyToIndices(seed) ==
    LET len == ChecksumBits(Len(seed))
        checksum == Digest(seed) \div Pow(2, ByteBits - len)
    IN  Push(Packed(seed, ByteBits, WordBits), len, checksum, WordBits).out

(* The words as bytes; what is left of the last word is padded.            *)
Unpacked(words) ==
    LET s == Packed(words, WordBits, ByteBits)
        padded == (s.acc * Pow(2, ByteBits - s.bits)) % Pow(2, ByteBits)
    IN  IF s.bits > 0 THEN Append(s.out, padded) ELSE s.out

Candidate(words) == SubSeq(Unpacked(words), 1, SeedLen(Len(words)))

(* The checksum is verified by encoding the candidate seed again.          *)
VerifiedNever(words) == TRUE    \* mutant
Verified(words) == EntropyToIndices(Candidate(words)) = words

(* normalize_mnemonic: how many words, which words, and the checksum.      *)
Accepted(words) ==
    /\ Len(words) \in WordCounts
    /\ Unknown \notin ToSet(words)
    /\ Verified(words)

-----------------------------------------------------------------------------
(* The field and its verdict. *)

(* update_import_status, after every change of the field.                  *)
Verdict(words) ==
    IF Len(words) \notin WordCounts THEN None
    ELSE IF Accepted(words) THEN "checksum ok" ELSE "checksum invalid"

Shows(words) == field' = words /\ status' = Verdict(words)

TypeWord ==
    /\ Len(field) < MaxWords
    /\ \E w \in Words \cup {Unknown} : Shows(Append(field, w))
    /\ scanned' = None

EraseWord ==
    /\ field # <<>>
    /\ Shows(Front(field))
    /\ scanned' = None

(* clear_import_fields, when the screen is left or an import has ended.    *)
ClearFields == field # <<>> /\ Shows(<<>>) /\ scanned' = None

(* A suggestion replaces the word being typed; it is from the list.        *)
ApplySuggestion ==
    /\ field # <<>>
    /\ \E w \in Words : Shows(Append(Front(field), w))
    /\ scanned' = None

-----------------------------------------------------------------------------
(* SeedQR: the words' indices as decimal digits, or the bytes of the seed. *)

StandardCodes ==
    UNION {[type : {"standard"}, data : [1 .. n -> 0 .. MaxQr]] : n \in WordCounts}
CompactCodes ==
    UNION {[type : {"compact"}, data : [1 .. SeedLen(n) -> Bytes]] : n \in WordCounts}

InListNever(numbers) == TRUE    \* mutant
InList(numbers) == ToSet(numbers) \subseteq Words

Scan(code, words) ==
    /\ Len(field) <= ScanOver
    /\ Shows(words)
    /\ scanned' = code

ScanStandard ==
    \E code \in StandardCodes : InList(code.data) /\ Scan(code, code.data)

ScanCompact ==
    \E code \in CompactCodes : Scan(code, EntropyToIndices(code.data))

(* Anything else is "Not a SeedQR" or no code at all, and the field stays. *)

Init == field = <<>> /\ status = None /\ scanned = None

Next ==
    \/ TypeWord \/ EraseWord \/ ClearFields \/ ApplySuggestion
    \/ ScanStandard \/ ScanCompact

Spec == Init /\ [][Next]_vars

-----------------------------------------------------------------------------
(* Properties.  The reference is arithmetic: the words, read as one number *)
(* in base 2^WordBits, are the seed, read as one number in base            *)
(* 2^ByteBits, followed by the leading bits of its digest.                 *)

Encodes(words, seed) ==
    LET len == ChecksumBits(Len(seed))
    IN  /\ Len(words) * WordBits = Len(seed) * ByteBits + len
        /\ Number(words, WordBits) =
               Number(seed, ByteBits) * Pow(2, len)
               + Digest(seed) \div Pow(2, ByteBits - len)

(* The field is told to be right exactly if it spells some seed and its    *)
(* checksum, whatever way the words were entered: no misread word passes   *)
(* and no correct backup is refused.                                       *)
VerdictIsTrue ==
    status = "checksum ok" <=>
        /\ Len(field) \in WordCounts /\ Unknown \notin ToSet(field)
        /\ \E seed \in [1 .. SeedLen(Len(field)) -> Bytes] : Encodes(field, seed)

(* A compact code shows the words of the seed it holds, with a checksum    *)
(* that is right; so a seed's standard and compact codes show the same.    *)
CompactShowsSeed ==
    scanned # None /\ scanned.type = "compact" =>
        Encodes(field, scanned.data) /\ status = "checksum ok"
=============================================================================
