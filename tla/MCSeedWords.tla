---------------------------- MODULE MCSeedWords -----------------------------
(* Bytes of 3 bits and words of 4: seeds of one byte end inside the second *)
(* group of three bits, seeds of three fill a whole byte with checksum.    *)
EXTENDS SeedWords

(* Any mixture of the bytes will do for a digest.                          *)
MCDigest(seed) ==
    FoldLeft(LAMBDA n, b : (3 * n + 5 * b + 1) % 8, Len(seed), seed)
=============================================================================
