------------------------------ MODULE TrngDraw ------------------------------
(***************************************************************************)
(* One draw of random bytes from the trng server.  A page is mapped,       *)
(* stamped with a sentinel and lent to the server, which says nothing of   *)
(* how much of it it has filled.  What comes back is judged by its bytes   *)
(* alone and copied to the caller or refused.                              *)
(*                                                                         *)
(* A byte is told by who wrote it and what it looks like, since a random   *)
(* byte may be the sentinel's, or zero, by accident.                       *)
(***************************************************************************)
EXTENDS Integers

CONSTANTS
    WordLen,        \* 4: the server is asked for words of so many bytes
    MinTailCheck,   \* 8: a tail of so many bytes is no accident
    MaxLen          \* BOUND: bytes of a draw

ASSUME TrngAssumption ==
    /\ {WordLen, MinTailCheck} \subseteq Nat \ {0}
    /\ MaxLen \in Nat

Drawn == {"random", "likeStamp", "likeZero"}      \* written by the server
LooksStamped == {"stamp", "likeStamp"}
LooksZero == {"fresh", "likeZero"}
PageBytes == Drawn \cup LooksStamped \cup LooksZero

VARIABLES
    draw,       \* where getrandom_inner is
    len,        \* bytes the caller wants
    conn,       \* whether the connection is cached
    page,       \* what the mapped page holds, of those bytes
    dest,       \* what the caller's buffer holds: "caller" if untouched
    honest,     \* whether the server filled all it was asked for; recorded
                \* for the properties
    outcome     \* what the caller is told

trng_vars == <<draw, len, conn, page, dest, honest, outcome>>

NoPage == [i \in 1 .. 0 |-> "fresh"]

-----------------------------------------------------------------------------
WordsForDown(n) == n \div WordLen       \* mutant
WordsFor(n) == n \div WordLen + IF n % WordLen # 0 THEN 1 ELSE 0

(* looks_unfilled: the sentinel is still on all of the draw, or on a tail  *)
(* that is long enough; or a draw that is long enough is zero.             *)
StampedFrom(i) == \A j \in i .. len : page[j] \in LooksStamped
LooksUnfilledWhole == StampedFrom(1)                    \* mutant
LooksUnfilledAtAll == StampedFrom(len)                  \* mutant
LooksUnfilled ==
    \/ StampedFrom(1)
    \/ /\ len >= MinTailCheck
       /\ \/ StampedFrom(len - MinTailCheck + 1)
          \/ \A j \in 1 .. len : page[j] \in LooksZero

StartDraw ==
    /\ draw \in {"idle", "done"}
    /\ len' \in 0 .. MaxLen
    /\ IF len' = 0 THEN draw' = "done" /\ outcome' = "ok"
       ELSE draw' = "connect" /\ outcome' = "running"
    /\ dest' = [i \in 1 .. len' |-> "caller"]
    /\ honest' = FALSE /\ page' = NoPage
    /\ UNCHANGED conn

(* trng_conn: connect once; a failure is tried again by the next draw.     *)
Connect ==
    /\ draw = "connect"
    /\ \/ conn' = TRUE /\ draw' = "map" /\ UNCHANGED outcome
       \/ ~ conn /\ draw' = "done" /\ outcome' = "unavailable" /\ UNCHANGED conn
    /\ UNCHANGED <<len, page, dest, honest>>

Unstamped == [i \in 1 .. len |-> "fresh"]               \* mutant
Stamped == [i \in 1 .. len |-> "stamp"]

MapAndStamp ==
    /\ draw = "map"
    /\ \/ page' = Stamped /\ draw' = "lend" /\ UNCHANGED outcome
       \/ draw' = "done" /\ outcome' = "syscall" /\ UNCHANGED page
    /\ UNCHANGED <<len, conn, dest, honest>>

(* The server has filled n bytes, the last k of them with accidents.       *)
Filled(n, k, accident) ==
    [i \in 1 .. len |-> IF i > n THEN page[i]
                        ELSE IF i > n - k THEN accident ELSE "random"]

(* It fills what it was asked for, stops anywhere, does nothing, or a      *)
(* fresh page comes back; or the message is not delivered.                 *)
Lend ==
    /\ draw = "lend"
    /\ \/ /\ LET asked == WordsFor(len) * WordLen
             IN  \E n \in 0 .. asked : \E k \in 0 .. n :
                 \E accident \in {"likeStamp", "likeZero"} :
                     page' = Filled(n, k, accident) /\ honest' = (n = asked)
          /\ draw' = "check" /\ UNCHANGED outcome
       \/ /\ page' = [i \in 1 .. len |-> "fresh"] /\ draw' = "check"
          /\ UNCHANGED <<honest, outcome>>
       \/ /\ draw' = "return" /\ outcome' = "syscall"
          /\ UNCHANGED <<page, honest>>
    /\ UNCHANGED <<len, conn, dest>>

(* Only what passes is copied to the caller.                               *)
Check ==
    /\ draw = "check"
    /\ draw' = "return"
    /\ IF LooksUnfilled
       THEN outcome' = "unfilled" /\ UNCHANGED dest
       ELSE outcome' = "ok" /\ dest' = page
    /\ UNCHANGED <<len, conn, page, honest>>

(* On every path the page is cleared and given back; where that fails, so  *)
(* does the draw.                                                          *)
ReturnPage ==
    /\ draw = "return"
    /\ draw' = "done" /\ page' = NoPage
    /\ outcome' \in IF outcome = "ok" THEN {"ok", "syscall"} ELSE {outcome}
    /\ UNCHANGED <<len, conn, dest, honest>>

TrngInit ==
    /\ draw = "idle" /\ len = 0 /\ conn = FALSE /\ page = NoPage
    /\ dest = NoPage /\ honest = FALSE /\ outcome = "running"

TrngNext ==
    StartDraw \/ Connect \/ MapAndStamp \/ Lend \/ Check \/ ReturnPage

TrngSpec == TrngInit /\ [][TrngNext]_trng_vars

-----------------------------------------------------------------------------
(* Properties. *)

(* Whatever the server did, every byte in the caller's buffer but the last *)
(* MIN_TAIL_CHECK - 1 is the server's, and a success has left no byte as   *)
(* it was.  Nothing is said of the last ones: an unfilled tail of 7 bytes  *)
(* passes, and so does a draw of up to 7 bytes that comes back zero.       *)
OnlyTailUnfilled ==
    /\ \A i \in 1 .. len :
           dest[i] \in {"stamp", "fresh"} => len < i + MinTailCheck
    /\ outcome = "ok" => \A i \in 1 .. len : dest[i] # "caller"

(* A server that fills what it is asked for is not let down: the caller    *)
(* gets its bytes and no other, at any length modulo that of a word, and   *)
(* they are refused only if the last MIN_TAIL_CHECK of them (all, of a     *)
(* shorter draw) are accidents.                                            *)
HonestDrawIsServed ==
    draw = "return" /\ honest =>
        /\ outcome = "ok" => \A i \in 1 .. len : dest[i] \in Drawn
        /\ outcome = "unfilled" =>
               \A i \in 1 .. len : len < i + MinTailCheck => page[i] # "random"
=============================================================================
