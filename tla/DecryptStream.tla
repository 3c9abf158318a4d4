--------------------------- MODULE DecryptStream ----------------------------
(***************************************************************************)
(* One call of decrypt_stream: the test unlock, the parser chosen by the   *)
(* first byte, the session key, any number of compressed layers, and the   *)
(* copy of the plaintext through a writer that counts it and stops before  *)
(* the first byte over the caller's limit.  The copy reads some bytes and  *)
(* writes them in as many calls as the sink asks for; the library checks   *)
(* the integrity of the message only after its last byte.                  *)
(*                                                                         *)
(* FileJobs has the call as one step and knows only whether the plaintext  *)
(* is over the limit; here bytes are counted.                              *)
(***************************************************************************)
EXTENDS Integers

CONSTANTS
    Limits,     \* values of max_output
    MaxU64,     \* the largest 64-bit number
    MaxRead,    \* bytes one read of the copy may return
    Messages,   \* what may be in the file
    NoMessage

(* form: the first byte and the armor; mine: for the key that is open;     *)
(* layers: of compression; size: of the plaintext, and less than 2^64.     *)
MessageType ==
    [form : {"binary", "armored", "junk"}, mine : BOOLEAN, layers : Nat,
     size : 0 .. MaxU64, sound : BOOLEAN]

ASSUME StreamAssumption ==
    /\ MaxU64 \in Nat /\ MaxRead \in Nat \ {0}
    /\ Limits \subseteq 0 .. MaxU64
    /\ Messages \subseteq MessageType
    /\ NoMessage \notin Messages

VARIABLES
    msg,        \* the message, or NoMessage before the call
    limit,      \* max_output
    step,       \* the step of decrypt_stream that comes next
    layers,     \* compressed layers still around the plaintext
    unread,     \* bytes of plaintext still in the message
    buffer,     \* bytes read and not yet written
    written,    \* CappedWriter.written
    released,   \* bytes the sink has taken; recorded for the properties
    result      \* what the call returned, or "running"

stream_vars == <<msg, limit, step, layers, unread, buffer, written, released, result>>

Returns(r) == result' = r /\ step' = "done"

-----------------------------------------------------------------------------
Call ==
    /\ step = "idle"
    /\ msg' \in Messages /\ limit' \in Limits
    /\ layers' = msg'.layers /\ unread' = msg'.size
    /\ step' = "unlock"
    /\ UNCHANGED <<buffer, written, released, result>>

(* The passphrase typed opens the part that decrypts, or it does not.      *)
Unlock ==
    /\ step = "unlock"
    /\ \/ step' = "parse" /\ UNCHANGED result
       \/ Returns("Wrong passphrase")
    /\ UNCHANGED <<msg, limit, layers, unread, buffer, written, released>>

(* decrypt_parse: the high bit of the first byte tells packets from armor. *)
Parse ==
    /\ step = "parse"
    /\ IF msg.form = "junk" THEN Returns("error")
       ELSE step' = "unwrap" /\ UNCHANGED result
    /\ UNCHANGED <<msg, limit, layers, unread, buffer, written, released>>

Unwrap ==
    /\ step = "unwrap"
    /\ IF msg.mine THEN step' = "decompress" /\ UNCHANGED result ELSE Returns("error")
    /\ UNCHANGED <<msg, limit, layers, unread, buffer, written, released>>

(* while msg.is_compressed(); a layer may turn out to be damaged.          *)
Decompress ==
    /\ step = "decompress"
    /\ IF layers = 0 THEN step' = "copy" /\ UNCHANGED <<layers, result>>
       ELSE \/ layers' = layers - 1 /\ UNCHANGED <<step, result>>
            \/ ~ msg.sound /\ Returns("error") /\ UNCHANGED layers
    /\ UNCHANGED <<msg, limit, unread, buffer, written, released>>

-----------------------------------------------------------------------------
(* decrypt_copy_out: std::io::copy into a CappedWriter. *)

(* The sum stays below MaxU64, like the size of a plaintext, so that no    *)
(* behaviour takes the saturating branch: nothing is said of it.           *)
SaturatingAdd(a, b) == IF a + b > MaxU64 THEN MaxU64 ELSE a + b

(* A read returns some of the plaintext; one of a damaged message may      *)
(* fail, and after the last byte it must.                                  *)
Read ==
    /\ step = "copy" /\ buffer = 0
    /\ \/ \E n \in 1 .. MaxRead :
              /\ n <= unread
              /\ buffer' = n /\ unread' = unread - n
              /\ UNCHANGED <<step, result>>
       \/ /\ IF unread = 0 /\ msg.sound THEN Returns("ok")
             ELSE ~ msg.sound /\ Returns("error")
          /\ UNCHANGED <<buffer, unread>>
    /\ UNCHANGED <<msg, limit, layers, written, released>>

(* CappedWriter::write, until the buffer is empty: refused as a whole if   *)
(* it would pass the limit, else the sink takes some of it.                *)
RefusesLate == written > limit      \* mutant
Refuses == SaturatingAdd(written, buffer) > limit
CountedOffered(n) == written + buffer   \* mutant
Counted(n) == written + n

Write ==
    /\ step = "copy" /\ buffer > 0 /\ ~ Refuses
    /\ \E n \in 1 .. buffer :
           /\ released' = released + n
           /\ written' = Counted(n)
           /\ buffer' = buffer - n
    /\ UNCHANGED <<msg, limit, step, layers, unread, result>>

RefuseWrite ==
    /\ step = "copy" /\ buffer > 0 /\ Refuses
    /\ Returns("Decrypted output exceeded")
    /\ UNCHANGED <<msg, limit, layers, unread, buffer, written, released>>

(* The sink fails, or takes nothing, which write_all makes an error.       *)
SinkFails ==
    /\ step = "copy" /\ buffer > 0 /\ ~ Refuses
    /\ Returns("error")
    /\ UNCHANGED <<msg, limit, layers, unread, buffer, written, released>>

StreamInit ==
    /\ msg = NoMessage /\ limit = 0 /\ step = "idle" /\ layers = 0
    /\ unread = 0 /\ buffer = 0 /\ written = 0 /\ released = 0 /\ result = "running"

StreamNext ==
    \/ Call \/ Unlock \/ Parse \/ Unwrap \/ Decompress
    \/ Read \/ Write \/ RefuseWrite \/ SinkFails

StreamSpec == StreamInit /\ [][StreamNext]_stream_vars

-----------------------------------------------------------------------------
(* Properties. *)

(* The cap is exact, however reads and writes split the plaintext: no byte *)
(* over the limit is released; plaintext that fits is never refused, also  *)
(* when it fills the limit to the last byte; and a call that succeeds has  *)
(* released all of a sound message.                                        *)
CapIsExact ==
    /\ released <= limit
    /\ result = "Decrypted output exceeded" => msg.size > limit
    /\ result = "ok" => msg.sound /\ released = msg.size
=============================================================================
