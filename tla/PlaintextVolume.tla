--------------------------- MODULE PlaintextVolume ---------------------------
(***************************************************************************)
(* What a decrypted volume promises its user: a byte stream of `size'      *)
(* bytes with a seek position, whose calls each take effect at once and    *)
(* either fail without moving the position or return the plaintext.        *)
(*                                                                         *)
(* A plaintext byte is named by its logical offset.  `intact' is the set   *)
(* of offsets whose ciphertext the backing image holds; the other bytes    *)
(* are returned as Garbage (decrypted padding), never as some other byte.  *)
(***************************************************************************)
EXTENDS MachineWord

CONSTANTS Offsets,      \* offsets that callers ask for
          BufLens,      \* lengths of the callers' buffers
          SeekDeltas,   \* signed offsets of relative seeks
          Failures      \* ways in which a read may fail

VARIABLES size, intact, position, call

pvars == <<size, intact, position, call>>

Garbage == -1

\* How many bytes a read of len bytes at offset o returns.
Served(o, len) == IF o < size THEN u64_min(len, size - o) ELSE 0

Plaintext(o, n) ==
    [i \in 0 .. n - 1 |-> IF o + i \in intact THEN o + i ELSE Garbage]

NoData == [i \in {} |-> Garbage]

Request(kind, o, len) ==
    [kind |-> kind, offset |-> o, len |-> len,
     status |-> "pending", n |-> 0, data |-> NoData]

Reply(status, n, data) ==
    [kind |-> call.kind, offset |-> call.offset, len |-> call.len,
     status |-> status, n |-> n, data |-> data]

SeekReply(kind, o, status, n) ==
    [kind |-> kind, offset |-> o, len |-> 0,
     status |-> status, n |-> n, data |-> NoData]

AInit == /\ size \in U64
         /\ intact \in SUBSET (0 .. size - 1)
         /\ position = 0
         /\ call = SeekReply("seek_start", 0, "ok", 0)

Invoke == /\ call.status # "pending"
          /\ \E len \in BufLens :
                \/ \E o \in Offsets : call' = Request("read_at", o, len)
                \/ call' = Request("read", position, len)
          /\ UNCHANGED <<size, intact, position>>

ReturnOk ==
    LET n == Served(call.offset, call.len)
    IN  /\ call.status = "pending"
        /\ call' = Reply("ok", n, Plaintext(call.offset, n))
        /\ position' = IF call.kind = "read" THEN position + n ELSE position
        /\ UNCHANGED <<size, intact>>

ReturnErr == /\ call.status = "pending"
             /\ \E f \in Failures : call' = Reply(f, 0, NoData)
             /\ UNCHANGED <<size, intact, position>>

\* A seek to origin + d: exact, or refused when that is not a u64.
SeekTo(kind, origin, d) ==
    /\ call.status # "pending"
    /\ \/ /\ origin + d \in U64
          /\ position' = origin + d
          /\ call' = SeekReply(kind, d, "ok", origin + d)
       \/ /\ origin + d \notin U64
          /\ call' = SeekReply(kind, d, "invalid_input", 0)
          /\ UNCHANGED position
    /\ UNCHANGED <<size, intact>>

ANext == \/ Invoke
         \/ ReturnOk
         \/ ReturnErr
         \/ \E o \in Offsets : SeekTo("seek_start", 0, o)
         \/ \E d \in SeekDeltas : \/ SeekTo("seek_end", size, d)
                                  \/ SeekTo("seek_current", position, d)

ASpec == AInit /\ [][ANext]_pvars
=============================================================================
