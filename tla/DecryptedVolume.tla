--------------------------- MODULE DecryptedVolume ---------------------------
(***************************************************************************)
(* core/src/volume.rs: the decrypted view of one contiguous segment of a   *)
(* CoreStorage logical volume, over an untrusted Read + Seek image.        *)
(*                                                                         *)
(* One call is in progress at a time (`read_at', `read' and `seek' take    *)
(* &mut self), but a call is many steps: the reader is seeked, then read   *)
(* in chunks of the reader's choosing, with interruptions, errors and an   *)
(* end of file anywhere between them.                                      *)
(*                                                                         *)
(* Data.  An image byte is named by its physical address, a plaintext byte *)
(* by its logical offset.  The ciphertext of logical byte L is the image   *)
(* byte at physical_base + L, encrypted as part of its AES block in the    *)
(* sector L \div SectorSize.                                               *)
(***************************************************************************)
EXTENDS MachineWord

CONSTANTS SectorSize,      \* SECTOR_SIZE, 512 in the code
          AesBlockSize,    \* the cipher's block, 16 in the code
          PhysicalBases,   \* byte offsets at which the segment may start
          Sizes,           \* logical volume sizes, as the metadata claims them
          ImageLens,       \* lengths of the backing image
          Offsets,         \* offsets that callers ask for
          BufLens,         \* lengths of the callers' buffers
          SeekDeltas,      \* i64 arguments of relative seeks
          OverflowChecks   \* does the build panic when + overflows?

ASSUME SectorAssumption ==
    /\ AesBlockSize \in Nat \ {0}
    /\ SectorSize \in Nat \ {0}
    /\ SectorSize % AesBlockSize = 0
    /\ 4 * SectorSize <= WordMax

\* A Rust slice is at most isize::MAX bytes long.
ASSUME InputAssumption ==
    /\ PhysicalBases \subseteq U64
    /\ Sizes \subseteq U64
    /\ ImageLens \subseteq U64
    /\ Offsets \subseteq U64
    /\ BufLens \subseteq 0 .. (WordMax \div 2)
    /\ SeekDeltas \subseteq Int
    /\ OverflowChecks \in BOOLEAN

VARIABLES physical_base, size,   \* of DecryptedVolume, set by new()
          position,              \* of DecryptedVolume
          image_len,             \* length of the image behind `reader'
          cursor,                \* seek position of `reader'
          pc,                    \* where the call in progress stands
          region, filled,        \* locals of read_at and read_full_or_eof
          call                   \* the last call and its result

geometry == <<physical_base, size, image_len>>
vars == <<physical_base, size, position, image_len, cursor, pc,
          region, filled, call>>
-----------------------------------------------------------------------------
\* A byte that is no image byte (the zeroes of a fresh region), and a
\* plaintext byte that no image byte accounts for.
Zero == -1
Garbage == -1

NoData == [i \in {} |-> Garbage]

Request(kind, o, len) ==
    [kind |-> kind, offset |-> o, len |-> len,
     status |-> "pending", n |-> 0, data |-> NoData]

Reply(status, n, data) ==
    [kind |-> call.kind, offset |-> call.offset, len |-> call.len,
     status |-> status, n |-> n, data |-> data]

SeekReply(kind, o, status, n) ==
    [kind |-> kind, offset |-> o, len |-> 0,
     status |-> status, n |-> n, data |-> NoData]

\* DecryptedVolume::new, over a reader that unlocking left anywhere.
Init == /\ physical_base \in PhysicalBases
        /\ size \in Sizes
        /\ image_len \in ImageLens
        /\ cursor \in {0, image_len}
        /\ position = 0
        /\ pc = "idle"
        /\ region = NoData
        /\ filled = 0
        /\ call = SeekReply("seek_start", 0, "ok", 0)
-----------------------------------------------------------------------------
(* The locals of read_at that are functions of its arguments.              *)

NothingToRead == call.offset >= size \/ call.len = 0

want == u64_min(call.len, size - call.offset)

first_sector == call.offset \div SectorSize

\* Mutant: the offset inside the first sector is forgotten.
last_sector_of_want == first_sector + (want - 1) \div SectorSize

last_sector == (call.offset + want - 1) \div SectorSize

region_len == checked_mul(last_sector - first_sector + 1, SectorSize)

PhysicalOverflows == physical_base + first_sector * SectorSize \notin U64

physical == wrapping_add(physical_base, first_sector * SectorSize)

inner == call.offset - first_sector * SectorSize

(***************************************************************************)
(* xts::decrypt_units.  The bytes of the AES block around logical byte L   *)
(* come out right exactly when every one of them went in: XTS garbles the  *)
(* whole block, and only it, when any byte or the tweak is not the one     *)
(* used to encrypt.                                                        *)
(***************************************************************************)
AesStart(L) == (L \div AesBlockSize) * AesBlockSize

AesBlock(L) == AesStart(L) .. AesStart(L) + AesBlockSize - 1

\* Mutant: every region is decrypted with the tweaks of sectors 0, 1, ...
decrypt_units_from_zero(buf, unit_size, first_unit) ==
    [j \in DOMAIN buf |->
        IF \A k \in AesBlock(j) : /\ k \in DOMAIN buf
                                  /\ buf[k] = physical_base + k
        THEN j ELSE Garbage]

decrypt_units(buf, unit_size, first_unit) ==
    LET origin == first_unit * unit_size
        Genuine(k) == /\ k - origin \in DOMAIN buf
                      /\ buf[k - origin] = physical_base + k
    IN  [j \in DOMAIN buf |-> IF \A k \in AesBlock(origin + j) : Genuine(k)
                              THEN origin + j ELSE Garbage]
-----------------------------------------------------------------------------
(* Calls of the user.                                                      *)

ReadAt(o, len) == /\ pc = "idle"
                  /\ pc' = "enter"
                  /\ call' = Request("read_at", o, len)
                  /\ UNCHANGED <<geometry, position, cursor, region, filled>>

\* Read::read is read_at at the current position.
Read(len) == /\ pc = "idle"
             /\ pc' = "enter"
             /\ call' = Request("read", position, len)
             /\ UNCHANGED <<geometry, position, cursor, region, filled>>

\* Mutant: the sum is not checked.
add_signed_unchecked(base, offset) == base + offset

add_signed(base, offset) ==
    IF offset >= 0 THEN checked_add(base, offset)
                   ELSE checked_sub(base, -offset)

\* Seek::seek, from start (origin 0), end or current position.
Seek(kind, new, d) ==
    /\ pc = "idle"
    /\ \/ /\ new = Overflow
          /\ call' = SeekReply(kind, d, "invalid_input", 0)
          /\ UNCHANGED position
       \/ /\ new # Overflow
          /\ position' = new
          /\ call' = SeekReply(kind, d, "ok", new)
    /\ UNCHANGED <<geometry, cursor, pc, region, filled>>

SeekStart(o) == Seek("seek_start", o, o)
SeekEnd(d) == Seek("seek_end", add_signed(size, d), d)
SeekCurrent(d) == Seek("seek_current", add_signed(position, d), d)
-----------------------------------------------------------------------------
(* The steps of read_at.  A return drops its locals; Read::read moves the  *)
(* position by what a successful read_at returned.                         *)

\* Mutant: the position moves by the length of the buffer.
Return_whole_buffer(status, n, data) ==
    /\ pc' = "idle"
    /\ call' = Reply(status, n, data)
    /\ position' = IF call.kind = "read" /\ status = "ok"
                   THEN u64_min(position + call.len, WordMax) ELSE position
    /\ region' = NoData
    /\ filled' = 0

Return(status, n, data) ==
    /\ pc' = "idle"
    /\ call' = Reply(status, n, data)
    /\ position' = IF call.kind = "read" /\ status = "ok"
                   THEN position + n ELSE position
    /\ region' = NoData
    /\ filled' = 0

Fail(status) == Return(status, 0, NoData)

ReturnNothing == /\ pc = "enter"
                 /\ NothingToRead
                 /\ Return("ok", 0, NoData)
                 /\ UNCHANGED <<geometry, cursor>>

\* Up to the seek: the region is allocated, the physical offset computed.
BeginFetch ==
    /\ pc = "enter"
    /\ ~NothingToRead
    /\ IF region_len = Overflow THEN Fail("out_of_range")
       ELSE IF OverflowChecks /\ PhysicalOverflows THEN Fail("panic")
       ELSE /\ pc' = "seek"
            /\ region' = [j \in 0 .. region_len - 1 |-> Zero]
            /\ UNCHANGED <<position, filled, call>>
    /\ UNCHANGED <<geometry, cursor>>

SeekReader == /\ pc = "seek"
              /\ pc' = "fill"
              /\ cursor' = physical
              /\ UNCHANGED <<geometry, position, region, filled, call>>

\* A failed seek leaves the reader where it was, or where it was sent.
SeekReaderFails == /\ pc = "seek"
                   /\ cursor' \in {cursor, physical}
                   /\ Fail("io")
                   /\ UNCHANGED geometry

(* One iteration of read_full_or_eof, by the answer of reader.read().      *)

\* Mutant: every chunk is read to the start of the buffer.
Filled_at_start(n) ==
    [j \in DOMAIN region |-> IF j < n THEN cursor + j ELSE region[j]]

\* What n bytes read into &mut buf[filled..] make of the region.
Filled(n) == [j \in DOMAIN region |->
                 IF j \in filled .. filled + n - 1
                 THEN cursor + (j - filled) ELSE region[j]]

FillChunk(n) ==
    /\ pc = "fill"
    /\ n <= region_len - filled
    /\ n <= image_len - cursor
    /\ region' = Filled(n)
    /\ filled' = filled + n
    /\ cursor' = cursor + n
    /\ pc' = IF filled' < region_len THEN "fill" ELSE "deliver"
    /\ UNCHANGED <<geometry, position, call>>

\* The reader may return any chunk it likes, short ones included.
FillSome == \E n \in 1 .. region_len - filled : FillChunk(n)

\* Mutant: Ok(0) is a read of 0 bytes, the loop goes on.
FillEof_goes_on == /\ pc = "fill"
                   /\ cursor >= image_len
                   /\ UNCHANGED vars

FillEof == /\ pc = "fill"
           /\ cursor >= image_len
           /\ pc' = "deliver"
           /\ UNCHANGED <<geometry, position, cursor, region, filled, call>>

\* ErrorKind::Interrupted: the loop goes round once more.
FillInterrupted == /\ pc = "fill"
                   /\ UNCHANGED vars

FillFails == /\ pc = "fill"
             /\ Fail("io")
             /\ UNCHANGED <<geometry, cursor>>

\* Decrypt the region and copy the window out.
Deliver ==
    LET plain == decrypt_units(region, SectorSize, first_sector)
    IN  /\ pc = "deliver"
        /\ IF inner + want <= region_len
           THEN Return("ok", want, [i \in 0 .. want - 1 |-> plain[inner + i]])
           ELSE Fail("out_of_range")
        /\ UNCHANGED <<geometry, cursor>>
-----------------------------------------------------------------------------
\* The steps of read_at in which the reader does what it is asked.
Proceed == \/ ReturnNothing \/ BeginFetch \/ SeekReader
           \/ FillSome \/ FillEof \/ Deliver

Progress == Proceed \/ SeekReaderFails \/ FillFails

Next == \/ \E o \in Offsets, len \in BufLens : ReadAt(o, len)
        \/ \E len \in BufLens : Read(len)
        \/ \E o \in Offsets : SeekStart(o)
        \/ \E d \in SeekDeltas : SeekEnd(d) \/ SeekCurrent(d)
        \/ Progress
        \/ FillInterrupted

Spec == Init /\ [][Next]_vars

\* The thread runs and interruptions do not go on for ever; no failure is
\* ever owed.
FairSpec == Spec /\ WF_vars(Proceed)
-----------------------------------------------------------------------------
TypeOK ==
    /\ physical_base \in U64 /\ size \in U64 /\ image_len \in U64
    /\ position \in U64
    /\ cursor \in U64
    /\ pc \in {"idle", "enter", "seek", "fill", "deliver"}
    /\ filled \in U64
    /\ DOMAIN region = IF pc \in {"idle", "enter"} THEN {}
                       ELSE 0 .. region_len - 1
    /\ \A j \in DOMAIN region : region[j] \in Int
    /\ call.kind \in {"read_at", "read", "seek_start", "seek_end", "seek_current"}
    /\ call.offset \in Int
    /\ call.len \in 0 .. (WordMax \div 2)
    /\ call.status \in {"pending", "ok", "io", "out_of_range", "panic",
                        "invalid_input"}
    /\ call.n \in U64
    /\ pc # "idle" <=> call.status = "pending"

\* The image holds the whole AES block of logical byte L.
Backed(L) == physical_base + AesStart(L) + AesBlockSize <= image_len

Served(o, len) == IF o < size THEN u64_min(len, size - o) ELSE 0

(***************************************************************************)
(* What read_at keeps true while it fetches: the call in progress is one   *)
(* that asked for something, a Read::read is still at its position, the    *)
(* region is a prefix of the image bytes at `physical' followed by zeroes, *)
(* the reader stands right behind that prefix, and the prefix is cut short *)
(* only by the end of the image.  Chunks, interruptions and earlier failed *)
(* calls that left the reader elsewhere make no difference.                *)
(***************************************************************************)
RegionIsImagePrefix ==
    /\ pc # "idle" => /\ call.kind \in {"read_at", "read"}
                      /\ call.offset \in U64
                      /\ call.kind = "read" => call.offset = position
    /\ pc \in {"seek", "fill", "deliver"} => ~NothingToRead
    /\ pc \in {"idle", "enter", "seek"} => filled = 0
    /\ \A j \in DOMAIN region :
          region[j] = IF j < filled THEN physical + j ELSE Zero
    /\ pc = "fill" => filled < region_len
    /\ pc \in {"fill", "deliver"} =>
          /\ filled <= region_len
          /\ cursor = physical + filled
          /\ filled > 0 => cursor <= image_len
    /\ pc = "deliver" => filled = region_len \/ cursor >= image_len

(***************************************************************************)
(* A read that returns Ok returns exactly the plaintext of the bytes asked *)
(* for, clamped to the volume: each byte whose AES block the image holds,  *)
(* is the byte of that logical offset, and a byte is garbage only where    *)
(* the image ends.  This is so wherever the request starts and ends in its *)
(* sectors, and however the reader cut its answers.                        *)
(***************************************************************************)
ReadsAreExact ==
    (call.kind \in {"read_at", "read"} /\ call.status = "ok") =>
        /\ call.n = Served(call.offset, call.len)
        /\ call.data = [i \in 0 .. call.n - 1 |->
                           IF Backed(call.offset + i) THEN call.offset + i
                                                      ELSE Garbage]

(***************************************************************************)
(* The errors `read region length' and `decrypted window' of read_at are   *)
(* unreachable: read_at documents Io as its only error.                    *)
(***************************************************************************)
OnlyIoErrors == call.kind \in {"read_at", "read"} =>
                    call.status \in {"pending", "ok", "io", "panic"}

\* No call panics, as the repository's README promises for any image.
NoPanic == call.status # "panic"

\* Every call comes back: the fill loop ends on any sequence of short reads.
CallReturns == pc # "idle" ~> pc = "idle"

Abstract == INSTANCE PlaintextVolume WITH
    intact <- {L \in 0 .. size - 1 : Backed(L)},
    Failures <- {"io"} \cup (IF OverflowChecks THEN {"panic"} ELSE {})

(***************************************************************************)
(* The stepwise reader implements the atomic plaintext stream: a call has  *)
(* one result, a failed call leaves the position alone, consecutive reads  *)
(* return consecutive bytes, seeks are exact or refused.                   *)
(***************************************************************************)
ImplementsPlaintextVolume == Abstract!ASpec
=============================================================================
