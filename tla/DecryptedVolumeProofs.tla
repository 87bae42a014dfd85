------------------------ MODULE DecryptedVolumeProofs ------------------------
(***************************************************************************)
(* The decrypted volume is correct for every sector size, word size, image *)
(* and request.  The inductive invariant is the type invariant with what   *)
(* read_full_or_eof maintains (RegionIsImagePrefix); exactness of the      *)
(* results follows from it at the one step that delivers them.             *)
(***************************************************************************)
EXTENDS DecryptedVolume, TLAPS

-----------------------------------------------------------------------------
(* Division and multiplication.                                            *)

\* Integer division rounds down.
LEMMA DivFacts ==
    ASSUME NEW a \in Nat, NEW b \in Nat \ {0}
    PROVE  /\ a \div b \in Nat
           /\ (a \div b) * b <= a
           /\ a < (a \div b) * b + b
  BY SMT

\* Integer division is monotone.
LEMMA DivMonotone ==
    ASSUME NEW a \in Nat, NEW c \in Nat, NEW b \in Nat \ {0}, a <= c
    PROVE  a \div b <= c \div b
  BY SMT

\* The number of bytes of the sectors p .. q.
LEMMA SectorSpan ==
    ASSUME NEW p \in Nat, NEW q \in Nat, NEW b \in Nat \ {0}, p <= q
    PROVE  /\ (q - p + 1) * b = q * b - p * b + b
           /\ p * b <= q * b
           /\ p * b \in Nat
           /\ q * b \in Nat
  BY SMT

\* The block of size b around a lies in any run of blocks that a lies in.
LEMMA BlockInRun ==
    ASSUME NEW a \in Nat, NEW b \in Nat \ {0}, NEW lo \in Nat, NEW hi \in Nat,
           lo * b <= a, a < hi * b
    PROVE  /\ lo * b <= (a \div b) * b
           /\ (a \div b) * b + b <= hi * b
<1>1. /\ a \div b \in Nat
      /\ (a \div b) * b <= a
      /\ a < (a \div b) * b + b
  BY DivFacts
<1>2. lo <= a \div b
  BY <1>1, SMT
<1>3. a \div b < hi
  BY <1>1, SMT
<1> QED
  BY <1>1, <1>2, <1>3, SMT

\* A sector is a whole number of AES blocks.
LEMMA SectorIsBlocks ==
    \E c \in Nat : SectorSize = c * AesBlockSize
<1>1. /\ SectorSize \in Nat
      /\ AesBlockSize \in Nat \ {0}
      /\ SectorSize % AesBlockSize = 0
  BY SectorAssumption
<1> QED
  BY <1>1, SMT

\* The AES block around a byte of a run of sectors lies in that run.
LEMMA AesBlockInSectors ==
    ASSUME NEW L \in Nat, NEW p \in Nat, NEW m \in Nat,
           p * SectorSize <= L, L < p * SectorSize + m * SectorSize
    PROVE  /\ p * SectorSize <= AesStart(L)
           /\ AesStart(L) + AesBlockSize <= p * SectorSize + m * SectorSize
           /\ AesStart(L) \in Nat
           /\ AesStart(L) <= L
           /\ L < AesStart(L) + AesBlockSize
<1>1. PICK c \in Nat : SectorSize = c * AesBlockSize
  BY SectorIsBlocks
<1>2. AesBlockSize \in Nat \ {0}
  BY SectorAssumption
<1>3. /\ p * c \in Nat
      /\ (p + m) * c \in Nat
      /\ p * SectorSize = (p * c) * AesBlockSize
      /\ p * SectorSize + m * SectorSize = ((p + m) * c) * AesBlockSize
  BY <1>1, <1>2, SMT
<1>4. /\ (p * c) * AesBlockSize <= (L \div AesBlockSize) * AesBlockSize
      /\ (L \div AesBlockSize) * AesBlockSize + AesBlockSize
            <= ((p + m) * c) * AesBlockSize
  BY <1>2, <1>3, BlockInRun
<1>5. /\ L \div AesBlockSize \in Nat
      /\ (L \div AesBlockSize) * AesBlockSize <= L
      /\ L < (L \div AesBlockSize) * AesBlockSize + AesBlockSize
  BY <1>2, DivFacts
<1>6. (L \div AesBlockSize) * AesBlockSize \in Nat
  BY <1>2, <1>5, SMT
<1> QED
  BY <1>3, <1>4, <1>5, <1>6 DEF AesStart
-----------------------------------------------------------------------------
(* The locals of read_at.                                                  *)

\* A request that asks for something covers its window with whole sectors,
\* and neither the length of the region nor the window overflows.
LEMMA WindowInRegion ==
    ASSUME size \in U64, call.offset \in U64,
           call.len \in 0 .. (WordMax \div 2), ~NothingToRead
    PROVE  /\ want \in Nat /\ 1 <= want
           /\ want = Served(call.offset, call.len)
           /\ call.offset + want <= size
           /\ first_sector \in Nat
           /\ last_sector - first_sector + 1 \in Nat
           /\ first_sector * SectorSize \in U64
           /\ region_len = (last_sector - first_sector + 1) * SectorSize
           /\ region_len \in U64 /\ 1 <= region_len
           /\ inner \in Nat
           /\ inner + want <= region_len
<1> DEFINE e == call.offset + want - 1
<1>1. /\ WordMax \in Nat
      /\ SectorSize \in Nat \ {0}
      /\ 4 * SectorSize <= WordMax
      /\ WordMax \div 2 \in Nat
      /\ (WordMax \div 2) * 2 <= WordMax
  BY WordMaxAssumption, SectorAssumption
<1>2. /\ call.offset \in Nat
      /\ call.offset < size
      /\ call.len \in Nat
      /\ call.len # 0
      /\ call.len <= WordMax \div 2
      /\ size \in Nat
      /\ size <= WordMax
  BY <1>1 DEF NothingToRead, U64
<1>3. /\ want \in Nat
      /\ 1 <= want
      /\ want <= call.len
      /\ call.offset + want <= size
      /\ want = Served(call.offset, call.len)
  BY <1>2 DEF want, u64_min, Served
<1>4. /\ e \in Nat
      /\ call.offset <= e
  BY <1>2, <1>3
<1>5. /\ first_sector \in Nat
      /\ first_sector * SectorSize <= call.offset
      /\ call.offset < first_sector * SectorSize + SectorSize
  BY <1>1, <1>2, DivFacts DEF first_sector
<1>6. /\ last_sector \in Nat
      /\ last_sector * SectorSize <= e
      /\ e < last_sector * SectorSize + SectorSize
  BY <1>1, <1>4, DivFacts DEF last_sector
<1>7. first_sector <= last_sector
  BY <1>1, <1>2, <1>4, DivMonotone DEF first_sector, last_sector
<1>8. /\ (last_sector - first_sector + 1) * SectorSize
            = last_sector * SectorSize - first_sector * SectorSize + SectorSize
      /\ first_sector * SectorSize <= last_sector * SectorSize
      /\ first_sector * SectorSize \in Nat
      /\ last_sector * SectorSize \in Nat
  BY <1>1, <1>5, <1>6, <1>7, SectorSpan
<1>9. /\ (last_sector - first_sector + 1) * SectorSize \in Nat
      /\ 1 <= (last_sector - first_sector + 1) * SectorSize
      /\ (last_sector - first_sector + 1) * SectorSize <= WordMax
  <2> DEFINE fs == first_sector * SectorSize
             ls == last_sector * SectorSize
             rl == (last_sector - first_sector + 1) * SectorSize
  <2> HIDE DEF e, fs, ls, rl
  <2>1. /\ rl = ls - fs + SectorSize
        /\ fs \in Nat /\ ls \in Nat /\ fs <= ls
    BY <1>8 DEF fs, ls, rl
  <2>2. /\ call.offset < fs + SectorSize
        /\ ls <= call.offset + want - 1
    BY <1>5, <1>6 DEF fs, ls, e
  <2>3. rl \in Nat /\ 1 <= rl /\ rl <= WordMax
    BY <2>1, <2>2, <1>1, <1>2, <1>3
  <2> QED
    BY <2>3 DEF rl
<1>10. region_len = (last_sector - first_sector + 1) * SectorSize
  BY <1>9 DEF region_len, checked_mul, U64
<1>11. /\ inner \in Nat
       /\ inner + want <= region_len
  <2> DEFINE fs == first_sector * SectorSize
             ls == last_sector * SectorSize
  <2> HIDE DEF e, fs, ls
  <2>1. /\ region_len = ls - fs + SectorSize
        /\ fs \in Nat /\ ls \in Nat /\ fs <= call.offset
        /\ call.offset + want - 1 < ls + SectorSize
    BY <1>5, <1>6, <1>8, <1>10 DEF fs, ls, e
  <2>2. inner = call.offset - fs
    BY DEF inner, fs
  <2> QED
    BY <2>1, <2>2, <1>1, <1>2, <1>3
<1>12. /\ first_sector * SectorSize \in U64
       /\ region_len \in U64
  BY <1>1, <1>2, <1>5, <1>8, <1>9, <1>10 DEF U64
<1> QED
  BY <1>3, <1>5, <1>6, <1>7, <1>9, <1>10, <1>11, <1>12

\* The seek target is a u64, and is the sum unless that overflows.
LEMMA PhysicalFacts ==
    ASSUME physical_base \in U64, first_sector * SectorSize \in U64
    PROVE  /\ physical \in U64
           /\ physical = IF PhysicalOverflows
                         THEN physical_base + first_sector * SectorSize
                                  - (WordMax + 1)
                         ELSE physical_base + first_sector * SectorSize
<1> DEFINE s == physical_base + first_sector * SectorSize
<1> HIDE DEF s
<1>1. s \in Nat /\ s <= 2 * WordMax /\ WordMax \in Nat
  BY WordMaxAssumption DEF U64, s
<1>2. s % (WordMax + 1) = IF s <= WordMax THEN s ELSE s - (WordMax + 1)
  BY <1>1, SMT
<1>3. physical = s % (WordMax + 1)
  BY DEF physical, wrapping_add, s
<1>4. PhysicalOverflows <=> s > WordMax
  BY <1>1 DEF PhysicalOverflows, U64, s
<1> QED
  BY <1>1, <1>2, <1>3, <1>4 DEF U64, s
-----------------------------------------------------------------------------
(* The inductive invariant.                                                *)

IInv == TypeOK /\ RegionIsImagePrefix /\ ReadsAreExact /\ OnlyIoErrors

\* While the geometry and the call stay, so do the locals derived from them.
LEMMA LocalsUnchanged ==
    ASSUME UNCHANGED <<physical_base, size, image_len, call>>
    PROVE  /\ region_len' = region_len
           /\ physical' = physical
           /\ NothingToRead' <=> NothingToRead
           /\ ReadsAreExact' <=> ReadsAreExact
           /\ OnlyIoErrors' <=> OnlyIoErrors
  BY DEF region_len, last_sector, first_sector, want, physical, NothingToRead,
         ReadsAreExact, OnlyIoErrors, Served, Backed

\* A new volume satisfies the invariant.
LEMMA InitInv == Init => IInv
<1> SUFFICES ASSUME Init PROVE IInv
  OBVIOUS
<1>1. WordMax \in Nat
  BY WordMaxAssumption
<1>2. WordMax \div 2 \in Nat
  BY <1>1
<1>3. TypeOK
  BY <1>1, <1>2, InputAssumption DEF Init, TypeOK, NoData, SeekReply, U64
<1>4. RegionIsImagePrefix
  BY DEF Init, RegionIsImagePrefix, NoData
<1>5. ReadsAreExact /\ OnlyIoErrors
  BY DEF Init, ReadsAreExact, OnlyIoErrors, SeekReply
<1> QED
  BY <1>3, <1>4, <1>5 DEF IInv

\* A request of a user, with arguments the code's types allow.
LEMMA RequestInv ==
    ASSUME IInv, NEW kind \in {"read_at", "read"}, NEW o \in U64,
           NEW len \in BufLens,
           kind = "read" => o = position,
           pc = "idle", pc' = "enter", call' = Request(kind, o, len),
           UNCHANGED <<geometry, position, cursor, region, filled>>
    PROVE  IInv'
<1>1. WordMax \in Nat
  BY WordMaxAssumption
<1>2. TypeOK'
  BY <1>1, InputAssumption DEF IInv, TypeOK, Request, geometry, U64
<1>3. RegionIsImagePrefix'
  BY DEF IInv, TypeOK, RegionIsImagePrefix, Request, geometry
<1>4. ReadsAreExact' /\ OnlyIoErrors'
  BY DEF ReadsAreExact, OnlyIoErrors, Request
<1> QED
  BY <1>2, <1>3, <1>4 DEF IInv

\* add_signed is the exact sum or None.
LEMMA AddSigned ==
    ASSUME NEW base \in U64, NEW d \in Int
    PROVE  add_signed(base, d) = IF base + d \in U64 THEN base + d ELSE Overflow
  BY WordMaxAssumption DEF add_signed, checked_add, checked_sub, U64

\* A seek, to a u64 or refused.
LEMMA SeekInv ==
    ASSUME IInv, NEW kind \in {"seek_start", "seek_end", "seek_current"},
           NEW new \in U64 \cup {Overflow}, NEW d \in Int,
           Seek(kind, new, d)
    PROVE  IInv'
<1>1. WordMax \in Nat /\ WordMax \div 2 \in Nat
  BY WordMaxAssumption
<1>2. TypeOK'
  BY <1>1 DEF IInv, TypeOK, Seek, SeekReply, geometry, U64, Overflow
<1>3. RegionIsImagePrefix'
  BY DEF IInv, TypeOK, RegionIsImagePrefix, Seek, geometry
<1>4. ReadsAreExact' /\ OnlyIoErrors'
  BY DEF ReadsAreExact, OnlyIoErrors, Seek, SeekReply
<1> QED
  BY <1>2, <1>3, <1>4 DEF IInv

\* A return from read_at, with an exact result or a documented error.
LEMMA ReturnInv ==
    ASSUME IInv, pc # "idle", UNCHANGED geometry, cursor' \in U64,
           NEW status \in {"ok", "io", "panic"}, NEW n \in U64, NEW data,
           Return(status, n, data),
           status = "ok" =>
               /\ n = Served(call.offset, call.len)
               /\ data = [i \in 0 .. n - 1 |->
                             IF Backed(call.offset + i) THEN call.offset + i
                                                        ELSE Garbage]
    PROVE  IInv'
<1>1. WordMax \in Nat /\ 0 \in U64
  BY WordMaxAssumption DEF U64
<1>2. (status = "ok" /\ call.kind = "read") => position + n \in U64
  BY <1>1 DEF IInv, TypeOK, RegionIsImagePrefix, Served, u64_min, U64
<1>3. TypeOK'
  BY <1>1, <1>2 DEF IInv, TypeOK, Return, Reply, geometry, NoData
<1>4. RegionIsImagePrefix'
  BY DEF RegionIsImagePrefix, Return, NoData
<1>5. /\ size' = size
      /\ physical_base' = physical_base
      /\ image_len' = image_len
  BY DEF geometry
<1>6. /\ call'.offset = call.offset /\ call'.len = call.len
      /\ call'.status = status /\ call'.n = n /\ call'.data = data
      /\ call'.kind = call.kind
  BY DEF Return, Reply
<1>7. ReadsAreExact'
  BY <1>5, <1>6 DEF ReadsAreExact, Served, Backed, AesStart
<1>8. OnlyIoErrors'
  BY <1>6 DEF OnlyIoErrors
<1> QED
  BY <1>3, <1>4, <1>7, <1>8 DEF IInv

\* An error return.
LEMMA FailInv ==
    ASSUME IInv, pc # "idle", UNCHANGED geometry, cursor' \in U64,
           NEW status \in {"io", "panic"}, Fail(status)
    PROVE  IInv'
<1>1. 0 \in U64
  BY WordMaxAssumption DEF U64
<1>2. Return(status, 0, NoData)
  BY DEF Fail
<1> QED
  BY <1>1, <1>2, ReturnInv
-----------------------------------------------------------------------------
(* The steps of read_at.                                                   *)

\* The window of the call in progress, once it asks for something.
LEMMA CallWindow ==
    ASSUME IInv, pc # "idle", ~NothingToRead
    PROVE  /\ want \in Nat /\ 1 <= want
           /\ want = Served(call.offset, call.len)
           /\ call.offset + want <= size
           /\ call.offset \in Nat
           /\ first_sector \in Nat
           /\ last_sector - first_sector + 1 \in Nat
           /\ first_sector * SectorSize \in U64
           /\ region_len = (last_sector - first_sector + 1) * SectorSize
           /\ region_len \in U64 /\ 1 <= region_len /\ region_len # Overflow
           /\ inner \in Nat
           /\ inner + want <= region_len
           /\ physical \in U64
           /\ physical = IF PhysicalOverflows
                         THEN physical_base + first_sector * SectorSize
                                  - (WordMax + 1)
                         ELSE physical_base + first_sector * SectorSize
<1>1. /\ size \in U64 /\ physical_base \in U64
      /\ call.offset \in U64 /\ call.len \in 0 .. (WordMax \div 2)
  BY DEF IInv, TypeOK, RegionIsImagePrefix
<1>2. call.offset \in Nat
  BY <1>1, WordMaxAssumption DEF U64
<1>3. region_len \in U64 => region_len # Overflow
  BY WordMaxAssumption DEF U64, Overflow
<1> QED
  BY <1>1, <1>2, <1>3, WindowInRegion, PhysicalFacts

\* Ok(0) for a request past the end or an empty buffer.
LEMMA ReturnNothingInv == IInv /\ ReturnNothing => IInv'
<1> SUFFICES ASSUME IInv, ReturnNothing PROVE IInv'
  OBVIOUS
<1>1. /\ pc # "idle" /\ UNCHANGED geometry /\ Return("ok", 0, NoData)
      /\ NothingToRead
  BY DEF ReturnNothing
<1>2. cursor' \in U64 /\ 0 \in U64
  BY WordMaxAssumption DEF ReturnNothing, IInv, TypeOK, U64
<1>3. Served(call.offset, call.len) = 0
  BY <1>1, WordMaxAssumption
  DEF NothingToRead, Served, u64_min, IInv, TypeOK, RegionIsImagePrefix, U64
<1>4. NoData = [i \in 0 .. 0 - 1 |-> IF Backed(call.offset + i)
                                     THEN call.offset + i ELSE Garbage]
  BY DEF NoData
<1> QED
  BY <1>1, <1>2, <1>3, <1>4, ReturnInv

\* The region is allocated, or the sum panics; its length never overflows.
LEMMA BeginFetchInv == IInv /\ BeginFetch => IInv'
<1> SUFFICES ASSUME IInv, BeginFetch PROVE IInv'
  OBVIOUS
<1>1. /\ pc = "enter" /\ ~NothingToRead /\ UNCHANGED geometry
      /\ cursor' = cursor
  BY DEF BeginFetch
<1>2. region_len # Overflow /\ region_len \in U64 /\ 1 <= region_len
  BY <1>1, CallWindow
<1>3. CASE Fail("panic")
  BY <1>1, <1>3, FailInv DEF IInv, TypeOK
<1>4. CASE /\ pc' = "seek"
           /\ region' = [j \in 0 .. region_len - 1 |-> Zero]
           /\ UNCHANGED <<position, filled, call>>
  <2>1. UNCHANGED <<physical_base, size, image_len, call>>
    BY <1>1, <1>4 DEF geometry
  <2>2. /\ region_len' = region_len
        /\ NothingToRead' <=> NothingToRead
        /\ ReadsAreExact' <=> ReadsAreExact
        /\ OnlyIoErrors' <=> OnlyIoErrors
    BY <2>1, LocalsUnchanged
  <2>3. TypeOK'
    BY <1>1, <1>4, <2>1, <2>2 DEF IInv, TypeOK, Zero
  <2>4. RegionIsImagePrefix'
    BY <1>1, <1>2, <1>4, <2>1, <2>2, WordMaxAssumption
    DEF IInv, TypeOK, RegionIsImagePrefix, U64
  <2> QED
    BY <2>2, <2>3, <2>4 DEF IInv
<1> QED
  BY <1>2, <1>3, <1>4 DEF BeginFetch

\* Wherever the reader was, it is now at the first sector of the region.
LEMMA SeekReaderInv == IInv /\ SeekReader => IInv'
<1> SUFFICES ASSUME IInv, SeekReader PROVE IInv'
  OBVIOUS
<1>1. UNCHANGED <<physical_base, size, image_len, call>>
  BY DEF SeekReader, geometry
<1>2. /\ region_len' = region_len
      /\ physical' = physical
      /\ NothingToRead' <=> NothingToRead
      /\ ReadsAreExact' <=> ReadsAreExact
      /\ OnlyIoErrors' <=> OnlyIoErrors
  BY <1>1, LocalsUnchanged
<1>3. ~NothingToRead /\ pc = "seek" /\ filled = 0
  BY DEF SeekReader, IInv, RegionIsImagePrefix
<1>4. physical \in U64 /\ region_len \in U64 /\ 1 <= region_len
  BY <1>3, CallWindow
<1>5. TypeOK'
  BY <1>1, <1>2, <1>3, <1>4 DEF SeekReader, IInv, TypeOK
<1>6. RegionIsImagePrefix'
  BY <1>1, <1>2, <1>3, <1>4, WordMaxAssumption
  DEF SeekReader, IInv, TypeOK, RegionIsImagePrefix, U64
<1> QED
  BY <1>2, <1>5, <1>6 DEF IInv

\* A chunk extends the prefix that has been read.
LEMMA FillSomeInv == IInv /\ FillSome => IInv'
<1> SUFFICES ASSUME IInv, FillSome PROVE IInv'
  OBVIOUS
<1>1. PICK n \in 1 .. region_len - filled : FillChunk(n)
  BY DEF FillSome
<1>2. UNCHANGED <<physical_base, size, image_len, call>>
  BY <1>1 DEF FillChunk, geometry
<1>3. /\ region_len' = region_len
      /\ physical' = physical
      /\ NothingToRead' <=> NothingToRead
      /\ ReadsAreExact' <=> ReadsAreExact
      /\ OnlyIoErrors' <=> OnlyIoErrors
  BY <1>2, LocalsUnchanged
<1>4. /\ pc = "fill" /\ ~NothingToRead
      /\ cursor = physical + filled
      /\ filled < region_len
      /\ DOMAIN region = 0 .. region_len - 1
      /\ \A j \in DOMAIN region :
            region[j] = IF j < filled THEN physical + j ELSE Zero
  BY <1>1 DEF FillChunk, IInv, TypeOK, RegionIsImagePrefix
<1>5. physical \in U64 /\ region_len \in U64
  BY <1>4, CallWindow
<1>6. /\ n \in Nat /\ 1 <= n /\ n <= region_len - filled
      /\ n <= image_len - cursor
      /\ filled \in Nat /\ physical \in Nat /\ region_len \in Nat
      /\ image_len \in Nat /\ image_len <= WordMax /\ WordMax \in Nat
      /\ region_len <= WordMax
  BY <1>1, <1>5, WordMaxAssumption DEF FillChunk, IInv, TypeOK, U64
<1>7. /\ region' = Filled(n)
      /\ filled' = filled + n
      /\ cursor' = cursor + n
      /\ pc' = IF filled' < region_len THEN "fill" ELSE "deliver"
      /\ position' = position
  BY <1>1 DEF FillChunk
<1>8. /\ DOMAIN region' = 0 .. region_len - 1
      /\ \A j \in DOMAIN region' :
            region'[j] = IF j < filled + n THEN physical + j ELSE Zero
  BY <1>4, <1>6, <1>7 DEF Filled
<1>9. cursor' \in U64 /\ filled' \in U64
  BY <1>4, <1>6, <1>7 DEF U64
<1>10. TypeOK'
  BY <1>2, <1>3, <1>4, <1>6, <1>7, <1>8, <1>9, SMTT(30) DEF IInv, TypeOK, Zero
<1>11. RegionIsImagePrefix'
  BY <1>2, <1>3, <1>4, <1>6, <1>7, <1>8 DEF IInv, TypeOK, RegionIsImagePrefix
<1> QED
  BY <1>3, <1>10, <1>11 DEF IInv

\* The loop ends at the end of the image.
LEMMA FillEofInv == IInv /\ FillEof => IInv'
<1> SUFFICES ASSUME IInv, FillEof PROVE IInv'
  OBVIOUS
<1>1. UNCHANGED <<physical_base, size, image_len, call>>
  BY DEF FillEof, geometry
<1>2. /\ region_len' = region_len
      /\ physical' = physical
      /\ NothingToRead' <=> NothingToRead
      /\ ReadsAreExact' <=> ReadsAreExact
      /\ OnlyIoErrors' <=> OnlyIoErrors
  BY <1>1, LocalsUnchanged
<1>3. TypeOK'
  BY <1>1, <1>2 DEF FillEof, IInv, TypeOK
<1>4. RegionIsImagePrefix'
  BY <1>1, <1>2 DEF FillEof, IInv, TypeOK, RegionIsImagePrefix
<1> QED
  BY <1>2, <1>3, <1>4 DEF IInv

\* Errors of the reader are returned as they are.
LEMMA ReaderFailsInv == IInv /\ (SeekReaderFails \/ FillFails) => IInv'
<1> SUFFICES ASSUME IInv, SeekReaderFails \/ FillFails PROVE IInv'
  OBVIOUS
<1>1. CASE SeekReaderFails
  <2>1. pc = "seek" /\ ~NothingToRead
    BY <1>1 DEF SeekReaderFails, IInv, RegionIsImagePrefix
  <2>2. physical \in U64
    BY <2>1, CallWindow
  <2> QED
    BY <1>1, <2>1, <2>2, FailInv DEF SeekReaderFails, IInv, TypeOK
<1>2. CASE FillFails
  BY <1>2, FailInv DEF FillFails, IInv, TypeOK
<1> QED
  BY <1>1, <1>2

\* Decrypting the region gives every byte of the window whose AES block the
\* image holds, and garbage for the others.
LEMMA DecryptedWindow ==
    ASSUME IInv, pc = "deliver", NEW i \in 0 .. want - 1
    PROVE  decrypt_units(region, SectorSize, first_sector)[inner + i]
               = IF Backed(call.offset + i) THEN call.offset + i ELSE Garbage
<1> DEFINE origin == first_sector * SectorSize
           L == call.offset + i
           m == last_sector - first_sector + 1
           Genuine(k) == /\ k - origin \in DOMAIN region
                         /\ region[k - origin] = physical_base + k
<1>1. ~NothingToRead
  BY DEF IInv, RegionIsImagePrefix
<1>2. /\ want \in Nat /\ call.offset \in Nat /\ first_sector \in Nat
      /\ m \in Nat /\ region_len = m * SectorSize
      /\ origin \in U64 /\ region_len \in U64
      /\ inner \in Nat /\ inner + want <= region_len
      /\ physical \in U64
      /\ physical = IF PhysicalOverflows THEN physical_base + origin - (WordMax + 1)
                                         ELSE physical_base + origin
  BY <1>1, CallWindow
<1>3. inner = call.offset - origin
  BY DEF inner
<1>4. /\ origin \in Nat /\ L \in Nat /\ i \in Nat /\ region_len \in Nat
      /\ origin + (inner + i) = L
      /\ inner + i \in 0 .. region_len - 1
      /\ origin <= L
      /\ L < origin + region_len
      /\ WordMax \in Nat
  BY <1>2, <1>3, WordMaxAssumption DEF U64
<1>5. /\ origin <= AesStart(L)
      /\ AesStart(L) + AesBlockSize <= origin + region_len
      /\ AesStart(L) \in Nat
  BY <1>2, <1>4, AesBlockInSectors
<1> HIDE DEF m
<1>6. /\ DOMAIN region = 0 .. region_len - 1
      /\ \A j \in DOMAIN region :
            region[j] = IF j < filled THEN physical + j ELSE Zero
      /\ cursor = physical + filled
      /\ filled > 0 => cursor <= image_len
      /\ filled = region_len \/ cursor >= image_len
      /\ filled \in Nat /\ physical_base \in Nat /\ image_len \in Nat
      /\ image_len <= WordMax
  BY <1>4 DEF IInv, TypeOK, RegionIsImagePrefix, U64
<1>7. /\ AesBlockSize \in Nat \ {0}
      /\ AesBlock(L) = AesStart(L) .. AesStart(L) + AesBlockSize - 1
  BY SectorAssumption DEF AesBlock
<1> HIDE DEF origin, L
<1>8. ASSUME NEW k \in AesBlock(L)
      PROVE  Genuine(k) <=> physical_base + k < image_len
  <2>1. /\ k \in Nat /\ k - origin \in 0 .. region_len - 1
    BY <1>4, <1>5, <1>7, SMTT(30)
  <2>2. region[k - origin] = IF k - origin < filled
                             THEN physical + (k - origin) ELSE Zero
    BY <2>1, <1>6
  <2>3. PhysicalOverflows <=> physical_base + origin > WordMax
    BY <1>4, <1>6, SMTT(30) DEF PhysicalOverflows, U64, origin
  <2>4. CASE PhysicalOverflows
    BY <2>1, <2>2, <2>3, <2>4, <1>2, <1>4, <1>6, SMTT(30) DEF Zero
  <2>5. CASE ~PhysicalOverflows
    <3>1. physical = physical_base + origin
      BY <2>5, <1>2
    <3>2. k - origin < filled => physical_base + k < image_len
      BY <3>1, <2>1, <1>4, <1>6
    <3>3. k - origin >= filled => ~(physical_base + k < image_len)
      BY <3>1, <2>1, <1>4, <1>6
    <3> QED
      BY <3>1, <3>2, <3>3, <2>1, <2>2, <1>4, <1>6 DEF Zero
  <2> QED
    BY <2>4, <2>5
<1>9. (\A k \in AesBlock(L) : physical_base + k < image_len) <=> Backed(L)
  <2>1. ASSUME Backed(L), NEW k \in AesBlock(L)
        PROVE  physical_base + k < image_len
    BY <2>1, <1>5, <1>6, <1>7 DEF Backed
  <2>2. AesStart(L) + AesBlockSize - 1 \in AesBlock(L)
    BY <1>5, <1>7
  <2>3. ASSUME \A k \in AesBlock(L) : physical_base + k < image_len
        PROVE  Backed(L)
    <3>1. physical_base + (AesStart(L) + AesBlockSize - 1) < image_len
      BY <2>2, <2>3
    <3> QED
      BY <3>1, <1>5, <1>6, <1>7 DEF Backed
  <2> QED
    BY <2>1, <2>3
<1>10. (\A k \in AesBlock(L) : Genuine(k)) <=> Backed(L)
  BY <1>8, <1>9
<1>11. decrypt_units(region, SectorSize, first_sector)[inner + i]
          = IF \A k \in AesBlock(origin + (inner + i)) : Genuine(k)
            THEN origin + (inner + i) ELSE Garbage
  BY <1>4, <1>6 DEF decrypt_units, origin
<1> QED
  BY <1>4, <1>10, <1>11 DEF L

\* The window is copied out; it lies inside the region.
LEMMA DeliverInv == IInv /\ Deliver => IInv'
<1> SUFFICES ASSUME IInv, Deliver PROVE IInv'
  OBVIOUS
<1> DEFINE plain == decrypt_units(region, SectorSize, first_sector)
           data == [i \in 0 .. want - 1 |-> plain[inner + i]]
<1>1. pc = "deliver" /\ UNCHANGED geometry /\ cursor' = cursor
  BY DEF Deliver
<1>2. ~NothingToRead
  BY <1>1 DEF IInv, RegionIsImagePrefix
<1>3. /\ inner + want <= region_len
      /\ want = Served(call.offset, call.len)
      /\ want \in Nat /\ call.offset + want <= size /\ call.offset \in Nat
  BY <1>1, <1>2, CallWindow
<1>4. want \in U64
  BY <1>3, WordMaxAssumption DEF IInv, TypeOK, U64
<1>5. Return("ok", want, data)
  BY <1>3 DEF Deliver
<1>6. data = [i \in 0 .. want - 1 |->
                 IF Backed(call.offset + i) THEN call.offset + i ELSE Garbage]
  BY <1>1, DecryptedWindow
<1>7. cursor' \in U64
  BY <1>1 DEF IInv, TypeOK
<1> HIDE DEF data
<1> QED
  BY <1>1, <1>3, <1>4, <1>5, <1>6, <1>7, ReturnInv

\* Every step of the specification preserves the invariant.
LEMMA NextInv == IInv /\ [Next]_vars => IInv'
<1> SUFFICES ASSUME IInv, [Next]_vars PROVE IInv'
  OBVIOUS
<1>1. ASSUME NEW o \in Offsets, NEW len \in BufLens, ReadAt(o, len) PROVE IInv'
  <2>1. o \in U64
    BY InputAssumption
  <2> QED
    BY <1>1, <2>1, RequestInv DEF ReadAt
<1>2. ASSUME NEW len \in BufLens, Read(len) PROVE IInv'
  <2>1. position \in U64
    BY DEF IInv, TypeOK
  <2> QED
    BY <1>2, <2>1, RequestInv DEF Read
<1>3. ASSUME NEW o \in Offsets, SeekStart(o) PROVE IInv'
  <2>1. o \in U64 /\ o \in Int
    BY InputAssumption, WordMaxAssumption DEF U64
  <2> QED
    BY <1>3, <2>1, SeekInv DEF SeekStart
<1>4. ASSUME NEW d \in SeekDeltas, SeekEnd(d) \/ SeekCurrent(d) PROVE IInv'
  <2>1. d \in Int /\ size \in U64 /\ position \in U64
    BY InputAssumption DEF IInv, TypeOK
  <2>2. /\ add_signed(size, d) \in U64 \cup {Overflow}
        /\ add_signed(position, d) \in U64 \cup {Overflow}
    BY <2>1, AddSigned
  <2> QED
    BY <1>4, <2>1, <2>2, SeekInv DEF SeekEnd, SeekCurrent
<1>5. CASE Proceed
  BY <1>5, ReturnNothingInv, BeginFetchInv, SeekReaderInv, FillSomeInv,
     FillEofInv, DeliverInv DEF Proceed
<1>6. CASE SeekReaderFails \/ FillFails
  BY <1>6, ReaderFailsInv
<1>7. CASE UNCHANGED vars
  <2>1. UNCHANGED <<physical_base, size, image_len, call>>
    BY <1>7 DEF vars
  <2>2. /\ region_len' = region_len
        /\ physical' = physical
        /\ NothingToRead' <=> NothingToRead
        /\ ReadsAreExact' <=> ReadsAreExact
        /\ OnlyIoErrors' <=> OnlyIoErrors
    BY <2>1, LocalsUnchanged
  <2>3. TypeOK'
    BY <1>7, <2>2 DEF vars, IInv, TypeOK
  <2>4. RegionIsImagePrefix'
    BY <1>7, <2>2 DEF vars, IInv, RegionIsImagePrefix
  <2> QED
    BY <2>2, <2>3, <2>4 DEF IInv
<1> QED
  BY <1>1, <1>2, <1>3, <1>4, <1>5, <1>6, <1>7
  DEF Next, Progress, FillInterrupted

\* The state of a decrypted volume is always well formed: in particular the
\* position, the reader's cursor and the region's length stay u64 values.
THEOREM TypeCorrect == Spec => []TypeOK
<1>1. IInv => TypeOK
  BY DEF IInv
<1> QED
  BY <1>1, InitInv, NextInv, PTL DEF Spec

\* While read_at fetches, its region is a prefix of its own part of the image.
THEOREM RegionCorrect == Spec => []RegionIsImagePrefix
<1>1. IInv => RegionIsImagePrefix
  BY DEF IInv
<1> QED
  BY <1>1, InitInv, NextInv, PTL DEF Spec

\* Every read that returns Ok returns exactly the plaintext asked for, for
\* every geometry, request, chunking of the reader and history of failures.
THEOREM ReadsCorrect == Spec => []ReadsAreExact
<1>1. IInv => ReadsAreExact
  BY DEF IInv
<1> QED
  BY <1>1, InitInv, NextInv, PTL DEF Spec

\* The OutOfRange errors in read_at are dead code for every 64-bit input.
THEOREM OutOfRangeIsUnreachable == Spec => []OnlyIoErrors
<1>1. IInv => OnlyIoErrors
  BY DEF IInv
<1> QED
  BY <1>1, InitInv, NextInv, PTL DEF Spec
-----------------------------------------------------------------------------
(* Refinement of the atomic plaintext stream.                              *)

\* The geometry of the abstract volume never changes.
LEMMA IntactUnchanged ==
    ASSUME UNCHANGED geometry
    PROVE  /\ size' = size
           /\ {L \in 0 .. size - 1 : Backed(L)}'
                 = {L \in 0 .. size - 1 : Backed(L)}
  BY DEF geometry, Backed, AesStart

\* An error return is an abstract failure.
LEMMA FailRefines ==
    ASSUME IInv, pc # "idle", UNCHANGED geometry,
           NEW status \in {"io"} \cup (IF OverflowChecks THEN {"panic"} ELSE {}),
           Fail(status)
    PROVE  Abstract!ReturnErr
<1>1. call.status = "pending"
  BY DEF IInv, TypeOK
<1>2. position' = position
  BY DEF Fail, Return
<1>3. call' = Abstract!Reply(status, 0, Abstract!NoData)
  BY DEF Fail, Return, Reply, Abstract!Reply, NoData, Abstract!NoData,
         Garbage, Abstract!Garbage
<1> QED
  BY <1>1, <1>2, <1>3, IntactUnchanged DEF Abstract!ReturnErr

\* A successful return is the abstract one.
LEMMA OkRefines ==
    ASSUME IInv, IInv', pc # "idle", UNCHANGED geometry,
           NEW n, NEW data, Return("ok", n, data)
    PROVE  Abstract!ReturnOk
<1>1. /\ call.status = "pending" /\ call.kind \in {"read_at", "read"}
      /\ size \in U64 /\ call.offset \in U64
      /\ call.len \in 0 .. (WordMax \div 2)
  BY DEF IInv, TypeOK, RegionIsImagePrefix
<1>2. /\ call' = Reply("ok", n, data)
      /\ position' = IF call.kind = "read" THEN position + n ELSE position
  BY DEF Return
<1>3. /\ size' = size /\ physical_base' = physical_base
      /\ image_len' = image_len
  BY DEF geometry
<1>4. /\ n = Served(call.offset, call.len)
      /\ data = [i \in 0 .. n - 1 |-> IF Backed(call.offset + i)
                                      THEN call.offset + i ELSE Garbage]
  BY <1>1, <1>2, <1>3 DEF IInv, ReadsAreExact, Reply, Served, Backed, AesStart
<1>5. n = Abstract!Served(call.offset, call.len)
  BY <1>4 DEF Served, Abstract!Served, u64_min, Abstract!u64_min
<1>6. ASSUME NEW i \in 0 .. n - 1
      PROVE  call.offset + i \in 0 .. size - 1
  BY <1>1, <1>4, WordMaxAssumption, SMTT(30) DEF Served, u64_min, U64
<1>7. data = Abstract!Plaintext(call.offset, n)
  BY <1>4, <1>6 DEF Abstract!Plaintext, Garbage, Abstract!Garbage
<1>8. call' = Abstract!Reply("ok", n, Abstract!Plaintext(call.offset, n))
  BY <1>2, <1>7 DEF Reply, Abstract!Reply
<1> QED
  BY <1>1, <1>2, <1>5, <1>8, IntactUnchanged DEF Abstract!ReturnOk

\* A seek of the code is the abstract seek.
LEMMA SeekRefines ==
    ASSUME IInv, NEW kind, NEW origin \in U64, NEW d \in Int,
           Seek(kind, IF origin + d \in U64 THEN origin + d ELSE Overflow, d)
    PROVE  Abstract!SeekTo(kind, origin, d)
<1>1. Overflow \notin U64
  BY WordMaxAssumption DEF Overflow, U64
<1>2. call.status # "pending" /\ UNCHANGED geometry
  BY DEF Seek, IInv, TypeOK
<1>3. Abstract!U64 = U64
  BY DEF U64, Abstract!U64
<1> QED
  BY <1>1, <1>2, <1>3, IntactUnchanged
  DEF Seek, Abstract!SeekTo, SeekReply, Abstract!SeekReply, NoData,
      Abstract!NoData, Garbage, Abstract!Garbage

\* Every step of the volume is a step of the plaintext stream or a stutter.
LEMMA StepRefines ==
    IInv /\ IInv' /\ [Next]_vars => [Abstract!ANext]_(Abstract!pvars)
<1> SUFFICES ASSUME IInv, IInv', [Next]_vars
             PROVE  [Abstract!ANext]_(Abstract!pvars)
  OBVIOUS
<1>1. ASSUME UNCHANGED <<geometry, position, call>>
      PROVE  UNCHANGED Abstract!pvars
  BY <1>1, IntactUnchanged DEF Abstract!pvars
<1>2. ASSUME NEW o \in Offsets, NEW len \in BufLens, ReadAt(o, len)
      PROVE  Abstract!Invoke
  BY <1>2, IntactUnchanged
  DEF ReadAt, Abstract!Invoke, IInv, TypeOK, Request, Abstract!Request,
      NoData, Abstract!NoData, Garbage, Abstract!Garbage
<1>3. ASSUME NEW len \in BufLens, Read(len)
      PROVE  Abstract!Invoke
  BY <1>3, IntactUnchanged
  DEF Read, Abstract!Invoke, IInv, TypeOK, Request, Abstract!Request,
      NoData, Abstract!NoData, Garbage, Abstract!Garbage
<1>4. ASSUME NEW o \in Offsets, SeekStart(o)
      PROVE  Abstract!SeekTo("seek_start", 0, o)
  <2>1. o \in U64 /\ o \in Int /\ 0 \in U64 /\ 0 + o = o
    BY InputAssumption, WordMaxAssumption DEF U64
  <2> QED
    BY <1>4, <2>1, SeekRefines DEF SeekStart
<1>5. ASSUME NEW d \in SeekDeltas, SeekEnd(d) \/ SeekCurrent(d)
      PROVE  \/ Abstract!SeekTo("seek_end", size, d)
             \/ Abstract!SeekTo("seek_current", position, d)
  <2>1. d \in Int /\ size \in U64 /\ position \in U64
    BY InputAssumption DEF IInv, TypeOK
  <2> QED
    BY <1>5, <2>1, AddSigned, SeekRefines DEF SeekEnd, SeekCurrent
<1>6. CASE ReturnNothing
  BY <1>6, OkRefines DEF ReturnNothing, Abstract!ANext
<1>7. CASE BeginFetch
  <2>1. pc = "enter" /\ ~NothingToRead /\ UNCHANGED geometry
    BY <1>7 DEF BeginFetch
  <2>2. region_len # Overflow
    BY <2>1, CallWindow
  <2>3. CASE OverflowChecks /\ PhysicalOverflows
    BY <1>7, <2>1, <2>2, <2>3, FailRefines DEF BeginFetch, Abstract!ANext
  <2>4. CASE ~(OverflowChecks /\ PhysicalOverflows)
    BY <1>1, <1>7, <2>1, <2>2, <2>4 DEF BeginFetch
  <2> QED
    BY <2>3, <2>4
<1>8. CASE SeekReader \/ FillSome \/ FillEof
  BY <1>1, <1>8 DEF SeekReader, FillSome, FillChunk, FillEof
<1>9. CASE SeekReaderFails \/ FillFails
  BY <1>9, FailRefines DEF SeekReaderFails, FillFails, Abstract!ANext
<1>10. CASE Deliver
  <2>1. pc = "deliver" /\ UNCHANGED geometry
    BY <1>10 DEF Deliver
  <2>2. inner + want <= region_len
    BY <2>1, CallWindow DEF IInv, RegionIsImagePrefix
  <2> QED
    BY <1>10, <2>1, <2>2, OkRefines DEF Deliver, Abstract!ANext
<1>11. CASE UNCHANGED vars
  BY <1>1, <1>11 DEF vars, geometry
<1> QED
  BY <1>2, <1>3, <1>4, <1>5, <1>6, <1>7, <1>8, <1>9, <1>10, <1>11
  DEF Next, Progress, Proceed, FillInterrupted, Abstract!ANext

\* The stepwise, failing, chunked reader implements an atomic stream of
\* plaintext: one result per call, positions moved by what was returned,
\* seeks exact or refused.
THEOREM VolumeRefinesPlaintext == Spec => ImplementsPlaintextVolume
<1>1. Init => Abstract!AInit
  BY InitInv
  DEF Init, Abstract!AInit, IInv, TypeOK, SeekReply, Abstract!SeekReply,
      NoData, Abstract!NoData, Garbage, Abstract!Garbage, U64, Abstract!U64
<1> QED
  BY <1>1, InitInv, NextInv, StepRefines, PTL
  DEF Spec, ImplementsPlaintextVolume, Abstract!ASpec
=============================================================================
