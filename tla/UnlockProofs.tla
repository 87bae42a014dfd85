----------------------------- MODULE UnlockProofs -----------------------------
(***************************************************************************)
(* Proofs about module Unlock, for every word size, every choice of the    *)
(* format's constants and every set of images.  They rest on one idea: but *)
(* for I/O errors, what a call returns is a function of the image and the  *)
(* request alone (Verdict), whatever calls and failures came before it.    *)
(***************************************************************************)
EXTENDS Unlock, TLAPS

\* What the header, the first block and the region say when they can be read.
SizeOf(img) == plaintext_metadata_size(img, img.block_size)
PlaceOf(img) == locate_encrypted_metadata(img, SizeOf(img).value)

Verdict(img, r) ==
    IF ~ParseHeader(img).ok THEN Failure(ParseHeader(img).error)
    ELSE IF img.block_size = 0 THEN Failure("OutOfRange")
    ELSE IF ~SizeOf(img).ok THEN Failure(SizeOf(img).error)
    ELSE IF ~PlaceOf(img).ok THEN Failure(PlaceOf(img).error)
    ELSE IF r = NoPassword THEN InfoResult(img, PlaceOf(img).value)
    ELSE UnlockResult(img, PlaceOf(img).value, r)

\* The image has every byte that a successful call reads.
Readable(img) ==
    /\ HeaderLen <= img.len
    /\ plaintext_metadata_region(img) + img.block_size <= img.len
    /\ plaintext_metadata_region(img) + SizeOf(img).value <= img.len
    /\ PlaceOf(img).value.primary_offset + PlaceOf(img).value.length <= img.len

\* What a call knows when it is about to make the read that pc names.
HeaderKnown ==
    pc \in {"first_block", "region", "ciphertext", "extract"} =>
        /\ ParseHeader(image).ok
        /\ image.block_size # 0
        /\ HeaderLen <= image.len

SizeKnown ==
    pc \in {"region", "ciphertext", "extract"} =>
        /\ SizeOf(image).ok
        /\ region_size = SizeOf(image).value
        /\ plaintext_metadata_region(image) + image.block_size <= image.len

PlaceKnown ==
    /\ pc \in {"header", "first_block", "region"} => location = Nowhere
    /\ pc \in {"ciphertext", "extract"} =>
        /\ PlaceOf(image).ok
        /\ location = PlaceOf(image).value
        /\ plaintext_metadata_region(image) + region_size <= image.len

CiphertextKnown ==
    pc = "extract" => location.primary_offset + location.length <= image.len

\* What the last call left behind.
Returned ==
    pc = "idle" =>
        \/ result \in {Failure("none"), Failure("Io")}
        \/ /\ result = Verdict(image, request)
           /\ result.ok => /\ Readable(image)
                           /\ region_size = SizeOf(image).value
                           /\ location = PlaceOf(image).value

SeenAreVerdicts ==
    /\ DOMAIN seen = Requests
    /\ \A r \in Requests : \A u \in seen[r] :
          u = Verdict(image, r) /\ (u.ok => Readable(image))

UInductive ==
    /\ TypeOK
    /\ image \in Images
    /\ HeaderKnown /\ SizeKnown /\ PlaceKnown /\ CiphertextKnown
    /\ Returned /\ SeenAreVerdicts
    /\ BuffersBounded /\ DescriptorIsPointedTo
-----------------------------------------------------------------------------
(* The operators of CoreStorageMetadata. *)

\* The fields of an image have the types that the code reads them with.
LEMMA ImageFields ==
    ASSUME NEW img \in Images
    PROVE  /\ img.len \in Nat
           /\ img.block_size \in U64 /\ img.metadata_block \in U64
           /\ img.metadata_size \in U64 /\ img.vg_offset \in U64
           /\ img.count \in U64 /\ img.primary \in U64
           /\ img.passphrase_struct \in {"absent", "bad_base64", "short", "whole"}
           /\ img.volume_key_struct \in {"absent", "bad_base64", "short", "whole"}
           /\ KeysAsWritten(img)
  BY ImageAssumption

\* A size in whole blocks, rounded down, of at most n blocks is less than
\* n + 1 blocks.
LEMMA DivisionBound ==
    ASSUME NEW a \in Nat, NEW b \in Nat, b > 0, NEW n \in Nat, a \div b <= n
    PROVE  a < (n + 1) * b
  <1>1. /\ a \div b \in Int /\ a % b \in 0 .. b - 1
        /\ a = b * (a \div b) + (a % b)
    OBVIOUS
  <1>. DEFINE q == a \div b
  <1>2. q \in Int /\ q <= n /\ a < b * q + b
    BY <1>1
  <1>. HIDE DEF q
  <1>3. b * q <= b * n
    BY <1>2
  <1> QED
    BY <1>2, <1>3

\* So are n blocks of any count up to the cap.
LEMMA ProductBound ==
    ASSUME NEW c \in Nat, NEW b \in Nat, b > 0, NEW n \in Nat, c <= n
    PROVE  c * b < (n + 1) * b
  <1>1. c * b <= n * b
    OBVIOUS
  <1>2. (n + 1) * b = n * b + b /\ n * b \in Int /\ c * b \in Int
    OBVIOUS
  <1> QED
    BY <1>1, <1>2

\* plaintext_metadata_size fails with an error of its own or returns a size
\* that the cap on blocks bounds.
LEMMA SizeShape ==
    ASSUME NEW img \in Images
    PROVE  /\ SizeOf(img).ok \in BOOLEAN
           /\ ~SizeOf(img).ok => SizeOf(img).error \in {"MetadataStructureMissing", "OutOfRange"}
           /\ SizeOf(img).ok => /\ SizeOf(img).value \in U64
                                /\ img.block_size > 0
                                /\ SizeOf(img).value < (MaxBlocks + 1) * img.block_size
  <1>. DEFINE m == Field(img.metadata_size, SizeEnd, img.block_size)
              b == img.block_size
  <1>1. m \in U64 /\ b \in U64 /\ U64 \subseteq Nat
    BY ImageFields, WordMaxAssumption DEF Field, U64
  <1>2. MaxBlocks \in Nat
    BY MetadataAssumption
  <1>3. (b # 0 /\ m \div b <= MaxBlocks) => m < (MaxBlocks + 1) * b
    <2>. HIDE DEF m, b
    <2> QED BY <1>1, <1>2, DivisionBound
  <1>4. \/ SizeOf(img) \in {Err("MetadataStructureMissing"), Err("OutOfRange")}
        \/ SizeOf(img) = Ok(m) /\ b # 0 /\ ~(m \div b > MaxBlocks)
    BY DEF SizeOf, plaintext_metadata_size
  <1>5. (b # 0 /\ ~(m \div b > MaxBlocks)) => m \div b <= MaxBlocks
    <2>. HIDE DEF m, b
    <2> QED BY <1>1, <1>2
  <1>. HIDE DEF m
  <1>6. CASE SizeOf(img) \in {Err("MetadataStructureMissing"), Err("OutOfRange")}
    <2>1. /\ SizeOf(img).ok = FALSE
          /\ SizeOf(img).error \in {"MetadataStructureMissing", "OutOfRange"}
      BY <1>6 DEF Err
    <2> QED
      BY <2>1
  <1>7. CASE SizeOf(img) = Ok(m) /\ b # 0 /\ ~(m \div b > MaxBlocks)
    <2>1. SizeOf(img).ok = TRUE /\ SizeOf(img).value = m
      BY <1>7 DEF Ok
    <2>2. m < (MaxBlocks + 1) * b
      BY <1>3, <1>5, <1>7, Zenon
    <2>3. b \in Nat /\ b # 0
      BY <1>1, <1>7, Zenon
    <2>4. b > 0
      BY <2>3
    <2> QED
      BY <1>1, <2>1, <2>2, <2>4
  <1> QED
    BY <1>4, <1>6, <1>7

\* locate_encrypted_metadata accepts only a descriptor that the metadata
\* points to, and a run of blocks that the cap bounds.
LEMMA PlaceShape ==
    ASSUME NEW img \in Images, NEW len \in U64
    PROVE  LET r == locate_encrypted_metadata(img, len)
           IN  /\ r.ok \in BOOLEAN
               /\ ~r.ok => r.error \in {"MetadataStructureMissing", "OutOfRange"}
               /\ r.ok => /\ r.value.primary_offset \in U64
                          /\ r.value.length \in U64
                          /\ img.block_size > 0 =>
                                r.value.length < (MaxBlocks + 1) * img.block_size
                          /\ len >= PointerEnd
                          /\ img.vg_offset # 0
  <1>. DEFINE r == locate_encrypted_metadata(img, len)
              offset == Field(img.vg_offset, PointerEnd, len)
              n == DescriptorCount(img, offset)
              first == DescriptorPrimary(img)
              run == BlockRun(first, n, img.block_size)
  <1>1. \/ r \in {Err("MetadataStructureMissing"), Err("OutOfRange")}
        \/ /\ r = Ok(run) /\ ~BadBlockCount(n)
           /\ Overflow \notin {run.primary_offset, run.length}
    BY DEF locate_encrypted_metadata
  <1>2. CASE r \in {Err("MetadataStructureMissing"), Err("OutOfRange")}
    <2>1. r.ok = FALSE /\ r.error \in {"MetadataStructureMissing", "OutOfRange"}
      BY <1>2 DEF Err
    <2>. HIDE DEF r
    <2>2. /\ r.ok \in BOOLEAN
          /\ ~r.ok => r.error \in {"MetadataStructureMissing", "OutOfRange"}
          /\ ~(r.ok)
      BY <2>1
    <2> QED
      BY <2>2 DEF r
  <1>3. CASE /\ r = Ok(run) /\ ~BadBlockCount(n)
             /\ Overflow \notin {run.primary_offset, run.length}
    <2>1. /\ MaxBlocks \in Nat /\ HeaderWord \in Nat /\ HeaderWord > MaxBlocks
          /\ PointerEnd \in Nat
      BY MetadataAssumption, WordMaxAssumption DEF U64
    <2>2. /\ img.vg_offset \in Nat /\ img.count \in Nat /\ img.block_size \in Nat
          /\ len \in Nat
      BY ImageFields, WordMaxAssumption DEF U64
    <2>3. offset # 0 /\ n = img.count /\ n <= MaxBlocks
      BY <1>3, <2>1, <2>2 DEF BadBlockCount, DescriptorCount
    <2>4. len >= PointerEnd /\ img.vg_offset # 0
      BY <2>1, <2>2, <2>3 DEF Field
    <2>5. run.primary_offset \in U64 /\ run.length \in U64 /\ run.length = n * img.block_size
      <3>1. /\ run.primary_offset = checked_mul(first, img.block_size)
            /\ run.length = checked_mul(n, img.block_size)
        BY DEF BlockRun
      <3>. HIDE DEF run
      <3> QED
        BY <1>3, <3>1 DEF checked_mul
    <2>6. img.block_size > 0 => run.length < (MaxBlocks + 1) * img.block_size
      BY <2>1, <2>2, <2>3, <2>5, ProductBound
    <2>. HIDE DEF run
    <2>7. r.ok = TRUE /\ r.value = run
      BY <1>3 DEF Ok
    <2> QED
      BY <2>4, <2>5, <2>6, <2>7
  <1> QED
    BY <1>1, <1>2, <1>3

LEMMA RegionType ==
    ASSUME NEW img \in Images
    PROVE  plaintext_metadata_region(img) \in U64
  BY WordMaxAssumption DEF plaintext_metadata_region, saturating_mul, U64
-----------------------------------------------------------------------------
(* What the last part of a call returns. *)

\* A result is a success or names the error that it failed with, or a panic.
IsResult(u) == \/ u.ok = TRUE /\ u.error = "none"
               \/ u.ok = FALSE /\ u.error \in Errors \cup {"panic"}

LEMMA ExtractErrors ==
    ASSUME NEW img \in Images, NEW loc
    PROVE  ExtractError(img, loc)
              \in {"none", "MetadataStructureMissing", "OutOfRange", "panic"}
  <1>1. /\ ExtractStruct(img.passphrase_struct)
              \in {"none", "MetadataStructureMissing", "OutOfRange"}
        /\ ExtractStruct(img.volume_key_struct)
              \in {"none", "MetadataStructureMissing", "OutOfRange"}
    BY ImageFields DEF ExtractStruct
  <1> QED
    BY <1>1 DEF ExtractError, ContextError

LEMMA InfoShape ==
    ASSUME NEW img \in Images, NEW loc
    PROVE  IsResult(InfoResult(img, loc)) /\ InfoResult(img, loc).error # "Io"
  BY ExtractErrors DEF InfoResult, IsResult, Success, Failure, Errors

LEMMA UnlockShape ==
    ASSUME NEW img \in Images, NEW loc, NEW p
    PROVE  IsResult(UnlockResult(img, loc, p)) /\ UnlockResult(img, loc, p).error # "Io"
  BY ExtractErrors DEF UnlockResult, IsResult, Success, Failure, Errors

\* Every verdict is a success or an error other than Io.
LEMMA VerdictShape ==
    ASSUME NEW img \in Images, NEW r
    PROVE  IsResult(Verdict(img, r)) /\ Verdict(img, r).error # "Io"
  <1>1. CASE ~ParseHeader(img).ok
    <2>1. ParseHeader(img).error \in {"NotCoreStorage", "UnsupportedEncryptionMethod"}
      BY <1>1 DEF ParseHeader, Ok, Err
    <2> QED
      BY <1>1, <2>1 DEF Verdict, IsResult, Failure, Errors
  <1>2. CASE ParseHeader(img).ok /\ img.block_size = 0
    BY <1>2 DEF Verdict, IsResult, Failure, Errors
  <1>3. CASE ParseHeader(img).ok /\ img.block_size # 0 /\ ~SizeOf(img).ok
    BY <1>3, SizeShape DEF Verdict, IsResult, Failure, Errors
  <1>4. CASE /\ ParseHeader(img).ok /\ img.block_size # 0
             /\ SizeOf(img).ok /\ ~PlaceOf(img).ok
    <2>1. PlaceOf(img).error \in {"MetadataStructureMissing", "OutOfRange"}
      BY <1>4, SizeShape, PlaceShape DEF PlaceOf
    <2> QED
      BY <1>4, <2>1 DEF Verdict, IsResult, Failure, Errors
  <1>5. CASE /\ ParseHeader(img).ok /\ img.block_size # 0
             /\ SizeOf(img).ok /\ PlaceOf(img).ok
    BY <1>5, InfoShape, UnlockShape DEF Verdict
  <1> QED
    BY <1>1, <1>2, <1>3, <1>4, <1>5
-----------------------------------------------------------------------------
(* The inductive invariant. *)

LEMMA InitUInductive == UInit => UInductive
  <1>. SUFFICES ASSUME UInit PROVE UInductive
    OBVIOUS
  <1>1. 0 \in U64 /\ HeaderLen \in Nat
    BY WordMaxAssumption, RequestAssumption DEF U64
  <1>2. Failure("none").ok = FALSE /\ Failure("none").error = "none"
    BY DEF Failure
  <1>3. TypeOK
    BY <1>1, <1>2 DEF UInit, TypeOK, Requests, Nowhere
  <1>4. BuffersBounded
    BY <1>1 DEF UInit, BuffersBounded
  <1> QED
    BY <1>3, <1>4 DEF UInit, UInductive, HeaderKnown, SizeKnown, PlaceKnown,
       CiphertextKnown, Returned, SeenAreVerdicts, DescriptorIsPointedTo

\* A buffer within the cap keeps the largest one within it.
LEMMA AllocateBounded ==
    ASSUME TypeOK, BuffersBounded, NEW n \in U64, Allocate(n), image' = image,
           n <= HeaderLen \/ n < (MaxBlocks + 1) * image.block_size
    PROVE  largest' \in U64 /\ BuffersBounded'
  <1>1. largest' = n \/ largest' = largest
    BY DEF Allocate
  <1> QED
    BY <1>1 DEF TypeOK, BuffersBounded

\* What the end of a call leaves behind.
LEMMA EndOfCall ==
    ASSUME UInductive, NEW u, Finish(u), image' = image, request' = request,
           \/ u = Failure("Io")
           \/ /\ u = Verdict(image, request)
              /\ u.ok => /\ Readable(image)
                         /\ region_size' = SizeOf(image).value
                         /\ location' = PlaceOf(image).value
    PROVE  /\ pc' = "idle"
           /\ result'.ok \in BOOLEAN /\ result'.error \in Errors \cup {"none", "panic"}
           /\ Returned'
           /\ SeenAreVerdicts'
  <1>1. pc' = "idle" /\ result' = u
    BY DEF Finish
  <1>2. /\ image \in Images /\ request \in Requests /\ DOMAIN seen = Requests
        /\ \A r \in Requests : \A w \in seen[r] :
              w = Verdict(image, r) /\ (w.ok => Readable(image))
    BY DEF UInductive, TypeOK, SeenAreVerdicts
  <1>3. CASE u = Failure("Io")
    <2>1. u.ok = FALSE /\ u.error = "Io"
      BY <1>3 DEF Failure
    <2>2. u.ok \in BOOLEAN /\ u.error \in Errors
      BY <2>1 DEF Errors
    <2>3. seen' = seen
      BY <2>1 DEF Finish
    <2>4. Returned'
      BY <1>1, <1>3 DEF Returned
    <2>5. SeenAreVerdicts'
      BY <1>2, <2>3 DEF SeenAreVerdicts
    <2> QED
      BY <1>1, <2>2, <2>4, <2>5
  <1>4. CASE /\ u = Verdict(image, request)
             /\ u.ok => /\ Readable(image)
                        /\ region_size' = SizeOf(image).value
                        /\ location' = PlaceOf(image).value
    <2>1. IsResult(u) /\ u.error # "Io"
      BY <1>2, <1>4, VerdictShape
    <2>2. u.ok \in BOOLEAN /\ u.error \in Errors \cup {"none", "panic"}
      BY <2>1 DEF IsResult
    <2>3. seen' = [seen EXCEPT ![request] = @ \cup {u}]
      BY <2>1 DEF Finish
    <2>4. Returned'
      BY <1>1, <1>4 DEF Returned
    <2>5. DOMAIN seen' = Requests
      BY <1>2, <2>3
    <2>6. ASSUME NEW r \in Requests, NEW w \in seen'[r]
          PROVE  w = Verdict(image, r) /\ (w.ok => Readable(image))
      <3>1. CASE w \in seen[r]
        BY <1>2, <3>1
      <3>2. CASE w \notin seen[r]
        <4>1. r = request /\ w = u
          BY <1>2, <2>3, <3>2
        <4> QED
          BY <1>4, <4>1
      <3> QED
        BY <3>1, <3>2
    <2>7. SeenAreVerdicts'
      BY <2>5, <2>6 DEF SeenAreVerdicts
    <2> QED
      BY <1>1, <2>2, <2>4, <2>7
  <1> QED
    BY <1>3, <1>4

\* The same for a call that fails.
LEMMA FailedCall ==
    ASSUME UInductive, NEW e, Finish(Failure(e)), image' = image, request' = request,
           e = "Io" \/ Failure(e) = Verdict(image, request)
    PROVE  /\ pc' = "idle"
           /\ result'.ok \in BOOLEAN /\ result'.error \in Errors \cup {"none", "panic"}
           /\ Returned'
           /\ SeenAreVerdicts'
  <1>1. Failure(e).ok = FALSE
    BY DEF Failure
  <1>. DEFINE u == Failure(e)
  <1>2. \/ u = Failure("Io")
        \/ /\ u = Verdict(image, request)
           /\ u.ok => /\ Readable(image)
                      /\ region_size' = SizeOf(image).value
                      /\ location' = PlaceOf(image).value
    BY <1>1
  <1>3. Finish(u)
    OBVIOUS
  <1>. HIDE DEF u
  <1> QED
    BY <1>2, <1>3, EndOfCall

\* A step to the next read leaves the results alone.
LEMMA NextRead ==
    ASSUME UInductive, NEW p \in {"first_block", "region", "ciphertext", "extract"},
           GoOn(p), image' = image, request' = request
    PROVE  /\ pc' = p
           /\ result'.ok \in BOOLEAN /\ result'.error \in Errors \cup {"none", "panic"}
           /\ Returned'
           /\ SeenAreVerdicts'
  <1>1. pc' = p /\ result' = result /\ seen' = seen
    BY DEF GoOn
  <1>2. result.ok \in BOOLEAN /\ result.error \in Errors \cup {"none", "panic"} /\ SeenAreVerdicts
    BY DEF UInductive, TypeOK
  <1>3. Returned'
    BY <1>1 DEF Returned
  <1>4. SeenAreVerdicts'
    BY <1>1, <1>2 DEF SeenAreVerdicts
  <1> QED
    BY <1>1, <1>2, <1>3, <1>4

LEMMA BeginPreserves ==
    ASSUME UInductive, NEW r \in Requests, Begin(r)
    PROVE  UInductive'
  <1>1. /\ pc' = "header" /\ request' = r /\ location' = Nowhere
        /\ region_size' = 0 /\ largest' = 0
        /\ image' = image /\ result' = result /\ seen' = seen
    BY DEF Begin
  <1>2. 0 \in U64 /\ HeaderLen \in Nat
    BY WordMaxAssumption, RequestAssumption DEF U64
  <1>3. TypeOK'
    BY <1>1, <1>2 DEF UInductive, TypeOK, Nowhere
  <1>4. BuffersBounded'
    BY <1>1, <1>2 DEF BuffersBounded
  <1>5. SeenAreVerdicts'
    BY <1>1 DEF UInductive, SeenAreVerdicts
  <1> QED
    BY <1>1, <1>3, <1>4, <1>5 DEF UInductive, HeaderKnown, SizeKnown, PlaceKnown,
       CiphertextKnown, Returned, DescriptorIsPointedTo

LEMMA ReadHeaderPreserves ==
    ASSUME UInductive, ReadHeader
    PROVE  UInductive'
  <1>1. /\ pc = "header" /\ Allocate(HeaderLen)
        /\ image' = image /\ request' = request
        /\ region_size' = region_size /\ location' = location
    BY DEF ReadHeader
  <1>2. image \in Images /\ TypeOK /\ BuffersBounded /\ location = Nowhere
    BY <1>1 DEF UInductive, PlaceKnown
  <1>3. HeaderLen \in U64
    BY RequestAssumption
  <1>4. largest' \in U64 /\ BuffersBounded'
    <2>1. HeaderLen <= HeaderLen
      BY <1>3, WordMaxAssumption DEF U64
    <2> QED
      BY <1>1, <1>2, <1>3, <2>1, AllocateBounded
  <1>5. DescriptorIsPointedTo'
    BY <1>1, <1>2 DEF DescriptorIsPointedTo
  <1>6. \/ \E e : /\ Finish(Failure(e))
                  /\ e = "Io" \/ Failure(e) = Verdict(image, request)
        \/ /\ GoOn("first_block") /\ HeaderLen <= image.len
           /\ ParseHeader(image).ok /\ image.block_size # 0
    <2>1. CASE ~ReadExact(0, HeaderLen)
      BY <2>1 DEF ReadHeader
    <2>2. CASE ReadExact(0, HeaderLen) /\ ~ParseHeader(image).ok
      BY <2>2 DEF ReadHeader, Verdict
    <2>3. CASE ReadExact(0, HeaderLen) /\ ParseHeader(image).ok /\ image.block_size = 0
      BY <2>3 DEF ReadHeader, Verdict
    <2>4. CASE ReadExact(0, HeaderLen) /\ ParseHeader(image).ok /\ image.block_size # 0
      <3>1. HeaderLen <= image.len
        BY <1>2, <1>3, <2>4, ImageFields, WordMaxAssumption DEF ReadExact, U64
      <3> QED
        BY <2>4, <3>1 DEF ReadHeader
    <2> QED
      BY <2>1, <2>2, <2>3, <2>4
  <1>7. CASE \E e : /\ Finish(Failure(e))
                    /\ e = "Io" \/ Failure(e) = Verdict(image, request)
    <2>1. /\ pc' = "idle"
          /\ result'.ok \in BOOLEAN /\ result'.error \in Errors \cup {"none", "panic"}
          /\ Returned' /\ SeenAreVerdicts'
      BY <1>1, <1>7, FailedCall
    <2>2. TypeOK'
      BY <1>1, <1>2, <1>4, <2>1 DEF TypeOK
    <2> QED
      BY <1>1, <1>2, <1>4, <1>5, <2>1, <2>2 DEF UInductive, HeaderKnown, SizeKnown,
         PlaceKnown, CiphertextKnown
  <1>8. CASE /\ GoOn("first_block") /\ HeaderLen <= image.len
             /\ ParseHeader(image).ok /\ image.block_size # 0
    <2>1. /\ pc' = "first_block"
          /\ result'.ok \in BOOLEAN /\ result'.error \in Errors \cup {"none", "panic"}
          /\ Returned' /\ SeenAreVerdicts'
      BY <1>1, <1>8, NextRead
    <2>2. TypeOK'
      BY <1>1, <1>2, <1>4, <2>1 DEF TypeOK
    <2>3. HeaderKnown'
      BY <1>1, <1>8 DEF HeaderKnown
    <2> QED
      BY <1>1, <1>2, <1>4, <1>5, <2>1, <2>2, <2>3 DEF UInductive, SizeKnown,
         PlaceKnown, CiphertextKnown
  <1> QED
    BY <1>6, <1>7, <1>8

LEMMA ReadFirstBlockPreserves ==
    ASSUME UInductive, ReadFirstBlock
    PROVE  UInductive'
  <1>1. /\ pc = "first_block" /\ Allocate(image.block_size)
        /\ image' = image /\ request' = request /\ location' = location
    BY DEF ReadFirstBlock
  <1>2. /\ image \in Images /\ TypeOK /\ BuffersBounded /\ location = Nowhere
        /\ ParseHeader(image).ok /\ image.block_size # 0 /\ HeaderLen <= image.len
    BY <1>1 DEF UInductive, PlaceKnown, HeaderKnown
  <1>3. /\ image.block_size \in U64
        /\ image.block_size < (MaxBlocks + 1) * image.block_size
    <2>1. image.block_size \in U64 /\ image.block_size \in Nat /\ image.block_size > 0
      BY <1>2, ImageFields, WordMaxAssumption DEF U64
    <2>2. MaxBlocks \in Nat /\ 1 <= MaxBlocks
      BY MetadataAssumption
    <2>3. 1 * image.block_size < (MaxBlocks + 1) * image.block_size
      BY <2>1, <2>2, ProductBound
    <2> QED
      BY <2>1, <2>3
  <1>4. largest' \in U64 /\ BuffersBounded'
    BY <1>1, <1>2, <1>3, AllocateBounded
  <1>5. DescriptorIsPointedTo'
    BY <1>1, <1>2 DEF DescriptorIsPointedTo
  <1>6. \/ /\ region_size' = region_size
           /\ \E e : /\ Finish(Failure(e))
                     /\ e = "Io" \/ Failure(e) = Verdict(image, request)
        \/ /\ GoOn("region") /\ region_size' = SizeOf(image).value
           /\ SizeOf(image).ok
           /\ plaintext_metadata_region(image) + image.block_size <= image.len
    <2>1. CASE ~ReadExact(plaintext_metadata_region(image), image.block_size)
      BY <2>1 DEF ReadFirstBlock
    <2>2. CASE /\ ReadExact(plaintext_metadata_region(image), image.block_size)
               /\ ~SizeOf(image).ok
      BY <1>2, <2>2 DEF ReadFirstBlock, Verdict, SizeOf
    <2>3. CASE /\ ReadExact(plaintext_metadata_region(image), image.block_size)
               /\ SizeOf(image).ok
      BY <2>3 DEF ReadFirstBlock, SizeOf, ReadExact
    <2> QED
      BY <2>1, <2>2, <2>3
  <1>7. CASE /\ region_size' = region_size
             /\ \E e : /\ Finish(Failure(e))
                       /\ e = "Io" \/ Failure(e) = Verdict(image, request)
    <2>1. /\ pc' = "idle"
          /\ result'.ok \in BOOLEAN /\ result'.error \in Errors \cup {"none", "panic"}
          /\ Returned' /\ SeenAreVerdicts'
      BY <1>1, <1>7, FailedCall
    <2>2. TypeOK'
      BY <1>1, <1>2, <1>4, <1>7, <2>1 DEF TypeOK
    <2> QED
      BY <1>1, <1>2, <1>4, <1>5, <2>1, <2>2 DEF UInductive, HeaderKnown, SizeKnown,
         PlaceKnown, CiphertextKnown
  <1>8. CASE /\ GoOn("region") /\ region_size' = SizeOf(image).value
             /\ SizeOf(image).ok
             /\ plaintext_metadata_region(image) + image.block_size <= image.len
    <2>1. /\ pc' = "region"
          /\ result'.ok \in BOOLEAN /\ result'.error \in Errors \cup {"none", "panic"}
          /\ Returned' /\ SeenAreVerdicts'
      BY <1>1, <1>8, NextRead
    <2>2. region_size' \in U64
      BY <1>2, <1>8, SizeShape
    <2>3. TypeOK'
      BY <1>1, <1>2, <1>4, <2>1, <2>2 DEF TypeOK
    <2>4. HeaderKnown' /\ SizeKnown'
      BY <1>1, <1>2, <1>8 DEF HeaderKnown, SizeKnown
    <2> QED
      BY <1>1, <1>2, <1>4, <1>5, <2>1, <2>3, <2>4 DEF UInductive,
         PlaceKnown, CiphertextKnown
  <1> QED
    BY <1>6, <1>7, <1>8

LEMMA ReadRegionPreserves ==
    ASSUME UInductive, ReadRegion
    PROVE  UInductive'
  <1>1. /\ pc = "region" /\ Allocate(region_size)
        /\ image' = image /\ request' = request /\ region_size' = region_size
    BY DEF ReadRegion
  <1>2. /\ image \in Images /\ TypeOK /\ BuffersBounded /\ location = Nowhere
        /\ ParseHeader(image).ok /\ image.block_size # 0 /\ HeaderLen <= image.len
        /\ SizeOf(image).ok /\ region_size = SizeOf(image).value
        /\ plaintext_metadata_region(image) + image.block_size <= image.len
    BY <1>1 DEF UInductive, PlaceKnown, HeaderKnown, SizeKnown
  <1>3. region_size \in U64 /\ region_size < (MaxBlocks + 1) * image.block_size
    BY <1>2, SizeShape
  <1>4. largest' \in U64 /\ BuffersBounded'
    BY <1>1, <1>2, <1>3, AllocateBounded
  <1>5. PlaceOf(image) = locate_encrypted_metadata(image, region_size)
    BY <1>2 DEF PlaceOf
  <1>6. \/ /\ location' = location
           /\ \E e : /\ Finish(Failure(e))
                     /\ e = "Io" \/ Failure(e) = Verdict(image, request)
        \/ /\ GoOn("ciphertext") /\ location' = PlaceOf(image).value
           /\ PlaceOf(image).ok
           /\ plaintext_metadata_region(image) + region_size <= image.len
    <2>1. CASE ~ReadExact(plaintext_metadata_region(image), region_size)
      BY <2>1 DEF ReadRegion
    <2>2. CASE /\ ReadExact(plaintext_metadata_region(image), region_size)
               /\ ~PlaceOf(image).ok
      BY <1>2, <1>5, <2>2 DEF ReadRegion, Verdict
    <2>3. CASE /\ ReadExact(plaintext_metadata_region(image), region_size)
               /\ PlaceOf(image).ok
      BY <1>5, <2>3 DEF ReadRegion, ReadExact
    <2> QED
      BY <2>1, <2>2, <2>3
  <1>7. CASE /\ location' = location
             /\ \E e : /\ Finish(Failure(e))
                       /\ e = "Io" \/ Failure(e) = Verdict(image, request)
    <2>1. /\ pc' = "idle"
          /\ result'.ok \in BOOLEAN /\ result'.error \in Errors \cup {"none", "panic"}
          /\ Returned' /\ SeenAreVerdicts'
      BY <1>1, <1>7, FailedCall
    <2>2. TypeOK'
      BY <1>1, <1>2, <1>4, <1>7, <2>1 DEF TypeOK
    <2>3. DescriptorIsPointedTo'
      BY <1>2, <1>7 DEF DescriptorIsPointedTo
    <2> QED
      BY <1>1, <1>2, <1>4, <2>1, <2>2, <2>3 DEF UInductive, HeaderKnown, SizeKnown,
         PlaceKnown, CiphertextKnown
  <1>8. CASE /\ GoOn("ciphertext") /\ location' = PlaceOf(image).value
             /\ PlaceOf(image).ok
             /\ plaintext_metadata_region(image) + region_size <= image.len
    <2>1. /\ pc' = "ciphertext"
          /\ result'.ok \in BOOLEAN /\ result'.error \in Errors \cup {"none", "panic"}
          /\ Returned' /\ SeenAreVerdicts'
      BY <1>1, <1>8, NextRead
    <2>2. /\ location'.primary_offset \in U64 /\ location'.length \in U64
          /\ region_size >= PointerEnd /\ image.vg_offset # 0
      BY <1>2, <1>3, <1>5, <1>8, PlaceShape
    <2>3. TypeOK'
      BY <1>1, <1>2, <1>4, <2>1, <2>2 DEF TypeOK
    <2>4. HeaderKnown' /\ SizeKnown' /\ PlaceKnown'
      BY <1>1, <1>2, <1>8, <2>1 DEF HeaderKnown, SizeKnown, PlaceKnown
    <2>5. DescriptorIsPointedTo'
      BY <1>1, <2>2 DEF DescriptorIsPointedTo
    <2> QED
      BY <1>1, <1>2, <1>4, <2>1, <2>3, <2>4, <2>5 DEF UInductive, CiphertextKnown
  <1> QED
    BY <1>6, <1>7, <1>8

LEMMA ReadCiphertextPreserves ==
    ASSUME UInductive, ReadCiphertext
    PROVE  UInductive'
  <1>1. /\ pc = "ciphertext" /\ Allocate(location.length)
        /\ image' = image /\ request' = request
        /\ region_size' = region_size /\ location' = location
    BY DEF ReadCiphertext
  <1>2. /\ image \in Images /\ TypeOK /\ BuffersBounded
        /\ HeaderKnown /\ SizeKnown /\ PlaceKnown
        /\ SizeOf(image).ok /\ PlaceOf(image).ok /\ location = PlaceOf(image).value
    BY <1>1 DEF UInductive, PlaceKnown, SizeKnown
  <1>3. /\ location.length \in U64
        /\ location.length < (MaxBlocks + 1) * image.block_size
    BY <1>2, SizeShape, PlaceShape DEF PlaceOf
  <1>4. largest' \in U64 /\ BuffersBounded'
    BY <1>1, <1>2, <1>3, AllocateBounded
  <1>5. DescriptorIsPointedTo'
    BY <1>1 DEF UInductive, DescriptorIsPointedTo
  <1>6. CASE ~ReadExact(location.primary_offset, location.length)
    <2>1. Finish(Failure("Io"))
      BY <1>6 DEF ReadCiphertext
    <2>2. /\ pc' = "idle"
          /\ result'.ok \in BOOLEAN /\ result'.error \in Errors \cup {"none", "panic"}
          /\ Returned' /\ SeenAreVerdicts'
      BY <1>1, <2>1, FailedCall
    <2>3. TypeOK'
      BY <1>1, <1>2, <1>4, <2>2 DEF TypeOK
    <2> QED
      BY <1>1, <1>2, <1>4, <1>5, <2>2, <2>3 DEF UInductive, HeaderKnown, SizeKnown,
         PlaceKnown, CiphertextKnown
  <1>7. CASE ReadExact(location.primary_offset, location.length)
    <2>1. GoOn("extract")
      BY <1>7 DEF ReadCiphertext
    <2>2. /\ pc' = "extract"
          /\ result'.ok \in BOOLEAN /\ result'.error \in Errors \cup {"none", "panic"}
          /\ Returned' /\ SeenAreVerdicts'
      BY <1>1, <2>1, NextRead
    <2>3. TypeOK'
      BY <1>1, <1>2, <1>4, <2>2 DEF TypeOK
    <2>4. HeaderKnown' /\ SizeKnown' /\ PlaceKnown'
      BY <1>1, <1>2, <2>2 DEF HeaderKnown, SizeKnown, PlaceKnown
    <2>5. CiphertextKnown'
      BY <1>1, <1>7 DEF CiphertextKnown, ReadExact
    <2> QED
      BY <1>1, <1>2, <1>4, <1>5, <2>2, <2>3, <2>4, <2>5 DEF UInductive
  <1> QED
    BY <1>6, <1>7

\* A call that gets as far as the metadata's contents returns the verdict.
LEMMA ExtractIsVerdict ==
    ASSUME UInductive, pc = "extract"
    PROVE  /\ Readable(image)
           /\ region_size = SizeOf(image).value
           /\ location = PlaceOf(image).value
           /\ Verdict(image, request) =
                 IF request = NoPassword THEN InfoResult(image, location)
                 ELSE UnlockResult(image, location, request)
  <1>1. /\ ParseHeader(image).ok /\ image.block_size # 0 /\ HeaderLen <= image.len
        /\ SizeOf(image).ok /\ region_size = SizeOf(image).value
        /\ plaintext_metadata_region(image) + image.block_size <= image.len
        /\ PlaceOf(image).ok /\ location = PlaceOf(image).value
        /\ plaintext_metadata_region(image) + region_size <= image.len
        /\ location.primary_offset + location.length <= image.len
    BY DEF UInductive, HeaderKnown, SizeKnown, PlaceKnown, CiphertextKnown
  <1>2. Readable(image)
    BY <1>1 DEF Readable
  <1> QED
    BY <1>1, <1>2 DEF Verdict

LEMMA ExtractPreserves ==
    ASSUME UInductive, Extract
    PROVE  UInductive'
  <1>1. /\ pc = "extract" /\ image' = image /\ request' = request
        /\ region_size' = region_size /\ location' = location /\ largest' = largest
    BY DEF Extract
  <1>. DEFINE u == IF request = NoPassword THEN InfoResult(image, location)
                   ELSE UnlockResult(image, location, request)
  <1>2. Finish(u)
    BY DEF Extract
  <1>3. /\ u = Verdict(image, request) /\ Readable(image)
        /\ region_size' = SizeOf(image).value /\ location' = PlaceOf(image).value
    BY <1>1, ExtractIsVerdict
  <1>. HIDE DEF u
  <1>4. /\ pc' = "idle"
        /\ result'.ok \in BOOLEAN /\ result'.error \in Errors \cup {"none", "panic"}
        /\ Returned' /\ SeenAreVerdicts'
    BY <1>1, <1>2, <1>3, EndOfCall
  <1>5. TypeOK'
    BY <1>1, <1>4 DEF UInductive, TypeOK
  <1>6. BuffersBounded' /\ DescriptorIsPointedTo'
    BY <1>1 DEF UInductive, BuffersBounded, DescriptorIsPointedTo
  <1> QED
    BY <1>1, <1>4, <1>5, <1>6 DEF UInductive, HeaderKnown, SizeKnown, PlaceKnown,
       CiphertextKnown

LEMMA ReaderFailsPreserves ==
    ASSUME UInductive, ReaderFails
    PROVE  UInductive'
  <1>1. /\ Finish(Failure("Io")) /\ image' = image /\ request' = request
        /\ region_size' = region_size /\ location' = location /\ largest' = largest
    BY DEF ReaderFails
  <1>2. /\ pc' = "idle"
        /\ result'.ok \in BOOLEAN /\ result'.error \in Errors \cup {"none", "panic"}
        /\ Returned' /\ SeenAreVerdicts'
    BY <1>1, FailedCall
  <1>3. TypeOK'
    BY <1>1, <1>2 DEF UInductive, TypeOK
  <1>4. BuffersBounded' /\ DescriptorIsPointedTo'
    BY <1>1 DEF UInductive, BuffersBounded, DescriptorIsPointedTo
  <1> QED
    BY <1>1, <1>2, <1>3, <1>4 DEF UInductive, HeaderKnown, SizeKnown, PlaceKnown,
       CiphertextKnown

LEMMA AdvancePreserves ==
    ASSUME UInductive, Advance
    PROVE  UInductive'
  BY ReadHeaderPreserves, ReadFirstBlockPreserves, ReadRegionPreserves,
     ReadCiphertextPreserves, ExtractPreserves DEF Advance

LEMMA UnchangedPreserves ==
    ASSUME UInductive, UNCHANGED uvars
    PROVE  UInductive'
  BY DEF UInductive, uvars, TypeOK, HeaderKnown, SizeKnown, PlaceKnown, CiphertextKnown,
     Returned, SeenAreVerdicts, BuffersBounded, DescriptorIsPointedTo

\* The inductive invariant holds in every state of every run.
THEOREM UnlockInvariant == USpec => []UInductive
  <1>1. UInductive /\ [UNext]_uvars => UInductive'
    BY BeginPreserves, AdvancePreserves, ReaderFailsPreserves, UnchangedPreserves
    DEF UNext
  <1> QED
    BY <1>1, InitUInductive, PTL DEF USpec
-----------------------------------------------------------------------------
(* What follows from it. *)

\* Whatever the image, the machine's variables keep their types: sizes and
\* offsets fit a u64 although the image's fields are arbitrary.
THEOREM UnlockTypeCorrect == USpec => []TypeOK
  <1>1. UInductive => TypeOK
    BY DEF UInductive
  <1> QED
    BY <1>1, UnlockInvariant, PTL

\* unlock_with_password and parse_info never allocate more than the header or
\* one block over the cap, however large the sizes that the image claims.
THEOREM UnlockBuffersBounded == USpec => []BuffersBounded
  <1>1. UInductive => BuffersBounded
    BY DEF UInductive
  <1> QED
    BY <1>1, UnlockInvariant, PTL

\* The descriptor used is one that the plaintext metadata points to.
THEOREM UnlockDescriptorIsPointedTo == USpec => []DescriptorIsPointedTo
  <1>1. UInductive => DescriptorIsPointedTo
    BY DEF UInductive
  <1> QED
    BY <1>1, UnlockInvariant, PTL

\* A call succeeds only on an image that has every byte it needs.
THEOREM UnlockTruncationIsLoud == USpec => []TruncationIsLoud
  <1>1. UInductive => TruncationIsLoud
    <2>. SUFFICES ASSUME UInductive, pc = "idle", result.ok
                  PROVE  /\ HeaderLen <= image.len
                         /\ plaintext_metadata_region(image) + image.block_size <= image.len
                         /\ plaintext_metadata_region(image) + region_size <= image.len
                         /\ location.primary_offset + location.length <= image.len
      BY DEF TruncationIsLoud
    <2>1. result \notin {Failure("none"), Failure("Io")}
      BY DEF Failure
    <2>2. /\ Readable(image) /\ region_size = SizeOf(image).value
          /\ location = PlaceOf(image).value
      BY <2>1 DEF UInductive, Returned
    <2> QED
      BY <2>2 DEF Readable
  <1> QED
    BY <1>1, UnlockInvariant, PTL

\* A call's result depends on the image and the password only.
THEOREM UnlockRetry == USpec => []RetryGivesTheSameResult
  <1>1. UInductive => RetryGivesTheSameResult
    BY DEF UInductive, SeenAreVerdicts, RetryGivesTheSameResult
  <1> QED
    BY <1>1, UnlockInvariant, PTL

\* The verdicts with and without a password differ in the keys only.
LEMMA VerdictsAgree ==
    ASSUME NEW img \in Images, NEW p \in Passwords
    PROVE  LET i == Verdict(img, NoPassword)
               u == Verdict(img, p)
           IN  /\ ~i.ok => u.error = i.error
               /\ i.ok /\ u.ok => u.info = i.info
               /\ i.ok /\ ~u.ok => \/ u.error = "KeyUnwrap"
                                   \/ img.family_uuid = "unparseable"
  <1>1. p # NoPassword
    BY RequestAssumption
  <1>2. CASE \/ ~ParseHeader(img).ok \/ img.block_size = 0
             \/ ~SizeOf(img).ok \/ ~PlaceOf(img).ok
    <2>1. \E e : Verdict(img, NoPassword) = Failure(e) /\ Verdict(img, p) = Failure(e)
      BY <1>2 DEF Verdict
    <2> QED
      BY <2>1 DEF Failure
  <1>3. CASE /\ ParseHeader(img).ok /\ img.block_size # 0
             /\ SizeOf(img).ok /\ PlaceOf(img).ok
    <2>. DEFINE loc == PlaceOf(img).value
    <2>1. /\ Verdict(img, NoPassword) = InfoResult(img, loc)
          /\ Verdict(img, p) = UnlockResult(img, loc, p)
      BY <1>1, <1>3 DEF Verdict
    <2>. HIDE DEF loc
    <2>2. CASE ExtractError(img, loc) # "none"
      BY <2>1, <2>2 DEF InfoResult, UnlockResult, Failure
    <2>3. CASE ExtractError(img, loc) = "none"
      BY <2>1, <2>3 DEF InfoResult, UnlockResult, UnlockedInfo, Success, Failure
    <2> QED
      BY <2>2, <2>3
  <1> QED
    BY <1>2, <1>3

\* An image that makes one call panic lets no call succeed.
LEMMA PanicForAll ==
    ASSUME NEW img \in Images, NEW r, NEW q, Verdict(img, r).error = "panic"
    PROVE  ~Verdict(img, q).ok
  <1>1. CASE \/ ~ParseHeader(img).ok \/ img.block_size = 0
             \/ ~SizeOf(img).ok \/ ~PlaceOf(img).ok
    <2>1. \E e : Verdict(img, q) = Failure(e)
      BY <1>1 DEF Verdict
    <2> QED
      BY <2>1 DEF Failure
  <1>2. CASE /\ ParseHeader(img).ok /\ img.block_size # 0
             /\ SizeOf(img).ok /\ PlaceOf(img).ok
    <2>. DEFINE loc == PlaceOf(img).value
    <2>1. /\ Verdict(img, r) \in {InfoResult(img, loc), UnlockResult(img, loc, r)}
          /\ Verdict(img, q) \in {InfoResult(img, loc), UnlockResult(img, loc, q)}
      BY <1>2 DEF Verdict
    <2>. HIDE DEF loc
    <2>2. ExtractError(img, loc) # "none"
      BY <2>1 DEF InfoResult, UnlockResult, Success, Failure
    <2>3. Verdict(img, q) = Failure(ExtractError(img, loc))
      BY <2>1, <2>2 DEF InfoResult, UnlockResult
    <2> QED
      BY <2>3 DEF Failure
  <1> QED
    BY <1>1, <1>2

\* The two ways into an image agree about it.
THEOREM UnlockAgreement == USpec => []UnlockAgreesWithParseInfo
  <1>1. UInductive => UnlockAgreesWithParseInfo
    <2>. SUFFICES ASSUME UInductive, NEW p \in Passwords,
                         NEW i \in seen[NoPassword], NEW u \in seen[p]
                  PROVE  /\ ~i.ok => u.error = i.error
                         /\ i.ok /\ u.ok => u.info = i.info
                         /\ i.ok /\ ~u.ok => \/ u.error = "KeyUnwrap"
                                             \/ image.family_uuid = "unparseable"
      BY DEF UnlockAgreesWithParseInfo
    <2>1. image \in Images /\ i = Verdict(image, NoPassword) /\ u = Verdict(image, p)
      BY DEF UInductive, SeenAreVerdicts, Requests
    <2> QED
      BY <2>1, VerdictsAgree
  <1> QED
    BY <1>1, UnlockInvariant, PTL

\* derive_volume_keys has the volume's keys for the volume's password, and
\* for no other.
LEMMA KeysOfThePassword ==
    ASSUME NEW img \in Images, NEW p
    PROVE  LET keys == derive_volume_keys(p, img, img.family_uuid)
           IN  /\ keys.ok => /\ p = img.password
                             /\ keys.vmk = FreshKey("vmk")
                             /\ keys.tweak_key = TweakKey(FreshKey("vmk"), img.family_uuid)
               /\ (p = img.password /\ ~keys.ok) =>
                     \/ Damaged \in {img.wrapped_kek, img.wrapped_vmk}
                     \/ img.wrapped_kek.by # passphrase_key(p, img.salt, img.iterations)
  <1>. DEFINE pk == passphrase_key(p, img.salt, img.iterations)
              kek == aes_kw_unwrap(pk, img.wrapped_kek)
              vmk == aes_kw_unwrap(kek, img.wrapped_vmk)
              keys == derive_volume_keys(p, img, img.family_uuid)
  <1>1. KeysAsWritten(img)
    BY ImageFields
  <1>2. /\ FreshKey("kek") # NoKey /\ FreshKey("vmk") # NoKey
        /\ Damaged.key = NoKey
    BY DEF FreshKey, NoKey, Damaged
  <1>3. kek # NoKey => kek = FreshKey("kek") /\ p = img.password
    <2>. SUFFICES ASSUME kek # NoKey PROVE kek = FreshKey("kek") /\ p = img.password
      OBVIOUS
    <2>1. img.wrapped_kek.by = pk /\ kek = img.wrapped_kek.key
      BY DEF aes_kw_unwrap
    <2>2. img.wrapped_kek # Damaged
      BY <1>2, <2>1
    <2>. DEFINE by == img.wrapped_kek.by
    <2>3. img.wrapped_kek = Wrapped(passphrase_key(img.password, by[3], by[4]),
                                    FreshKey("kek"))
      BY <1>1, <2>2 DEF KeysAsWritten
    <2>4. /\ pk = passphrase_key(img.password, by[3], by[4])
          /\ kek = FreshKey("kek")
      <3>1. /\ img.wrapped_kek.by = passphrase_key(img.password, by[3], by[4])
            /\ img.wrapped_kek.key = FreshKey("kek")
        <4>. DEFINE b == passphrase_key(img.password, by[3], by[4])
        <4>1. img.wrapped_kek = Wrapped(b, FreshKey("kek"))
          BY <2>3
        <4>. HIDE DEF b
        <4>2. img.wrapped_kek.by = b /\ img.wrapped_kek.key = FreshKey("kek")
          BY <4>1 DEF Wrapped
        <4> QED
          BY <4>2 DEF b
      <3> QED
        BY <2>1, <3>1, Zenon
    <2>5. p = img.password
      <3>1. pk[2] = p
        BY DEF passphrase_key
      <3>2. passphrase_key(img.password, by[3], by[4])[2] = img.password
        BY DEF passphrase_key
      <3> QED
        BY <2>4, <3>1, <3>2
    <2> QED
      BY <2>4, <2>5
  <1>4. vmk # NoKey => vmk = FreshKey("vmk")
    <2>. HIDE DEF kek
    <2> QED
      BY <1>1, <1>2 DEF KeysAsWritten, aes_kw_unwrap, Wrapped
  <1>5. \/ (kek = NoKey \/ vmk = NoKey) /\ keys.ok = FALSE
        \/ /\ kek # NoKey /\ vmk # NoKey /\ keys.ok = TRUE
           /\ keys.vmk = vmk /\ keys.tweak_key = TweakKey(vmk, img.family_uuid)
    BY DEF derive_volume_keys
  <1>6. (/\ Damaged \notin {img.wrapped_kek, img.wrapped_vmk}
         /\ img.wrapped_kek.by = pk) => kek # NoKey /\ vmk # NoKey
    <2>. SUFFICES ASSUME Damaged \notin {img.wrapped_kek, img.wrapped_vmk},
                         img.wrapped_kek.by = pk
                  PROVE  kek # NoKey /\ vmk # NoKey
      OBVIOUS
    <2>1. img.wrapped_kek.key = FreshKey("kek")
      BY <1>1 DEF KeysAsWritten, Wrapped
    <2>2. kek = FreshKey("kek")
      BY <2>1 DEF aes_kw_unwrap
    <2>3. img.wrapped_vmk.by = FreshKey("kek") /\ img.wrapped_vmk.key = FreshKey("vmk")
      BY <1>1 DEF KeysAsWritten, Wrapped
    <2>. HIDE DEF kek
    <2>4. vmk = FreshKey("vmk")
      BY <2>2, <2>3 DEF aes_kw_unwrap
    <2> QED
      BY <1>2, <2>2, <2>4
  <1>. HIDE DEF kek, vmk, keys
  <1>7. keys.ok => /\ p = img.password
                   /\ keys.vmk = FreshKey("vmk")
                   /\ keys.tweak_key = TweakKey(FreshKey("vmk"), img.family_uuid)
    BY <1>3, <1>4, <1>5
  <1>8. (p = img.password /\ ~keys.ok) =>
            \/ Damaged \in {img.wrapped_kek, img.wrapped_vmk}
            \/ img.wrapped_kek.by # passphrase_key(p, img.salt, img.iterations)
    BY <1>5, <1>6
  <1> QED
    BY <1>7, <1>8 DEF keys

\* The keys of a verdict are those that derive_volume_keys has.
LEMMA KeysOfTheVerdict ==
    ASSUME NEW img \in Images, NEW p \in Passwords
    PROVE  LET u == Verdict(img, p)
           IN  /\ u.ok => /\ p = img.password
                          /\ u.keys.vmk = FreshKey("vmk")
                          /\ u.keys.tweak_key = TweakKey(FreshKey("vmk"), img.family_uuid)
               /\ (p = img.password /\ u.error = "KeyUnwrap") =>
                     \/ Damaged \in {img.wrapped_kek, img.wrapped_vmk}
                     \/ img.wrapped_kek.by # passphrase_key(p, img.salt, img.iterations)
  <1>. DEFINE u == Verdict(img, p)
              loc == PlaceOf(img).value
              keys == derive_volume_keys(p, img, img.family_uuid)
  <1>1. \/ u.ok = FALSE /\ u.error # "KeyUnwrap"
        \/ u = UnlockResult(img, loc, p)
    <2>1. p # NoPassword
      BY RequestAssumption
    <2>2. CASE /\ ParseHeader(img).ok /\ img.block_size # 0
               /\ SizeOf(img).ok /\ PlaceOf(img).ok
      BY <2>1, <2>2 DEF Verdict
    <2>3. CASE ~ParseHeader(img).ok
      <3>1. ParseHeader(img).error \in {"NotCoreStorage", "UnsupportedEncryptionMethod"}
        BY <2>3 DEF ParseHeader, Ok, Err
      <3> QED
        BY <2>3, <3>1 DEF Verdict, Failure
    <2>4. CASE ParseHeader(img).ok /\ img.block_size = 0
      BY <2>4 DEF Verdict, Failure
    <2>5. CASE ParseHeader(img).ok /\ img.block_size # 0 /\ ~SizeOf(img).ok
      BY <2>5, SizeShape DEF Verdict, Failure
    <2>6. CASE /\ ParseHeader(img).ok /\ img.block_size # 0
               /\ SizeOf(img).ok /\ ~PlaceOf(img).ok
      <3>1. PlaceOf(img).error \in {"MetadataStructureMissing", "OutOfRange"}
        BY <2>6, SizeShape, PlaceShape DEF PlaceOf
      <3> QED
        BY <2>6, <3>1 DEF Verdict, Failure
    <2> QED
      BY <2>2, <2>3, <2>4, <2>5, <2>6
  <1>2. ExtractError(img, loc) # "KeyUnwrap"
    BY ExtractErrors
  <1>3. u = UnlockResult(img, loc, p) =>
           \/ u.ok = FALSE /\ u.error # "KeyUnwrap"
           \/ u.ok = FALSE /\ u.error = "KeyUnwrap" /\ ~keys.ok
           \/ u.ok = TRUE /\ u.error = "none" /\ keys.ok /\ u.keys = keys
    <2>. HIDE DEF loc, u
    <2> QED
      BY <1>2 DEF UnlockResult, Success, Failure
  <1>4. /\ keys.ok => /\ p = img.password
                      /\ keys.vmk = FreshKey("vmk")
                      /\ keys.tweak_key = TweakKey(FreshKey("vmk"), img.family_uuid)
        /\ (p = img.password /\ ~keys.ok) =>
              \/ Damaged \in {img.wrapped_kek, img.wrapped_vmk}
              \/ img.wrapped_kek.by # passphrase_key(p, img.salt, img.iterations)
    BY KeysOfThePassword
  <1>. HIDE DEF u, keys, loc
  <1>5. /\ u.ok => /\ p = img.password
                   /\ u.keys.vmk = FreshKey("vmk")
                   /\ u.keys.tweak_key = TweakKey(FreshKey("vmk"), img.family_uuid)
        /\ (p = img.password /\ u.error = "KeyUnwrap") =>
              \/ Damaged \in {img.wrapped_kek, img.wrapped_vmk}
              \/ img.wrapped_kek.by # passphrase_key(p, img.salt, img.iterations)
    BY <1>1, <1>3, <1>4
  <1> QED
    BY <1>5 DEF u

\* A password unlocks a volume if and only if it is the volume's, and then it
\* yields the volume's keys; damaged key material alone makes an exception.
THEOREM UnlockOnlyTheRightPassword == USpec => []OnlyTheRightPassword
  <1>1. UInductive => OnlyTheRightPassword
    <2>. SUFFICES ASSUME UInductive, NEW p \in Passwords, NEW u \in seen[p]
                  PROVE  /\ u.ok => /\ p = image.password
                                    /\ u.keys.vmk = FreshKey("vmk")
                                    /\ u.keys.tweak_key
                                          = TweakKey(FreshKey("vmk"), image.family_uuid)
                         /\ (p = image.password /\ u.error = "KeyUnwrap") =>
                               \/ Damaged \in {image.wrapped_kek, image.wrapped_vmk}
                               \/ image.wrapped_kek.by
                                     # passphrase_key(p, image.salt, image.iterations)
      BY DEF OnlyTheRightPassword
    <2>1. image \in Images /\ u = Verdict(image, p)
      BY DEF UInductive, SeenAreVerdicts, Requests
    <2> QED
      BY <2>1, KeysOfTheVerdict
  <1> QED
    BY <1>1, UnlockInvariant, PTL
-----------------------------------------------------------------------------
(* How a call ends, for the modules that make calls. *)

LEMMA StepFrame ==
    ASSUME Advance \/ ReaderFails
    PROVE  /\ image' = image /\ request' = request
           /\ pc # "idle"
  BY DEF Advance, ReaderFails, ReadHeader, ReadFirstBlock, ReadRegion, ReadCiphertext,
     Extract

\* A reader that does not fail lets a call end in the verdict, or in an I/O
\* error where the image ends too early.
LEMMA AdvanceEnds ==
    ASSUME UInductive, Advance, pc' = "idle"
    PROVE  \/ result' = Verdict(image, request)
           \/ result' = Failure("Io") /\ ~Readable(image)
  <1>1. CASE ReadHeader
    <2>1. CASE ~ReadExact(0, HeaderLen)
      <3>1. result' = Failure("Io")
        BY <1>1, <2>1 DEF ReadHeader, Finish
      <3>2. HeaderLen \in Int
        BY RequestAssumption DEF U64
      <3>3. ~(HeaderLen <= image.len)
        BY <2>1, <3>2 DEF ReadExact
      <3> QED
        BY <3>1, <3>3 DEF Readable
    <2>2. CASE ReadExact(0, HeaderLen)
      BY <1>1, <2>2 DEF ReadHeader, Finish, GoOn, Verdict
    <2> QED
      BY <2>1, <2>2
  <1>2. CASE ReadFirstBlock
    <2>1. ParseHeader(image).ok /\ image.block_size # 0
      BY <1>2 DEF UInductive, HeaderKnown, ReadFirstBlock
    <2>2. CASE ~ReadExact(plaintext_metadata_region(image), image.block_size)
      BY <1>2, <2>2 DEF ReadFirstBlock, Finish, ReadExact, Readable
    <2>3. CASE ReadExact(plaintext_metadata_region(image), image.block_size)
      BY <1>2, <2>1, <2>3 DEF ReadFirstBlock, Finish, GoOn, Verdict, SizeOf
    <2> QED
      BY <2>2, <2>3
  <1>3. CASE ReadRegion
    <2>1. /\ ParseHeader(image).ok /\ image.block_size # 0
          /\ SizeOf(image).ok /\ region_size = SizeOf(image).value
      BY <1>3 DEF UInductive, HeaderKnown, SizeKnown, ReadRegion
    <2>2. CASE ~ReadExact(plaintext_metadata_region(image), region_size)
      BY <1>3, <2>1, <2>2 DEF ReadRegion, Finish, ReadExact, Readable
    <2>3. CASE ReadExact(plaintext_metadata_region(image), region_size)
      <3>1. PlaceOf(image) = locate_encrypted_metadata(image, region_size)
        BY <2>1 DEF PlaceOf
      <3> QED
        BY <1>3, <2>1, <2>3, <3>1 DEF ReadRegion, Finish, GoOn, Verdict
    <2> QED
      BY <2>2, <2>3
  <1>4. CASE ReadCiphertext
    <2>1. location = PlaceOf(image).value
      BY <1>4 DEF UInductive, PlaceKnown, ReadCiphertext
    <2>2. CASE ~ReadExact(location.primary_offset, location.length)
      BY <1>4, <2>1, <2>2 DEF ReadCiphertext, Finish, ReadExact, Readable
    <2>3. CASE ReadExact(location.primary_offset, location.length)
      BY <1>4, <2>3 DEF ReadCiphertext, GoOn
    <2> QED
      BY <2>2, <2>3
  <1>5. CASE Extract
    BY <1>5, ExtractIsVerdict DEF Extract, Finish
  <1> QED
    BY <1>1, <1>2, <1>3, <1>4, <1>5 DEF Advance

\* However it ends, there is a success or an error to report, and what the
\* image needs for a success is there.
LEMMA CallEnds ==
    ASSUME UInductive, Advance \/ ReaderFails, pc' = "idle"
    PROVE  /\ IsResult(result')
           /\ result'.ok => result' = Verdict(image, request)
  <1>1. image \in Images
    BY DEF UInductive
  <1>2. result' \in {Verdict(image, request), Failure("Io")}
    BY AdvanceEnds DEF ReaderFails, Finish
  <1>3. IsResult(Failure("Io")) /\ Failure("Io").ok = FALSE
    BY DEF IsResult, Failure, Errors
  <1> QED
    BY <1>1, <1>2, <1>3, VerdictShape
=============================================================================
