------------------------- MODULE CoreStorageMetadata -------------------------
(***************************************************************************)
(* core/src/volume_header.rs and core/src/metadata.rs: what the reader     *)
(* concludes from the fields of an image before it has any key.  An image  *)
(* is a record of the fields the code reads, each with the value the       *)
(* image's author chose; nothing makes them consistent with each other or  *)
(* with the length of the image.                                           *)
(*                                                                         *)
(* Lengths and offsets are bytes.  The constants are the code's; TLC runs  *)
(* use smaller ones.                                                       *)
(***************************************************************************)
EXTENDS MachineWord, Sequences, FileVaultError

CONSTANTS
    TypeEnd,         \* end of the block type in a block header (12)
    SizeEnd,         \* end of the metadata size in the first block (68)
    PointerEnd,      \* end of the descriptor offset in the first block (224)
    DescriptorLen,   \* bytes of the descriptor that are read (40)
    SegmentsAt,      \* offset of the first entry in a segment block (72)
    SegmentLen,      \* bytes of a segment entry (40)
    MetadataUnit,    \* METADATA_UNIT_SIZE (8192)
    AesBlock,        \* bytes of an AES block (16)
    MaxBlocks,       \* MAX_METADATA_BLOCKS = MAX_ENCRYPTED_METADATA_BLOCKS
    MaxSegments,     \* MAX_SEGMENTS
    BlockNumbers,    \* 2^48: a block number keeps only its low 48 bits
    HeaderWord       \* what the u64 at offset 8 of a 0x0011 block is at least

\* The block type, at bytes 10 and 11, is the second u16 of that u64: it
\* contributes 0x0011 * 2^16, which is more than 2^20 blocks.
ASSUME MetadataAssumption ==
    /\ \A c \in {TypeEnd, SizeEnd, PointerEnd, DescriptorLen, SegmentsAt,
                 SegmentLen, MetadataUnit, AesBlock, MaxBlocks, MaxSegments,
                 BlockNumbers} : c \in Nat \ {0}
    /\ TypeEnd <= SizeEnd /\ SizeEnd <= PointerEnd
    /\ DescriptorLen <= PointerEnd
    /\ HeaderWord \in U64 /\ HeaderWord > MaxBlocks

Ok(v) == [ok |-> TRUE, value |-> v, error |-> "none"]
Err(e) == [ok |-> FALSE, value |-> 0, error |-> e]

\* VolumeHeader::parse
ParseHeader(img) ==
    IF ~img.signature THEN Err("NotCoreStorage")
    ELSE IF ~img.method THEN Err("UnsupportedEncryptionMethod")
    ELSE Ok(0)

\* The byte offset of the plaintext metadata.
plaintext_metadata_region(img) ==
    saturating_mul(img.metadata_block, img.block_size)

\* A bounded little-endian read: the field, or 0 where it is out of range.
Field(value, end, len) == IF end <= len THEN value ELSE 0

BlockTypeOf(img, len) == Field(img.block_type, TypeEnd, len)

EncryptedMetadataPointer == 17   \* 0x0011

\* The size of the plaintext metadata, from a first block of len bytes.
plaintext_metadata_size(img, len) ==
    LET metadata_size == Field(img.metadata_size, SizeEnd, len)
    IN  IF BlockTypeOf(img, len) # EncryptedMetadataPointer
        THEN Err("MetadataStructureMissing")
        ELSE IF img.block_size = 0 THEN Err("OutOfRange")
        ELSE IF metadata_size = 0 \/ metadata_size \div img.block_size > MaxBlocks
        THEN Err("OutOfRange")
        ELSE Ok(metadata_size)

(***************************************************************************)
(* The descriptor at descriptor_offset of the plaintext metadata.  At      *)
(* offset 0 it overlays the block header, whose words are not the image    *)
(* author's to choose freely; elsewhere it holds what the author put, also *)
(* where bytes of it lie in another field and so depend on that one.       *)
(***************************************************************************)
DescriptorCount(img, offset) == IF offset = 0 THEN HeaderWord ELSE img.count
DescriptorPrimary(img) == img.primary % BlockNumbers

\* Mutant: only a count of zero is refused.
BadBlockCount_zero(n) == n = 0

BadBlockCount(n) == n = 0 \/ n > MaxBlocks

\* Mutant: the products are not checked.
BlockRun_unchecked(first, n, block_size) ==
    [primary_offset |-> first * block_size, length |-> n * block_size]

\* The bytes of n blocks, or Overflow.
BlockRun(first, n, block_size) ==
    [primary_offset |-> checked_mul(first, block_size),
     length |-> checked_mul(n, block_size)]

\* The encrypted metadata, from len bytes of plaintext metadata.
locate_encrypted_metadata(img, len) ==
    LET offset == Field(img.vg_offset, PointerEnd, len)
        block_count == DescriptorCount(img, offset)
        run == BlockRun(DescriptorPrimary(img), block_count, img.block_size)
    IN  IF BlockTypeOf(img, len) # EncryptedMetadataPointer
        THEN Err("MetadataStructureMissing")
        ELSE IF checked_add(offset, DescriptorLen) \notin 0 .. len
        THEN Err("MetadataStructureMissing")
        ELSE IF BadBlockCount(block_count) THEN Err("OutOfRange")
        ELSE IF Overflow \in {run.primary_offset, run.length}
        THEN Err("OutOfRange")
        ELSE Ok(run)

(***************************************************************************)
(* parse_segments over metadata of which `length' bytes were decrypted:    *)
(* the entries of the first segment block, if the metadata reaches it,     *)
(* up to the claimed number and the end of the block.                      *)
(***************************************************************************)
\* Mutant: the last block of the metadata is not looked at.
find_segment_block_but_last(img, length) ==
    /\ img.segment_block >= 0
    /\ (img.segment_block + 1) * img.block_size < length

find_segment_block(img, length) ==
    /\ img.segment_block >= 0
    /\ (img.segment_block + 1) * img.block_size <= length

EntriesThatFit(img) ==
    IF img.block_size < SegmentsAt THEN 0
    ELSE (img.block_size - SegmentsAt) \div SegmentLen

\* An entry that was never written reads as zeroes.
SegmentEntry(img, i) ==
    IF i <= Len(img.segments) THEN img.segments[i]
    ELSE [logical |-> 0, physical |-> 0, blocks |-> 0]

parse_segments(img, length) ==
    LET count == u64_min(u64_min(img.segment_count, MaxSegments), EntriesThatFit(img))
    IN  IF find_segment_block(img, length)
        THEN [i \in 1 .. count |-> SegmentEntry(img, i)]
        ELSE <<>>

\* resolve_lv_extent: the first segment's base, and the size.
resolve_lv_extent(img, length) ==
    LET segments == parse_segments(img, length)
    IN  IF segments = <<>> THEN [base |-> 0, size |-> img.lv_size]
        ELSE [base |-> saturating_mul(segments[1].physical % BlockNumbers,
                                      img.block_size),
              size |-> IF img.lv_size # 0 THEN img.lv_size
                       ELSE saturating_mul(segments[1].blocks, img.block_size)]
=============================================================================
