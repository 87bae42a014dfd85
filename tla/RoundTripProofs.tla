---------------------------- MODULE RoundTripProofs ----------------------------
(***************************************************************************)
(* Proofs about module RoundTrip: every image that the builder can lay out *)
(* is read back as it was written, for every layout and every word size.   *)
(***************************************************************************)
EXTENDS RoundTrip, UnlockProofs

\* The image has the fields of layout l, whatever is left of its blocks.  The
\* size of the volume may be missing from the plist.
LaidOut(img, l) ==
    /\ img.signature = TRUE /\ img.method = TRUE
    /\ img.block_size = l.block /\ img.metadata_block = l.plaintext_meta_block
    /\ img.block_type = EncryptedMetadataPointer /\ img.metadata_size = l.block
    /\ img.vg_offset = l.desc_off /\ img.count = 3
    /\ img.primary = l.enc_meta_block /\ img.meta_block = l.enc_meta_block
    /\ img.lv_at = [block |-> l.lv_block, blocks |-> l.lv_blocks]
    /\ img.password = "right" /\ img.salt = "salt" /\ img.iterations = l.iterations
    /\ img.wrapped_kek = Wrapped(passphrase_key("right", "salt", l.iterations),
                                 FreshKey("kek"))
    /\ img.wrapped_vmk = Wrapped(FreshKey("kek"), FreshKey("vmk"))
    /\ img.passphrase_struct = "whole" /\ img.volume_key_struct = "whole"
    /\ img.family_uuid = "uuid" /\ img.lv_size \in {0, l.lv_blocks * l.block}
    /\ img.segment_block = 2 /\ img.segment_count = 1
    /\ img.segments = <<[logical |-> 0, blocks |-> l.lv_blocks,
                         physical |-> l.high_bits * BlockNumbers + l.lv_block]>>

LEMMA BuiltIsLaidOut ==
    ASSUME NEW l
    PROVE  /\ LaidOut(build_image(l), l)
           /\ build_image(l).len = (l.lv_block + l.lv_blocks) * l.block
  BY DEF build_image, build_decrypted_metadata, LaidOut

\* The constants of the format and the numbers of a layout.
LEMMA LayoutNumbers ==
    ASSUME NEW l, IsLayout(l)
    PROVE  /\ l.block \in Nat \ {0} /\ l.plaintext_meta_block \in Nat \ {0}
           /\ l.enc_meta_block \in Nat \ {0} /\ l.desc_off \in Nat \ {0}
           /\ l.lv_block \in Nat \ {0} /\ l.lv_blocks \in Nat \ {0}
           /\ l.high_bits \in Nat
           /\ TypeEnd <= l.block /\ SizeEnd <= l.block /\ PointerEnd <= l.block
           /\ l.enc_meta_block < BlockNumbers /\ l.lv_block < BlockNumbers
  BY MetadataAssumption DEF IsLayout

\* Everything lies within what a u64 can address.
LEMMA LayoutFits ==
    ASSUME NEW l, IsLayout(l)
    PROVE  /\ l.block \in U64 /\ l.enc_meta_block * l.block \in U64
           /\ 3 * l.block \in U64 /\ l.lv_block * l.block \in U64
           /\ l.lv_blocks * l.block \in U64
           /\ l.enc_meta_block * l.block + 3 * l.block <= l.lv_block * l.block
           /\ l.plaintext_meta_block * l.block + l.block <= l.enc_meta_block * l.block
           /\ l.plaintext_meta_block * l.block \in U64
  <1>. DEFINE b == l.block
  <1>1. /\ b \in Nat \ {0} /\ l.plaintext_meta_block \in Nat \ {0}
        /\ l.enc_meta_block \in Nat \ {0} /\ l.lv_block \in Nat \ {0}
        /\ l.lv_blocks \in Nat \ {0} /\ WordMax \in Nat
        /\ l.plaintext_meta_block + 1 <= l.enc_meta_block
        /\ l.enc_meta_block + 3 <= l.lv_block
        /\ (l.lv_block + l.lv_blocks) * b <= WordMax
    BY LayoutNumbers, WordMaxAssumption DEF IsLayout
  <1>. HIDE DEF b
  <1>2. \A m, n \in Nat : /\ m * b \in Nat
                          /\ m <= n => m * b <= n * b
                          /\ (m + n) * b = m * b + n * b
    BY <1>1
  <1>3. /\ (l.lv_block + l.lv_blocks) * b = l.lv_block * b + l.lv_blocks * b
        /\ (l.enc_meta_block + 3) * b = l.enc_meta_block * b + 3 * b
        /\ (l.plaintext_meta_block + 1) * b = l.plaintext_meta_block * b + 1 * b
        /\ 1 * b = b
    BY <1>1, <1>2
  <1>4. /\ (l.enc_meta_block + 3) * b <= l.lv_block * b
        /\ (l.plaintext_meta_block + 1) * b <= l.enc_meta_block * b
    BY <1>1, <1>2
  <1>5. /\ l.lv_block * b \in Nat /\ l.lv_blocks * b \in Nat /\ l.enc_meta_block * b \in Nat
        /\ 3 * b \in Nat /\ l.plaintext_meta_block * b \in Nat
    BY <1>1, <1>2
  <1> QED
    BY <1>1, <1>3, <1>4, <1>5 DEF U64, b

\* A block number and bits above it.
LEMMA LowBits ==
    ASSUME NEW B \in Nat \ {0}, NEW h \in Nat, NEW v \in Nat, v < B
    PROVE  (h * B + v) % B = v
  <1>. DEFINE a == h * B + v
              q == a \div B
  <1>1. a \in Nat /\ q \in Int /\ (a % B) \in 0 .. B - 1 /\ a = B * q + (a % B)
    OBVIOUS
  <1>2. q = h
    OBVIOUS
  <1> QED
    BY <1>1, <1>2

\* The size and the place of the metadata that the reader finds.
LEMMA MetadataIsFound ==
    ASSUME NEW l, IsLayout(l), MaxBlocks >= 3, NEW img, LaidOut(img, l)
    PROVE  /\ ParseHeader(img).ok = TRUE /\ img.block_size # 0
           /\ SizeOf(img) = Ok(l.block)
           /\ PlaceOf(img) = Ok([primary_offset |-> l.enc_meta_block * l.block,
                                 length |-> 3 * l.block])
  <1>1. ParseHeader(img).ok = TRUE /\ img.block_size # 0
    BY LayoutNumbers DEF LaidOut, ParseHeader, Ok
  <1>2. SizeOf(img) = Ok(l.block)
    <2>1. l.block \div l.block = 1 /\ MaxBlocks \in Nat
      BY LayoutNumbers, MetadataAssumption
    <2> QED
      BY <2>1, LayoutNumbers
      DEF LaidOut, SizeOf, plaintext_metadata_size, BlockTypeOf, Field
  <1>3. PlaceOf(img) = locate_encrypted_metadata(img, l.block)
    BY <1>2 DEF PlaceOf, Ok
  <1>4. Field(img.vg_offset, PointerEnd, l.block) = l.desc_off
    BY LayoutNumbers DEF LaidOut, Field
  <1>5. /\ DescriptorCount(img, l.desc_off) = 3
        /\ DescriptorPrimary(img) = l.enc_meta_block
    <2>1. l.enc_meta_block % BlockNumbers = l.enc_meta_block
      BY LayoutNumbers, MetadataAssumption
    <2> QED
      BY <2>1, LayoutNumbers DEF LaidOut, DescriptorCount, DescriptorPrimary
  <1>6. BlockRun(l.enc_meta_block, 3, img.block_size)
           = [primary_offset |-> l.enc_meta_block * l.block, length |-> 3 * l.block]
    BY LayoutFits DEF LaidOut, BlockRun, checked_mul
  <1>7. checked_add(l.desc_off, DescriptorLen) \in 0 .. l.block
    <2>1. /\ l.desc_off \in Nat /\ DescriptorLen \in Nat /\ l.block \in 0 .. WordMax
          /\ l.desc_off + DescriptorLen <= l.block /\ WordMax \in Nat
      BY LayoutNumbers, LayoutFits, MetadataAssumption, WordMaxAssumption DEF IsLayout, U64
    <2>2. l.desc_off + DescriptorLen \in 0 .. WordMax
      BY <2>1
    <2> QED
      BY <2>1, <2>2 DEF checked_add, U64
  <1>8. BlockTypeOf(img, l.block) = EncryptedMetadataPointer
    BY LayoutNumbers DEF LaidOut, BlockTypeOf, Field
  <1>9. ~BadBlockCount(3)
    BY MetadataAssumption DEF BadBlockCount
  <1>10. Overflow \notin {l.enc_meta_block * l.block, 3 * l.block}
    BY LayoutFits DEF Overflow, U64
  <1>11. locate_encrypted_metadata(img, l.block)
            = Ok([primary_offset |-> l.enc_meta_block * l.block, length |-> 3 * l.block])
    BY <1>4, <1>5, <1>6, <1>7, <1>8, <1>9, <1>10 DEF locate_encrypted_metadata
  <1> QED
    BY <1>1, <1>2, <1>3, <1>11

\* The extent of the volume, from the segment map in the last block.
LEMMA ExtentIsFound ==
    ASSUME NEW l, IsLayout(l), NEW img, LaidOut(img, l)
    PROVE  resolve_lv_extent(img, 3 * l.block)
              = [base |-> l.lv_block * l.block, size |-> l.lv_blocks * l.block]
  <1>1. find_segment_block(img, 3 * l.block)
    BY LayoutNumbers DEF LaidOut, find_segment_block
  <1>2. EntriesThatFit(img) \in Nat /\ EntriesThatFit(img) >= 1
    <2>1. /\ l.block - SegmentsAt \in Nat /\ SegmentLen \in Nat \ {0}
          /\ l.block - SegmentsAt >= SegmentLen
      BY LayoutNumbers, MetadataAssumption DEF IsLayout
    <2>2. EntriesThatFit(img) = (l.block - SegmentsAt) \div SegmentLen
      <3>1. img.block_size = l.block
        BY DEF LaidOut
      <3>2. l.block \in Nat /\ SegmentsAt \in Nat
        BY LayoutNumbers, MetadataAssumption
      <3>3. ~(l.block < SegmentsAt)
        BY <2>1, <3>2
      <3> QED
        BY <3>1, <3>3 DEF EntriesThatFit
    <2> QED
      BY <2>1, <2>2
  <1>3. u64_min(u64_min(img.segment_count, MaxSegments), EntriesThatFit(img)) = 1
    BY <1>2, MetadataAssumption DEF LaidOut, u64_min
  <1>. DEFINE s == [logical |-> 0, blocks |-> l.lv_blocks,
                    physical |-> l.high_bits * BlockNumbers + l.lv_block]
              found == parse_segments(img, 3 * l.block)
  <1>4. SegmentEntry(img, 1) = s
    BY DEF LaidOut, SegmentEntry
  <1>5. found = [i \in 1 .. 1 |-> SegmentEntry(img, i)]
    BY <1>1, <1>3 DEF parse_segments
  <1>6. found # <<>> /\ found[1] = s
    BY <1>4, <1>5
  <1>7. s.physical % BlockNumbers = l.lv_block
    BY LowBits, LayoutNumbers, MetadataAssumption
  <1>8. /\ saturating_mul(l.lv_block, img.block_size) = l.lv_block * l.block
        /\ saturating_mul(l.lv_blocks, img.block_size) = l.lv_blocks * l.block
    BY LayoutFits DEF LaidOut, saturating_mul
  <1>9. s.blocks = l.lv_blocks
    OBVIOUS
  <1>. HIDE DEF found, s
  <1> QED
    BY <1>6, <1>7, <1>8, <1>9 DEF resolve_lv_extent, LaidOut, found

\* Both entry points find the volume, and the password its keys.
LEMMA VolumeIsFound ==
    ASSUME NEW l, IsLayout(l), MaxBlocks >= 3, NEW img, LaidOut(img, l)
    PROVE  /\ Verdict(img, NoPassword)
                 = Success(build_info(img, l.lv_blocks * l.block), 0, NoKeys)
           /\ Verdict(img, img.password)
                 = Success(build_info(img, l.lv_blocks * l.block), l.lv_block * l.block,
                           [ok |-> TRUE, vmk |-> FreshKey("vmk"),
                            tweak_key |-> TweakKey(FreshKey("vmk"), img.family_uuid)])
  <1>. DEFINE loc == [primary_offset |-> l.enc_meta_block * l.block, length |-> 3 * l.block]
  <1>1. /\ ParseHeader(img).ok = TRUE /\ img.block_size # 0
        /\ SizeOf(img).ok = TRUE /\ PlaceOf(img).ok = TRUE /\ PlaceOf(img).value = loc
    <2>1. /\ ParseHeader(img).ok = TRUE /\ img.block_size # 0
          /\ SizeOf(img) = Ok(l.block) /\ PlaceOf(img) = Ok(loc)
      BY MetadataIsFound
    <2> QED
      BY <2>1 DEF Ok
  <1>2. loc.length = 3 * l.block /\ loc.primary_offset = l.enc_meta_block * l.block
    OBVIOUS
  <1>. HIDE DEF loc
  <1>3. Decrypted(img, loc)
    BY <1>2, LayoutFits DEF Decrypted, LaidOut, saturating_mul
  <1>4. ExtractError(img, loc) = "none" /\ img.family_uuid # "unparseable"
    <2>1. ~decrypt_area_panics(loc.length)
      BY <1>2 DEF IsLayout
    <2> QED
      BY <1>3, <2>1 DEF ExtractError, ContextError, ExtractStruct, LaidOut
  <1>5. resolve_lv_extent(img, loc.length)
           = [base |-> l.lv_block * l.block, size |-> l.lv_blocks * l.block]
    BY <1>2, ExtentIsFound
  <1>6. derive_volume_keys("right", img, img.family_uuid)
           = [ok |-> TRUE, vmk |-> FreshKey("vmk"),
              tweak_key |-> TweakKey(FreshKey("vmk"), img.family_uuid)]
    <2>1. /\ passphrase_key("right", img.salt, img.iterations)
                = passphrase_key("right", "salt", l.iterations)
          /\ FreshKey("kek") # NoKey /\ FreshKey("vmk") # NoKey
      BY DEF LaidOut, FreshKey, NoKey
    <2>2. /\ aes_kw_unwrap(passphrase_key("right", "salt", l.iterations), img.wrapped_kek)
                = FreshKey("kek")
          /\ aes_kw_unwrap(FreshKey("kek"), img.wrapped_vmk) = FreshKey("vmk")
      BY DEF LaidOut, aes_kw_unwrap, Wrapped
    <2> QED
      BY <2>1, <2>2 DEF derive_volume_keys
  <1>7. InfoResult(img, loc) = Success(build_info(img, l.lv_blocks * l.block), 0, NoKeys)
    BY <1>4, <1>5 DEF InfoResult
  <1>8. UnlockResult(img, loc, "right")
           = Success(build_info(img, l.lv_blocks * l.block), l.lv_block * l.block,
                     [ok |-> TRUE, vmk |-> FreshKey("vmk"),
                      tweak_key |-> TweakKey(FreshKey("vmk"), img.family_uuid)])
    BY <1>4, <1>5, <1>6 DEF UnlockResult, UnlockedInfo
  <1>9. img.password = "right" /\ "right" # NoPassword
    BY DEF LaidOut, NoPassword
  <1>10. Verdict(img, NoPassword) = InfoResult(img, loc)
    BY <1>1 DEF Verdict
  <1>11. Verdict(img, "right") = UnlockResult(img, loc, "right")
    BY <1>1, <1>9 DEF Verdict
  <1> QED
    BY <1>7, <1>8, <1>9, <1>10, <1>11

\* No read of a written image goes past its end: the only I/O errors that a
\* call can meet there are the reader's own.
THEOREM WrittenIsReadable == \A img \in Written : Readable(img)
  <1>. SUFFICES ASSUME NEW l \in Layouts PROVE Readable(build_image(l))
    BY DEF Written
  <1>0. IsLayout(l) /\ MaxBlocks >= 3
    BY LayoutAssumption
  <1>. DEFINE img == build_image(l)
  <1>1. LaidOut(img, l) /\ img.len = (l.lv_block + l.lv_blocks) * l.block
    BY BuiltIsLaidOut
  <1>. HIDE DEF img
  <1>2. /\ SizeOf(img).value = l.block
        /\ PlaceOf(img).value.primary_offset = l.enc_meta_block * l.block
        /\ PlaceOf(img).value.length = 3 * l.block
    <2>1. /\ SizeOf(img) = Ok(l.block)
          /\ PlaceOf(img) = Ok([primary_offset |-> l.enc_meta_block * l.block,
                                length |-> 3 * l.block])
      BY <1>0, <1>1, MetadataIsFound
    <2> QED
      BY <2>1 DEF Ok
  <1>3. plaintext_metadata_region(img) = l.plaintext_meta_block * l.block
    BY <1>0, <1>1, LayoutFits DEF plaintext_metadata_region, saturating_mul, LaidOut
  <1>4. img.len = l.lv_block * l.block + l.lv_blocks * l.block
    BY <1>0, <1>1, LayoutNumbers
  <1>5. HeaderLen <= l.plaintext_meta_block * l.block /\ HeaderLen \in Nat /\ WordMax \in Nat
    BY <1>0, RequestAssumption, WordMaxAssumption DEF IsLayout, U64
  <1>6. img.block_size = l.block
    BY <1>1 DEF LaidOut
  <1>. DEFINE p == l.plaintext_meta_block * l.block
              e == l.enc_meta_block * l.block
              v == l.lv_block * l.block
              n == l.lv_blocks * l.block
              b == l.block
              t == 3 * l.block
  <1>7. /\ p \in 0 .. WordMax /\ e \in 0 .. WordMax /\ v \in 0 .. WordMax
        /\ n \in 0 .. WordMax /\ b \in 0 .. WordMax /\ t \in 0 .. WordMax
        /\ e + t <= v /\ p + b <= e
    BY <1>0, LayoutFits DEF U64
  <1>8. /\ HeaderLen <= v + n /\ p + b <= v + n /\ e + t <= v + n
    <2>. HIDE DEF p, e, v, n, b, t
    <2>1. HeaderLen <= p
      BY <1>5 DEF p
    <2> QED
      BY <1>5, <1>7, <2>1
  <1> QED
    BY <1>2, <1>3, <1>4, <1>6, <1>8 DEF Readable, img

\* Every image of the builder is unlocked by its password and described
\* without one, with the place, the size and the keys that were written.
THEOREM WrittenIsFound == USpec => []WrittenVolumesAreFound
  <1>1. UInductive => WrittenVolumesAreFound
    <2>. SUFFICES ASSUME UInductive, NEW l \in Layouts, image = build_image(l),
                         NEW r \in Requests \cap {NoPassword, image.password},
                         NEW u \in seen[r]
                  PROVE  /\ u.ok
                         /\ u.info.lv_size = image.lv_at.blocks * image.block_size
                         /\ r # NoPassword =>
                               /\ u.base = image.lv_at.block * image.block_size
                               /\ u.keys.vmk = FreshKey("vmk")
      BY DEF WrittenVolumesAreFound, Written
    <2>1. IsLayout(l) /\ MaxBlocks >= 3 /\ LaidOut(image, l)
      BY LayoutAssumption, BuiltIsLaidOut
    <2>2. u = Verdict(image, r)
      BY DEF UInductive, SeenAreVerdicts
    <2>3. /\ image.lv_at.blocks * image.block_size = l.lv_blocks * l.block
          /\ image.lv_at.block * image.block_size = l.lv_block * l.block
      BY <2>1 DEF LaidOut
    <2>4. /\ Verdict(image, NoPassword)
                = Success(build_info(image, l.lv_blocks * l.block), 0, NoKeys)
          /\ Verdict(image, image.password)
                = Success(build_info(image, l.lv_blocks * l.block), l.lv_block * l.block,
                          [ok |-> TRUE, vmk |-> FreshKey("vmk"),
                           tweak_key |-> TweakKey(FreshKey("vmk"), image.family_uuid)])
      BY <2>1, VolumeIsFound
    <2>5. CASE r = NoPassword
      BY <2>2, <2>3, <2>4, <2>5 DEF Success, build_info
    <2>6. CASE r = image.password /\ r # NoPassword
      BY <2>2, <2>3, <2>4, <2>6 DEF Success, build_info
    <2> QED
      BY <2>5, <2>6
  <1> QED
    BY <1>1, UnlockInvariant, PTL
================================================================================
