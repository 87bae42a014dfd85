------------------------------ MODULE RoundTrip ------------------------------
(***************************************************************************)
(* What core/src/test_support.rs writes, read by core/src/lib.rs: the      *)
(* images of the builder under the two entry points of module Unlock.      *)
(***************************************************************************)
EXTENDS Unlock, SyntheticImage

CONSTANTS
    Layouts,            \* layouts of images
    FirstBlockFields,   \* bytes of the first block that hold its type, the
                        \* size and the pointer (10-11, 64-67, 220-223)
    DescriptorFields    \* bytes of the descriptor that hold the count and
                        \* the primary block (8-15, 32-39)

(***************************************************************************)
(* What the constants of the builder are assumed to be.  A layout has room *)
(* for everything that is written: the header before the plaintext         *)
(* metadata, that before the three blocks of encrypted metadata and those  *)
(* before the volume, all of it addressable; the descriptor lies in its    *)
(* block and is written over no other field there, as with the offset 200  *)
(* of the code; a block holds every structure the reader looks for, and    *)
(* three blocks can be decrypted.                                          *)
(***************************************************************************)
IsLayout(l) ==
    /\ \A n \in {l.block, l.plaintext_meta_block, l.enc_meta_block, l.desc_off,
                 l.lv_block, l.lv_blocks} : n \in Nat \ {0}
    /\ l.high_bits \in Nat /\ l.iterations \in Nat
    /\ PointerEnd <= l.block /\ SegmentsAt + SegmentLen <= l.block
    /\ l.desc_off + DescriptorLen <= l.block
    /\ \A i \in DescriptorFields : l.desc_off + i \notin FirstBlockFields
    /\ ~decrypt_area_panics(3 * l.block)
    /\ HeaderLen <= l.plaintext_meta_block * l.block
    /\ l.plaintext_meta_block < l.enc_meta_block
    /\ l.enc_meta_block + 3 <= l.lv_block
    /\ l.lv_block < BlockNumbers
    /\ (l.lv_block + l.lv_blocks) * l.block <= WordMax

ASSUME LayoutAssumption == /\ \A l \in Layouts : IsLayout(l)
                           /\ MaxBlocks >= 3

Written == {build_image(l) : l \in Layouts}

(***************************************************************************)
(* What was written can be read: an image laid out as test_support.rs does *)
(* it is unlocked by its password and described without one, with the      *)
(* place, the size and the keys of the volume that was put into it; only a *)
(* failing read keeps a caller from it.                                    *)
(***************************************************************************)
WrittenVolumesAreFound ==
    image \in Written =>
        \A r \in Requests \cap {NoPassword, image.password} : \A u \in seen[r] :
            /\ u.ok
            /\ u.info.lv_size = image.lv_at.blocks * image.block_size
            /\ r # NoPassword => /\ u.base = image.lv_at.block * image.block_size
                                 /\ u.keys.vmk = FreshKey("vmk")
=============================================================================
