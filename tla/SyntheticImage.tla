--------------------------- MODULE SyntheticImage ---------------------------
(***************************************************************************)
(* core/src/test_support.rs: the image that the repository's tests build,  *)
(* as a record of the fields the reader looks at.  The constants of the    *)
(* file are the fields of a layout.  Beside what the reader sees the       *)
(* record says where the encrypted metadata (meta_block) and the volume    *)
(* (lv_at) really are, and the password.                                   *)
(***************************************************************************)
EXTENDS CoreStorageMetadata, KeyHierarchy

\* PASSWORD, SALT, ITERS, KEK and VMK, wrapped into the two key structs.
build_decrypted_metadata(layout) ==
    [password |-> "right", salt |-> "salt", iterations |-> layout.iterations,
     wrapped_kek |-> Wrapped(passphrase_key("right", "salt", layout.iterations),
                             FreshKey("kek")),
     wrapped_vmk |-> Wrapped(FreshKey("kek"), FreshKey("vmk")),
     passphrase_struct |-> "whole", volume_key_struct |-> "whole",
     family_uuid |-> "uuid", lv_size |-> layout.lv_blocks * layout.block,
     blocks |-> 3, segment_block |-> 2, segment_count |-> 1,
     segments |-> <<[logical |-> 0, blocks |-> layout.lv_blocks,
                     physical |-> layout.high_bits * BlockNumbers + layout.lv_block]>>]

\* The image: the fields of the blocks on it and those of the metadata.
build_image(layout) ==
    LET meta == build_decrypted_metadata(layout)
        disk ==
           [len |-> (layout.lv_block + layout.lv_blocks) * layout.block,
            signature |-> TRUE, method |-> TRUE, block_size |-> layout.block,
            metadata_block |-> layout.plaintext_meta_block,
            block_type |-> EncryptedMetadataPointer, metadata_size |-> layout.block,
            vg_offset |-> layout.desc_off, count |-> meta.blocks,
            primary |-> layout.enc_meta_block, meta_block |-> layout.enc_meta_block,
            lv_at |-> [block |-> layout.lv_block, blocks |-> layout.lv_blocks]]
    IN  [f \in DOMAIN disk \cup DOMAIN meta |->
            IF f \in DOMAIN disk THEN disk[f] ELSE meta[f]]
=============================================================================
