------------------------------ MODULE MCUnlock ------------------------------
(***************************************************************************)
(* A sound image and every image that differs from it in at most two       *)
(* fields: truncated at any read, with sizes, counts and block numbers of  *)
(* zero, at and past their bounds, with structures missing or damaged; and *)
(* every image that the tests' builder can lay out.                        *)
(***************************************************************************)
EXTENDS RoundTrip

Layout == [block |-> 8, plaintext_meta_block |-> 1, enc_meta_block |-> 4,
           desc_off |-> 4, lv_block |-> 7, lv_blocks |-> 2, high_bits |-> 1,
           iterations |-> 3]

\* Its plaintext metadata takes two blocks, the descriptor lies across them.
Sound == [build_image(Layout) EXCEPT !.metadata_size = 16, !.vg_offset = 7]

Alterations ==
    [len |-> {0, 7, 8, 15, 16, 23, 24, 55, 56},
     signature |-> {FALSE}, method |-> {FALSE},
     block_size |-> {0, 1, 3, 6, 127},
     metadata_block |-> {0, 15, 127}, block_type |-> {0},
     metadata_size |-> {0, 3, 5, 6, 40, 41, 127},
     vg_offset |-> {0, 13, 14, 127}, count |-> {0, 1, 2, 4, 5, 127},
     primary |-> {0, 31, 36}, segment_block |-> {-1, 0, 3},
     segment_count |-> {0, 2, 127}, lv_size |-> {0, 127},
     iterations |-> {0, 1}, wrapped_kek |-> {Damaged}, wrapped_vmk |-> {Damaged},
     passphrase_struct |-> {"absent", "bad_base64", "short"},
     volume_key_struct |-> {"absent", "bad_base64", "short"},
     family_uuid |-> {"absent", "unparseable"}]

Altered(images) ==
    images \cup UNION {UNION {{[img EXCEPT ![f] = v] : v \in Alterations[f]} :
                              img \in images} : f \in DOMAIN Alterations}

\* A count of zero iterations, by a writer who also took it as one.
ZeroIterations ==
    [Sound EXCEPT !.iterations = 0,
        !.wrapped_kek = Wrapped(passphrase_key("right", "salt", 1), FreshKey("kek"))]

\* Three blocks of metadata that leave one byte over after two units.
ShortRest == build_image([Layout EXCEPT !.block = 11, !.enc_meta_block = 2,
                                        !.lv_block = 5])

TwiceAltered == Altered(Altered({Sound})) \cup Altered({ZeroIterations, ShortRest})

\* Every layout with these blocks, which are as small as the structures allow
\* or a little larger, the descriptor before the pointer or around it, and the
\* metadata and the volume with or without a gap before them.
SmallLayouts ==
    {l \in [block : {6, 8}, plaintext_meta_block : {2, 3}, enc_meta_block : {4, 5},
            desc_off : {2, 4}, lv_block : {8, 10}, lv_blocks : {1, 3},
            high_bits : {0, 1}, iterations : {0, 1, 3}] :
        l.desc_off + DescriptorLen <= l.block}

AlteredOrWritten == TwiceAltered \cup Written

RestOfOneByte == {ShortRest}
=============================================================================
