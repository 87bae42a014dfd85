--------------------------- MODULE MCOpenedVolume ---------------------------
(***************************************************************************)
(* Images as test_support.rs writes them, whole or cut off in the volume,  *)
(* with the volume's size in the plist or in the segment map only.         *)
(***************************************************************************)
EXTENDS OpenedVolume, MCUnlock, TLC

OpenedLayouts == {[Layout EXCEPT !.lv_blocks = n, !.high_bits = h] :
                     n \in {1, 2}, h \in {0, 1}}

WholeOrCut == Written
    \cup {[img EXCEPT !.len = @ - 2 * SectorLen] : img \in Written}
    \cup {[img EXCEPT !.lv_size = 0] : img \in Written}

SomeOffers == {<<Password("wrong")>>, <<OtherCredential, Password("right")>>,
               <<Password("wrong"), Password("right"), Password("wrong")>>}

AnyThread == Permutations(Threads)
=============================================================================
