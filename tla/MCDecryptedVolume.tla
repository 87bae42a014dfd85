------------------------- MODULE MCDecryptedVolume -------------------------
(***************************************************************************)
(* A sector of 4 bytes with AES blocks of 2, in a word of 5 bits.  Volumes *)
(* end inside and at the end of a sector and of an AES block; images end   *)
(* before, inside and after the volume; bases are unaligned; one base is   *)
(* so high that base + offset does not fit the word.                       *)
(***************************************************************************)
EXTENDS DecryptedVolume

MCDeltas == {-6, WordMax}
=============================================================================
