------------------------- MODULE MCEncryptionLayer -------------------------
(***************************************************************************)
(* The sound image, one per kind of defect, and every offer of up to three *)
(* credentials.                                                            *)
(***************************************************************************)
EXTENDS EncryptionLayer, MCUnlock, SequencesExt

LayerImages ==
    {Sound, ZeroIterations, ShortRest,
     [Sound EXCEPT !.len = 55], [Sound EXCEPT !.signature = FALSE],
     [Sound EXCEPT !.wrapped_vmk = Damaged],
     [Sound EXCEPT !.family_uuid = "unparseable"]}

AllOffers == SeqOf(Credentials, 3)
=============================================================================
