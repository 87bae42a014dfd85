--------------------------- MODULE FileVaultError ---------------------------
(***************************************************************************)
(* core/src/error.rs: the kinds of error, without their texts.             *)
(***************************************************************************)

Errors == {"Io", "NotCoreStorage", "UnsupportedEncryptionMethod",
           "MetadataStructureMissing", "Base64", "KeyUnwrap", "OutOfRange"}
=============================================================================
