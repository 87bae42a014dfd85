-------------------------- MODULE ContextContract --------------------------
(***************************************************************************)
(* What core/src/context.rs promises to the rest of the library: the error *)
(* that EncryptionContext::extract and then LogicalVolumeInfo::extract end *)
(* in, by what the plist holds.  Module Unlock takes this for the searches *)
(* in the plist; module PlistScan, which models them turn by turn, is      *)
(* shown to keep to it.                                                    *)
(*                                                                         *)
(* A wrapped key struct is "absent", "bad_base64", "short" or "whole".     *)
(***************************************************************************)

ExtractStruct(s) ==
    CASE s \in {"absent", "bad_base64"} -> "MetadataStructureMissing"
      [] s = "short" -> "OutOfRange"
      [] s = "whole" -> "none"

\* The passphrase struct is looked at first, the family UUID last.
ContextError(passphrase_struct, volume_key_struct, family_uuid) ==
    IF ExtractStruct(passphrase_struct) # "none" THEN ExtractStruct(passphrase_struct)
    ELSE IF ExtractStruct(volume_key_struct) # "none" THEN ExtractStruct(volume_key_struct)
    ELSE IF family_uuid = "absent" THEN "MetadataStructureMissing"
    ELSE "none"
=============================================================================
