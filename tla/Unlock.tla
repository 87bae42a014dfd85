------------------------------- MODULE Unlock -------------------------------
(***************************************************************************)
(* core/src/lib.rs: FileVaultVolume::unlock_with_password and parse_info,  *)
(* the two ways into an image, as one machine with a step per read of the  *)
(* image.  The two share every step up to the keys, in the code by being   *)
(* written twice.  Any read may fail; the same image may be tried again    *)
(* and again, with any password or with none.                              *)
(*                                                                         *)
(* The fields of the encrypted metadata (its plist, core/src/context.rs    *)
(* and module PlistScan, and its segment block) are what the code finds in *)
(* the buffer after decrypt_metadata.  Decrypting bytes from anywhere else *)
(* gives no plist, and some lengths cannot be decrypted: the call panics,  *)
(* which is a result of its own here, Failure("panic").                    *)
(***************************************************************************)
EXTENDS CoreStorageMetadata, ContextContract, KeyHierarchy, FiniteSets

CONSTANTS Images,       \* the images, as records of their fields
          Passwords,    \* passwords that users try
          HeaderLen     \* VOLUME_HEADER_LEN

NoPassword == "no password"   \* the request of parse_info

Requests == Passwords \cup {NoPassword}

ASSUME RequestAssumption == /\ NoPassword \notin Passwords
                            /\ HeaderLen \in U64

(***************************************************************************)
(* What an image may be: every integer field anything its type holds, and  *)
(* each wrapped key damaged or as a volume's writer made it, the first one *)
(* under the volume's password with some salt and iteration count, though  *)
(* not necessarily with those the image names.                             *)
(***************************************************************************)
KeysAsWritten(img) ==
    /\ \/ img.wrapped_kek = Damaged
       \/ LET by == img.wrapped_kek.by
          IN  img.wrapped_kek = Wrapped(passphrase_key(img.password, by[3], by[4]),
                                        FreshKey("kek"))
    /\ img.wrapped_vmk \in {Damaged, Wrapped(FreshKey("kek"), FreshKey("vmk"))}

ASSUME ImageAssumption == \A img \in Images :
    /\ img.len \in Nat
    /\ \A n \in {img.block_size, img.metadata_block, img.metadata_size,
                 img.vg_offset, img.count, img.primary} : n \in U64
    /\ \A s \in {img.passphrase_struct, img.volume_key_struct} :
          s \in {"absent", "bad_base64", "short", "whole"}
    /\ KeysAsWritten(img)

VARIABLES image,       \* the image; it does not change
          request,     \* the password of the call in progress
          pc,          \* the read the call is about to make
          region_size, \* local: size of the plaintext metadata
          location,    \* local: where the encrypted metadata is said to be
          largest,     \* the largest buffer the call has allocated
          result,      \* the result of the last call
          seen         \* per request, its results other than I/O errors

uvars == <<image, request, pc, region_size, location, largest, result, seen>>

NoKeys == [ok |-> FALSE, vmk |-> NoKey, tweak_key |-> NoKey]
NoInfo == [iterations |-> 0, family_uuid |-> "absent", lv_size |-> 0]

Success(info, base, keys) ==
    [ok |-> TRUE, error |-> "none", info |-> info, base |-> base, keys |-> keys]
Failure(e) ==
    [ok |-> FALSE, error |-> e, info |-> NoInfo, base |-> 0, keys |-> NoKeys]

Nowhere == [primary_offset |-> 0, length |-> 0]

UInit == /\ image \in Images
         /\ request = NoPassword
         /\ pc = "idle"
         /\ region_size = 0
         /\ location = Nowhere
         /\ largest = 0
         /\ result = Failure("none")
         /\ seen = [r \in Requests |-> {}]
-----------------------------------------------------------------------------
Begin(r) == /\ pc = "idle"
            /\ request' = r
            /\ pc' = "header"
            /\ region_size' = 0
            /\ location' = Nowhere
            /\ largest' = 0
            /\ UNCHANGED <<image, result, seen>>

Finish(r) == /\ pc' = "idle"
             /\ result' = r
             /\ seen' = IF r.error = "Io" THEN seen
                        ELSE [seen EXCEPT ![request] = @ \cup {r}]

\* A step that goes on to the next read.
GoOn(next) == pc' = next /\ UNCHANGED <<result, seen>>

Allocate(n) == largest' = IF n > largest THEN n ELSE largest

\* Mutant: what is missing at the end of the image is left zeroed.
ReadExact_or_zeroes(offset, n) == TRUE

\* read_exact: n bytes at offset, or an error.
ReadExact(offset, n) == offset + n <= image.len

\* The header is read and parsed, the offset of the metadata computed.
ReadHeader ==
    LET header == ParseHeader(image)
    IN  /\ pc = "header"
        /\ Allocate(HeaderLen)
        /\ IF ~ReadExact(0, HeaderLen) THEN Finish(Failure("Io"))
           ELSE IF ~header.ok THEN Finish(Failure(header.error))
           ELSE IF image.block_size = 0 THEN Finish(Failure("OutOfRange"))
           ELSE GoOn("first_block")
        /\ UNCHANGED <<image, request, region_size, location>>

\* The first block of the plaintext metadata says how long it is.
ReadFirstBlock ==
    LET r == plaintext_metadata_size(image, image.block_size)
    IN  /\ pc = "first_block"
        /\ Allocate(image.block_size)
        /\ IF ~ReadExact(plaintext_metadata_region(image), image.block_size)
           THEN Finish(Failure("Io")) /\ UNCHANGED region_size
           ELSE IF ~r.ok THEN Finish(Failure(r.error)) /\ UNCHANGED region_size
           ELSE GoOn("region") /\ region_size' = r.value
        /\ UNCHANGED <<image, request, location>>

\* All of it says where the encrypted metadata is.
ReadRegion ==
    LET r == locate_encrypted_metadata(image, region_size)
    IN  /\ pc = "region"
        /\ Allocate(region_size)
        /\ IF ~ReadExact(plaintext_metadata_region(image), region_size)
           THEN Finish(Failure("Io")) /\ UNCHANGED location
           ELSE IF ~r.ok THEN Finish(Failure(r.error)) /\ UNCHANGED location
           ELSE GoOn("ciphertext") /\ location' = r.value
        /\ UNCHANGED <<image, request, region_size>>

ReadCiphertext ==
    /\ pc = "ciphertext"
    /\ Allocate(location.length)
    /\ IF ReadExact(location.primary_offset, location.length)
       THEN GoOn("extract") ELSE Finish(Failure("Io"))
    /\ UNCHANGED <<image, request, region_size, location>>

\* xts::decrypt_units: decrypt_area of xts_mode decrypts the whole units and
\* then what is left as a shorter unit, by ciphertext stealing.  That takes at
\* least one AES block; with less it panics.
decrypt_area_panics(length) == length % MetadataUnit \in 1 .. AesBlock - 1

\* metadata::decrypt_metadata: the key and tweak are those of the header,
\* so the plist appears when the right blocks were read.
Decrypted(img, loc) ==
    loc.primary_offset = saturating_mul(img.meta_block, img.block_size)

\* decrypt_metadata, EncryptionContext::extract and LogicalVolumeInfo::extract.
ExtractError(img, loc) ==
    IF decrypt_area_panics(loc.length) THEN "panic"
    ELSE IF ~Decrypted(img, loc) THEN "MetadataStructureMissing"
    ELSE ContextError(img.passphrase_struct, img.volume_key_struct, img.family_uuid)

build_info(img, size) == [iterations |-> img.iterations,
                          family_uuid |-> img.family_uuid, lv_size |-> size]

\* What is left of parse_info once the metadata is decrypted.
InfoResult(img, loc) ==
    LET extent == resolve_lv_extent(img, loc.length)
    IN  IF ExtractError(img, loc) # "none" THEN Failure(ExtractError(img, loc))
        ELSE Success(build_info(img, extent.size), 0, NoKeys)

\* Mutant: the info of an unlocked volume has the size of the plist only.
UnlockedInfo_plist_size(img, loc) == build_info(img, img.lv_size)

UnlockedInfo(img, loc) == build_info(img, resolve_lv_extent(img, loc.length).size)

\* What is left of unlock_with_password.
UnlockResult(img, loc, password) ==
    LET keys == derive_volume_keys(password, img, img.family_uuid)
    IN  IF ExtractError(img, loc) # "none" THEN Failure(ExtractError(img, loc))
        ELSE IF img.family_uuid = "unparseable"
        THEN Failure("MetadataStructureMissing")
        ELSE IF ~keys.ok THEN Failure("KeyUnwrap")
        ELSE Success(UnlockedInfo(img, loc),
                     resolve_lv_extent(img, loc.length).base, keys)

Extract ==
    /\ pc = "extract"
    /\ Finish(IF request = NoPassword THEN InfoResult(image, location)
              ELSE UnlockResult(image, location, request))
    /\ UNCHANGED <<image, request, region_size, location, largest>>

\* Mutant: a failing read is reported as metadata that ends too early.
ReaderFails_as_missing ==
    /\ pc \in {"header", "first_block", "region", "ciphertext"}
    /\ Finish(Failure("MetadataStructureMissing"))
    /\ UNCHANGED <<image, request, region_size, location, largest>>

\* Any seek or read of the image may fail.
ReaderFails == /\ pc \in {"header", "first_block", "region", "ciphertext"}
               /\ Finish(Failure("Io"))
               /\ UNCHANGED <<image, request, region_size, location, largest>>

Advance == \/ ReadHeader \/ ReadFirstBlock \/ ReadRegion
           \/ ReadCiphertext \/ Extract

UNext == (\E r \in Requests : Begin(r)) \/ Advance \/ ReaderFails

USpec == UInit /\ [][UNext]_uvars
-----------------------------------------------------------------------------
TypeOK ==
    /\ request \in Requests
    /\ pc \in {"idle", "header", "first_block", "region", "ciphertext", "extract"}
    /\ region_size \in U64
    /\ location.primary_offset \in U64 /\ location.length \in U64
    /\ largest \in U64
    /\ result.ok \in BOOLEAN /\ result.error \in Errors \cup {"none", "panic"}

(***************************************************************************)
(* However the fields of the image lie, no buffer is larger than the cap   *)
(* on blocks allows.                                                       *)
(***************************************************************************)
BuffersBounded == largest <= HeaderLen \/ largest < (MaxBlocks + 1) * image.block_size

(***************************************************************************)
(* A call that succeeds has read everything it used from the image: a      *)
(* truncated image is an error, never a volume made of padding.            *)
(***************************************************************************)
TruncationIsLoud ==
    (pc = "idle" /\ result.ok) =>
        /\ HeaderLen <= image.len
        /\ plaintext_metadata_region(image) + image.block_size <= image.len
        /\ plaintext_metadata_region(image) + region_size <= image.len
        /\ location.primary_offset + location.length <= image.len

(***************************************************************************)
(* The descriptor is only ever taken from where the metadata points to:    *)
(* metadata too short to hold the pointer reads it as 0, and what then     *)
(* stands in for the descriptor, the block header, is always refused.      *)
(***************************************************************************)
DescriptorIsPointedTo ==
    location # Nowhere => /\ region_size >= PointerEnd
                          /\ image.vg_offset # 0

(***************************************************************************)
(* parse_info and unlock_with_password agree about every image: what one   *)
(* refuses the other refuses with the same error, and what one accepts the *)
(* other describes in the same words or refuses for its keys alone.        *)
(***************************************************************************)
UnlockAgreesWithParseInfo ==
    \A p \in Passwords : \A i \in seen[NoPassword], u \in seen[p] :
        /\ ~i.ok => u.error = i.error
        /\ i.ok /\ u.ok => u.info = i.info
        /\ i.ok /\ ~u.ok => \/ u.error = "KeyUnwrap"
                            \/ image.family_uuid = "unparseable"

(***************************************************************************)
(* Nothing is carried over from one call to the next: trying the same      *)
(* password again, whatever was tried or failed in between, gives the same *)
(* result or an I/O error.                                                 *)
(***************************************************************************)
RetryGivesTheSameResult == \A r \in Requests : \A u, v \in seen[r] : u = v

(***************************************************************************)
(* Unlocking yields the volume's own keys or none: a wrong password never  *)
(* gets as far as producing wrong plaintext, and the right one is refused  *)
(* only if the image's key material is damaged.                            *)
(***************************************************************************)
OnlyTheRightPassword ==
    \A p \in Passwords : \A u \in seen[p] :
        /\ u.ok => /\ p = image.password
                   /\ u.keys.vmk = FreshKey("vmk")
                   /\ u.keys.tweak_key = TweakKey(FreshKey("vmk"), image.family_uuid)
        /\ (p = image.password /\ u.error = "KeyUnwrap") =>
              \/ Damaged \in {image.wrapped_kek, image.wrapped_vmk}
              \/ image.wrapped_kek.by
                    # passphrase_key(p, image.salt, image.iterations)

(***************************************************************************)
(* README: `Panic-free by construction'.  No image makes a call panic.     *)
(***************************************************************************)
UnlockIsPanicFree == result.error # "panic"
=============================================================================
