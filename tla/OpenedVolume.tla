---------------------------- MODULE OpenedVolume ----------------------------
(***************************************************************************)
(* The way of a sector from the image to the caller: FileVaultLayer::open  *)
(* tries credentials until one unlocks the image (EncryptionLayer), hands  *)
(* the volume to a FileVaultSource, and threads read from that source.     *)
(*                                                                         *)
(* Offsets are bytes up to the unlock and sectors from there on; volumes   *)
(* and images consist of whole sectors.  Further calls of open make        *)
(* further sources over readers of their own, so one source is enough.     *)
(***************************************************************************)
EXTENDS EncryptionLayer, RoundTrip

CONSTANTS Threads, NoThread, Offsets, BufLens,   \* as in FileVaultSource
          SectorLen                              \* SECTOR_SIZE

ASSUME SectorAssumption ==
    /\ SectorLen \in Nat \ {0}
    /\ NoThread \notin Threads
    /\ Offsets \subseteq 0 .. WordMax \div SectorLen /\ BufLens \subseteq Nat
    /\ \A img \in Images :
          \A n \in {img.len, img.block_size, img.lv_size} : n % SectorLen = 0

\* The images are written ones, whole or cut off anywhere, with the volume's
\* size in the plist or in the segment map only.
ASSUME VolumeAssumption == \A img \in Images : \E l \in Layouts :
    /\ img = [build_image(l) EXCEPT !.len = img.len, !.lv_size = img.lv_size]
    /\ img.len \in U64
    /\ img.lv_size \in {0, build_image(l).lv_size}

VARIABLES size, len, base, image_len, checks, lock, poisoned, cursor, frame

Sectors(bytes) == bytes \div SectorLen

Source == INSTANCE FileVaultSource WITH
    SectorMax <- Sectors(WordMax), Sizes <- 0 .. Sectors(WordMax),
    Bases <- 0 .. Sectors(WordMax), ImageLens <- 0 .. Sectors(WordMax)

svars == <<size, len, base, image_len, checks, lock, poisoned, cursor, frame>>
ovars == <<vars, svars>>

\* There is no source until open returns one.
OInit == /\ LInit
         /\ size = 0 /\ len = 0 /\ base = 0 /\ image_len = 0 /\ cursor = 0
         /\ checks \in BOOLEAN
         /\ lock = NoThread
         /\ poisoned = FALSE
         /\ frame = [t \in Threads |-> Source!Idle]

\* FileVaultSource::new over DecryptedVolume::new: the reader stands where
\* the unlock's last read left it.
NewSource == /\ size' = Sectors(result'.info.lv_size)
             /\ len' = size'
             /\ base' = Sectors(result'.base)
             /\ image_len' = Sectors(image.len)
             /\ cursor' = Sectors(location.primary_offset + location.length)
             /\ UNCHANGED <<checks, lock, poisoned, frame>>

\* A step of open; the step that succeeds makes the source.
LayerStep == /\ answer # "opened"
             /\ LNext
             /\ IF answer' = "opened" THEN NewSource ELSE UNCHANGED svars

SourceStep == /\ answer = "opened"
              /\ Source!Next
              /\ UNCHANGED vars

ONext == LayerStep \/ SourceStep

OSpec == OInit /\ [][ONext]_ovars
-----------------------------------------------------------------------------
\* Where the writer of the image put sector s of the volume.
WrittenAt(s) == Sectors(image.lv_at.block * image.block_size) + s

(***************************************************************************)
(* End to end: whatever was tried before and whatever other threads do, a  *)
(* read that returns Ok returns the sectors that the writer of the image   *)
(* put there, as many as were asked for and the volume has, under the keys *)
(* they were encrypted with; only sectors cut off the image are garbage.   *)
(***************************************************************************)
DeliveredIsWritten ==
    \A t \in Threads :
        LET f == frame[t]
            there == {i \in 0 .. f.asked - 1 :
                         f.offset + i < Sectors(image.lv_at.blocks * image.block_size)}
        IN  f.status = "ok" =>
            /\ result.keys.vmk = FreshKey("vmk")
            /\ result.keys.tweak_key = TweakKey(FreshKey("vmk"), image.family_uuid)
            /\ f.region = [i \in there |->
                  IF WrittenAt(f.offset + i) < Sectors(image.len)
                  THEN WrittenAt(f.offset + i) ELSE Source!Garbage]
=============================================================================
