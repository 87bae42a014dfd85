-------------------------- MODULE OpenedVolumeProofs --------------------------
(***************************************************************************)
(* Proofs about module OpenedVolume: from the written image to the sectors *)
(* that any number of threads read.  They put together what is shown of    *)
(* the layer (EncryptionLayerProofs), of written images (RoundTripProofs)  *)
(* and of the shared source (FileVaultSourceProofs).                       *)
(***************************************************************************)
EXTENDS OpenedVolume, EncryptionLayerProofs, RoundTripProofs

\* The source of OpenedVolume, with the theorems about it.
Reader == INSTANCE FileVaultSourceProofs WITH
    SectorMax <- Sectors(WordMax), Sizes <- 0 .. Sectors(WordMax),
    Bases <- 0 .. Sectors(WordMax), ImageLens <- 0 .. Sectors(WordMax)

NoSource == /\ lock = NoThread /\ poisoned = FALSE /\ checks \in BOOLEAN
            /\ frame = [t \in Threads |-> Source!Idle]

\* The source is over the volume that was written, and its own invariant holds.
SourceOfVolume ==
    /\ Reader!IInv
    /\ size = Sectors(image.lv_at.blocks * image.block_size)
    /\ base = Sectors(image.lv_at.block * image.block_size)
    /\ image_len = Sectors(image.len)

OInductive == /\ LInductive
              /\ answer # "opened" => NoSource
              /\ answer = "opened" => SourceOfVolume
-------------------------------------------------------------------------------
LEMMA SameSource == Source!Next <=> Reader!Next
  BY DEF Source!Next, Source!Call, Source!Acquire, Source!Proceed, Source!Enter,
     Source!EnterPanics, Source!SeekReader, Source!FillSome, Source!Fill,
     Source!FillEof, Source!Deliver, Source!ReaderFails, Source!ReaderPanics,
     Source!Step, Source!Goto, Source!Reply, Source!saturating_sub, Source!Nothing,
     Source!PhysicalOverflows, Source!physical, Source!Filled, Source!Plain,
     Source!Least, Source!geometry, Source!NoData, Source!Garbage, Reader!Next,
     Reader!Call, Reader!Acquire, Reader!Proceed, Reader!Enter, Reader!EnterPanics,
     Reader!SeekReader, Reader!FillSome, Reader!Fill, Reader!FillEof,
     Reader!Deliver, Reader!ReaderFails, Reader!ReaderPanics, Reader!Step,
     Reader!Goto, Reader!Reply, Reader!saturating_sub, Reader!Nothing,
     Reader!PhysicalOverflows, Reader!physical, Reader!Filled, Reader!Plain,
     Reader!Least, Reader!geometry, Reader!NoData, Reader!Garbage

\* The assumption of FileVaultSource, of the source as it is instantiated.
LEMMA SourceInputs == /\ NoThread \notin Threads
                      /\ Sectors(WordMax) \in Nat
                      /\ 0 .. Sectors(WordMax) \subseteq Nat
                      /\ 0 .. Sectors(WordMax) \subseteq 0 .. Sectors(WordMax)
                      /\ Offsets \subseteq 0 .. Sectors(WordMax)
                      /\ BufLens \subseteq Nat
  BY SectorAssumption, WordMaxAssumption DEF Sectors

LEMMA SourceStepPreserves ==
    ASSUME Reader!IInv, Source!Next \/ UNCHANGED svars
    PROVE  Reader!IInv'
  <1>1. Reader!Next \/ UNCHANGED Reader!vars
    BY SameSource DEF svars, Reader!vars
  <1> QED
    BY <1>1, SourceInputs, Reader!NextInv

LEMMA SourceKeepsGeometry ==
    ASSUME Source!Next
    PROVE  UNCHANGED <<size, base, image_len>>
  <1>1. Reader!Next
    BY SameSource
  <1> QED
  BY <1>1 DEF Reader!Next, Reader!Call, Reader!Acquire, Reader!Proceed, Reader!Enter,
     Reader!EnterPanics, Reader!SeekReader, Reader!FillSome, Reader!Fill,
     Reader!FillEof, Reader!Deliver, Reader!ReaderFails, Reader!ReaderPanics,
     Reader!geometry

\* Every image is one that was laid out.
LEMMA ImageIsLaidOut ==
    ASSUME NEW img \in Images
    PROVE  /\ img.len \in U64
           /\ \E l : IsLayout(l) /\ MaxBlocks >= 3 /\ LaidOut(img, l)
  <1>1. PICK l \in Layouts :
            /\ img = [build_image(l) EXCEPT !.len = img.len, !.lv_size = img.lv_size]
            /\ img.len \in U64
            /\ img.lv_size \in {0, build_image(l).lv_size}
    BY VolumeAssumption
  <1>2. IsLayout(l) /\ MaxBlocks >= 3
    BY LayoutAssumption
  <1>3. LaidOut(img, l)
    <2>. DEFINE w == build_image(l)
    <2>1. LaidOut(w, l) /\ w.lv_size = l.lv_blocks * l.block
      BY BuiltIsLaidOut DEF build_image, build_decrypted_metadata
    <2>2. DOMAIN w = {"len", "signature", "method", "block_size", "metadata_block",
                      "block_type", "metadata_size", "vg_offset", "count", "primary",
                      "meta_block", "lv_at", "password", "salt", "iterations",
                      "wrapped_kek", "wrapped_vmk", "passphrase_struct",
                      "volume_key_struct", "family_uuid", "lv_size", "blocks",
                      "segment_block", "segment_count", "segments"}
      BY DEF build_image, build_decrypted_metadata
    <2>. HIDE DEF w
    <2>3. \A f \in DOMAIN w \ {"len", "lv_size"} : img[f] = w[f]
      BY <1>1 DEF w
    <2>4. /\ img.signature = w.signature /\ img.method = w.method
          /\ img.block_size = w.block_size /\ img.metadata_block = w.metadata_block
          /\ img.block_type = w.block_type /\ img.metadata_size = w.metadata_size
          /\ img.vg_offset = w.vg_offset /\ img.count = w.count
          /\ img.primary = w.primary /\ img.meta_block = w.meta_block
          /\ img.lv_at = w.lv_at
      BY <2>2, <2>3
    <2>5. /\ img.password = w.password /\ img.salt = w.salt
          /\ img.iterations = w.iterations /\ img.wrapped_kek = w.wrapped_kek
          /\ img.wrapped_vmk = w.wrapped_vmk /\ img.family_uuid = w.family_uuid
          /\ img.passphrase_struct = w.passphrase_struct
          /\ img.volume_key_struct = w.volume_key_struct
          /\ img.segment_block = w.segment_block
          /\ img.segment_count = w.segment_count /\ img.segments = w.segments
      BY <2>2, <2>3
    <2>6. img.lv_size \in {0, l.lv_blocks * l.block}
      BY <1>1, <2>1 DEF w
    <2> QED
      BY <2>1, <2>4, <2>5, <2>6 DEF LaidOut
  <1> QED
    BY <1>1, <1>2, <1>3

\* A number of bytes is no more sectors than a greater one.
LEMMA SectorsBound ==
    ASSUME NEW m \in Nat, NEW n \in Nat, m <= n
    PROVE  Sectors(m) \in Nat /\ Sectors(m) <= Sectors(n)
  <1>1. SectorLen \in Nat \ {0}
    BY SectorAssumption
  <1>. DEFINE S == SectorLen
  <1>2. /\ m \div S \in Nat /\ n \div S \in Nat
        /\ (m % S) \in 0 .. S - 1 /\ (n % S) \in 0 .. S - 1
        /\ m = S * (m \div S) + (m % S) /\ n = S * (n \div S) + (n % S)
    BY <1>1
  <1>. HIDE DEF S
  <1>3. m \div S <= n \div S
    <2>. SUFFICES ASSUME m \div S > n \div S PROVE FALSE
      BY <1>2
    <2>1. S * (m \div S) >= S * (n \div S) + S
      BY <1>1, <1>2 DEF S
    <2> QED
      BY <1>1, <1>2, <2>1 DEF S
  <1> QED
    BY <1>2, <1>3 DEF Sectors, S

LEMMA ImageIsKept == LNext => image' = image
  BY DEF LNext, Open, Skip, Try, Progress, Fault, GiveUp, Unlocking, Begin, uvars,
     Advance, ReadHeader, ReadFirstBlock, ReadRegion, ReadCiphertext, Extract, ReaderFails

\* The result of an opened layer is that of the right password.
LEMMA OpenedResult ==
    ASSUME NEW img \in Images
    PROVE  \E l : /\ IsLayout(l) /\ LaidOut(img, l)
                  /\ Verdict(img, img.password)
                       = Success(build_info(img, img.lv_at.blocks * img.block_size),
                                 img.lv_at.block * img.block_size,
                                 [ok |-> TRUE, vmk |-> FreshKey("vmk"),
                                  tweak_key |-> TweakKey(FreshKey("vmk"), img.family_uuid)])
  <1>1. PICK l : IsLayout(l) /\ MaxBlocks >= 3 /\ LaidOut(img, l)
    BY ImageIsLaidOut
  <1>2. /\ img.lv_at.blocks * img.block_size = l.lv_blocks * l.block
        /\ img.lv_at.block * img.block_size = l.lv_block * l.block
    BY <1>1 DEF LaidOut
  <1> QED
    BY <1>1, <1>2, VolumeIsFound

\* The step of the layer that opens the volume makes a source over it.
LEMMA NewSourcePreserves ==
    ASSUME LInductive', image \in Images, image' = image, NoSource, NewSource,
           location.primary_offset \in Nat, location.length \in Nat,
           answer' = "opened"
    PROVE  SourceOfVolume'
  <1>1. result' = Verdict(image, image.password)
    <2>1. /\ result'.ok /\ request' = image.password /\ pc' = "idle"
      BY DEF LInductive, OpenedByARightPassword, LastError, LayerTypeOK
    <2>2. \/ result' \in {Failure("none"), Failure("Io")}
          \/ result' = Verdict(image', request')
      BY <2>1 DEF LInductive, UInductive, Returned
    <2>3. Failure("none").ok = FALSE /\ Failure("Io").ok = FALSE
      BY DEF Failure
    <2> QED
      BY <2>1, <2>2, <2>3
  <1>2. PICK l : /\ IsLayout(l) /\ LaidOut(image, l)
                 /\ Verdict(image, image.password)
                      = Success(build_info(image, image.lv_at.blocks * image.block_size),
                                image.lv_at.block * image.block_size,
                                [ok |-> TRUE, vmk |-> FreshKey("vmk"),
                                 tweak_key |-> TweakKey(FreshKey("vmk"), image.family_uuid)])
    BY OpenedResult
  <1>3. /\ result'.info.lv_size = image.lv_at.blocks * image.block_size
        /\ result'.base = image.lv_at.block * image.block_size
    BY <1>1, <1>2 DEF Success, build_info
  <1>4. /\ size' = Sectors(image.lv_at.blocks * image.block_size) /\ len' = size'
        /\ base' = Sectors(image.lv_at.block * image.block_size)
        /\ image_len' = Sectors(image.len)
        /\ cursor' = Sectors(location.primary_offset + location.length)
        /\ checks' = checks /\ lock' = lock /\ poisoned' = poisoned /\ frame' = frame
    BY <1>3 DEF NewSource
  <1>5. /\ image.lv_at.blocks * image.block_size \in U64
        /\ image.lv_at.block * image.block_size \in U64
        /\ image.len \in U64
    <2>1. /\ image.lv_at.blocks * image.block_size = l.lv_blocks * l.block
          /\ image.lv_at.block * image.block_size = l.lv_block * l.block
      BY <1>2 DEF LaidOut
    <2>2. l.lv_blocks * l.block \in U64 /\ l.lv_block * l.block \in U64
      BY <1>2, LayoutFits
    <2> QED
      BY <2>1, <2>2, ImageIsLaidOut
  <1>6. /\ size' \in Nat /\ cursor' \in Nat
        /\ base' \in 0 .. Sectors(WordMax) /\ image_len' \in 0 .. Sectors(WordMax)
    BY <1>4, <1>5, SectorsBound, WordMaxAssumption DEF U64
  <1>7. /\ lock' = NoThread /\ poisoned' \in BOOLEAN /\ checks' \in BOOLEAN
        /\ frame' = [t \in Threads |-> Source!Idle] /\ NoThread \notin Threads
    BY <1>4, SectorAssumption DEF NoSource
  <1>8. Reader!TypeOK'
    <2>1. \A t \in Threads : Reader!FrameTyped(frame'[t])
      BY <1>7, SourceInputs DEF Reader!FrameTyped, Reader!InCall, Source!Idle
    <2> QED
      BY <1>4, <1>6, <1>7, <2>1 DEF Reader!TypeOK, Reader!FrameTyped, Reader!InCall
  <1>9. Reader!HolderOwnsReader'
    BY <1>7 DEF Reader!HolderOwnsReader, Reader!InCall, Source!Idle
  <1>10. Reader!FramesOK' /\ Reader!ConcurrentReadsAreExact'
    BY <1>7 DEF Reader!FramesOK, Reader!FrameOK, Reader!ConcurrentReadsAreExact,
                Reader!Exact, Source!Idle
  <1> QED
    BY <1>4, <1>8, <1>9, <1>10 DEF SourceOfVolume, Reader!IInv

LEMMA OpenedInit == OInit => OInductive
  <1>. SUFFICES ASSUME OInit PROVE OInductive
    OBVIOUS
  <1>1. LInductive
    BY InitLInductive DEF OInit
  <1>2. answer # "opened"
    BY DEF OInit, LInit
  <1>3. NoSource
    BY DEF OInit, NoSource
  <1> QED
    BY <1>1, <1>2, <1>3 DEF OInductive

LEMMA OpenedStep ==
    ASSUME OInductive, [ONext]_ovars
    PROVE  OInductive'
  <1>1. CASE LayerStep
    <2>1. LInductive'
      BY <1>1, LayerStepPreserves DEF LayerStep, OInductive
    <2>2. NoSource /\ image \in Images /\ image' = image
      BY <1>1, ImageIsKept DEF LayerStep, OInductive, LInductive, UInductive
    <2>3. CASE answer' = "opened"
      <3>1. NewSource
        BY <1>1, <2>3 DEF LayerStep
      <3>2. location.primary_offset \in Nat /\ location.length \in Nat
        BY WordMaxAssumption DEF OInductive, LInductive, UInductive, TypeOK, U64
      <3> QED
        BY <2>1, <2>2, <2>3, <3>1, <3>2, NewSourcePreserves DEF OInductive
    <2>4. CASE answer' # "opened"
      <3>1. UNCHANGED svars
        BY <1>1, <2>4 DEF LayerStep
      <3>2. NoSource'
        BY <2>2, <3>1 DEF NoSource, svars
      <3> QED
        BY <2>1, <2>4, <3>2 DEF OInductive
    <2> QED
      BY <2>3, <2>4
  <1>2. CASE SourceStep
    <2>1. answer = "opened" /\ Source!Next /\ UNCHANGED vars
      BY <1>2 DEF SourceStep
    <2>2. LInductive' /\ answer' = "opened" /\ image' = image
      BY <2>1, LayerUnchanged DEF OInductive, vars, uvars, lvars
    <2>3. Reader!IInv'
      BY <2>1, SourceStepPreserves DEF OInductive, SourceOfVolume
    <2>4. size' = size /\ base' = base /\ image_len' = image_len
      BY <2>1, SourceKeepsGeometry
    <2>5. SourceOfVolume'
      BY <2>1, <2>2, <2>3, <2>4 DEF OInductive, SourceOfVolume
    <2> QED
      BY <2>2, <2>5 DEF OInductive
  <1>3. CASE UNCHANGED ovars
    <2>1. UNCHANGED vars /\ UNCHANGED svars
      BY <1>3 DEF ovars
    <2>2. LInductive' /\ answer' = answer /\ image' = image
      BY <2>1, LayerUnchanged DEF OInductive, vars, uvars, lvars
    <2>3. NoSource => NoSource'
      BY <2>1 DEF NoSource, svars
    <2>4. SourceOfVolume => SourceOfVolume'
      BY <2>1, <2>2, SourceStepPreserves DEF SourceOfVolume, svars
    <2> QED
      BY <2>2, <2>3, <2>4 DEF OInductive
  <1> QED
    BY <1>1, <1>2, <1>3 DEF ONext

\* The inductive invariant: before open succeeds there is no source, and then
\* it is one over the volume that was written.
THEOREM OpenedInvariant == OSpec => []OInductive
  <1>1. OInductive /\ [ONext]_ovars => OInductive'
    BY OpenedStep
  <1> QED
    BY <1>1, OpenedInit, PTL DEF OSpec

\* A read that returns Ok, whatever was tried before and whatever the other
\* threads do, returns the sectors the writer put there, under their own keys.
THEOREM OpenedDeliversWhatWasWritten == OSpec => []DeliveredIsWritten
  <1>1. OInductive => DeliveredIsWritten
    <2>. SUFFICES ASSUME OInductive, NEW t \in Threads, frame[t].status = "ok"
                  PROVE  LET f == frame[t]
                             there == {i \in 0 .. f.asked - 1 : f.offset + i <
                                          Sectors(image.lv_at.blocks * image.block_size)}
                         IN  /\ result.keys.vmk = FreshKey("vmk")
                             /\ result.keys.tweak_key
                                   = TweakKey(FreshKey("vmk"), image.family_uuid)
                             /\ f.region = [i \in there |->
                                   IF WrittenAt(f.offset + i) < Sectors(image.len)
                                   THEN WrittenAt(f.offset + i) ELSE Source!Garbage]
      BY DEF DeliveredIsWritten
    <2>. DEFINE f == frame[t]
                there == {i \in 0 .. f.asked - 1 : f.offset + i < size}
    <2>1. answer = "opened" /\ SourceOfVolume
      BY DEF OInductive, NoSource, Source!Idle
    <2>2. /\ result.keys.vmk = FreshKey("vmk")
          /\ result.keys.tweak_key = TweakKey(FreshKey("vmk"), image.family_uuid)
      <3>1. result.ok /\ request = image.password /\ pc = "idle" /\ image \in Images
        BY <2>1 DEF OInductive, LInductive, OpenedByARightPassword, LastError,
           LayerTypeOK, UInductive
      <3>2. result = Verdict(image, image.password)
        BY <3>1 DEF OInductive, LInductive, UInductive, Returned, Failure
      <3>3. PICK l :
              /\ IsLayout(l) /\ LaidOut(image, l)
              /\ Verdict(image, image.password)
                   = Success(build_info(image, image.lv_at.blocks * image.block_size),
                             image.lv_at.block * image.block_size,
                             [ok |-> TRUE, vmk |-> FreshKey("vmk"),
                              tweak_key |-> TweakKey(FreshKey("vmk"), image.family_uuid)])
        BY <3>1, OpenedResult
      <3> QED
        BY <3>2, <3>3 DEF Success
    <2>3. /\ f.offset \in Nat /\ f.asked \in Nat /\ size \in Nat
          /\ f.want = IF f.asked <= (IF size <= f.offset THEN 0 ELSE size - f.offset)
                      THEN f.asked ELSE (IF size <= f.offset THEN 0 ELSE size - f.offset)
          /\ f.region = [i \in 0 .. f.want - 1 |->
                            IF base + (f.offset + i) < image_len
                            THEN base + (f.offset + i) ELSE Source!Garbage]
      <3>1. /\ Reader!FrameTyped(f) /\ Reader!Exact(f) /\ size \in Nat
        BY <2>1 DEF SourceOfVolume, Reader!IInv, Reader!TypeOK,
           Reader!ConcurrentReadsAreExact
      <3>2. f.offset \in Nat /\ f.asked \in Nat
        BY <3>1, SourceInputs DEF Reader!FrameTyped
      <3> QED
        BY <3>1, <3>2 DEF Reader!Exact, Reader!Least, Reader!saturating_sub, Reader!Held,
           Reader!Garbage, Source!Garbage
    <2>4. 0 .. f.want - 1 = there
      BY <2>3
    <2>5. \A i : WrittenAt(f.offset + i) = base + (f.offset + i)
      BY <2>1 DEF WrittenAt, SourceOfVolume
    <2>6. size = Sectors(image.lv_at.blocks * image.block_size) /\ image_len = Sectors(image.len)
      BY <2>1 DEF SourceOfVolume
    <2>7. f.region = [i \in there |->
                         IF WrittenAt(f.offset + i) < Sectors(image.len)
                         THEN WrittenAt(f.offset + i) ELSE Source!Garbage]
      BY <2>3, <2>4, <2>5, <2>6
    <2> QED
      BY <2>2, <2>6, <2>7
  <1> QED
    BY <1>1, OpenedInvariant, PTL
-------------------------------------------------------------------------------
\* Threads that read do not disturb open, nor the unlocks it makes: what is
\* proved of those holds here too.
THEOREM OpenedUsesLayer == OSpec => LSpec /\ USpec
  <1>1. OInit => LInit
    BY DEF OInit
  <1>2. [ONext]_ovars => [LNext]_vars
    BY DEF ONext, LayerStep, SourceStep, ovars
  <1>3. OSpec => LSpec
    BY <1>1, <1>2, PTL DEF OSpec, LSpec
  <1> QED
    BY <1>3, LayerUsesUnlock, PTL
===============================================================================
