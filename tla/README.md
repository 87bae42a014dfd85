# TLA+ models of filevault-forensic

`filevault-forensic` reads CoreStorage / FileVault 2 volumes: it parses an
untrusted image, decrypts the volume's metadata, derives the keys from a
password and presents the logical volume as a decrypted stream. This directory
models that path, checks it with TLC on small instances, and proves with TLAPS,
for every instance, every safety property that TLC checks and finds to hold.

## Inventory

| Part | Source | State | Operations | Hard because |
|---|---|---|---|---|
| Decrypted volume | `core/src/volume.rs`, `xts.rs` | position, base, size, the reader's seek position | `read_at`, `read`, `seek` | one call is many reads, each short, interrupted or failing; sector and AES-block boundaries; images that end early |
| VFS source | `core/src/vfs.rs` | mutex, poison flag, shared volume, cached length | `read_at(&self)` from any thread | threads share one seek position; panics poison the lock |
| VFS layer | `core/src/vfs.rs` | candidates, last error | `open` | order of candidates, transient read errors, which error is reported |
| Bootstrap | `core/src/lib.rs` | buffers and locations found so far | `unlock_with_password`, `parse_info` | image ends anywhere; the two are the same steps written twice |
| Header, metadata, segments | `core/src/volume_header.rs`, `metadata.rs`, `read.rs` | none | locating the encrypted metadata and the volume | every size, count and offset is chosen by the image |
| Encryption context | `core/src/context.rs` | scan cursor | searches in the plist | the plist is searched, not parsed |
| Key hierarchy | `core/src/unlock.rs` | none | PBKDF2, two unwraps, tweak key | a missed check turns a wrong password into garbage plaintext |
| Auditor | `forensic/src/lib.rs` | none | `audit`, `audit_path`, `audit_findings` | what it reports of a locked volume depends on every search before it, and must agree with what unlocking does |
| Image builder | `core/src/test_support.rs` | none | `build_image` | the repository tries one layout of it |

`FileVaultLayer::open` runs `unlock_with_password` once per candidate over a
fresh reader. That reads the image in four steps (header, first metadata block,
all plaintext metadata, encrypted metadata), searches the plist, derives the
keys and builds a `DecryptedVolume`. `FileVaultSource` puts it behind a mutex.
The auditor calls `parse_info`, the same way without the keys.

What makes the parts correct: a read returns the plaintext asked for or an
error, whatever the reader does; concurrent reads do not mix; only the right
password gets keys, and it is never passed over; no field of the image causes an
unbounded buffer, an unnoticed truncation or a panic; the searches end and take
the right element; a volume that was written is found where it was put; an
audit says what the metadata says. The list of hazards, each at its line and with the properties
that would catch it, is in `PROJECT.json`.

## Modules

| Module | Models | Remarks |
|---|---|---|
| `MachineWord` | Rust's checked, saturating and wrapping u64 | `WordMax` stands for `u64::MAX` |
| `PlaintextVolume` | abstract: a plaintext stream with atomic calls | what a volume promises |
| `DecryptedVolume` | `volume.rs`, `xts.rs` | one action per call and per step of `read_at`; the locals of `read_at` are operators of its arguments |
| `DecryptedVolumeProofs` | | theorems about it |
| `AtomicSource` | abstract: a source that answers each call at one moment | what a shared source promises its threads |
| `FileVaultSource` | `FileVaultSource` of `vfs.rs` over the same `read_at` | a frame of locals per thread; offsets count sectors |
| `FileVaultSourceProofs` | | theorems about it |
| `FileVaultError` | `error.rs` | the kinds of error |
| `KeyHierarchy` | `unlock.rs` | keys are terms |
| `CoreStorageMetadata` | `volume_header.rs`, `metadata.rs`, `read.rs`, `resolve_lv_extent` | operators over a record of the image's fields |
| `ContextContract` | what `context.rs` promises the rest of the library | which error the searches in the plist end in; `Unlock` takes it for the searches, `PlistScan` is shown to keep to it |
| `Unlock` | `lib.rs` | one step per read of the image; composes the three modules above |
| `UnlockProofs` | | theorems about it |
| `EncryptionLayer` | `FileVaultLayer::open` | composes `Unlock` |
| `EncryptionLayerProofs` | | theorems about it, from those of `UnlockProofs` |
| `OpenedVolume` | from `open` to a delivered sector | composes `EncryptionLayer` and `FileVaultSource`: the step in which an unlock succeeds makes the source, with the base, size and reader of that unlock; its images are written ones, whole or cut off (`VolumeAssumption`) |
| `OpenedVolumeProofs` | | theorems about it, from those of its parts |
| `PlistScan` | `context.rs` | one action per turn of a search loop; an `Option` is a set of at most one element |
| `PlistScanProofs` | | theorems about it |
| `Audit` | `forensic/src/lib.rs` | runs `PlistScan` and classifies what it found |
| `AuditProofs` | | theorems about it, from those of `PlistScanProofs` |
| `SyntheticImage` | `test_support.rs` | `build_image` for any layout; what the file fixes as constants is a parameter |
| `RoundTrip` | the images of the builder, read by `Unlock` | `IsLayout` says which layouts have room for what is written |
| `RoundTripProofs` | | theorems about it, from those of `UnlockProofs` |
| `MC*` | | small instances |

How data is abstracted:

- A byte of the image is named by its address and a byte of plaintext by its
  logical offset, so that a byte taken from the wrong place is visible.
  `decrypt_units` gives byte L back exactly if the whole AES block of L was read
  from where it belongs and decrypted under its own sector number; otherwise the
  byte is `Garbage`. This is what AES-XTS does.
- Lengths are kept, with a smaller machine word. Where the code adds without a
  check (`volume.rs:77`) the models have both outcomes a build can have, chosen
  by `OverflowChecks` and, in `FileVaultSource`, `checks`: a panic, there under
  the lock, or a sum that wraps.
- An image is a record of the fields the code reads. A field that is out of the
  buffer's range reads as 0, as in `read.rs`. The encrypted metadata's fields are
  those found in the buffer after decryption.
- `decrypt_area` of the crate xts-mode decrypts what is left behind the whole
  8192-byte units as a shorter unit, and panics if that rest is shorter than one
  AES block (`decrypt_area_panics`). The panic is a result of the call,
  `Failure("panic")`; it unwinds out of `FileVaultLayer::open`, which tries no
  further candidate.
- Keys are terms; a wrapped key opens under the key that wrapped it only. PBKDF2
  with a count of 0 is PBKDF2 with 1, as in the code.
- The plist is a sequence of keys and typed elements; a text either decodes or
  does not, and if it does the constants say to what. A search finds the next
  element of a type behind the next key of a name, wherever they are, as the
  substring search does. An element without its closing tag ends at the next
  closing tag of its type; its text is then `Markup`, which decodes to nothing.
- To `Unlock` the plist is a few fields: what its two key structs are worth,
  its iteration count, family UUID and size. `SearchesKeepContract` shows that
  the searches of `PlistScan` end as `Unlock` says they do, over plists in which
  these entries stand anywhere among others.
- `sort_unstable` is described by its contract: the same labels, in their order.
- An image carries, beside the fields the code reads, what its writer knows and
  the code does not: where the encrypted metadata and the volume really are and
  which password it has. Properties compare the code's conclusions with these.
- `Unlock` counts bytes and `FileVaultSource` sectors. `OpenedVolume` divides by
  the sector size at the moment the source is made; its images and volumes
  consist of whole sectors (`SectorAssumption`).

Bookkeeping that is not in the code: `call` (last call and result of a volume),
`seen` (results per password, other than I/O errors), `largest` (largest buffer
of a call) and `faults` (did a read fail for no reason of the image's).

## Runs

| Run | States | What it shows |
|---|---|---|
| `volume` | 45,110 | `RegionIsImagePrefix`: chunks land where they belong. `ReadsAreExact`: a read that succeeds returned the plaintext, and garbage only where the image ends. `OnlyIoErrors`: the `OutOfRange` errors of `read_at` cannot happen. `CallReturns`: the fill loop ends. `ImplementsPlaintextVolume`: the volume is an atomic stream, its position moves by what was returned. |
| `source_threads` | 72,656 | Two threads: `HolderOwnsReader`, `ConcurrentReadsAreExact`, `PanicStaysInItsCall` (poison is recovered from, also after an overflow under the lock), `LockIsReleased`. `ImplementsAtomicSource`: the calls of the threads can be put into an order in which each was answered at one moment. |
| `unlock` | 467,073 | Images with up to two altered fields: `BuffersBounded`, `TruncationIsLoud`, `DescriptorIsPointedTo`, `UnlockAgreesWithParseInfo`, `OnlyTheRightPassword`, `RetryGivesTheSameResult` (a call made again, whatever failed in between, concludes the same). Images of every layout of the builder: `WrittenVolumesAreFound`, with the place, size and keys that were written. |
| `layer` | 37,972 | Every offer of up to three credentials, failing reads anywhere: `OpenedByARightPassword`, `NoCandidateIsPassedOver`, `FailureIsReported`, `OpenReturns`. `EveryStepAdvances`: an open makes at most six steps for each candidate, whichever reads fail. |
| `opened` | 443,808 | `DeliveredIsWritten`: after any attempts to open, and with two threads reading, a read that returns Ok returns the sectors the image's writer put into the volume, garbage only where the image was cut off. |
| `plist` | 57,089 | Every plist of up to four entries: `VolumeKeyIsAesXts`, `ProtectorsInOrder`, `ScanEnds`. `SearchesKeepContract`: in a well typed plist the searches fail for the reason that `ContextContract` says, or find the iteration count and the size that `Unlock` goes on with. `EveryTurnAdvances`: each turn leaves less to search. |
| `audit` | 49,599 | Contexts with further entries behind or before them: `InventoryIgnoresOrder`, `StateIsTheFirstStatus`, `WeakVolumesAreFlagged` (by the rounds that unlocking would make). |

Five runs end in a violation, each a place where the code and its own words
disagree:

| Run | Property | Disagreement |
|---|---|---|
| `volume_panic` | `NoPanic` | `volume.rs:77` adds a base from the image without a check; the README promises `Panic-free by construction`. |
| `unlock_panic` | `UnlockIsPanicFree` | metadata whose length leaves 1 to 15 bytes behind its whole units, for example one block of 8200 bytes, makes `decrypt_area` panic (`xts.rs:30`); the README promises `Panic-free by construction`, and `xts.rs:18` that such a rest is left untouched. |
| `plist_users` | `EveryUserTypeIsListed` | `context.rs:175` promises every `UserType`; the scan stops at the first that is no u32. |
| `plist_none_key` | `VolumeKeyFollowsItsAlgorithm` | `context.rs:241` wants the key struct whose preceding algorithm is AES-XTS; the code takes the first one behind the first AES-XTS, that of a later `None` included. |
| `audit_labels` | `LabelsAreDeduped` | the test `protector_summary_is_sorted_and_deduped_labels` (`forensic/src/tests.rs:37`); `protector_summary` sorts and keeps repeated labels. |

Smaller ones were met while modelling and have no run:

- a size that is absent is 0 and not `unknown` (`context.rs:296`);
- no block size but 0 is refused, although `metadata.rs:242` speaks of a
  validated header with at least 512;
- `context.rs:197` documents a `Base64` error that nothing constructs: a blob
  that does not decode is a missing structure;
- `metadata.rs:55` and `xts.rs:19` say that only whole 8192-byte units are
  decrypted; no check makes the length one, and the tests' own image has one and
  a half;
- `volume.rs:15` subtracts the logical block at which the segment begins; the
  code decodes it (`metadata.rs:230`) and does not use it, which is the same as
  long as the single segment begins at logical block 0.

A passing property next to one of these says what the code does and no more:
`VolumeKeyIsAesXts` that the key taken is the first behind the first AES-XTS
algorithm, `InventoryIgnoresOrder` that a kind is named as often as it has users.

### Bounds

- `volume`: sectors of 4 bytes with AES blocks of 2, a word of 5 bits. Volumes
  of 0, 7 and 10 bytes end inside a sector, inside and at the end of an AES
  block; images end before, inside and behind the volume; a base is unaligned,
  another so high that the address overflows. Requests start and end in every
  kind of place and cross up to two sector boundaries. The arithmetic depends on
  positions relative to these boundaries only, and the theorems have no bound.
- `source_threads`: two threads are enough for any interference between a holder
  and another; the theorems cover any number. The volume is empty or longer than
  the image or inside it, its base low or so high that the sum overflows within
  a read. No symmetry is used, since the run checks liveness.
- `unlock`: the values of each field are zero, the boundary of each check, and
  just past it; two altered fields are enough for each check to be the first to
  fail and for pairs of lying fields (count with block size, offset with region
  size). Constants keep their order in the code (`MetadataAssumption`). The
  layouts of the builder have blocks as short as the structures allow and a
  little longer, the descriptor before the pointer to it or around, gaps or none
  between the parts, and block numbers with and without high bits. An AES block
  is 2 bytes: some layouts leave a rest of just one AES block, which is decrypted,
  and `ShortRest` one of a byte less, which panics.
- `opened`: one source, since a further call of `open` makes a source with a
  reader of its own. Volumes of one and two blocks, whole or cut off by two
  sectors, their size in the plist or in the segment map only; the offers put the
  right password last, first or nowhere among others. Threads are symmetric: the
  run checks an invariant only.
- `plist`, `audit`: two of everything that is looked for, closed or not, and up to
  three users with a `MaxProtectors` of 2 and 3, so that the cap is passed and
  just reached.

### Fairness

`CallReturns` and `OpenReturns` need the calling thread to run and the reader to
answer: weak fairness of the steps in which it does. Failing steps are never
owed, and interruptions may come any number of times but not for ever: code that
retries on `Interrupted` can promise no more. `LockIsReleased` needs the same of
each thread inside its call. Acquiring is fair only in that someone gets a free
lock, because `std::sync::Mutex` chooses no particular waiter; that each waiter
gets its turn is therefore neither claimed nor true. `ScanEnds` needs the thread
to run.

`MCPlistScan` and `MCAudit` turn the deadlock check off: an extraction or an
audit runs once and stops.

## Proofs

`DecryptedVolumeProofs` proves, for every sector size that is a multiple of the
AES block, every base, size, image length, offset, buffer and overflow mode:
`TypeOK`, `RegionIsImagePrefix`, `ReadsAreExact` and `OnlyIoErrors` are
invariants, and `Spec` implements `PlaintextVolume`. The assumptions are
`SectorAssumption` (the AES block divides the sector, the word holds a few
sectors) and `InputAssumption` (inputs are u64; a Rust slice is at most
`isize::MAX` long).

`ReadsAreExact` speaks of idle states and is not inductive alone. The invariant
is its conjunction with `RegionIsImagePrefix`, which says how far a call in
progress has come: the region is the image from `physical` on up to `filled`,
then zeroes, and it stops short only at the end of the image. From it the window
that `Deliver` copies is decrypted right (`DecryptedWindow`): an AES block lies
in one sector (`AesBlockInSectors`), the sectors of the request lie in the region
(`WindowInRegion`), so the block of every byte asked for is in the region whole,
and is genuine exactly if the image holds it. A sum that wraps finds nothing
genuine, since the image ends below the word's end (`PhysicalFacts`). The
refinement maps the steps of a call to stutters, except the first and the last.

`FileVaultSourceProofs` proves `TypeOK`, `HolderOwnsReader`,
`ConcurrentReadsAreExact` and `PanicStaysInItsCall` for any set of threads, and
that `Spec` implements `AtomicSource` (`SourceIsAtomic`). The assumption is
`InputAssumption`: bases, image lengths and offsets are sectors that a u64 can
address. The invariant adds, for each thread in a call, that its region holds
the right sectors up to `filled`; it is preserved because only the lock's holder
moves the cursor (`StepInv`, which every action cites). A sum that wraps reads
from below the image's end, but what it reads is not the sector asked for, and
the sector asked for is not in the image: both sides are garbage (`DeliverInv`).
For the refinement a thread's answer is its frame, with the region hidden until
the call returns; a step inside a call is then invisible (`Invisible`), and a
reply is the abstract answer because `ConcurrentReadsAreExact` holds after it
(`ReplyAnswers`, `ExactIsContents`).

`UnlockProofs` proves `TypeOK`, `BuffersBounded`, `TruncationIsLoud`,
`DescriptorIsPointedTo`, `UnlockAgreesWithParseInfo`, `OnlyTheRightPassword` and
`RetryGivesTheSameResult`. It rests on one idea: but for I/O errors a result is a
function of the image and the request (`Verdict`), and it is a success only if
the image holds every byte that is read (`Readable`). `UInductive` says what a
call knows before each of its reads (`HeaderKnown`, `SizeKnown`, `PlaceKnown`,
`CiphertextKnown`) and that what it left behind is the verdict; each property is
then one about `Verdict`, and the two entry points agree because their verdicts
do (`VerdictsAgree`). A length that cannot be decrypted is a panic for every
request alike (`PanicForAll`). `KeysOfThePassword` takes the two unwraps apart: keys come
out only if PBKDF2 of the request made the key that wrapped the first one.
The assumptions are `MetadataAssumption` (the order of the format's offsets),
`ImageAssumption` (the integer fields are u64, and a wrapped key is damaged or
what a writer with the volume's password made, though the image may name
another salt or count) and `RequestAssumption`.

`EncryptionLayerProofs` proves `LayerTypeOK`, `OpenedByARightPassword`,
`NoCandidateIsPassedOver` and `FailureIsReported` for offers of any length. The
invariant adds to that of `Unlock` that the candidate in hand is the one the loop
has come to, that `last_err` is the error of the last password tried, if any,
and that, unless a read failed, no right password lies behind the loop
(`RightOneIsAhead`). The last is preserved because a call that ends with no
failed read ends with the verdict (`CallEnds`). A panic ends the loop with the
right password perhaps still ahead, but then no password opens the volume
(`UnlockPanics`). `EveryStepAdvances` is proved
from a measure, `StepsLeft`: six steps for each candidate that is left, less
those its unlock has made. `LayerUsesUnlock` (`LSpec => USpec`) makes every
theorem of `UnlockProofs` one about the layer.

`PlistScanProofs` proves `TypeOK`, `VolumeKeyIsAesXts`, `ProtectorsInOrder`,
`SearchesKeepContract` and `EveryTurnAdvances` for plists of any length. A search returns the smallest match; that it is the
next key's own element in a well typed plist is `WellTypedMatch`. `SInductive`
says that the loop over the algorithms has passed no AES-XTS one, `PInductive`
that the n-th protector comes from the n-th `UserType` key: as many keys lie
before the cursor as there are protectors, so when the loop stops early it is at
the cap, or the very next user has a text that is no u32 (`LastTurn`). For the contract `CInductive`
keeps that the searches before the one in progress found whole structs; each
search then ends in the first error of the contract because it sees the first
element of its name, or the first behind the first AES-XTS algorithm
(`FirstTextIsFound`, `VolumeKeyIsBehind`). `EveryTurnAdvances` holds of plists
that are not well typed too: a match ends at its closing tag, and the cursor
goes on behind that (`TurnAdvances`). `ScanAssumption` says that
decoded numbers are numbers and that `Markup` decodes to nothing.

`AuditProofs` proves `StateIsTheFirstStatus`, `WeakVolumesAreFlagged` and
`InventoryIgnoresOrder`. `AInductive` keeps, next to `SInductive` and
`PInductive`, what the finished searches put into the context; `FindingsShape`
says which findings the list that is put together from it can hold. The
inventory takes two arguments by counting, neither of them an induction over the
list. Every user is listed once (`EveryUserOnce`): the map from protectors to
`UserType` keys is injective, since the n-th has n - 1 keys before its own, and
between sets of the same size an injection is a bijection; so each kind is
listed as often as the plist has it (`KindsAreCounted`). And sorting determines
its result (`Sorted`): in a sorted list the labels up to a rank are an initial
segment (`InitialSegment`), whose length is the number of those labels
(`Cumulative`), so that there is one sorted list at most (`SortingIsBlocks`),
and there is one (`BlocksAreSorting`).

`RoundTripProofs` proves `WrittenVolumesAreFound` for every layout: every image
of the builder holds what the reader reads (`WrittenIsReadable`), and the
metadata, the extent and the keys are found as they were written
(`MetadataIsFound`, `ExtentIsFound`, `VolumeIsFound`), a block number with high
bits among them (`LowBits`). `LayoutAssumption` asks that the parts do not
overlap, that a block holds the structures in it and that the image's addresses
fit into a u64; with less room the builder could not write the image. It also
asks that the fields of the descriptor do not lie over the type, the size or the
pointer in the same block, and that three blocks can be decrypted without a
panic. The builder's constants (descriptor at 200, blocks of 4096) satisfy both.

`OpenedVolumeProofs` proves `DeliveredIsWritten` and joins the three arguments
above: up to a successful open there is no source and the layer's invariant
holds; the step that opens makes a source whose base and size are those of the
written volume, as `VolumeIsFound` says for a cut off image too; from then on
the invariant of `FileVaultSourceProofs` holds of it, and its theorems for any
number of threads apply. `SectorAssumption` and `VolumeAssumption` restrict the
images to whole sectors and to written ones, whole or cut off anywhere.
`OpenedUsesLayer` (`OSpec => LSpec /\ USpec`) says that the readers do not
disturb the opening, so that the theorems about the layer and the unlock hold of
the whole.

Only model-checked:

- `CallReturns`, `LockIsReleased`, `OpenReturns` and `ScanEnds`: liveness under
  fairness is out of the prover's reach. The part of `OpenReturns` and `ScanEnds`
  that is not about fairness is proved: by `EveryStepAdvances` and
  `EveryTurnAdvances` the number of steps is bounded from the start, so that only
  a thread that stops taking them keeps a call from returning. A read of a
  volume has no such bound, as the reader may interrupt it any number of times.

## Not modelled

Byte layouts and little-endian decoding, base64 and integer syntax, UUID, note
and error texts; the ciphers themselves; failure of an allocation; the time that
PBKDF2 takes; `Read` and `Seek` of `FileVaultVolume`, which pass their arguments
on to the decrypted volume; fuzz targets, oracle tests and build files.

## Plan

Every module of the table above, its runs, the refinements of `PlaintextVolume`
and `AtomicSource`, the contract between `Unlock` and `PlistScan`, and the proofs
of every safety property that a passing run checks are done. The code reads a
volume of a single contiguous segment and says so (`volume.rs:2`, `lib.rs:213`).
A change of it that would ask for more: a volume of several segments, which
`OpenedVolume` and `DecryptedVolume` would have to follow segment by segment; and unlocking by
another protector than a password, which would be a further kind of candidate in
`EncryptionLayer` and a further wrapped key in `KeyHierarchy`.
