--------------------------- MODULE FileVaultSource ---------------------------
(***************************************************************************)
(* core/src/vfs.rs: FileVaultSource shares one decrypted volume between    *)
(* threads.  read_at takes &self, so threads interleave freely; they share *)
(* one reader, and with it one cursor, behind a Mutex whose poison is      *)
(* ignored.                                                                *)
(*                                                                         *)
(* The volume under the mutex is DecryptedVolume at the grain of sectors:  *)
(* offsets, lengths and sizes count sectors and a sector is read whole or  *)
(* not at all (module DecryptedVolume has the bytes).  Each thread has its *)
(* own locals; what they share is the lock and the reader.  A sector of    *)
(* the image is named by its index, a sector of plaintext by that of the   *)
(* image sector it is the decryption of.                                   *)
(***************************************************************************)
EXTENDS Integers

CONSTANTS Threads,     \* the threads that hold the DynSource
          NoThread,    \* holder of a free lock
          Sizes,       \* sizes of the logical volume
          Bases,       \* where the volume starts in the image
          ImageLens,   \* lengths of the image
          SectorMax,   \* the last sector that a u64 can address
          Offsets,     \* offsets that callers ask for
          BufLens      \* lengths of the callers' buffers

ASSUME InputAssumption == /\ NoThread \notin Threads
                          /\ SectorMax \in Nat
                          /\ Sizes \subseteq Nat
                          /\ Bases \subseteq 0 .. SectorMax
                          /\ ImageLens \subseteq 0 .. SectorMax
                          /\ Offsets \subseteq 0 .. SectorMax
                          /\ BufLens \subseteq Nat

VARIABLES size,       \* FileVaultVolume::size()
          len,        \* FileVaultSource.len
          base,       \* physical_base of the volume
          image_len,  \* length of the image behind the reader
          checks,     \* does the build panic when + overflows?
          lock,       \* holder of FileVaultSource.inner
          poisoned,   \* its poison flag
          cursor,     \* seek position of the reader under it
          frame       \* per thread: the call it is in and its locals

vars == <<size, len, base, image_len, checks, lock, poisoned, cursor, frame>>
geometry == <<size, len, base, image_len, checks>>

\* A sector that was not read: zeroes, decrypted.
Garbage == -1

Least(a, b) == IF a <= b THEN a ELSE b

NoData == [i \in {} |-> Garbage]

Idle == [pc |-> "idle", offset |-> 0, asked |-> 0, want |-> 0, filled |-> 0,
         region |-> NoData, status |-> "none"]

\* FileVaultSource::new over a volume that unlocking has just read from.
Init == /\ size \in Sizes
        /\ len = size
        /\ base \in Bases
        /\ image_len \in ImageLens
        /\ checks \in BOOLEAN
        /\ lock = NoThread
        /\ poisoned = FALSE
        /\ cursor \in 0 .. image_len
        /\ frame = [t \in Threads |-> Idle]
-----------------------------------------------------------------------------
\* A step of thread t inside its call.
Step(t, pc, want, filled, region, status) ==
    frame' = [frame EXCEPT ![t] =
                 [pc |-> pc, offset |-> frame[t].offset,
                  asked |-> frame[t].asked, want |-> want, filled |-> filled,
                  region |-> region, status |-> status]]

Goto(t, pc) == Step(t, pc, frame[t].want, frame[t].filled, frame[t].region,
                    "pending")

\* Leaving read_at's body drops the guard of the thread that holds the lock.
Reply(t, status, n, data) == /\ Step(t, "idle", n, 0, data, status)
                             /\ lock' = NoThread

\* Mutant: an ordinary subtraction.
saturating_sub_plain(a, b) == a - b

saturating_sub(a, b) == IF a <= b THEN 0 ELSE a - b

\* The request is clamped to the cached length before the lock is taken.
Call(t, o, n) ==
    LET avail == saturating_sub(len, o)
    IN  /\ frame[t].pc = "idle"
        /\ frame' = [frame EXCEPT ![t] =
              [pc |-> IF avail = 0 THEN "idle" ELSE "lock",
               offset |-> o, asked |-> n, want |-> Least(n, avail),
               filled |-> 0, region |-> NoData,
               status |-> IF avail = 0 THEN "ok" ELSE "pending"]]
        /\ UNCHANGED <<geometry, lock, poisoned, cursor>>

\* Mutant: the mutex does not exclude.
Acquire_anyway(t) == /\ frame[t].pc = "lock"
                     /\ lock' = t
                     /\ Goto(t, "enter")
                     /\ UNCHANGED <<geometry, poisoned, cursor>>

\* Mutant: lock().unwrap()
Acquire_unwrap(t) == /\ frame[t].pc = "lock"
                     /\ lock = NoThread
                     /\ IF poisoned THEN Reply(t, "panic", 0, NoData)
                        ELSE lock' = t /\ Goto(t, "enter")
                     /\ UNCHANGED <<geometry, poisoned, cursor>>

\* lock().unwrap_or_else(PoisonError::into_inner)
Acquire(t) == /\ frame[t].pc = "lock"
              /\ lock = NoThread
              /\ lock' = t
              /\ Goto(t, "enter")
              /\ UNCHANGED <<geometry, poisoned, cursor>>

Nothing(f) == f.offset >= size \/ f.want = 0

\* Mutant: the base is forgotten.
physical_at_zero(f) == f.offset

\* The unchecked sum, as it wraps in a build without overflow checks.
PhysicalOverflows(f) == base + f.offset > SectorMax
physical(f) == IF PhysicalOverflows(f) THEN base + f.offset - (SectorMax + 1)
               ELSE base + f.offset

\* DecryptedVolume::read_at, up to the seek.
Enter(t) ==
    LET f == frame[t]
        w == Least(f.want, size - f.offset)
    IN  /\ f.pc = "enter"
        /\ Nothing(f) \/ ~(checks /\ PhysicalOverflows(f))
        /\ IF Nothing(f) THEN Reply(t, "ok", 0, NoData)
           ELSE /\ Step(t, "seek", w, 0, [i \in 0 .. w - 1 |-> Garbage], "pending")
                /\ UNCHANGED lock
        /\ UNCHANGED <<geometry, poisoned, cursor>>

\* The sum overflows in a build that checks, while the lock is held.
EnterPanics(t) == /\ frame[t].pc = "enter"
                  /\ ~Nothing(frame[t])
                  /\ checks /\ PhysicalOverflows(frame[t])
                  /\ Reply(t, "panic", 0, NoData)
                  /\ poisoned' = TRUE
                  /\ UNCHANGED <<geometry, cursor>>

SeekReader(t) == /\ frame[t].pc = "seek"
                 /\ cursor' = physical(frame[t])
                 /\ Goto(t, "fill")
                 /\ UNCHANGED <<geometry, lock, poisoned>>

\* n sectors from wherever the shared cursor stands, into the thread's region.
Filled(f, n) == [i \in DOMAIN f.region |->
                    IF i \in f.filled .. f.filled + n - 1
                    THEN cursor + (i - f.filled) ELSE f.region[i]]

Fill(t, n) ==
    LET f == frame[t]
    IN  /\ f.pc = "fill"
        /\ n <= f.want - f.filled
        /\ n <= image_len - cursor
        /\ cursor' = cursor + n
        /\ Step(t, IF f.filled + n < f.want THEN "fill" ELSE "deliver",
                f.want, f.filled + n, Filled(f, n), "pending")
        /\ UNCHANGED <<geometry, lock, poisoned>>

FillSome(t) == \E n \in 1 .. frame[t].want - frame[t].filled : Fill(t, n)

FillEof(t) == /\ frame[t].pc = "fill"
              /\ cursor >= image_len
              /\ Goto(t, "deliver")
              /\ UNCHANGED <<geometry, lock, poisoned, cursor>>

\* Decryption under the sector's own number: garbage from any other place.
Plain(f) == [i \in DOMAIN f.region |->
                IF f.region[i] = base + f.offset + i THEN f.region[i] ELSE Garbage]

Deliver(t) == /\ frame[t].pc = "deliver"
              /\ Reply(t, "ok", frame[t].want, Plain(frame[t]))
              /\ UNCHANGED <<geometry, poisoned, cursor>>

\* The reader fails: FileVaultError::Io, mapped to VfsError::Decode.
ReaderFails(t) == /\ frame[t].pc \in {"seek", "fill"}
                  /\ cursor' \in {cursor, physical(frame[t])}
                  /\ Reply(t, "decode_error", 0, NoData)
                  /\ UNCHANGED <<geometry, poisoned>>

\* Mutant: the guard of a panicking thread is never dropped.
ReaderPanics_keeps_lock(t) ==
    /\ frame[t].pc \in {"seek", "fill"}
    /\ Step(t, "idle", 0, 0, NoData, "panic")
    /\ UNCHANGED <<geometry, lock, poisoned, cursor>>

\* Unwinding out of the reader drops the guard, which poisons the mutex.
ReaderPanics(t) == /\ frame[t].pc \in {"seek", "fill"}
                   /\ cursor' \in {cursor, physical(frame[t])}
                   /\ Reply(t, "panic", 0, NoData)
                   /\ poisoned' = TRUE
                   /\ UNCHANGED geometry
-----------------------------------------------------------------------------
\* The steps of a call once it has the lock and while its reader answers.
Proceed(t) == \/ Enter(t) \/ EnterPanics(t) \/ SeekReader(t)
              \/ FillSome(t) \/ FillEof(t) \/ Deliver(t)

Next == \E t \in Threads : \/ \E o \in Offsets, n \in BufLens : Call(t, o, n)
                           \/ Acquire(t)
                           \/ Proceed(t)
                           \/ ReaderFails(t)
                           \/ ReaderPanics(t)

Spec == Init /\ [][Next]_vars

(***************************************************************************)
(* The holder of the lock runs and its reader answers, and a free lock is  *)
(* given to someone who waits.  Which waiter gets it is not specified:     *)
(* std's Mutex is not fair.                                                *)
(***************************************************************************)
FairSpec == /\ Spec
            /\ \A t \in Threads : WF_vars(Proceed(t))
            /\ WF_vars(\E t \in Threads : Acquire(t))
-----------------------------------------------------------------------------
InCall == {"enter", "seek", "fill", "deliver"}

FrameTyped(f) ==
    /\ f.pc \in InCall \cup {"idle", "lock"}
    /\ f.offset \in 0 .. SectorMax /\ f.asked \in Nat
    /\ f.want \in Nat /\ f.filled \in Nat
    /\ f.status \in {"none", "pending", "ok", "decode_error", "panic"}

TypeOK ==
    /\ size \in Nat /\ len = size /\ checks \in BOOLEAN
    /\ base \in 0 .. SectorMax /\ image_len \in 0 .. SectorMax
    /\ lock \in Threads \cup {NoThread}
    /\ poisoned \in BOOLEAN
    /\ cursor \in Nat
    /\ DOMAIN frame = Threads
    /\ \A t \in Threads : FrameTyped(frame[t])

(***************************************************************************)
(* The mutex protects the reader: a thread is inside read_at's locked part *)
(* exactly when it holds the lock, and between its seek and its last read  *)
(* the shared cursor is where this thread's reads have left it, whatever   *)
(* the other threads do and however their calls ended.                     *)
(***************************************************************************)
HolderOwnsReader ==
    \A t \in Threads :
        LET f == frame[t]
        IN  /\ f.pc \in InCall <=> lock = t
            /\ f.pc \in {"fill", "deliver"} => cursor = physical(f) + f.filled

\* What the image holds of the logical sector s.
Held(s) == IF base + s < image_len THEN base + s ELSE Garbage

Exact(f) ==
    f.status = "ok" =>
        /\ f.want = Least(f.asked, saturating_sub(size, f.offset))
        /\ f.region = [i \in 0 .. f.want - 1 |-> Held(f.offset + i)]

(***************************************************************************)
(* A call that returns Ok returns the sectors its own caller asked for,    *)
(* clamped to the volume, and garbage only beyond the end of the image:    *)
(* no interleaving, failure, overflow or poisoned lock mixes up two calls. *)
(***************************************************************************)
ConcurrentReadsAreExact == \A t \in Threads : Exact(frame[t])

\* A pending call becomes a panic only in a step of the lock's holder.
PanicIsTheHolders ==
    \A t \in Threads :
        (frame[t].status = "pending" /\ frame'[t].status = "panic") => lock = t

(***************************************************************************)
(* A panic under the lock, in the reader or for an overflow, ends the call *)
(* it happened in and no other: the poison it leaves is recovered from.    *)
(***************************************************************************)
PanicStaysInItsCall == [][PanicIsTheHolders]_vars

AnsweredCall(f) ==
    [offset |-> f.offset, asked |-> f.asked, status |-> f.status,
     data |-> IF f.pc = "idle" THEN f.region ELSE NoData]

Abstract == INSTANCE AtomicSource WITH
    held <- [s \in 0 .. size - 1 |-> Held(s)],
    call <- [t \in Threads |-> AnsweredCall(frame[t])]

(***************************************************************************)
(* The source behind its mutex implements one that answers each call at    *)
(* one moment: reads of several threads can be put into an order.          *)
(***************************************************************************)
ImplementsAtomicSource == Abstract!ASpec

\* Every holder gives the lock back, by a return, an error or a panic.
LockIsReleased == \A t \in Threads : lock = t ~> lock # t
=============================================================================
