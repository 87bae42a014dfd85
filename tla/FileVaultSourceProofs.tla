------------------------ MODULE FileVaultSourceProofs ------------------------
(***************************************************************************)
(* Any number of threads may share a decrypted volume.  The inductive      *)
(* invariant adds to the ownership of the reader what each thread's own    *)
(* region holds; a step of the holder touches the cursor, a step of any    *)
(* other thread touches only its own frame.                                *)
(***************************************************************************)
EXTENDS FileVaultSource, TLAPS

\* The length of the read that f.asked at f.offset is clamped to.
Clamped(f) == Least(f.asked, saturating_sub(size, f.offset))

\* What a thread's locals hold between its call and its reply.
FrameOK(f) ==
    /\ f.pc = "idle" <=> f.status # "pending"
    /\ f.pc # "idle" => f.want = Clamped(f)
    /\ f.pc \in {"lock", "enter", "seek"} => f.filled = 0
    /\ f.pc \in {"seek", "fill", "deliver"} =>
          /\ f.region = [i \in 0 .. f.want - 1 |->
                IF i < f.filled THEN physical(f) + i ELSE Garbage]
          /\ f.filled <= f.want
          /\ f.filled > 0 => physical(f) + f.filled <= image_len
    /\ f.pc = "deliver" => \/ f.filled = f.want
                           \/ physical(f) + f.filled >= image_len

FramesOK == \A t \in Threads : FrameOK(frame[t])

IInv == TypeOK /\ HolderOwnsReader /\ FramesOK /\ ConcurrentReadsAreExact

\* A new source satisfies the invariant.
LEMMA InitInv == Init => IInv
<1> SUFFICES ASSUME Init PROVE IInv
  OBVIOUS
<1>1. /\ size \in Nat /\ len = size /\ cursor \in Nat
      /\ base \in 0 .. SectorMax /\ image_len \in 0 .. SectorMax
      /\ lock \in Threads \cup {NoThread}
      /\ DOMAIN frame = Threads
      /\ \A t \in Threads : FrameTyped(frame[t])
  BY InputAssumption DEF Init, FrameTyped, Idle, InCall
<1>2. poisoned \in BOOLEAN /\ checks \in BOOLEAN
  BY DEF Init
<1>3. HolderOwnsReader
  BY InputAssumption DEF Init, HolderOwnsReader, Idle, InCall
<1>4. FramesOK
  BY DEF Init, FramesOK, FrameOK, Idle
<1>5. ConcurrentReadsAreExact
  BY DEF Init, ConcurrentReadsAreExact, Exact, Idle
<1> QED
  BY <1>1, <1>2, <1>3, <1>4, <1>5 DEF IInv, TypeOK

\* A step of thread t keeps the invariant of every other thread: it moves
\* the lock only from or to itself, and the cursor only as the holder.
LEMMA StepInv ==
    ASSUME IInv, NEW t \in Threads, NEW g,
           frame' = [frame EXCEPT ![t] = g],
           UNCHANGED geometry, poisoned' \in BOOLEAN, cursor' \in Nat,
           \/ lock' = lock /\ cursor' = cursor
           \/ lock = t /\ lock' \in {t, NoThread}
           \/ lock = NoThread /\ lock' = t /\ cursor' = cursor,
           FrameTyped(g), FrameOK(g), Exact(g),
           g.pc \in InCall <=> lock' = t,
           g.pc \in {"fill", "deliver"} => cursor' = physical(g) + g.filled
    PROVE  IInv'
<1>1. /\ size' = size /\ len' = len /\ base' = base
      /\ image_len' = image_len /\ checks' = checks
  BY DEF geometry
<1>2. /\ DOMAIN frame' = Threads
      /\ frame'[t] = g
      /\ \A u \in Threads : u # t => frame'[u] = frame[u]
  BY DEF IInv, TypeOK
<1>3. /\ lock' \in Threads \cup {NoThread}
      /\ NoThread \notin Threads
      /\ \A u \in Threads : u # t => (lock' = u <=> lock = u)
      /\ \A u \in Threads : u # t /\ lock = u => cursor' = cursor
  BY InputAssumption DEF IInv, TypeOK
<1>4. TypeOK'
  <2>1. \A u \in Threads : FrameTyped(frame'[u])
    BY <1>2 DEF IInv, TypeOK
  <2>2. /\ size' \in Nat /\ len' = size'
        /\ base' \in 0 .. SectorMax /\ image_len' \in 0 .. SectorMax
    BY <1>1 DEF IInv, TypeOK
  <2>3. checks' \in BOOLEAN
    BY <1>1 DEF IInv, TypeOK
  <2> QED
    BY <1>2, <1>3, <2>1, <2>2, <2>3 DEF TypeOK, FrameTyped
<1>5. HolderOwnsReader'
  <2> SUFFICES ASSUME NEW u \in Threads
               PROVE  /\ frame'[u].pc \in InCall <=> lock' = u
                      /\ frame'[u].pc \in {"fill", "deliver"} =>
                            cursor' = physical(frame'[u]) + frame'[u].filled
    BY <1>1 DEF HolderOwnsReader, physical, PhysicalOverflows
  <2>1. CASE u = t
    BY <2>1, <1>2
  <2>2. CASE u # t
    <3>1. /\ frame[u].pc \in InCall <=> lock = u
          /\ frame[u].pc \in {"fill", "deliver"} =>
                cursor = physical(frame[u]) + frame[u].filled
      BY DEF IInv, HolderOwnsReader
    <3> QED
      BY <2>2, <3>1, <1>2, <1>3 DEF InCall
  <2> QED
    BY <2>1, <2>2
<1>6. FramesOK'
  <2> SUFFICES ASSUME NEW u \in Threads PROVE FrameOK(frame[u])'
    BY DEF FramesOK
  <2>1. FrameOK(frame'[u])
    BY <1>2 DEF IInv, FramesOK
  <2> QED
    BY ONLY <1>1, <2>1 DEF FrameOK, Clamped, physical, PhysicalOverflows
<1>7. ConcurrentReadsAreExact'
  <2> SUFFICES ASSUME NEW u \in Threads PROVE Exact(frame[u])'
    BY DEF ConcurrentReadsAreExact
  <2>1. Exact(frame'[u])
    BY <1>2 DEF IInv, ConcurrentReadsAreExact
  <2> QED
    BY ONLY <1>1, <2>1 DEF Exact, Held
<1> QED
  BY <1>4, <1>5, <1>6, <1>7 DEF IInv
-----------------------------------------------------------------------------
(* The steps of a thread.                                                  *)

\* What the invariant says of one thread.
LEMMA ThreadFacts ==
    ASSUME IInv, NEW t \in Threads
    PROVE  /\ FrameTyped(frame[t]) /\ FrameOK(frame[t]) /\ Exact(frame[t])
           /\ frame[t].pc \in InCall <=> lock = t
           /\ frame[t].pc \in {"fill", "deliver"} =>
                 cursor = physical(frame[t]) + frame[t].filled
           /\ size \in Nat /\ len = size /\ cursor \in Nat
           /\ base \in 0 .. SectorMax /\ image_len \in 0 .. SectorMax
           /\ image_len \in Nat /\ SectorMax \in Nat
           /\ poisoned \in BOOLEAN
           /\ t # NoThread
           /\ physical(frame[t]) \in Nat
<1>1. /\ FrameTyped(frame[t]) /\ base \in 0 .. SectorMax
      /\ image_len \in 0 .. SectorMax /\ SectorMax \in Nat
  BY InputAssumption DEF IInv, TypeOK
<1>2. physical(frame[t]) \in Nat /\ image_len \in Nat
  BY <1>1 DEF FrameTyped, physical, PhysicalOverflows
<1> QED
  BY <1>1, <1>2, InputAssumption
  DEF IInv, TypeOK, FramesOK, HolderOwnsReader, ConcurrentReadsAreExact

\* A request is clamped before the lock is taken.
LEMMA CallInv ==
    ASSUME IInv, NEW t \in Threads, NEW o \in Offsets, NEW n \in BufLens,
           Call(t, o, n)
    PROVE  IInv'
<1> DEFINE avail == saturating_sub(len, o)
           g == [pc |-> IF avail = 0 THEN "idle" ELSE "lock",
                 offset |-> o, asked |-> n, want |-> Least(n, avail),
                 filled |-> 0, region |-> NoData,
                 status |-> IF avail = 0 THEN "ok" ELSE "pending"]
<1>1. /\ frame[t].pc = "idle"
      /\ frame' = [frame EXCEPT ![t] = g]
      /\ UNCHANGED geometry /\ lock' = lock /\ poisoned' = poisoned
      /\ cursor' = cursor
  BY DEF Call
<1>2. /\ o \in Nat /\ o \in 0 .. SectorMax
      /\ n \in Nat /\ len \in Nat /\ size = len
  BY ThreadFacts, InputAssumption
<1>3. avail \in Nat /\ Least(n, avail) \in Nat
  BY <1>2 DEF saturating_sub, Least
<1>4. FrameTyped(g)
  BY <1>2, <1>3 DEF FrameTyped, InCall
<1>5. FrameOK(g)
  BY <1>2 DEF FrameOK, Clamped
<1>6. Exact(g)
  <2> SUFFICES ASSUME avail = 0 PROVE Exact(g)
    BY DEF Exact
  <2>1. Least(n, avail) = 0
    BY <1>2 DEF Least
  <2>2. NoData = [i \in 0 .. 0 - 1 |-> Held(o + i)]
    BY DEF NoData
  <2> QED
    BY <1>2, <2>1, <2>2 DEF Exact
<1>7. g.pc \notin InCall /\ lock # t
  BY <1>1, ThreadFacts DEF InCall
<1> HIDE DEF g
<1> QED
  BY <1>1, <1>4, <1>5, <1>6, <1>7, ThreadFacts, StepInv DEF InCall

\* A thread takes the free lock, poisoned or not.
LEMMA AcquireInv ==
    ASSUME IInv, NEW t \in Threads, Acquire(t)
    PROVE  IInv'
<1> DEFINE g == [pc |-> "enter", offset |-> frame[t].offset,
                 asked |-> frame[t].asked, want |-> frame[t].want,
                 filled |-> frame[t].filled, region |-> frame[t].region,
                 status |-> "pending"]
<1>1. /\ frame[t].pc = "lock" /\ lock = NoThread /\ lock' = t
      /\ frame' = [frame EXCEPT ![t] = g]
      /\ UNCHANGED geometry /\ poisoned' = poisoned /\ cursor' = cursor
  BY DEF Acquire, Goto, Step
<1>2. FrameTyped(g) /\ FrameOK(g) /\ Exact(g)
  BY <1>1, ThreadFacts DEF FrameTyped, FrameOK, Exact, Clamped, InCall
<1>3. g.pc = "enter"
  OBVIOUS
<1> HIDE DEF g
<1> QED
  BY <1>1, <1>2, <1>3, ThreadFacts, StepInv DEF InCall

\* Leaving the locked part with an exact result, an error or a panic.
LEMMA ReplyInv ==
    ASSUME IInv, NEW t \in Threads, frame[t].pc \in InCall,
           NEW status \in {"ok", "decode_error", "panic"},
           NEW n \in Nat, NEW data,
           UNCHANGED geometry, poisoned' \in BOOLEAN, cursor' \in Nat,
           Reply(t, status, n, data),
           status = "ok" =>
              /\ n = Clamped(frame[t])
              /\ data = [i \in 0 .. n - 1 |-> Held(frame[t].offset + i)]
    PROVE  IInv'
<1> DEFINE g == [pc |-> "idle", offset |-> frame[t].offset,
                 asked |-> frame[t].asked, want |-> n, filled |-> 0,
                 region |-> data, status |-> status]
<1>1. /\ frame' = [frame EXCEPT ![t] = g] /\ lock' = NoThread
  BY DEF Reply, Step
<1>2. FrameTyped(g)
  BY ThreadFacts DEF FrameTyped, InCall
<1>3. FrameOK(g)
  BY DEF FrameOK
<1>4. Exact(g)
  BY DEF Exact, Clamped
<1>5. lock = t /\ t # NoThread /\ g.pc = "idle"
  BY ThreadFacts
<1> HIDE DEF g
<1> QED
  BY <1>1, <1>2, <1>3, <1>4, <1>5, StepInv DEF InCall

\* The second clamp, to the size of the volume, changes nothing.
LEMMA EnterInv ==
    ASSUME IInv, NEW t \in Threads, Enter(t)
    PROVE  IInv'
<1> DEFINE f == frame[t]
           w == Least(f.want, size - f.offset)
           g == [pc |-> "seek", offset |-> f.offset, asked |-> f.asked,
                 want |-> w, filled |-> 0,
                 region |-> [i \in 0 .. w - 1 |-> Garbage],
                 status |-> "pending"]
<1>1. /\ f.pc = "enter" /\ UNCHANGED geometry
      /\ poisoned' = poisoned /\ cursor' = cursor
  BY DEF Enter
<1>2. /\ f.want = Clamped(f) /\ f.offset \in 0 .. SectorMax /\ f.asked \in Nat
      /\ SectorMax \in Nat /\ size \in Nat /\ cursor \in Nat
  BY <1>1, ThreadFacts DEF FrameOK, FrameTyped
<1>p. f.offset \in Nat /\ poisoned' \in BOOLEAN
  BY <1>1, <1>2, ThreadFacts
<1>3. CASE Nothing(f)
  <2>1. Clamped(f) = 0
    BY <1>2, <1>p, <1>3 DEF Nothing, Clamped, Least, saturating_sub
  <2>2. Reply(t, "ok", 0, NoData)
    BY <1>3 DEF Enter
  <2>3. NoData = [i \in 0 .. 0 - 1 |-> Held(f.offset + i)]
    BY DEF NoData
  <2>4. f.pc \in InCall /\ 0 \in Nat
    BY <1>1 DEF InCall
  <2> HIDE DEF f
  <2> QED
    BY <1>1, <1>2, <1>p, <2>1, <2>2, <2>3, <2>4, ReplyInv DEF f
<1>4. CASE ~Nothing(f)
  <2>1. w = Clamped(f) /\ w \in Nat
    BY <1>2, <1>p, <1>4 DEF Nothing, Clamped, Least, saturating_sub
  <2>2. frame' = [frame EXCEPT ![t] = g] /\ lock' = lock
    BY <1>4 DEF Enter, Step
  <2>3. lock = t /\ g.pc = "seek"
    BY <1>1, ThreadFacts DEF InCall
  <2>4. FrameTyped(g)
    BY <1>2, <2>1 DEF FrameTyped, InCall
  <2>5. /\ g.want = w /\ g.filled = 0 /\ g.status = "pending"
        /\ Clamped(g) = w
        /\ g.region = [i \in 0 .. w - 1 |->
               IF i < 0 THEN physical(g) + i ELSE Garbage]
    BY <2>1 DEF Clamped
  <2>6. FrameOK(g)
    BY <2>1, <2>3, <2>5 DEF FrameOK
  <2>7. Exact(g)
    BY DEF Exact
  <2> HIDE DEF g
  <2> QED
    BY <1>1, <1>2, <1>p, <2>2, <2>3, <2>4, <2>6, <2>7, StepInv DEF InCall
<1> QED
  BY <1>3, <1>4

\* An overflow under the lock releases it.
LEMMA EnterPanicsInv ==
    ASSUME IInv, NEW t \in Threads, EnterPanics(t)
    PROVE  IInv'
<1>1. /\ frame[t].pc \in InCall /\ UNCHANGED geometry
      /\ Reply(t, "panic", 0, NoData) /\ cursor' = cursor /\ 0 \in Nat
  BY DEF EnterPanics, InCall
<1>2. poisoned' \in BOOLEAN
  BY DEF EnterPanics
<1> QED
  BY <1>1, <1>2, ThreadFacts, ReplyInv

\* The holder places the cursor where its own offset lies in the image.
LEMMA SeekReaderInv ==
    ASSUME IInv, NEW t \in Threads, SeekReader(t)
    PROVE  IInv'
<1> DEFINE g == [pc |-> "fill", offset |-> frame[t].offset,
                 asked |-> frame[t].asked, want |-> frame[t].want,
                 filled |-> frame[t].filled, region |-> frame[t].region,
                 status |-> "pending"]
<1>1. /\ frame[t].pc = "seek" /\ cursor' = physical(frame[t])
      /\ frame' = [frame EXCEPT ![t] = g]
      /\ UNCHANGED geometry /\ poisoned' = poisoned /\ lock' = lock
  BY DEF SeekReader, Goto, Step
<1>2. physical(g) = physical(frame[t])
  BY DEF physical, PhysicalOverflows
<1>3. /\ g.pc = "fill" /\ g.filled = 0
      /\ lock = t /\ physical(g) \in Nat
  BY <1>1, <1>2, ThreadFacts DEF FrameOK, FrameTyped, InCall
<1>old. FrameTyped(frame[t]) /\ FrameOK(frame[t])
  BY ThreadFacts
<1>typed. FrameTyped(g) /\ FrameOK(g) /\ Exact(g)
  BY <1>1, <1>2, <1>old DEF FrameTyped, FrameOK, Exact, Clamped, InCall
<1> HIDE DEF g
<1>4. cursor' = physical(g) + g.filled /\ cursor' \in Nat
  BY <1>1, <1>2, <1>3
<1>5. poisoned' \in BOOLEAN
  BY <1>1, ThreadFacts
<1> QED
  BY <1>1, <1>typed, <1>3, <1>4, <1>5, StepInv DEF InCall

\* A chunk comes from where this thread's reads have left the cursor.
LEMMA FillInv ==
    ASSUME IInv, NEW t \in Threads, FillSome(t)
    PROVE  IInv'
<1> DEFINE f == frame[t]
<1>1. PICK n \in 1 .. f.want - f.filled : Fill(t, n)
  BY DEF FillSome
<1> DEFINE g == [pc |-> IF f.filled + n < f.want THEN "fill" ELSE "deliver",
                 offset |-> f.offset, asked |-> f.asked, want |-> f.want,
                 filled |-> f.filled + n, region |-> Filled(f, n),
                 status |-> "pending"]
<1>2. f.pc = "fill" /\ n <= image_len - cursor /\ cursor' = cursor + n
  BY <1>1 DEF Fill
<1>step. /\ frame' = [frame EXCEPT ![t] = g]
         /\ UNCHANGED geometry /\ poisoned' = poisoned /\ lock' = lock
  BY <1>1 DEF Fill, Step
<1>3. /\ f.want \in Nat /\ f.filled \in Nat /\ f.offset \in 0 .. SectorMax
      /\ f.asked \in Nat /\ n \in Nat /\ 1 <= n /\ f.filled + n <= f.want
      /\ cursor = physical(f) + f.filled /\ physical(f) \in Nat
      /\ image_len \in Nat
  BY <1>1, <1>2, ThreadFacts DEF FrameTyped
<1>held. lock = t /\ poisoned \in BOOLEAN
  BY <1>2, ThreadFacts DEF InCall
<1>old. /\ f.want = Clamped(f)
        /\ f.region = [i \in 0 .. f.want - 1 |->
              IF i < f.filled THEN physical(f) + i ELSE Garbage]
  BY <1>2, ThreadFacts DEF FrameOK
<1>4. Filled(f, n) = [i \in 0 .. f.want - 1 |->
            IF i < f.filled + n THEN physical(f) + i ELSE Garbage]
  BY <1>3, <1>old, SMTT(30) DEF Filled
<1>5. FrameTyped(g) /\ Exact(g)
  BY <1>3 DEF FrameTyped, Exact, InCall
<1>6. /\ g.want = f.want /\ g.filled = f.filled + n /\ g.offset = f.offset
      /\ g.status = "pending" /\ g.region = Filled(f, n)
      /\ g.asked = f.asked
      /\ g.pc \in {"fill", "deliver"}
      /\ g.pc = "deliver" => f.filled + n >= f.want
  BY <1>3
<1> HIDE DEF g
<1>7. Clamped(g) = Clamped(f) /\ physical(g) = physical(f)
  BY <1>6 DEF Clamped, physical, PhysicalOverflows
<1>8. FrameOK(g)
  <2>1. /\ g.filled <= g.want
        /\ physical(g) + g.filled <= image_len
        /\ g.pc = "deliver" => g.filled = g.want
    BY <1>2, <1>3, <1>6, <1>7
  <2>2. g.want = Clamped(g)
    BY <1>6, <1>7, <1>old
  <2>3. g.region = [i \in 0 .. g.want - 1 |->
              IF i < g.filled THEN physical(g) + i ELSE Garbage]
    BY <1>4, <1>6, <1>7
  <2> QED
    BY <1>6, <2>1, <2>2, <2>3 DEF FrameOK
<1>9. cursor' = physical(g) + g.filled /\ cursor' \in Nat
  BY <1>2, <1>3, <1>6, <1>7
<1> QED
  BY <1>step, <1>held, <1>5, <1>6, <1>8, <1>9, StepInv DEF InCall

\* The image ends before the region does.
LEMMA FillEofInv ==
    ASSUME IInv, NEW t \in Threads, FillEof(t)
    PROVE  IInv'
<1> DEFINE g == [pc |-> "deliver", offset |-> frame[t].offset,
                 asked |-> frame[t].asked, want |-> frame[t].want,
                 filled |-> frame[t].filled, region |-> frame[t].region,
                 status |-> "pending"]
<1>1. /\ frame[t].pc = "fill" /\ cursor >= image_len /\ cursor' = cursor
      /\ frame' = [frame EXCEPT ![t] = g]
      /\ UNCHANGED geometry /\ poisoned' = poisoned /\ lock' = lock
  BY DEF FillEof, Goto, Step
<1>2. /\ lock = t /\ cursor = physical(frame[t]) + frame[t].filled
      /\ physical(g) = physical(frame[t])
  BY <1>1, ThreadFacts DEF InCall, physical, PhysicalOverflows
<1>3. FrameTyped(g) /\ FrameOK(g) /\ Exact(g)
  BY <1>1, <1>2, ThreadFacts DEF FrameTyped, FrameOK, Exact, Clamped, InCall
<1>4. g.pc = "deliver" /\ g.filled = frame[t].filled
  OBVIOUS
<1> HIDE DEF g
<1> QED
  BY <1>1, <1>2, <1>3, <1>4, ThreadFacts, StepInv DEF InCall

\* The region that is delivered holds everything the image has of it.
LEMMA DeliverInv ==
    ASSUME IInv, NEW t \in Threads, Deliver(t)
    PROVE  IInv'
<1> DEFINE f == frame[t]
<1>1. /\ f.pc = "deliver" /\ Reply(t, "ok", f.want, Plain(f))
      /\ UNCHANGED geometry /\ poisoned' = poisoned /\ cursor' = cursor
  BY DEF Deliver
<1>2. /\ f.want = Clamped(f) /\ f.want \in Nat /\ f.filled \in Nat
      /\ f.offset \in Nat /\ f.filled <= f.want
      /\ f.filled > 0 => physical(f) + f.filled <= image_len
      /\ f.filled = f.want \/ physical(f) + f.filled >= image_len
      /\ f.region = [i \in 0 .. f.want - 1 |->
            IF i < f.filled THEN physical(f) + i ELSE Garbage]
      /\ f.pc \in InCall
      /\ base \in 0 .. SectorMax /\ image_len \in 0 .. SectorMax
      /\ SectorMax \in Nat
  BY <1>1, ThreadFacts, SMTT(30) DEF FrameTyped, FrameOK, InCall
<1>at. physical(f) \in Nat
  BY ThreadFacts
<1>3. Plain(f) = [i \in 0 .. f.want - 1 |-> Held(f.offset + i)]
  <2> SUFFICES ASSUME NEW i \in 0 .. f.want - 1
               PROVE  (IF f.region[i] = base + f.offset + i THEN f.region[i]
                       ELSE Garbage) = Held(f.offset + i)
    BY <1>2 DEF Plain
  <2>1. f.region[i] = IF i < f.filled THEN physical(f) + i ELSE Garbage
    BY <1>2
  <2>2. f.filled > i => physical(f) + i < image_len
    BY <1>2, <1>at
  <2>3. CASE PhysicalOverflows(f)
    <3>1. physical(f) = base + f.offset - (SectorMax + 1) /\ base + f.offset > SectorMax
      BY <2>3 DEF PhysicalOverflows, physical
    <3>2. i \in Nat /\ f.offset \in Int /\ base \in Int /\ image_len \in Int
          /\ SectorMax \in Nat /\ image_len <= SectorMax
      BY <1>2
    <3>3. f.region[i] \in {physical(f) + i, Garbage}
      BY <2>1
    <3> HIDE DEF f
    <3>4. base + (f.offset + i) >= image_len
      BY <3>1, <3>2
    <3>5. f.region[i] # base + f.offset + i
      BY <3>1, <3>2, <3>3 DEF Garbage
    <3> QED
      BY <3>2, <3>4, <3>5 DEF Held
  <2>4. CASE ~PhysicalOverflows(f)
    <3>1. physical(f) = base + f.offset
      BY <2>4 DEF physical
    <3>2. CASE i < f.filled
      <4>1. f.region[i] = base + f.offset + i /\ base + (f.offset + i) < image_len
            /\ base + (f.offset + i) = base + f.offset + i
        BY <1>2, <2>1, <2>2, <3>1, <3>2
      <4> QED
        BY <4>1 DEF Held
    <3>3. CASE ~(i < f.filled)
      <4>1. f.region[i] = Garbage
        BY <2>1, <3>3
      <4>2. i \in Nat /\ f.filled <= i /\ f.filled # f.want
        BY <1>2, <3>3
      <4>3. base + f.offset + f.filled >= image_len
        BY <1>2, <3>1, <4>2
      <4>4. base + (f.offset + i) >= image_len
        <5> HIDE DEF f
        <5>1. base \in Int /\ image_len \in Int /\ f.offset \in Int /\ f.filled \in Int
          BY <1>2
        <5> QED
          BY <4>2, <4>3, <5>1
      <4> QED
        BY <4>1, <4>4, <1>2, SMTT(30) DEF Held
    <3> QED
      BY <3>2, <3>3
  <2> QED
    BY <2>3, <2>4
<1>4. cursor' \in Nat /\ poisoned' \in BOOLEAN
  BY <1>1, ThreadFacts
<1> QED
  BY <1>1, <1>2, <1>3, <1>4, ReplyInv

\* Errors and panics of the reader release the lock.
LEMMA ReaderFailsInv ==
    ASSUME IInv, NEW t \in Threads, ReaderFails(t) \/ ReaderPanics(t)
    PROVE  IInv'
<1>1. /\ frame[t].pc \in InCall /\ UNCHANGED geometry
      /\ cursor' \in {cursor, physical(frame[t])}
  BY DEF ReaderFails, ReaderPanics, InCall
<1>2. cursor' \in Nat /\ 0 \in Nat
  BY <1>1, ThreadFacts DEF FrameTyped
<1>3. CASE ReaderFails(t)
  <2>1. Reply(t, "decode_error", 0, NoData) /\ poisoned' = poisoned
    BY <1>3 DEF ReaderFails
  <2>2. poisoned' \in BOOLEAN
    BY <2>1, ThreadFacts
  <2> QED
    BY <1>1, <1>2, <2>1, <2>2, ReplyInv
<1>4. CASE ReaderPanics(t)
  <2>1. Reply(t, "panic", 0, NoData)
    BY <1>4 DEF ReaderPanics
  <2>2. poisoned' \in BOOLEAN
    BY <1>4 DEF ReaderPanics
  <2> QED
    BY <1>1, <1>2, <2>1, <2>2, ReplyInv
<1> QED
  BY <1>3, <1>4

\* Every step preserves the invariant.
LEMMA NextInv == IInv /\ [Next]_vars => IInv'
<1> SUFFICES ASSUME IInv, [Next]_vars PROVE IInv'
  OBVIOUS
<1>1. ASSUME NEW t \in Threads, Proceed(t) PROVE IInv'
  BY <1>1, EnterInv, EnterPanicsInv, SeekReaderInv, FillInv, FillEofInv, DeliverInv DEF Proceed
<1>2. CASE UNCHANGED vars
  BY <1>2 DEF vars, IInv, TypeOK, HolderOwnsReader, FramesOK, FrameOK, Clamped,
              ConcurrentReadsAreExact, Exact, Held, physical, PhysicalOverflows
<1> QED
  BY <1>1, <1>2, CallInv, AcquireInv, ReaderFailsInv DEF Next

\* The state of a shared source is well formed, whatever its threads do.
THEOREM TypeCorrect == Spec => []TypeOK
<1>1. IInv => TypeOK
  BY DEF IInv
<1> QED
  BY <1>1, InitInv, NextInv, PTL DEF Spec

\* For any number of threads the reader is moved only by the thread that
\* holds the lock, and stands where that thread left it.
THEOREM ReaderIsOwned == Spec => []HolderOwnsReader
<1>1. IInv => HolderOwnsReader
  BY DEF IInv
<1> QED
  BY <1>1, InitInv, NextInv, PTL DEF Spec

\* For any number of threads, and after any errors and panics, a call that
\* returns Ok returns its caller's own sectors.
THEOREM ConcurrentReadsCorrect == Spec => []ConcurrentReadsAreExact
<1>1. IInv => ConcurrentReadsAreExact
  BY DEF IInv
<1> QED
  BY <1>1, InitInv, NextInv, PTL DEF Spec

\* A step that turns a pending call into a panic is one of the lock's holder.
LEMMA PanicStep == IInv /\ [Next]_vars => [PanicIsTheHolders]_vars
<1> SUFFICES ASSUME IInv, Next,
                    NEW u \in Threads,
                    frame[u].status = "pending", frame'[u].status = "panic"
             PROVE  lock = u
  BY DEF PanicIsTheHolders
<1>0. DOMAIN frame = Threads
  BY DEF IInv, TypeOK
<1>1. ASSUME NEW t \in Threads, NEW o \in Offsets, NEW n \in BufLens,
             Call(t, o, n)
      PROVE  FALSE
  BY <1>0, <1>1 DEF Call
<1>2. ASSUME NEW t \in Threads, Acquire(t) PROVE FALSE
  BY <1>0, <1>2 DEF Acquire, Goto, Step
<1>3. ASSUME NEW t \in Threads, Proceed(t), ~EnterPanics(t) PROVE FALSE
  <2>1. CASE Enter(t)
    BY <1>0, <2>1 DEF Enter, Reply, Step
  <2>2. CASE SeekReader(t)
    BY <1>0, <2>2 DEF SeekReader, Goto, Step
  <2>3. CASE FillSome(t)
    BY <1>0, <2>3 DEF FillSome, Fill, Step
  <2>4. CASE FillEof(t)
    BY <1>0, <2>4 DEF FillEof, Goto, Step
  <2>5. CASE Deliver(t)
    BY <1>0, <2>5 DEF Deliver, Reply, Step
  <2> QED
    BY <1>3, <2>1, <2>2, <2>3, <2>4, <2>5 DEF Proceed
<1>4. ASSUME NEW t \in Threads, ReaderFails(t) PROVE FALSE
  BY <1>0, <1>4 DEF ReaderFails, Reply, Step
<1>5. ASSUME NEW t \in Threads, ReaderPanics(t) \/ EnterPanics(t) PROVE lock = u
  <2>1. t = u
    BY <1>0, <1>5 DEF ReaderPanics, EnterPanics, Reply, Step
  <2>2. frame[t].pc \in InCall
    BY <1>5 DEF ReaderPanics, EnterPanics, InCall
  <2> QED
    BY <2>1, <2>2, ThreadFacts
<1> QED
  BY <1>1, <1>2, <1>3, <1>4, <1>5 DEF Next

\* For any number of threads, a panic of the reader ends only the call of
\* the thread that held the lock; the poison it leaves harms nobody.
THEOREM PanicIsContained == Spec => PanicStaysInItsCall
  BY InitInv, NextInv, PanicStep, PTL DEF Spec, PanicStaysInItsCall
\* The answers of all threads, as AtomicSource sees them.
Calls == [t \in Threads |-> AnsweredCall(frame[t])]

\* What the image holds of the volume, as AtomicSource sees it.
Volume == [s \in 0 .. size - 1 |-> Held(s)]

\* A step of thread t changes one answer and nothing of the volume.
LEMMA OneAnswer ==
    ASSUME IInv, NEW t \in Threads, NEW g, UNCHANGED geometry,
           frame' = [frame EXCEPT ![t] = g]
    PROVE  /\ Calls' = [Calls EXCEPT ![t] = AnsweredCall(g)]
           /\ Volume' = Volume /\ size' = size
<1>1. size' = size /\ base' = base /\ image_len' = image_len
  BY DEF geometry
<1>2. DOMAIN frame = Threads
  BY DEF IInv, TypeOK
<1>3. Volume' = Volume
  BY <1>1 DEF Volume, Held
<1>4. Calls' = [Calls EXCEPT ![t] = AnsweredCall(g)]
  BY <1>2 DEF Calls
<1> QED
  BY <1>1, <1>3, <1>4

\* A step inside a call is invisible.
LEMMA Invisible ==
    ASSUME IInv, NEW t \in Threads, UNCHANGED geometry,
           NEW pc \in InCall, NEW want, NEW filled, NEW region,
           frame[t].pc # "idle",
           Step(t, pc, want, filled, region, "pending")
    PROVE  UNCHANGED <<size, Volume, Calls>>
<1> DEFINE g == [pc |-> pc, offset |-> frame[t].offset,
                 asked |-> frame[t].asked, want |-> want, filled |-> filled,
                 region |-> region, status |-> "pending"]
<1>1. frame' = [frame EXCEPT ![t] = g]
  BY DEF Step
<1>2. AnsweredCall(g) = AnsweredCall(frame[t])
  BY ThreadFacts DEF AnsweredCall, FrameOK, InCall
<1> HIDE DEF g
<1>3. Calls' = [Calls EXCEPT ![t] = Calls[t]] /\ Volume' = Volume /\ size' = size
  BY <1>1, <1>2, OneAnswer DEF Calls
<1>4. Calls' = Calls
  BY <1>3 DEF Calls
<1> QED
  BY <1>3, <1>4

\* The sectors of an exact answer are the contents of the volume.
LEMMA ExactIsContents ==
    ASSUME size \in Nat, NEW f, f.offset \in Nat, f.asked \in Nat,
           f.status = "ok", Exact(f), NEW c, c.offset = f.offset, c.asked = f.asked
    PROVE  f.region = [i \in {i \in 0 .. c.asked - 1 : c.offset + i < size} |->
                          Volume[c.offset + i]]
<1>1. 0 .. f.want - 1 = {i \in 0 .. c.asked - 1 : c.offset + i < size}
  BY DEF Exact, Least, saturating_sub
<1>2. ASSUME NEW i \in 0 .. f.want - 1
      PROVE  Held(f.offset + i) = Volume[c.offset + i]
  BY <1>1, <1>2 DEF Volume
<1>3. f.region = [i \in 0 .. f.want - 1 |-> Held(f.offset + i)]
  BY DEF Exact
<1> QED
  BY <1>1, <1>2, <1>3

\* Leaving read_at's body answers the pending call.
LEMMA ReplyAnswers ==
    ASSUME IInv, IInv', NEW t \in Threads, frame[t].pc \in InCall,
           UNCHANGED geometry,
           NEW status \in {"ok", "decode_error", "panic"}, NEW n, NEW data,
           Reply(t, status, n, data), status # "ok" => data = NoData
    PROVE  Abstract!Answer(t)
<1> DEFINE g == [pc |-> "idle", offset |-> frame[t].offset,
                 asked |-> frame[t].asked, want |-> n, filled |-> 0,
                 region |-> data, status |-> status]
           c == AnsweredCall(frame[t])
<1>1. frame' = [frame EXCEPT ![t] = g]
  BY DEF Reply, Step
<1>2. /\ AnsweredCall(g) = [offset |-> c.offset, asked |-> c.asked,
                            status |-> status, data |-> data]
      /\ c.offset = g.offset /\ c.asked = g.asked /\ c = Calls[t]
      /\ g.status = status /\ g.region = data
  BY DEF AnsweredCall, Calls
<1>3. c.status = "pending"
  BY ThreadFacts DEF AnsweredCall, FrameOK, InCall
<1>4. /\ size \in Nat /\ size' = size /\ base' = base /\ image_len' = image_len
      /\ g.offset \in Nat /\ g.asked \in Nat
  BY ThreadFacts, InputAssumption DEF FrameTyped, geometry
<1>5. frame'[t] = g
  BY <1>1 DEF IInv, TypeOK
<1>6. Exact(g)
  <2>1. Exact(frame[t])'
    BY DEF IInv, ConcurrentReadsAreExact
  <2> QED
    BY <1>4, <1>5, <2>1 DEF Exact, Held
<1> HIDE DEF g, c
<1>7. /\ Calls' = [Calls EXCEPT ![t] = [offset |-> c.offset, asked |-> c.asked,
                                        status |-> status, data |-> data]]
      /\ Volume' = Volume /\ size' = size
  <2>1. /\ Calls' = [Calls EXCEPT ![t] = AnsweredCall(g)]
        /\ Volume' = Volume /\ size' = size
    BY <1>1, OneAnswer
  <2> QED
    BY <1>2, <2>1, Zenon
<1>8. CASE status = "ok"
  <2>1. data = [i \in {i \in 0 .. c.asked - 1 : c.offset + i < size} |->
                   Volume[c.offset + i]]
    <3>1. g.status = "ok" /\ c.offset = g.offset /\ c.asked = g.asked
      BY <1>2, <1>8
    <3>2. g.region = [i \in {i \in 0 .. c.asked - 1 : c.offset + i < size} |->
                         Volume[c.offset + i]]
      BY <1>4, <1>6, <3>1, ExactIsContents
    <3> QED
      BY <1>2, <3>2
  <2>2. data = Abstract!Contents(Calls[t])
    BY <1>2, <2>1 DEF Abstract!Contents, Volume
  <2> HIDE DEF Abstract!Contents
  <2> QED
    BY <1>2, <1>3, <1>7, <1>8, <2>2
    DEF Abstract!Answer, Abstract!Set, Abstract!Answered, Calls, Volume
<1>9. CASE status # "ok"
  <2>1. data = [i \in {} |-> 0]
    BY <1>9 DEF NoData
  <2> QED
    BY <1>2, <1>3, <1>7, <1>9, <2>1
    DEF Abstract!Answer, Abstract!Set, Abstract!Answered, Abstract!NoData,
        Calls, Volume
<1> QED
  BY <1>8, <1>9

\* A call is made, or made and answered at once at the end of the volume.
LEMMA CallInvokes ==
    ASSUME IInv, NEW t \in Threads, NEW o \in Offsets, NEW n \in BufLens,
           Call(t, o, n)
    PROVE  Abstract!Invoke(t) \/ Abstract!InvokeAtEnd(t)
<1> DEFINE avail == saturating_sub(len, o)
           g == [pc |-> IF avail = 0 THEN "idle" ELSE "lock",
                 offset |-> o, asked |-> n, want |-> Least(n, avail),
                 filled |-> 0, region |-> NoData,
                 status |-> IF avail = 0 THEN "ok" ELSE "pending"]
           c == [offset |-> o, asked |-> n,
                 status |-> IF avail = 0 THEN "ok" ELSE "pending",
                 data |-> Abstract!NoData]
<1>1. /\ frame[t].pc = "idle" /\ UNCHANGED geometry
      /\ frame' = [frame EXCEPT ![t] = g]
  BY DEF Call
<1>2. AnsweredCall(g) = c
  BY DEF AnsweredCall, NoData, Abstract!NoData
<1>3. Calls[t].status # "pending"
  BY <1>1, ThreadFacts DEF Calls, AnsweredCall, FrameOK
<1>4. avail = 0 => o >= size
  BY ThreadFacts, InputAssumption DEF saturating_sub
<1> HIDE DEF g
<1>5. Calls' = [Calls EXCEPT ![t] = c] /\ Volume' = Volume /\ size' = size
  <2>1. /\ Calls' = [Calls EXCEPT ![t] = AnsweredCall(g)]
        /\ Volume' = Volume /\ size' = size
    BY <1>1, OneAnswer
  <2> QED
    BY <1>2, <2>1, Zenon
<1>6. Abstract!Set(t, c)
  BY <1>5 DEF Abstract!Set, Calls, Volume
<1> HIDE DEF Abstract!Set, Abstract!NoData, avail
<1>7. CASE avail = 0
  <2>1. Abstract!Answered(Abstract!Request(o, n), "ok", Abstract!NoData) = c
    BY <1>7 DEF Abstract!Answered, Abstract!Request
  <2> QED
    BY <1>3, <1>4, <1>6, <1>7, <2>1 DEF Abstract!InvokeAtEnd, Calls
<1>8. CASE avail # 0
  <2>1. Abstract!Request(o, n) = c
    BY <1>8 DEF Abstract!Request
  <2> QED
    BY <1>3, <1>6, <2>1 DEF Abstract!Invoke, Calls
<1> QED
  BY <1>7, <1>8

\* Every step of the source is one of AtomicSource, or invisible to it.
LEMMA NextRefines == IInv /\ [Next]_vars => [Abstract!ANext]_<<size, Volume, Calls>>
<1> SUFFICES ASSUME IInv, [Next]_vars
             PROVE  Abstract!ANext \/ UNCHANGED <<size, Volume, Calls>>
  OBVIOUS
<1>0. IInv'
  BY NextInv
<1>1. ASSUME NEW t \in Threads, NEW o \in Offsets, NEW n \in BufLens,
             Call(t, o, n)
      PROVE  Abstract!ANext
  BY <1>1, CallInvokes DEF Abstract!ANext
<1>2. ASSUME NEW t \in Threads, Acquire(t) PROVE UNCHANGED <<size, Volume, Calls>>
  BY <1>2, Invisible DEF Acquire, Goto, InCall, geometry
<1>3. ASSUME NEW t \in Threads, Proceed(t)
      PROVE  Abstract!ANext \/ UNCHANGED <<size, Volume, Calls>>
  <2>0. frame[t].pc \in InCall /\ frame[t].pc # "idle" /\ UNCHANGED geometry
    BY <1>3 DEF Proceed, Enter, EnterPanics, SeekReader, FillSome, Fill, FillEof,
                Deliver, InCall
  <2>1. CASE Enter(t)
    <3>1. CASE Nothing(frame[t])
      <4>1. Reply(t, "ok", 0, NoData)
        BY <2>1, <3>1 DEF Enter
      <4> QED
        BY <1>0, <2>0, <4>1, ReplyAnswers DEF Abstract!ANext
    <3>2. CASE ~Nothing(frame[t])
      BY <2>0, <2>1, <3>2, Invisible DEF Enter, InCall
    <3> QED
      BY <3>1, <3>2
  <2>2. CASE SeekReader(t)
    BY <2>0, <2>2, Invisible DEF SeekReader, Goto, InCall
  <2>3. CASE FillSome(t)
    <3>1. PICK m \in 1 .. frame[t].want - frame[t].filled : Fill(t, m)
      BY <2>3 DEF FillSome
    <3> QED
      BY <2>0, <3>1, Invisible DEF Fill, InCall
  <2>4. CASE FillEof(t)
    BY <2>0, <2>4, Invisible DEF FillEof, Goto, InCall
  <2>5. CASE Deliver(t)
    <3>1. Reply(t, "ok", frame[t].want, Plain(frame[t]))
      BY <2>5 DEF Deliver
    <3> QED
      BY <1>0, <2>0, <3>1, ReplyAnswers DEF Abstract!ANext
  <2>6. CASE EnterPanics(t)
    <3>1. Reply(t, "panic", 0, NoData)
      BY <2>6 DEF EnterPanics
    <3> QED
      BY <1>0, <2>0, <3>1, ReplyAnswers DEF Abstract!ANext
  <2> QED
    BY <1>3, <2>1, <2>2, <2>3, <2>4, <2>5, <2>6 DEF Proceed
<1>4. ASSUME NEW t \in Threads, ReaderFails(t) \/ ReaderPanics(t)
      PROVE  Abstract!ANext
  <2>1. frame[t].pc \in InCall /\ UNCHANGED geometry
    BY <1>4 DEF ReaderFails, ReaderPanics, InCall
  <2>2. Reply(t, "decode_error", 0, NoData) \/ Reply(t, "panic", 0, NoData)
    BY <1>4 DEF ReaderFails, ReaderPanics
  <2> QED
    BY <1>0, <2>1, <2>2, ReplyAnswers DEF Abstract!ANext
<1>5. CASE UNCHANGED vars
  BY <1>5 DEF vars, Volume, Calls, Held
<1> QED
  BY <1>1, <1>2, <1>3, <1>4, <1>5 DEF Next

\* For any number of threads, the source behind its mutex implements one that
\* answers each call at one moment.
THEOREM SourceIsAtomic == Spec => ImplementsAtomicSource
<1>1. Init => Abstract!AInit
  BY DEF Init, Abstract!AInit, Abstract!NoData, AnsweredCall, Idle, NoData
<1>2. [Abstract!ANext]_<<size, Volume, Calls>> =>
         [Abstract!ANext]_(Abstract!atomic_vars)
  BY DEF Abstract!atomic_vars, Volume, Calls
<1> QED
  BY <1>1, <1>2, InitInv, NextInv, NextRefines, PTL
  DEF Spec, ImplementsAtomicSource, Abstract!ASpec
=============================================================================
