---------------------------- MODULE AtomicSource ----------------------------
(***************************************************************************)
(* What a shared source promises the threads that read it: each call is    *)
(* answered once, at one moment of its own, by the sectors asked for or by *)
(* a failure, and never touches the call of another thread.                *)
(***************************************************************************)
EXTENDS Integers

CONSTANTS Threads, Offsets, BufLens

VARIABLES size,       \* sectors of the logical volume
          held,       \* per logical sector what the image holds of it
          call        \* per thread: its last call

atomic_vars == <<size, held, call>>

NoData == [i \in {} |-> 0]

Answered(c, status, data) ==
    [offset |-> c.offset, asked |-> c.asked, status |-> status, data |-> data]

Request(o, n) == [offset |-> o, asked |-> n, status |-> "pending", data |-> NoData]

Contents(c) ==
    [i \in {i \in 0 .. c.asked - 1 : c.offset + i < size} |-> held[c.offset + i]]

AInit == call = [t \in Threads |->
                    [offset |-> 0, asked |-> 0, status |-> "none", data |-> NoData]]

Set(t, c) == call' = [call EXCEPT ![t] = c] /\ UNCHANGED <<size, held>>

Invoke(t) == /\ call[t].status # "pending"
             /\ \E o \in Offsets, n \in BufLens : Set(t, Request(o, n))

Answer(t) == /\ call[t].status = "pending"
             /\ \/ Set(t, Answered(call[t], "ok", Contents(call[t])))
                \/ \E e \in {"decode_error", "panic"} :
                      Set(t, Answered(call[t], e, NoData))

\* A call at or past the end of the volume may be answered as it is made.
InvokeAtEnd(t) ==
    /\ call[t].status # "pending"
    /\ \E o \in Offsets, n \in BufLens :
          o >= size /\ Set(t, Answered(Request(o, n), "ok", NoData))

ANext == \E t \in Threads : Invoke(t) \/ Answer(t) \/ InvokeAtEnd(t)

ASpec == AInit /\ [][ANext]_atomic_vars
=============================================================================
