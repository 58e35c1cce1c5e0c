--------------------------- MODULE StoreBuffers ---------------------------
(***************************************************************************)
(* The memory that the programs of lecture_examples/6_threads/8_5 and 8_6  *)
(* run on: an x86 processor keeps a thread's stores in a buffer and writes *)
(* them to the memory later, in their order; the thread itself sees them   *)
(* at once.                                                                *)
(***************************************************************************)
EXTENDS Integers, Sequences

VARIABLES mem,      \* the memory, a function from variables to values
          buf       \* of each thread, its stores on the way: <<variable, value>>

Load(t, v) ==
    LET own == {k \in DOMAIN buf[t] : buf[t][k][1] = v}
    IN  IF own = {} THEN mem[v]
        ELSE buf[t][CHOOSE k \in own : \A j \in own : j <= k][2]

Store(t, stores) == buf' = [buf EXCEPT ![t] = @ \o stores] /\ UNCHANGED mem

(* mfence, and every locked instruction, waits until the buffer is empty.  *)
Drained(t) == buf[t] = <<>>
LockedStore(t, v, x) == Drained(t) /\ mem' = [mem EXCEPT ![v] = x] /\ UNCHANGED buf

Drain(t) ==
    /\ ~Drained(t)
    /\ mem' = [mem EXCEPT ![Head(buf[t])[1]] = Head(buf[t])[2]]
    /\ buf' = [buf EXCEPT ![t] = Tail(@)]
=============================================================================
