----------------------------- MODULE SpinLock -----------------------------
(***************************************************************************)
(* lecture_examples/6_threads: 8_6_spinlock_acq_rel.c ("acq_rel", or "cas" *)
(* without USE_ACQUIRE_RELEASE), where every thread increments a counter   *)
(* under the lock; 7_spin_lock.c ("try") and 6_bad_lock.c ("bad"), where a *)
(* thread that finds the lock free fills a string with its letter.  They   *)
(* begin when main() has set `start`.                                      *)
(***************************************************************************)
EXTENDS StoreBuffers, FiniteSets

CONSTANTS Threads, Loops    \* 6 threads and 10000000 turns in the program

VARIABLES kind,             \* the program; it never changes
          pc, turns         \* of a thread: its next step, its turns so far
vars == <<kind, pc, turns, mem, buf>>

String == {"first", "last"} \* the letters of a string of two

InitWith(a) ==
    /\ kind = a
    /\ mem = [v \in String \cup {"lock", "counter"} |-> 0]
    /\ buf = [t \in Threads |-> <<>>]
    /\ pc = [t \in Threads |-> "lock"]
    /\ turns = [t \in Threads |-> 0]
Init == \E a \in {"acq_rel", "cas", "try", "bad"} : InitWith(a)

Counting == kind \in {"acq_rel", "cas"}
Goto(t, step) == pc' = [pc EXCEPT ![t] = step] /\ UNCHANGED kind
SameTurn == UNCHANGED turns
TurnDone(t) ==
    /\ turns' = [turns EXCEPT ![t] = @ + 1]
    /\ Goto(t, IF Counting /\ turns[t] + 1 < Loops THEN "lock" ELSE "done")

(* Mutant: spin_lock() tests the lock and sets it in two instructions.     *)
spin_lock_unlocked(t) ==
    /\ Counting /\ pc[t] = "lock" /\ Load(t, "lock") = 0
    /\ Store(t, <<<<"lock", 1>>>>)
    /\ Goto(t, "section") /\ SameTurn

(* spin_lock(): the turn of its loop that finds the lock free.             *)
spin_lock(t) ==
    /\ Counting /\ pc[t] = "lock" /\ mem["lock"] = 0
    /\ LockedStore(t, "lock", 1)
    /\ Goto(t, "section") /\ SameTurn

(* The other programs look at the lock once and leave when it is taken;    *)
(* 6_bad_lock.c takes it with a read and a store.                          *)
TryLock(t) ==
    /\ ~Counting /\ pc[t] = "lock"
    /\ \/ /\ Load(t, "lock") = 1
          /\ kind = "try" => Drained(t)
          /\ UNCHANGED <<mem, buf>> /\ TurnDone(t)
       \/ /\ kind = "try" /\ mem["lock"] = 0
          /\ LockedStore(t, "lock", 1)
          /\ Goto(t, "section") /\ SameTurn
       \/ /\ kind = "bad" /\ Load(t, "lock") = 0
          /\ Store(t, <<<<"lock", 1>>>>)
          /\ Goto(t, "section") /\ SameTurn

(* What the lock guards: ++counter, or the thread's letter everywhere.     *)
Section(t) ==
    /\ pc[t] = "section"
    /\ Store(t, IF Counting THEN <<<<"counter", Load(t, "counter") + 1>>>>
                            ELSE <<<<"first", t>>, <<"last", t>>>>)
    /\ IF kind = "bad" THEN TurnDone(t) ELSE Goto(t, "unlock") /\ SameTurn

(* A release is a plain store, which the buffer keeps behind the others;   *)
(* the compare-and-swap drains it.                                         *)
spin_unlock(t) ==
    /\ pc[t] = "unlock"
    /\ IF kind = "acq_rel" THEN Store(t, <<<<"lock", 0>>>>) ELSE LockedStore(t, "lock", 0)
    /\ TurnDone(t)

DrainOne(t) == Drain(t) /\ UNCHANGED <<kind, pc, turns>>
thread_f(t) == spin_lock(t) \/ TryLock(t) \/ Section(t) \/ spin_unlock(t)
Next == \E t \in Threads : thread_f(t) \/ DrainOne(t)
Spec == Init /\ [][Next]_vars
-----------------------------------------------------------------------------
(* When main() has joined the threads, what was under the lock is whole:   *)
(* no increment is lost, although a release is only a plain store that     *)
(* arrives later, and the string, if any thread wrote it, is one thread's. *)
(* The lock of 6_bad_lock.c does not promise it.                           *)
Joined == \A t \in Threads : pc[t] = "done" /\ Drained(t)
SectionsWhole ==
    Joined => /\ Counting => mem["counter"] = Cardinality(Threads) * Loops
              /\ kind = "try" => \E t \in Threads : \A i \in String : mem[i] = t
=============================================================================
