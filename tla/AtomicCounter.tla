--------------------------- MODULE AtomicCounter ---------------------------
(***************************************************************************)
(* lecture_examples/6_threads/5_atomic.c: threads that increment one       *)
(* counter with __sync_add_and_fetch().  It is also what the counter under *)
(* the lock of 8_futex.c promises (Futex): the same increments, and        *)
(* nothing else, happen to it.                                             *)
(***************************************************************************)
EXTENDS Integers

CONSTANTS Threads,
          Rounds        \* how often each thread increments; 100000 in 5_atomic.c

VARIABLES counter,
          done,         \* of each thread: its loop variable
          is_finished,  \* of each thread: it has left the loop
          printed       \* what main() printed at the end, or -1

vars == <<counter, done, is_finished, printed>>

Init == /\ counter = 0
        /\ done = [t \in Threads |-> 0]
        /\ is_finished = [t \in Threads |-> FALSE]
        /\ printed = -1

Add(t) == /\ done[t] < Rounds
          /\ counter' = counter + 1
          /\ done' = [done EXCEPT ![t] = @ + 1]
          /\ UNCHANGED <<is_finished, printed>>

Finish(t) == /\ done[t] = Rounds /\ ~is_finished[t]
             /\ is_finished' = [is_finished EXCEPT ![t] = TRUE]
             /\ UNCHANGED <<counter, done, printed>>

PrintCounter == /\ \A t \in Threads : is_finished[t]
                /\ printed = -1
                /\ printed' = counter
                /\ UNCHANGED <<counter, done, is_finished>>

Next == PrintCounter \/ \E t \in Threads : Add(t) \/ Finish(t)

(* Every thread is scheduled.                                              *)
Spec == /\ Init /\ [][Next]_vars
        /\ WF_vars(PrintCounter)
        /\ \A t \in Threads : WF_vars(Add(t) \/ Finish(t))
=============================================================================
