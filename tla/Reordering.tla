---------------------------- MODULE Reordering ----------------------------
(***************************************************************************)
(* lecture_examples/6_threads/8_5_cpu_reordering.c: in every iteration one *)
(* thread sets X and reads Y, the other one sets Y and reads X, and main() *)
(* looks whether both have read 0.                                         *)
(*                                                                         *)
(* Adjacent stores of a thread are one step, since they become visible one *)
(* by one when its buffer drains; so are adjacent reads of variables that  *)
(* no longer change.                                                       *)
(***************************************************************************)
EXTENDS StoreBuffers

VARIABLES fence,        \* USE_CPU_FENCE; it never changes
          pc            \* the next step of each thread
vars == <<fence, pc, mem, buf>>

MAIN == "main"
Threads == {MAIN, "thread1", "thread2"}
Variables == {"X", "Y", "r1", "r2", "start_t1", "start_t2", "end_t1", "end_t2"}

InitWith(f) ==
    /\ fence = f
    /\ mem = [v \in Variables |-> 0]
    /\ buf = [t \in Threads |-> <<>>]
    /\ pc = [t \in Threads |-> IF t = MAIN THEN "reset" ELSE "wait"]
Init == \E f \in BOOLEAN : InitWith(f)

Goto(t, step) == pc' = [pc EXCEPT ![t] = step] /\ UNCHANGED fence

(* barrier(): mfence, or only an order to the compiler.                    *)
barrier(t) == fence => Drained(t)

(* Mutant: the barrier stands before the store.                            *)
EarlyBarrierThread(t, x, y, r, start, end) ==
    \/ /\ pc[t] = "wait" /\ Load(t, start) = 1 /\ barrier(t)
       /\ Store(t, <<<<start, 0>>, <<x, 1>>>>) /\ Goto(t, "read")
    \/ /\ pc[t] = "read"
       /\ Store(t, <<<<r, Load(t, y)>>, <<end, 1>>>>) /\ Goto(t, "wait")

(* Mutant: the thread tells its end before it takes back its start.        *)
LateResetThread(t, x, y, r, start, end) ==
    \/ /\ pc[t] = "wait" /\ Load(t, start) = 1
       /\ Store(t, <<<<x, 1>>>>) /\ Goto(t, "read")
    \/ /\ pc[t] = "read" /\ barrier(t)
       /\ Store(t, <<<<r, Load(t, y)>>, <<end, 1>>, <<start, 0>>>>) /\ Goto(t, "wait")

(* Both threads' loop: wait for the start, store, barrier, load.           *)
Thread(t, x, y, r, start, end) ==
    \/ /\ pc[t] = "wait" /\ Load(t, start) = 1
       /\ Store(t, <<<<start, 0>>, <<x, 1>>>>) /\ Goto(t, "read")
    \/ /\ pc[t] = "read" /\ barrier(t)
       /\ Store(t, <<<<r, Load(t, y)>>, <<end, 1>>>>) /\ Goto(t, "wait")
thread1_f == Thread("thread1", "X", "Y", "r1", "start_t1", "end_t1")
thread2_f == Thread("thread2", "Y", "X", "r2", "start_t2", "end_t2")

main ==
    \/ /\ pc[MAIN] = "reset"
       /\ Store(MAIN, <<<<"X", 0>>, <<"Y", 0>>, <<"start_t1", 1>>, <<"start_t2", 1>>>>)
       /\ Goto(MAIN, "wait")
    \/ /\ pc[MAIN] = "wait" /\ Load(MAIN, "end_t1") = 1 /\ Load(MAIN, "end_t2") = 1
       /\ Store(MAIN, <<<<"end_t1", 0>>, <<"end_t2", 0>>>>)
       /\ Goto(MAIN, "check")
    \/ /\ pc[MAIN] = "check" /\ Goto(MAIN, "reset")
       /\ UNCHANGED <<mem, buf>>

DrainOne(t) == Drain(t) /\ UNCHANGED <<fence, pc>>
Next == main \/ thread1_f \/ thread2_f \/ \E t \in Threads : DrainOne(t)

(* The three processors run their threads or write their stores.           *)
Fairness == /\ WF_vars(main \/ DrainOne(MAIN))
            /\ WF_vars(thread1_f \/ DrainOne("thread1"))
            /\ WF_vars(thread2_f \/ DrainOne("thread2"))
Spec == Init /\ [][Next]_vars /\ Fairness
-----------------------------------------------------------------------------
(* "Logically it is impossible, that both threads see the initial X and Y" *)
(* (lines 31 to 34): with the fence it is, in whatever order the stores of *)
(* main() and of the last iteration arrive.                                *)
NoReorderWithFence ==
    fence /\ pc[MAIN] = "check" => ~(Load(MAIN, "r1") = 0 /\ Load(MAIN, "r2") = 0)

(* The flags, each written by two threads without a lock, never lose a     *)
(* start or an end: every iteration ends.                                  *)
EveryIterationEnds == (pc[MAIN] = "wait") ~> (pc[MAIN] = "check")
=============================================================================
