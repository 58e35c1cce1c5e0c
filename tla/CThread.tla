------------------------------ MODULE CThread ------------------------------
(***************************************************************************)
(* lecture_examples/6_threads/12_cthread_detach.c: threads on a bare       *)
(* clone(), which cannot free the stack they run on.  A destroyed thread   *)
(* leaves its stack on stack_list; a later destruction frees it, once the  *)
(* kernel has cleared the thread's tid.                                    *)
(*                                                                         *)
(* The client is main() of the example, which may also keep a thread and   *)
(* join it when all of them exist.                                         *)
(***************************************************************************)
EXTENDS Integers, Sequences, SequencesExt

CONSTANTS N,        \* how many threads main() creates; 10 in the example
          Joins     \* the client keeps and joins threads, too

ASSUME CThreadAssumption == N \in Nat /\ Joins \in BOOLEAN

Threads == 0..(N - 1)
MAIN == N
Actors == Threads \cup {MAIN}

VARIABLES
    stack_list,         \* the records of destroyed threads, latest first
    last_stack_lock,    \* protects stack_list
    lock, is_finished, is_detached,     \* of struct cthread
    tid,                \* of struct cthread_stack: is it nonzero?
    stack,              \* "none", "allocated" or "freed": stack and record
    pc,                 \* the next step of each actor
    iter, ret,          \* cthread_destroy(): the rest of the list, and the step
                        \* after its return
    i                   \* main(): the loop variable

vars == <<stack_list, last_stack_lock, lock, is_finished, is_detached, tid, stack,
          pc, iter, ret, i>>

DestroySteps == {"spin", "scan"}
RunnerSteps == {"unborn", "start", "lock", "finish", "unlock", "exiting", "gone"}
MainSteps == {"create", "created", "kept", "detach", "unlock", "join", "join_next",
              "check", "exit"}

TypeOK ==
    /\ stack_list \in Seq(Threads)
    /\ last_stack_lock \in BOOLEAN
    /\ lock \in [Threads -> BOOLEAN]
    /\ is_finished \in [Threads -> BOOLEAN]
    /\ is_detached \in [Threads -> BOOLEAN]
    /\ tid \in [Threads -> BOOLEAN]
    /\ stack \in [Threads -> {"none", "allocated", "freed"}]
    /\ pc \in [Actors -> DestroySteps \cup RunnerSteps \cup MainSteps]
    /\ \A t \in Threads : pc[t] \in DestroySteps \cup RunnerSteps
    /\ pc[MAIN] \in DestroySteps \cup MainSteps
    /\ iter \in [Actors -> Seq(Threads)]
    /\ ret \in [Actors -> {"finish", "detach", "join_next"}]
    /\ i \in 0..N

Init ==
    /\ stack_list = <<>>
    /\ last_stack_lock = FALSE
    /\ lock = [t \in Threads |-> FALSE]
    /\ is_finished = [t \in Threads |-> FALSE]
    /\ is_detached = [t \in Threads |-> FALSE]
    /\ tid = [t \in Threads |-> FALSE]
    /\ stack = [t \in Threads |-> "none"]
    /\ pc = [a \in Actors |-> IF a # MAIN THEN "unborn" ELSE IF N = 0 THEN "check" ELSE "create"]
    /\ iter = [a \in Actors |-> <<>>]
    /\ ret = [a \in Actors |-> "finish"]
    /\ i = 0

(* The process is over when main() has returned.                           *)
At(a, step) == pc[a] = step /\ pc[MAIN] # "exit"
Goto(a, step) == pc' = [pc EXCEPT ![a] = step]

-----------------------------------------------------------------------------
(* cthread_destroy(), called by actor a: by a thread for itself, by main()  *)
(* for thread i.                                                           *)
Destroyed(a) == IF a = MAIN THEN i ELSE a

CallDestroy(a, after) == Goto(a, "spin") /\ ret' = [ret EXCEPT ![a] = after]

spin_lock_list(a) ==
    /\ At(a, "spin")
    /\ ~last_stack_lock
    /\ last_stack_lock' = TRUE
    /\ iter' = [iter EXCEPT ![a] = stack_list]
    /\ Goto(a, "scan")
    /\ UNCHANGED <<stack_list, lock, is_finished, is_detached, tid, stack, ret, i>>

(* Mutant: the tid is not looked at.                                       *)
free_stack_any(a) ==
    /\ At(a, "scan")
    /\ iter[a] # <<>>
    /\ stack' = [stack EXCEPT ![Head(iter[a])] = "freed"]
    /\ iter' = [iter EXCEPT ![a] = Tail(@)]
    /\ UNCHANGED <<stack_list, last_stack_lock, lock, is_finished, is_detached, tid,
                   pc, ret, i>>

free_stack(a) ==
    /\ At(a, "scan")
    /\ iter[a] # <<>>
    /\ ~tid[Head(iter[a])]
    /\ stack' = [stack EXCEPT ![Head(iter[a])] = "freed"]
    /\ iter' = [iter EXCEPT ![a] = Tail(@)]
    /\ UNCHANGED <<stack_list, last_stack_lock, lock, is_finished, is_detached, tid,
                   pc, ret, i>>

link_stack(a) ==
    /\ At(a, "scan")
    /\ iter[a] # <<>> => tid[Head(iter[a])]
    /\ stack_list' = <<Destroyed(a)>> \o iter[a]
    /\ last_stack_lock' = FALSE
    /\ Goto(a, ret[a])
    /\ iter' = [iter EXCEPT ![a] = <<>>]
    /\ ret' = [ret EXCEPT ![a] = "finish"]
    /\ UNCHANGED <<lock, is_finished, is_detached, tid, stack, i>>

-----------------------------------------------------------------------------
(* A thread: clone(), func(), and the rest of cthread_runner().            *)

(* The kernel sets tid before the thread runs; func() returns, or comes    *)
(* back by cthread_exit().                                                 *)
func(t) ==
    /\ At(t, "start")
    /\ tid' = [tid EXCEPT ![t] = TRUE]
    /\ Goto(t, "lock")
    /\ UNCHANGED <<stack_list, last_stack_lock, lock, is_finished, is_detached, stack,
                   iter, ret, i>>

runner_lock(t) ==
    /\ At(t, "lock")
    /\ ~lock[t]
    /\ lock' = [lock EXCEPT ![t] = TRUE]
    /\ IF is_detached[t] THEN CallDestroy(t, "finish")
                         ELSE Goto(t, "finish") /\ UNCHANGED ret
    /\ UNCHANGED <<stack_list, last_stack_lock, is_finished, is_detached, tid, stack,
                   iter, i>>

runner_finish(t) ==
    /\ At(t, "finish")
    /\ is_finished' = [is_finished EXCEPT ![t] = TRUE]
    /\ Goto(t, "unlock")
    /\ UNCHANGED <<stack_list, last_stack_lock, lock, is_detached, tid, stack, iter,
                   ret, i>>

(* Mutant: cthread_runner() keeps the lock.                                *)
runner_unlock_missing(t) ==
    /\ At(t, "unlock")
    /\ Goto(t, "exiting")
    /\ UNCHANGED <<stack_list, last_stack_lock, lock, is_finished, is_detached, tid,
                   stack, iter, ret, i>>

runner_unlock(t) ==
    /\ At(t, "unlock")
    /\ lock' = [lock EXCEPT ![t] = FALSE]
    /\ Goto(t, "exiting")
    /\ UNCHANGED <<stack_list, last_stack_lock, is_finished, is_detached, tid, stack,
                   iter, ret, i>>

(* CLONE_CHILD_CLEARTID.                                                   *)
clear_tid(t) ==
    /\ At(t, "exiting")
    /\ tid' = [tid EXCEPT ![t] = FALSE]
    /\ Goto(t, "gone")
    /\ UNCHANGED <<stack_list, last_stack_lock, lock, is_finished, is_detached, stack,
                   iter, ret, i>>

-----------------------------------------------------------------------------
(* main().  The tid of a new record is whatever malloc() left there.  The  *)
(* client will detach the thread or keep it.                               *)
cthread_create ==
    /\ pc[MAIN] = "create"
    /\ stack' = [stack EXCEPT ![i] = "allocated"]
    /\ \E garbage \in BOOLEAN : tid' = [tid EXCEPT ![i] = garbage]
    /\ \E plan \in {"created"} \cup (IF Joins THEN {"kept"} ELSE {}) :
          pc' = [pc EXCEPT ![MAIN] = plan, ![i] = "start"]
    /\ UNCHANGED <<stack_list, last_stack_lock, lock, is_finished, is_detached, iter,
                   ret, i>>

(* To the next thread, or past the loop to the step `after`.               *)
NextThread(again, after) ==
    IF i + 1 < N THEN i' = i + 1 /\ Goto(MAIN, again) ELSE i' = 0 /\ Goto(MAIN, after)

(* The client leaves the thread to be joined.                              *)
keep_thread ==
    /\ pc[MAIN] = "kept"
    /\ NextThread("create", "join")
    /\ UNCHANGED <<stack_list, last_stack_lock, lock, is_finished, is_detached, tid,
                   stack, iter, ret>>

(* Mutant: cthread_detach() without the lock, as 11_cthread_bad_detach.c.  *)
detach_lock_open ==
    /\ pc[MAIN] = "created"
    /\ lock' = [lock EXCEPT ![i] = TRUE]
    /\ IF is_finished[i] THEN CallDestroy(MAIN, "detach")
                         ELSE Goto(MAIN, "detach") /\ UNCHANGED ret
    /\ UNCHANGED <<stack_list, last_stack_lock, is_finished, is_detached, tid, stack,
                   iter, i>>

detach_lock ==
    /\ pc[MAIN] = "created"
    /\ ~lock[i]
    /\ lock' = [lock EXCEPT ![i] = TRUE]
    /\ IF is_finished[i] THEN CallDestroy(MAIN, "detach")
                         ELSE Goto(MAIN, "detach") /\ UNCHANGED ret
    /\ UNCHANGED <<stack_list, last_stack_lock, is_finished, is_detached, tid, stack,
                   iter, i>>

detach_set ==
    /\ pc[MAIN] = "detach"
    /\ is_detached' = [is_detached EXCEPT ![i] = TRUE]
    /\ Goto(MAIN, "unlock")
    /\ UNCHANGED <<stack_list, last_stack_lock, lock, is_finished, tid, stack, iter,
                   ret, i>>

detach_unlock ==
    /\ pc[MAIN] = "unlock"
    /\ lock' = [lock EXCEPT ![i] = FALSE]
    /\ NextThread("create", "join")
    /\ UNCHANGED <<stack_list, last_stack_lock, is_finished, is_detached, tid, stack,
                   iter, ret>>

(* cthread_join() of a thread that was kept; sched_yield() is a wait.      *)
cthread_join ==
    /\ pc[MAIN] = "join"
    /\ ~is_detached[i]
    /\ is_finished[i]
    /\ CallDestroy(MAIN, "join_next")
    /\ UNCHANGED <<stack_list, last_stack_lock, lock, is_finished, is_detached, tid,
                   stack, iter, i>>

join_next ==
    /\ pc[MAIN] = "join_next" \/ (pc[MAIN] = "join" /\ is_detached[i])
    /\ NextThread("join", "check")
    /\ UNCHANGED <<stack_list, last_stack_lock, lock, is_finished, is_detached, tid,
                   stack, iter, ret>>

(* The last loop of main(): thread i is not finished, so i = 0, and then   *)
(* the loop's ++i.                                                         *)
check_restart ==
    /\ pc[MAIN] = "check" /\ i < N
    /\ ~is_finished[i]
    /\ i' = 0 + 1
    /\ UNCHANGED <<stack_list, last_stack_lock, lock, is_finished, is_detached, tid,
                   stack, pc, iter, ret>>

check_next ==
    /\ pc[MAIN] = "check" /\ i < N
    /\ is_finished[i]
    /\ i' = i + 1
    /\ UNCHANGED <<stack_list, last_stack_lock, lock, is_finished, is_detached, tid,
                   stack, pc, iter, ret>>

(* "detached threads finished"                                             *)
report ==
    /\ pc[MAIN] = "check" /\ i = N
    /\ Goto(MAIN, "exit")
    /\ UNCHANGED <<stack_list, last_stack_lock, lock, is_finished, is_detached, tid,
                   stack, iter, ret, i>>

ThreadStep(t) == func(t) \/ runner_lock(t) \/ runner_finish(t) \/ runner_unlock(t) \/ clear_tid(t)

MainStep == \/ cthread_create \/ keep_thread \/ detach_lock \/ detach_set
            \/ detach_unlock \/ cthread_join \/ join_next
            \/ check_restart \/ check_next \/ report

DestroyStep(a) == spin_lock_list(a) \/ free_stack(a) \/ link_stack(a)

Next == \/ MainStep
        \/ \E t \in Threads : ThreadStep(t)
        \/ \E a \in Actors : DestroyStep(a)

(* The kernel runs every thread.                                           *)
Spec == /\ Init /\ [][Next]_vars
        /\ WF_vars(MainStep \/ DestroyStep(MAIN))
        /\ \A t \in Threads : WF_vars(ThreadStep(t) \/ DestroyStep(t))
-----------------------------------------------------------------------------
Listed == ToSet(stack_list)

(* cthread_destroy() frees a stack only when its thread has left it for    *)
(* good: the thread itself destroys its record while it still runs, and    *)
(* main() does between is_finished and the thread's exit.                  *)
NoStackFreedInUse ==
    /\ \A t \in Threads : stack[t] = "freed" => pc[t] = "gone"
    /\ \A a \in Actors : pc[a] = "scan" => stack[Destroyed(a)] = "allocated"

(* Every record is put on the list at most once, and never after it was    *)
(* freed: otherwise the list would be cyclic or its stack freed twice.     *)
(* And the race of cthread_detach() with the thread's end loses no thread: *)
(* when both are done, exactly then the record was handed over.            *)
RecordOnce ==
    /\ IsInjective(stack_list)
    /\ \A a \in Actors : pc[a] \in {"spin", "scan"} => Destroyed(a) \notin Listed
    /\ last_stack_lock
         \/ \A t \in Listed : stack[t] = "allocated"
    /\ \A t \in Threads : ~lock[t] /\ is_detached[t] =>
          (t \in Listed \/ stack[t] = "freed") = is_finished[t]

(* When main() has reported "detached threads finished", they have.        *)
DetachedThreadsFinished == pc[MAIN] = "exit" => \A t \in Threads : is_finished[t]

(* main() ends: neither a lock nor a join waits for ever.                  *)
MainEnds == <>(pc[MAIN] = "exit")
=============================================================================
