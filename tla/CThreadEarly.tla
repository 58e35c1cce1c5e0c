--------------------------- MODULE CThreadEarly ---------------------------
(***************************************************************************)
(* The first cthreads of lecture_examples/6_threads: 10_cthreads_1.c       *)
(* ("join"), 10_cthreads_2.c with cthread_exit() ("exit"), and             *)
(* 11_cthread_bad_detach.c with a cthread_detach() that takes no lock      *)
(* ("detach"); its client may join the thread, too.  The stores of one     *)
(* thread arrive in their order and no load waits for them, so the memory  *)
(* is the plain one.                                                       *)
(***************************************************************************)
EXTENDS Integers

CONSTANT Codes      \* what func() may return or give to cthread_exit()

VARIABLES
    version,                                    \* it never changes
    returned_code, is_finished, is_detached,    \* of struct cthread
    freed,          \* how often the thread's stack was freed
    pc,             \* the next step of main() and of the thread
    code,           \* the code that func() ended with
    retcode         \* what cthread_join() returned
vars == <<version, returned_code, is_finished, is_detached, freed, pc, code, retcode>>

NONE == -1
InitWith(v) ==
    /\ version = v
    /\ returned_code = NONE /\ code = NONE /\ retcode = NONE
    /\ is_finished = FALSE /\ is_detached = FALSE
    /\ freed = 0
    /\ pc = [main |-> "create", thread |-> "unborn"]
Init == \E v \in {"join", "exit", "detach"} : InitWith(v)

Goto(actor, step) == pc' = [pc EXCEPT ![actor] = step] /\ UNCHANGED version
cthread_destroy == freed' = freed + 1
-----------------------------------------------------------------------------
(* The thread.                                                             *)

(* func() returns a code, and the runner stores it.                        *)
func ==
    /\ pc.thread = "func"
    /\ \E c \in Codes : code' = c /\ returned_code' = c
    /\ Goto("thread", "ended")
    /\ UNCHANGED <<is_finished, is_detached, freed, retcode>>

(* Or it stores a code itself and jumps into cthread_runner(), where       *)
(* setjmp() returns again, and func() is not called again.                 *)
cthread_exit ==
    /\ version # "join"
    /\ \/ /\ pc.thread = "func"
          /\ \E c \in Codes : code' = c /\ returned_code' = c
          /\ Goto("thread", "jump")
       \/ /\ pc.thread = "jump"
          /\ Goto("thread", "ended")
          /\ UNCHANGED <<code, returned_code>>
    /\ UNCHANGED <<is_finished, is_detached, freed, retcode>>

(* After func(): the runner destroys its own thread when it is detached,   *)
(* the stack it runs on with it.                                           *)
runner_destroy ==
    /\ pc.thread = "ended"
    /\ IF is_detached THEN cthread_destroy ELSE UNCHANGED freed
    /\ Goto("thread", "finish")
    /\ UNCHANGED <<returned_code, is_finished, is_detached, code, retcode>>

runner_finish ==
    /\ pc.thread = "finish"
    /\ is_finished' = TRUE
    /\ Goto("thread", "gone")
    /\ UNCHANGED <<returned_code, is_detached, freed, code, retcode>>

cthread_runner == func \/ cthread_exit \/ runner_destroy \/ runner_finish
-----------------------------------------------------------------------------
(* main().  Only the third version looks at is_detached.                   *)
cthread_create ==
    /\ pc.main = "create"
    /\ returned_code' = 0 /\ is_finished' = FALSE /\ is_detached' = FALSE
    /\ \E plan \in {"join"} \cup (IF version = "detach" THEN {"detach"} ELSE {}) :
          pc' = [main |-> plan, thread |-> "func"]
    /\ UNCHANGED <<version, freed, code, retcode>>

cthread_join ==
    /\ pc.main = "join"
    /\ is_finished
    /\ cthread_destroy
    /\ retcode' = returned_code
    /\ Goto("main", "joined")
    /\ UNCHANGED <<returned_code, is_finished, is_detached, code>>

(* Mutant: cthread_detach() tells the thread before it looks.              *)
cthread_detach_first ==
    \/ /\ pc.main = "detach"
       /\ is_detached' = TRUE
       /\ Goto("main", "detach_set")
       /\ UNCHANGED <<returned_code, is_finished, freed, code, retcode>>
    \/ /\ pc.main = "detach_set"
       /\ IF is_finished THEN cthread_destroy ELSE UNCHANGED freed
       /\ Goto("main", "wait")
       /\ UNCHANGED <<returned_code, is_finished, is_detached, code, retcode>>

cthread_detach ==
    \/ /\ pc.main = "detach"
       /\ IF is_finished THEN cthread_destroy ELSE UNCHANGED freed
       /\ Goto("main", "detach_set")
       /\ UNCHANGED <<returned_code, is_finished, is_detached, code, retcode>>
    \/ /\ pc.main = "detach_set"
       /\ is_detached' = TRUE
       /\ Goto("main", "wait")
       /\ UNCHANGED <<returned_code, is_finished, freed, code, retcode>>

main_wait ==
    /\ pc.main = "wait"
    /\ is_finished
    /\ Goto("main", "end")
    /\ UNCHANGED <<returned_code, is_finished, is_detached, freed, code, retcode>>

Next == cthread_runner \/ cthread_create \/ cthread_join \/ cthread_detach \/ main_wait
Spec == Init /\ [][Next]_vars
-----------------------------------------------------------------------------
(* cthread_detach() and the runner each look at the flag the other one     *)
(* sets; without a lock both may miss it, or the thread may free the stack *)
(* it stands on, but never do both free it.  A join frees it once, and     *)
(* returns the code that func() ended with.                                *)
StackFreedOnce ==
    /\ freed <= 1
    /\ pc.main = "joined" => freed = 1 /\ retcode = code
=============================================================================
