------------------------------ MODULE Libcoro ------------------------------
(***************************************************************************)
(* 1/solution/libcoro.c (the same file as 1/libcoro.c): the coroutine      *)
(* list, the contexts saved by sigsetjmp and the jumps between stacks.     *)
(*                                                                         *)
(* A struct coro is named by its number in creation order, NULL by 0 and   *)
(* &coro_sched by -1; the stack a struct coro owns has the same name, and  *)
(* -1 is also the main stack.  A name is never reused: the model shows     *)
(* that no pointer to a freed structure is followed, so reusing its        *)
(* address could not be noticed.                                           *)
(*                                                                         *)
(* The signal manoeuvre that gives a new coroutine its first context is    *)
(* module CoroNew; here coro_new() is one step that leaves its result.     *)
(***************************************************************************)
EXTENDS Integers

CONSTANTS MaxCoros,     \* bound: how many coroutines a program creates
          MaxYields     \* bound: coro_yield() calls of one stack

ASSUME LibcoroAssumption == MaxCoros \in Nat /\ MaxYields \in Nat

NULL  == 0
SCHED == -1
Coros == 1..MaxCoros
Stacks == Coros \cup {SCHED}

(* Where the code on a stack is: in client code, after the sigsetjmp of    *)
(* coro_body, after the one of coro_yield_to when coro_yield or            *)
(* coro_sched_wait called it, at the head of the loop of coro_sched_wait,  *)
(* in its scan, or past the last statement of the coroutine.               *)
Places == {"none", "user", "start", "yielded", "waiting", "loop", "scan", "done"}
Suspended == {"start", "yielded", "waiting"}

VARIABLES
    next, prev,         \* the links of struct coro
    is_finished,
    switch_count,
    ctx,                \* struct coro's jmp_buf: a stack and a place on it
    life,               \* of the structure: "fresh" (not allocated), "listed",
                        \* "returned" by coro_sched_wait, "freed"
    made,               \* how many structures have been allocated
    coro_list, coro_this_ptr, is_sched_waiting,
    running,            \* the stack the thread executes on
    pc,                 \* where the code on each stack is
    from,               \* coro_yield_to's local `from` on each stack
    body,               \* coro_body's local `c` on each stack
    it,                 \* coro_sched_wait's iterator `c`
    halted              \* exit(-1) was called

structs == <<next, prev, is_finished, switch_count, ctx, life, made>>
globals == <<coro_list, coro_this_ptr, is_sched_waiting>>
thread  == <<running, pc, from, body, it, halted>>
vars    == <<structs, globals, thread>>

Pointers == Coros \cup {NULL, SCHED}
Contexts == [stack : Pointers, at : Places]

TypeOK ==
    /\ next \in [Stacks -> Coros \cup {NULL}]
    /\ prev \in [Stacks -> Coros \cup {NULL}]
    /\ is_finished \in [Stacks -> BOOLEAN]
    /\ switch_count \in [Stacks -> Nat]
    /\ ctx \in [Stacks -> Contexts]
    /\ life \in [Coros -> {"fresh", "listed", "returned", "freed"}]
    /\ made \in 0..MaxCoros
    /\ coro_list \in Coros \cup {NULL}
    /\ coro_this_ptr \in Stacks
    /\ is_sched_waiting \in BOOLEAN
    /\ running \in Stacks
    /\ pc \in [Stacks -> Places]
    /\ from \in [Stacks -> Pointers]
    /\ body \in [Stacks -> Pointers]
    /\ it \in Coros \cup {NULL}
    /\ halted \in BOOLEAN

NoContext == [stack |-> NULL, at |-> "none"]

(* The program right after coro_sched_init().                              *)
coro_sched_init ==
    /\ next = [s \in Stacks |-> NULL]
    /\ prev = [s \in Stacks |-> NULL]
    /\ is_finished = [s \in Stacks |-> FALSE]
    /\ switch_count = [s \in Stacks |-> 0]
    /\ ctx = [s \in Stacks |-> NoContext]
    /\ life = [c \in Coros |-> "fresh"]
    /\ made = 0
    /\ coro_list = NULL
    /\ coro_this_ptr = SCHED
    /\ is_sched_waiting = FALSE
    /\ running = SCHED
    /\ pc = [s \in Stacks |-> IF s = SCHED THEN "user" ELSE "none"]
    /\ from = [s \in Stacks |-> NULL]
    /\ body = [s \in Stacks |-> NULL]
    /\ it = NULL
    /\ halted = FALSE

-----------------------------------------------------------------------------
(* The list.                                                               *)

coro_list_add(c) ==
    /\ next' = [next EXCEPT ![c] = coro_list]
    /\ prev' = [s \in Stacks |-> IF s = c THEN NULL
                                 ELSE IF s = coro_list THEN c ELSE prev[s]]
    /\ coro_list' = c

(* A mutant: the back link of the next coroutine is not updated. *)
coro_list_delete_no_back(c) ==
    /\ next' = [s \in Stacks |-> IF s = prev[c] THEN next[c] ELSE next[s]]
    /\ prev' = prev
    /\ coro_list' = IF prev[c] = NULL THEN next[c] ELSE coro_list

(* A mutant: the head is moved whichever coroutine is deleted. *)
coro_list_delete_moves_head(c) ==
    /\ next' = [s \in Stacks |-> IF s = prev[c] THEN next[c] ELSE next[s]]
    /\ prev' = [s \in Stacks |-> IF s = next[c] THEN prev[c] ELSE prev[s]]
    /\ coro_list' = next[c]

coro_list_delete(c) ==
    /\ next' = [s \in Stacks |-> IF s = prev[c] THEN next[c] ELSE next[s]]
    /\ prev' = [s \in Stacks |-> IF s = next[c] THEN prev[c] ELSE prev[s]]
    /\ coro_list' = IF prev[c] = NULL THEN next[c] ELSE coro_list

-----------------------------------------------------------------------------
(* Jumps between the stacks.                                               *)

InUser == ~halted /\ pc[running] = "user"

(* siglongjmp(k, 1), the code on the present stack being left at `left`.   *)
siglongjmp(k, left) ==
    /\ running' = k.stack
    /\ pc' = [pc EXCEPT ![running] = left, ![k.stack] = k.at]

(* coro_yield_to(to) up to the jump; the caller resumes at `place`.  The   *)
(* context is saved in the structure coro_this_ptr points to, whichever    *)
(* stack this really runs on.                                              *)
coro_yield_to(to, place) ==
    LET saved == [ctx EXCEPT ![coro_this_ptr] = [stack |-> running, at |-> place]]
    IN  /\ switch_count' = [switch_count EXCEPT ![coro_this_ptr] = @ + 1]
        /\ ctx' = saved
        /\ from' = [from EXCEPT ![running] = coro_this_ptr]
        /\ siglongjmp(saved[to], place)

(* A mutant: coro_yield() always switches to the scheduler. *)
coro_yield_to_sched ==
    /\ InUser
    /\ switch_count[running] < MaxYields
    /\ coro_yield_to(SCHED, "yielded")
    /\ UNCHANGED <<next, prev, is_finished, life, made, globals, body, it, halted>>

(* coro_yield(), called by a coroutine or by main.                         *)
coro_yield ==
    /\ InUser
    /\ switch_count[running] < MaxYields
    /\ LET to == next[coro_this_ptr]
       IN  coro_yield_to(IF to = NULL THEN SCHED ELSE to, "yielded")
    /\ UNCHANGED <<next, prev, is_finished, life, made, globals, body, it, halted>>

(* A mutant: coro_this_ptr is not set again after the jump back. *)
coro_yield_return_no_this ==
    /\ ~halted
    /\ pc[running] = "yielded"
    /\ pc' = [pc EXCEPT ![running] = "user"]
    /\ UNCHANGED <<structs, globals, running, from, body, it, halted>>

(* The end of coro_yield_to() after the jump back, and of coro_yield().    *)
coro_yield_return ==
    /\ ~halted
    /\ pc[running] = "yielded"
    /\ coro_this_ptr' = from[running]
    /\ pc' = [pc EXCEPT ![running] = "user"]
    /\ UNCHANGED <<structs, coro_list, is_sched_waiting, running, from, body, it, halted>>

(* coro_body() goes on when its coroutine is resumed for the first time.   *)
coro_body_start ==
    /\ ~halted
    /\ pc[running] = "start"
    /\ coro_this_ptr' = body[running]
    /\ pc' = [pc EXCEPT ![running] = "user"]
    /\ UNCHANGED <<structs, coro_list, is_sched_waiting, running, from, body, it, halted>>

(* The coroutine's function returns to coro_body(), which has nowhere to   *)
(* return to but the scheduler.                                            *)
coro_body_finish ==
    /\ InUser
    /\ running # SCHED
    /\ is_finished' = [is_finished EXCEPT ![body[running]] = TRUE]
    /\ IF is_sched_waiting
       THEN siglongjmp(ctx[SCHED], "done") /\ UNCHANGED halted
       ELSE halted' = TRUE /\ UNCHANGED <<running, pc>>
    /\ UNCHANGED <<next, prev, switch_count, ctx, life, made, globals, from, body, it>>

-----------------------------------------------------------------------------
(* The scheduler, on the main stack.                                       *)

coro_sched_wait_call ==
    /\ InUser
    /\ running = SCHED
    /\ pc' = [pc EXCEPT ![running] = "loop"]
    /\ UNCHANGED <<structs, globals, running, from, body, it, halted>>

(* A mutant: the scan starts behind the head of the list. *)
coro_sched_wait_loop_from_second ==
    /\ ~halted
    /\ pc[running] = "loop"
    /\ pc' = [pc EXCEPT ![running] = IF coro_list = NULL THEN "user" ELSE "scan"]
    /\ it' = IF coro_list = NULL THEN NULL ELSE next[coro_list]
    /\ UNCHANGED <<structs, globals, running, from, body, halted>>

(* `while (coro_list != NULL)` and the start of the scan.                  *)
coro_sched_wait_loop ==
    /\ ~halted
    /\ pc[running] = "loop"
    /\ pc' = [pc EXCEPT ![running] = IF coro_list = NULL THEN "user" ELSE "scan"]
    /\ it' = coro_list
    /\ UNCHANGED <<structs, globals, running, from, body, halted>>

(* A mutant: the head of the list is returned whether finished or not. *)
coro_sched_wait_found_any ==
    /\ ~halted
    /\ pc[running] = "scan"
    /\ it # NULL
    /\ coro_list_delete(it)
    /\ life' = [life EXCEPT ![it] = "returned"]
    /\ pc' = [pc EXCEPT ![running] = "user"]
    /\ UNCHANGED <<is_finished, switch_count, ctx, made, coro_this_ptr,
                   is_sched_waiting, running, from, body, it, halted>>

(* The scan finds a finished coroutine, takes it out and returns it.       *)
coro_sched_wait_found ==
    /\ ~halted
    /\ pc[running] = "scan"
    /\ it # NULL
    /\ is_finished[it]
    /\ coro_list_delete(it)
    /\ life' = [life EXCEPT ![it] = "returned"]
    /\ pc' = [pc EXCEPT ![running] = "user"]
    /\ UNCHANGED <<is_finished, switch_count, ctx, made, coro_this_ptr,
                   is_sched_waiting, running, from, body, it, halted>>

coro_sched_wait_skip ==
    /\ ~halted
    /\ pc[running] = "scan"
    /\ it # NULL
    /\ ~is_finished[it]
    /\ it' = next[it]
    /\ UNCHANGED <<structs, globals, running, pc, from, body, halted>>

(* Nobody has finished: run a round from the head of the list.             *)
coro_sched_wait_switch ==
    /\ ~halted
    /\ pc[running] = "scan"
    /\ it = NULL
    /\ is_sched_waiting' = TRUE
    /\ coro_yield_to(coro_list, "waiting")
    /\ UNCHANGED <<next, prev, is_finished, life, made, coro_list, coro_this_ptr,
                   body, it, halted>>

(* A mutant: the scheduler does not set coro_this_ptr again. *)
coro_sched_wait_resume_no_this ==
    /\ ~halted
    /\ pc[running] = "waiting"
    /\ is_sched_waiting' = FALSE
    /\ pc' = [pc EXCEPT ![running] = "loop"]
    /\ UNCHANGED <<structs, coro_list, coro_this_ptr, running, from, body, it, halted>>

(* The end of coro_yield_to(), back in coro_sched_wait().                  *)
coro_sched_wait_resume ==
    /\ ~halted
    /\ pc[running] = "waiting"
    /\ coro_this_ptr' = from[running]
    /\ is_sched_waiting' = FALSE
    /\ pc' = [pc EXCEPT ![running] = "loop"]
    /\ UNCHANGED <<structs, coro_list, running, from, body, it, halted>>

-----------------------------------------------------------------------------
(* Construction and destruction, from main or from a coroutine.            *)

(* A mutant: coro_this_ptr is left NULL, as coro_body() set it. *)
coro_new_no_this ==
    LET c == made + 1
    IN  /\ InUser
        /\ c \in Coros
        /\ made' = c
        /\ life' = [life EXCEPT ![c] = "listed"]
        /\ is_finished' = [is_finished EXCEPT ![c] = FALSE]
        /\ switch_count' = [switch_count EXCEPT ![c] = 0]
        /\ ctx' = [ctx EXCEPT ![c] = [stack |-> c, at |-> "start"]]
        /\ body' = [body EXCEPT ![c] = c]
        /\ pc' = [pc EXCEPT ![c] = "start"]
        /\ coro_list_add(c)
        /\ coro_this_ptr' = NULL
        /\ UNCHANGED <<is_sched_waiting, running, from, it, halted>>

(* coro_new(): coro_this_ptr is changed and restored on the way.           *)
coro_new ==
    LET c == made + 1
    IN  /\ InUser
        /\ c \in Coros
        /\ made' = c
        /\ life' = [life EXCEPT ![c] = "listed"]
        /\ is_finished' = [is_finished EXCEPT ![c] = FALSE]
        /\ switch_count' = [switch_count EXCEPT ![c] = 0]
        /\ ctx' = [ctx EXCEPT ![c] = [stack |-> c, at |-> "start"]]
        /\ body' = [body EXCEPT ![c] = c]
        /\ pc' = [pc EXCEPT ![c] = "start"]
        /\ coro_list_add(c)
        /\ UNCHANGED <<coro_this_ptr, is_sched_waiting, running, from, it, halted>>

(* A client deletes what coro_sched_wait() returned to it.                 *)
coro_delete(c) ==
    /\ InUser
    /\ life[c] = "returned"
    /\ life' = [life EXCEPT ![c] = "freed"]
    /\ UNCHANGED <<next, prev, is_finished, switch_count, ctx, made, globals, thread>>

Init == coro_sched_init

Next == \/ coro_new
        \/ \E c \in Coros : coro_delete(c)
        \/ coro_yield
        \/ coro_yield_return
        \/ coro_body_start
        \/ coro_body_finish
        \/ coro_sched_wait_call
        \/ coro_sched_wait_loop
        \/ coro_sched_wait_found
        \/ coro_sched_wait_skip
        \/ coro_sched_wait_switch
        \/ coro_sched_wait_resume

(* One thread: it goes on while it can.  With MaxYields, this says that    *)
(* every coroutine's function returns in the end, and that main keeps      *)
(* calling coro_sched_wait().                                              *)
Spec == Init /\ [][Next]_vars /\ WF_vars(Next)
-----------------------------------------------------------------------------
Listed == {c \in Coros : life[c] = "listed"}

(* The list holds exactly the coroutines that coro_new() added and         *)
(* coro_sched_wait() has not returned, newest first, and the links agree   *)
(* in both directions, whatever order coroutines are created (also from    *)
(* inside coroutines) and finish in: no coroutine is lost from the round,  *)
(* none stays reachable after it was handed to the client.                 *)
ListWellFormed ==
    /\ \A c \in Listed :
          /\ next[c] \in Listed \cup {NULL}
          /\ next[c] < c
          /\ \A d \in Listed : d < c => d <= next[c]
          /\ prev[c] \in Listed \cup {NULL}
          /\ prev[c] # NULL => prev[c] > c
          /\ \A d \in Listed : d > c => prev[c] # NULL /\ prev[c] <= d
    /\ coro_list \in Listed \cup {NULL}
    /\ \A d \in Listed : d <= coro_list

(* Every context somebody may jump to belongs to a sigsetjmp whose frame   *)
(* has not returned: those of the suspended coroutines in the list, and    *)
(* coro_sched's whenever a coroutine runs (its owner is then inside        *)
(* coro_sched_wait, not past a coro_yield() of main, which also writes     *)
(* coro_sched.ctx).                                                        *)
ContextsAlive ==
    /\ \A c \in Listed : (c # running /\ ~is_finished[c]) =>
          /\ pc[c] \in Suspended
          /\ ctx[c] = [stack |-> c, at |-> pc[c]]
    /\ running # SCHED =>
          /\ pc[SCHED] = "waiting"
          /\ ctx[SCHED] = [stack |-> SCHED, at |-> "waiting"]

(* Client code always sees itself in coro_this(), on every path by which   *)
(* it can get control: first start, return from coro_yield(), return from  *)
(* coro_sched_wait() after any number of switches.                         *)
ThisIsRunning == InUser => coro_this_ptr = running

(* The "Critical error - no place to return!" of coro_body() cannot        *)
(* happen: when a function returns, the scheduler is waiting.              *)
NoCriticalError == ~halted

(* coro_sched_wait() gives out only coroutines whose function has          *)
(* returned, so freeing the stack in coro_delete() never pulls it from     *)
(* under suspended or running code.                                        *)
FreedStacksAreDead ==
    \A c \in Coros : life[c] \in {"returned", "freed"} =>
        is_finished[c] /\ pc[c] = "done" /\ running # c

(* "Switch to another not finished coroutine" (libcoro.h): control passes  *)
(* only to the scheduler or to an unfinished coroutine of the list, though *)
(* coro_yield() follows `next` without looking at is_finished.             *)
SwitchOnlyToUnfinished ==
    [][running' # running =>
          running' = SCHED \/ (running' \in Listed /\ ~is_finished[running'])]_vars

(* Every coroutine that was created is returned by coro_sched_wait() in    *)
(* the end, once its function runs out of yields.                          *)
EveryCoroutineReturned ==
    \A c \in Coros : (life[c] = "listed") ~> (life[c] \in {"returned", "freed"})

(* libcoro implements the abstract scheduler: the intermediate steps of    *)
(* coro_sched_wait() and of a switch are invisible there.                  *)
Abstract == INSTANCE CoroSched WITH
    live     <- Listed,
    finished <- {c \in Listed : is_finished[c]},
    turn     <- IF running # SCHED THEN running
                ELSE IF pc[SCHED] \in {"user", "yielded"} THEN 0 ELSE -1
ImplementsCoroSched == Abstract!Spec
-----------------------------------------------------------------------------
(* The inductive invariant: the parts the proofs need beside the above.    *)

(* Names are given out in order.                                           *)
FreshInv == \A c \in Coros : life[c] = "fresh" <=> c > made

(* The main stack: what is_sched_waiting and the scan have established.    *)
MainStackInv ==
    /\ next[SCHED] = NULL
    /\ pc[SCHED] \in {"user", "yielded", "loop", "scan", "waiting"}
    /\ pc[SCHED] \in {"yielded", "waiting"} => from[SCHED] = SCHED
    /\ is_sched_waiting <=> pc[SCHED] = "waiting"
    /\ running # SCHED => /\ pc[SCHED] = "waiting"
                          /\ ctx[SCHED] = [stack |-> SCHED, at |-> "waiting"]
    /\ pc[SCHED] = "scan" => /\ coro_list # NULL
                             /\ it \in Listed \cup {NULL}
                             /\ \A c \in Listed : c > it => ~is_finished[c]

(* The coroutines' stacks: a suspended one has its position in its context *)
(* and its own structure in its frame.                                     *)
CoroStacksInv ==
    /\ \A c \in Listed :
          /\ body[c] = c
          /\ pc[c] \in {"start", "user", "yielded", "done"}
          /\ is_finished[c] <=> pc[c] = "done"
          /\ pc[c] = "user" => running = c
          /\ pc[c] = "yielded" => from[c] = c
          /\ pc[c] \in {"start", "yielded"} => ctx[c] = [stack |-> c, at |-> pc[c]]
    /\ \A c \in Coros : life[c] \in {"returned", "freed"} =>
          is_finished[c] /\ pc[c] = "done"
    /\ running # SCHED => running \in Listed /\ ~is_finished[running]

ThisInv == pc[running] \in {"user", "loop", "scan"} => coro_this_ptr = running

(* At most one finished coroutine is in the list, and none while client    *)
(* code runs.                                                              *)
FinishedInv ==
    /\ (running # SCHED \/ pc[SCHED] \in {"user", "yielded"})
          => \A c \in Listed : ~is_finished[c]
    /\ \A c, d \in Listed : is_finished[c] /\ is_finished[d] => c = d

Inv == /\ TypeOK
       /\ FreshInv
       /\ ListWellFormed
       /\ MainStackInv
       /\ CoroStacksInv
       /\ ThisInv
       /\ FinishedInv
       /\ NoCriticalError
=============================================================================
