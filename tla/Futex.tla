------------------------------- MODULE Futex -------------------------------
(***************************************************************************)
(* lecture_examples/6_threads/8_futex.c: threads that increment a counter  *)
(* under a lock made of a futex word.  A step is one atomic operation, one *)
(* system call, or one access to the counter; the two system calls are the *)
(* kernel's and modelled from how they are used.                           *)
(***************************************************************************)
EXTENDS Integers

CONSTANTS Threads,
          Rounds        \* how often each thread increments; 100000 in the example

ASSUME FutexAssumption == Rounds \in Nat

VARIABLES
    start,      \* main() has created all the threads
    futex,      \* the futex word
    sleeping,   \* the threads that the kernel holds in FUTEX_WAIT
    counter,
    register,   \* of each thread: the counter, as it read it
    done,       \* of each thread: its loop variable
    pc,         \* of each thread: its next step
    printed     \* what main() printed at the end, or -1

vars == <<start, futex, sleeping, counter, register, done, pc, printed>>

Steps == {"start", "loop", "lock", "wait", "sleep", "read", "write", "unlock", "wake", "end"}

TypeOK ==
    /\ start \in BOOLEAN
    /\ futex \in {0, 1}
    /\ sleeping \in SUBSET Threads
    /\ counter \in Nat
    /\ register \in [Threads -> Nat]
    /\ done \in [Threads -> 0..Rounds]
    /\ pc \in [Threads -> Steps]
    /\ printed \in Nat \cup {-1}

Init ==
    /\ start = FALSE
    /\ futex = 0
    /\ sleeping = {}
    /\ counter = 0
    /\ register = [t \in Threads |-> 0]
    /\ done = [t \in Threads |-> 0]
    /\ pc = [t \in Threads |-> "start"]
    /\ printed = -1

Goto(t, step) == pc' = [pc EXCEPT ![t] = step]

-----------------------------------------------------------------------------
(* Mutant: FUTEX_WAIT does not compare the word.                           *)
futex_wait_blind(t) ==
    /\ pc[t] = "wait"
    /\ sleeping' = sleeping \cup {t} /\ Goto(t, "sleep")
    /\ UNCHANGED <<start, futex, counter, register, done, printed>>

(* The kernel: a thread sleeps only if the word still has the value; one   *)
(* sleeper is woken, if there is one; a signal may end the sleep.          *)
futex_wait(t) ==
    /\ pc[t] = "wait"
    /\ IF futex = 1
       THEN sleeping' = sleeping \cup {t} /\ Goto(t, "sleep")
       ELSE Goto(t, "lock") /\ UNCHANGED sleeping
    /\ UNCHANGED <<start, futex, counter, register, done, printed>>

futex_wake(t) ==
    /\ pc[t] = "wake"
    /\ IF sleeping = {}
       THEN Goto(t, "loop") /\ UNCHANGED sleeping
       ELSE \E s \in sleeping :
              /\ sleeping' = sleeping \ {s}
              /\ pc' = [pc EXCEPT ![t] = "loop", ![s] = "lock"]
    /\ UNCHANGED <<start, futex, counter, register, done, printed>>

Interrupt(t) ==
    /\ t \in sleeping
    /\ sleeping' = sleeping \ {t}
    /\ Goto(t, "lock")
    /\ UNCHANGED <<start, futex, counter, register, done, printed>>

-----------------------------------------------------------------------------
(* thread_f()                                                              *)
WaitForStart(t) ==
    /\ pc[t] = "start"
    /\ start
    /\ Goto(t, "loop")
    /\ UNCHANGED <<start, futex, sleeping, counter, register, done, printed>>

Loop(t) ==
    /\ pc[t] = "loop"
    /\ Goto(t, IF done[t] < Rounds THEN "lock" ELSE "end")
    /\ UNCHANGED <<start, futex, sleeping, counter, register, done, printed>>

(* Mutant: the word is not tested.                                         *)
futex_lock_blind(t) ==
    /\ pc[t] = "lock"
    /\ futex' = 1 /\ Goto(t, "read")
    /\ UNCHANGED <<start, sleeping, counter, register, done, printed>>

futex_lock(t) ==
    /\ pc[t] = "lock"
    /\ IF futex = 0
       THEN futex' = 1 /\ Goto(t, "read")
       ELSE Goto(t, "wait") /\ UNCHANGED futex
    /\ UNCHANGED <<start, sleeping, counter, register, done, printed>>

ReadCounter(t) ==
    /\ pc[t] = "read"
    /\ register' = [register EXCEPT ![t] = counter]
    /\ Goto(t, "write")
    /\ UNCHANGED <<start, futex, sleeping, counter, done, printed>>

WriteCounter(t) ==
    /\ pc[t] = "write"
    /\ counter' = register[t] + 1
    /\ register' = [register EXCEPT ![t] = 0]
    /\ done' = [done EXCEPT ![t] = @ + 1]
    /\ Goto(t, "unlock")
    /\ UNCHANGED <<start, futex, sleeping, printed>>

(* Mutant: futex_unlock() does not wake.                                   *)
futex_unlock_silent(t) ==
    /\ pc[t] = "unlock"
    /\ futex' = 0
    /\ Goto(t, "loop")
    /\ UNCHANGED <<start, sleeping, counter, register, done, printed>>

futex_unlock(t) ==
    /\ pc[t] = "unlock"
    /\ futex' = 0
    /\ Goto(t, "wake")
    /\ UNCHANGED <<start, sleeping, counter, register, done, printed>>

-----------------------------------------------------------------------------
(* main()                                                                  *)
StartAll ==
    /\ ~start
    /\ start' = TRUE
    /\ UNCHANGED <<futex, sleeping, counter, register, done, pc, printed>>

JoinAll ==
    /\ start
    /\ \A t \in Threads : pc[t] = "end"
    /\ printed = -1
    /\ printed' = counter
    /\ UNCHANGED <<start, futex, sleeping, counter, register, done, pc>>

ThreadStep(t) ==
    \/ WaitForStart(t) \/ Loop(t)
    \/ futex_lock(t) \/ futex_wait(t)
    \/ ReadCounter(t) \/ WriteCounter(t)
    \/ futex_unlock(t) \/ futex_wake(t)

MainStep == StartAll \/ JoinAll

Next == MainStep \/ \E t \in Threads : ThreadStep(t) \/ Interrupt(t)

(* Every thread is scheduled; no signal need come.                         *)
Spec == /\ Init /\ [][Next]_vars
        /\ WF_vars(MainStep)
        /\ \A t \in Threads : WF_vars(ThreadStep(t))
-----------------------------------------------------------------------------
Inside(t) == pc[t] \in {"read", "write", "unlock"}

(* Two threads are never between futex_lock() and futex_unlock().          *)
MutualExclusion == \A s, t \in Threads : Inside(s) /\ Inside(t) => s = t

(* No wakeup is lost: while a thread sleeps, somebody is going to wake it:  *)
(* a thread inside, one that has unlocked and not called FUTEX_WAKE yet,   *)
(* or one that was woken (or has just come) and tries the lock.            *)
NoLostWakeup ==
    sleeping # {} => \E t \in Threads : pc[t] \in {"lock", "read", "write", "unlock", "wake"}
                                        \/ (pc[t] = "wait" /\ futex = 0)

(* The counter of the lock is the atomic counter: the increments, not      *)
(* atomic by themselves, take effect one by one, none is lost, and main()  *)
(* prints after the last; every thread gets through its rounds.            *)
Atomic == INSTANCE AtomicCounter
            WITH is_finished <- [t \in Threads |-> pc[t] = "end"]

ImplementsAtomicCounter == Atomic!Spec
=============================================================================
