------------------------------ MODULE Condvar ------------------------------
(***************************************************************************)
(* lecture_examples/6_threads/14_condvar.c: a condition variable made of a *)
(* mutex and a flag; and 13_simple_condvar.c, its first version, which     *)
(* does not wait until the event is taken (`handshake` is FALSE).          *)
(*                                                                         *)
(* A step is one operation on the mutex with what the holder does under    *)
(* it, or one access to what others read without the mutex.                *)
(***************************************************************************)
EXTENDS Integers, FiniteSets

CONSTANTS Waiters,      \* the threads that run thread_f()
          MaxSignals    \* bound: how often main() signals

MAIN == "main"
NOBODY == "nobody"
Threads == Waiters \cup {MAIN}

VARIABLES
    handshake, hoisted,     \* the program, and how it was built; they never change
    event_lock, is_event_set, wait_count,   \* of struct condvar
    pc,                                     \* the next step of each thread
    signals,                                \* how often the flag was set by main()
    processed                               \* how often condvar_wait() has returned

program == <<handshake, hoisted>>
vars == <<program, event_lock, is_event_set, wait_count, pc, signals, processed>>

WaitSteps == {"lock", "test", "leave"}
Steps == WaitSteps \cup {"away", "idle", "set", "spin", "stuck", "relock", "join"}

TypeOK ==
    /\ handshake \in BOOLEAN
    /\ hoisted \in BOOLEAN
    /\ event_lock \in Threads \cup {NOBODY}
    /\ is_event_set \in BOOLEAN
    /\ wait_count \in 0..Cardinality(Waiters)
    /\ pc \in [Threads -> Steps]
    /\ signals \in 0..MaxSignals
    /\ processed \in 0..MaxSignals

(* condvar_create(), and all threads created.                              *)
Init ==
    /\ handshake \in BOOLEAN /\ hoisted \in BOOLEAN
    /\ event_lock = MAIN
    /\ is_event_set = FALSE
    /\ wait_count = 0
    /\ pc = [t \in Threads |-> IF t = MAIN THEN "idle" ELSE "away"]
    /\ signals = 0
    /\ processed = 0

Goto(t, step) == pc' = [pc EXCEPT ![t] = step]

-----------------------------------------------------------------------------
(* condvar_signal(), called by main() for every character of its input.    *)
signal_count ==
    /\ pc[MAIN] = "idle"
    /\ signals < MaxSignals
    /\ handshake => wait_count # 0       \* "no waiters"
    /\ Goto(MAIN, "set")
    /\ UNCHANGED <<program, event_lock, is_event_set, wait_count, signals, processed>>

(* Mutant: the handshake of 14_condvar.c is left out.                      *)
signal_set_no_spin ==
    /\ pc[MAIN] = "set"
    /\ is_event_set' = TRUE
    /\ signals' = signals + 1
    /\ event_lock' = NOBODY
    /\ Goto(MAIN, "relock")
    /\ UNCHANGED <<program, wait_count, processed>>

signal_set ==
    /\ pc[MAIN] = "set"
    /\ is_event_set' = TRUE
    /\ signals' = signals + 1
    /\ event_lock' = NOBODY
    /\ Goto(MAIN, IF handshake THEN "spin" ELSE "relock")
    /\ UNCHANGED <<program, wait_count, processed>>

(* The flag is neither atomic nor volatile: a compiler may turn the loop   *)
(* into one test and an endless loop.                                      *)
signal_spin ==
    /\ pc[MAIN] = "spin"
    /\ \/ ~is_event_set /\ Goto(MAIN, "relock")
       \/ hoisted /\ is_event_set /\ Goto(MAIN, "stuck")
    /\ UNCHANGED <<program, event_lock, is_event_set, wait_count, signals, processed>>

signal_relock ==
    /\ pc[MAIN] = "relock"
    /\ event_lock = NOBODY
    /\ event_lock' = MAIN
    /\ is_event_set' = FALSE
    /\ Goto(MAIN, "idle")
    /\ UNCHANGED <<program, wait_count, signals, processed>>

(* The input ends; the threads that main() joins never do.                 *)
JoinThreads ==
    /\ pc[MAIN] = "idle"
    /\ Goto(MAIN, "join")
    /\ UNCHANGED <<program, event_lock, is_event_set, wait_count, signals, processed>>

-----------------------------------------------------------------------------
(* condvar_wait(), called by thread_f() again and again.  In               *)
(* 13_simple_condvar.c nobody reads wait_count.                            *)
wait_enter(w) ==
    /\ pc[w] = "away"
    /\ wait_count' = wait_count + 1
    /\ Goto(w, "lock")
    /\ UNCHANGED <<program, event_lock, is_event_set, signals, processed>>

wait_lock(w) ==
    /\ pc[w] = "lock"
    /\ event_lock = NOBODY
    /\ event_lock' = w
    /\ Goto(w, "test")
    /\ UNCHANGED <<program, is_event_set, wait_count, signals, processed>>

wait_take(w) ==
    /\ pc[w] = "test"
    /\ is_event_set
    /\ is_event_set' = FALSE
    /\ Goto(w, "leave")
    /\ UNCHANGED <<program, event_lock, wait_count, signals, processed>>

wait_again(w) ==
    /\ pc[w] = "test"
    /\ ~is_event_set
    /\ event_lock' = NOBODY
    /\ Goto(w, "lock")
    /\ UNCHANGED <<program, is_event_set, wait_count, signals, processed>>

(* Mutant: wait_count is not decremented.                                  *)
wait_leave_counted(w) ==
    /\ pc[w] = "leave"
    /\ event_lock' = NOBODY
    /\ processed' = processed + 1
    /\ Goto(w, "away")
    /\ UNCHANGED <<program, is_event_set, wait_count, signals>>

wait_leave(w) ==
    /\ pc[w] = "leave"
    /\ wait_count' = wait_count - 1
    /\ event_lock' = NOBODY
    /\ processed' = processed + 1
    /\ Goto(w, "away")
    /\ UNCHANGED <<program, is_event_set, signals>>

Signal == signal_count \/ signal_set \/ signal_spin \/ signal_relock
Wait(w) == wait_enter(w) \/ wait_lock(w) \/ wait_take(w) \/ wait_again(w) \/ wait_leave(w)

Next == Signal \/ JoinThreads \/ \E w \in Waiters : Wait(w)

(* Every thread is scheduled; a mutex that is free is not promised to the  *)
(* one who has waited longest, input need not come, and a thread may be    *)
(* away from condvar_wait() for as long as it likes.                       *)
Fairness == /\ WF_vars(Signal /\ pc[MAIN] # "idle")
            /\ \A w \in Waiters : WF_vars(Wait(w) /\ pc[w] # "away")
Spec == Init /\ [][Next]_vars /\ Fairness
-----------------------------------------------------------------------------
(* One condvar_signal() lets at most one condvar_wait() return: the event   *)
(* is taken under the mutex.  And when condvar_signal() of 14_condvar.c is *)
(* over, its event was processed: the reset after the second lock never    *)
(* throws an event away, however the program was built.                    *)
Leaving == {w \in Waiters : pc[w] = "leave"}
EventsMatch ==
    /\ processed + Cardinality(Leaving) <= signals
    /\ handshake /\ pc[MAIN] \in {"idle", "join"} => processed = signals

(* The event is taken, whoever wins the mutex, and the spinning            *)
(* condvar_signal() sees it: a signal counts only threads that will look   *)
(* at the flag, since a waiter leaves the count before the mutex is free.  *)
(* It needs a build that reads the flag in every turn.                     *)
SpinEnds == ~hoisted => ((pc[MAIN] = "spin") ~> (pc[MAIN] = "relock"))
=============================================================================
