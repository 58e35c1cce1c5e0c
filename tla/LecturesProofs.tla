--------------------------- MODULE LecturesProofs ---------------------------
(***************************************************************************)
(* Proofs about the threads and servers of MCLectures, in any number of    *)
(* threads, clients and turns.  A behaviour of MCLectures is one of a      *)
(* single program, so each part has an invariant of its own; where a       *)
(* program does not run, its variables keep their idle values.             *)
(***************************************************************************)
EXTENDS MCLectures, FiniteSetTheorems, SequenceTheorems, TLAPS

(* The modules count with the same operator.                               *)
LEMMA SameCardinality ==
    ASSUME NEW S
    PROVE  /\ Cond!Cardinality(S) = Cardinality(S)
           /\ Spin!Cardinality(S) = Cardinality(S)
  BY DEF Cond!Cardinality, Spin!Cardinality, Cardinality

-----------------------------------------------------------------------------
(* The first cthreads.                                                     *)
MainSteps == {"create", "join", "joined", "detach", "detach_set", "wait", "end"}
ThreadSteps == {"unborn", "func", "jump", "ended", "finish", "gone"}
EarlyTypes ==
    /\ pc_t \in [main : MainSteps, thread : ThreadSteps]
    /\ is_finished \in BOOLEAN /\ is_detached \in BOOLEAN
    /\ freed \in Nat

(* The thread's own flag says where it is, and it has stored its code      *)
(* before anybody can see the flag.                                        *)
FlagAndCode ==
    /\ pc_t.thread = "unborn" <=> pc_t.main = "create"
    /\ is_finished <=> pc_t.thread = "gone"
    /\ pc_t.thread \in {"jump", "ended", "finish", "gone"} => returned_code = code

(* Nobody but cthread_join() frees a stack that is not detached; between   *)
(* its two steps cthread_detach() may have freed one, but only that of a   *)
(* thread past the place where it looks at is_detached; and a thread that  *)
(* freed its own is past that place, too.                                  *)
WhoFreed ==
    /\ pc_t.main \in {"create", "join", "joined", "detach", "detach_set"} => ~is_detached
    /\ pc_t.main \in {"create", "join", "detach"} => freed = 0
    /\ pc_t.main = "joined" => freed = 1 /\ pc_t.thread = "gone" /\ retcode = code
    /\ freed = 0 \/ (freed = 1 /\ pc_t.thread \in {"finish", "gone"})
    /\ pc_t.main = "detach_set" /\ freed = 1 => pc_t.thread = "gone"

EarlyInv == EarlyTypes /\ FlagAndCode /\ WhoFreed

(* The invariant holds at the start, whichever program it is.              *)
LEMMA EarlyInit == Init => EarlyInv
<1> SUFFICES ASSUME Init PROVE EarlyInv
  OBVIOUS
<1> PICK v : Early!InitWith(v)
  BY DEF Init, Early!Init
<1>1. pc_t.main = "create" /\ pc_t.thread = "unborn"
  BY DEF Early!InitWith
<1>2. EarlyTypes
  BY DEF Early!InitWith, EarlyTypes, MainSteps, ThreadSteps
<1>3. FlagAndCode /\ WhoFreed
  BY <1>1 DEF Early!InitWith, FlagAndCode, WhoFreed
<1> QED
  BY <1>2, <1>3 DEF EarlyInv

(* Steps of the thread keep the invariant.                                 *)
LEMMA EarlyThreadStep == EarlyInv /\ Early!cthread_runner => EarlyInv'
<1> SUFFICES ASSUME EarlyInv, Early!cthread_runner PROVE EarlyInv'
  OBVIOUS
<1> USE DEF EarlyInv, EarlyTypes, MainSteps, ThreadSteps, Early!Goto
<1>1. CASE Early!func
  BY <1>1 DEF Early!func, FlagAndCode, WhoFreed
<1>2. CASE Early!cthread_exit
  <2>1. pc_t.thread \in {"func", "jump"} /\ pc_t'.thread \in {"jump", "ended"}
    BY <1>2 DEF Early!cthread_exit
  <2>2. UNCHANGED <<is_finished, is_detached, freed, retcode>> /\ pc_t'.main = pc_t.main
    BY <1>2 DEF Early!cthread_exit
  <2>3. EarlyTypes'
    BY <1>2 DEF Early!cthread_exit
  <2>4. returned_code' = code'
    BY <1>2 DEF Early!cthread_exit, FlagAndCode
  <2>5. FlagAndCode' /\ WhoFreed'
    BY <2>1, <2>2, <2>4 DEF FlagAndCode, WhoFreed
  <2> QED
    BY <2>3, <2>5
<1>3. CASE Early!runner_destroy
  BY <1>3 DEF Early!runner_destroy, Early!cthread_destroy, FlagAndCode, WhoFreed
<1>4. CASE Early!runner_finish
  BY <1>4 DEF Early!runner_finish, FlagAndCode, WhoFreed
<1> QED
  BY <1>1, <1>2, <1>3, <1>4 DEF Early!cthread_runner

(* Steps of main() keep the invariant.                                     *)
LEMMA EarlyMainStep ==
  EarlyInv /\ (\/ Early!cthread_create \/ Early!cthread_join
               \/ Early!cthread_detach \/ Early!main_wait) => EarlyInv'
<1> SUFFICES ASSUME EarlyInv,
                    \/ Early!cthread_create \/ Early!cthread_join
                    \/ Early!cthread_detach \/ Early!main_wait
             PROVE  EarlyInv'
  OBVIOUS
<1> USE DEF EarlyInv, EarlyTypes, MainSteps, ThreadSteps, Early!Goto
<1>1. CASE Early!cthread_create
  <2>1. PICK plan \in {"join", "detach"} : pc_t' = [main |-> plan, thread |-> "func"]
    BY <1>1 DEF Early!cthread_create
  <2>2. freed' = 0 /\ ~is_finished' /\ ~is_detached'
    BY <1>1 DEF Early!cthread_create, WhoFreed
  <2>3. EarlyTypes' /\ pc_t'.main \in {"join", "detach"} /\ pc_t'.thread = "func"
    BY <1>1, <2>1, <2>2 DEF Early!cthread_create
  <2> QED
    BY <2>2, <2>3 DEF FlagAndCode, WhoFreed
<1>2. CASE Early!cthread_join
  BY <1>2 DEF Early!cthread_join, Early!cthread_destroy, FlagAndCode, WhoFreed
<1>3. CASE Early!cthread_detach
  <2>1. CASE pc_t.main = "detach"
    <3>1. pc_t'.main = "detach_set" /\ pc_t'.thread = pc_t.thread
      BY <1>3, <2>1 DEF Early!cthread_detach
    <3>2. UNCHANGED <<is_finished, is_detached, code, returned_code>>
      BY <1>3, <2>1 DEF Early!cthread_detach
    <3>3. freed' = IF is_finished THEN 1 ELSE 0
      BY <1>3, <2>1 DEF Early!cthread_detach, Early!cthread_destroy, WhoFreed
    <3>4. EarlyTypes'
      BY <1>3, <2>1, <3>2, <3>3 DEF Early!cthread_detach
    <3> QED
      BY <2>1, <3>1, <3>2, <3>3, <3>4 DEF FlagAndCode, WhoFreed
  <2>2. CASE pc_t.main = "detach_set"
    <3>1. pc_t'.main = "wait" /\ pc_t'.thread = pc_t.thread
      BY <1>3, <2>2 DEF Early!cthread_detach
    <3>2. UNCHANGED <<is_finished, freed, code, returned_code>>
      BY <1>3, <2>2 DEF Early!cthread_detach
    <3>3. EarlyTypes'
      BY <1>3, <2>2 DEF Early!cthread_detach
    <3> QED
      BY <2>2, <3>1, <3>2, <3>3 DEF FlagAndCode, WhoFreed
  <2> QED
    BY <1>3, <2>1, <2>2 DEF Early!cthread_detach
<1>4. CASE Early!main_wait
  BY <1>4 DEF Early!main_wait, FlagAndCode, WhoFreed
<1> QED
  BY <1>1, <1>2, <1>3, <1>4

(* Every step keeps the invariant.                                         *)
LEMMA EarlyStep == EarlyInv /\ [Next]_vars => EarlyInv'
<1>1. EarlyInv /\ UNCHANGED early_vars => EarlyInv'
  BY DEF EarlyInv, early_vars, EarlyTypes, FlagAndCode, WhoFreed
<1> QED
  BY <1>1, EarlyThreadStep, EarlyMainStep
     DEF Next, vars, SortNext, AioNext, SemNext, ReorderNext, SpinNext, EarlyNext, CondNext,
         Early!Next

(* 10_cthreads_*.c, 11_cthread_bad_detach.c: cthread_detach() and the      *)
(* runner never both free the stack, and a join frees it once and returns  *)
(* the code that func() ended with.                                        *)
THEOREM LecturesStackFreedOnce == Spec => []StackFreedOnce
<1>1. EarlyInv => StackFreedOnce
  BY DEF EarlyInv, EarlyTypes, WhoFreed, StackFreedOnce, Early!StackFreedOnce
<1> QED
  BY <1>1, EarlyInit, EarlyStep, PTL DEF Spec

-----------------------------------------------------------------------------
(* The condition variables.                                                *)
CondTypes ==
    /\ handshake \in BOOLEAN /\ hoisted \in BOOLEAN
    /\ event_lock \in Cond!Threads \cup {Cond!NOBODY}
    /\ is_event_set \in BOOLEAN
    /\ pc_w \in [Cond!Threads -> Cond!Steps]
    /\ signals \in Nat /\ processed \in Nat

(* The mutex is held by who is between its lock and its unlock.            *)
HolderOfMutex ==
    /\ \A w \in Waiters : pc_w[w] \in {"test", "leave"} <=> event_lock = w
    /\ pc_w[Cond!MAIN] \in {"idle", "set", "join"} <=> event_lock = Cond!MAIN

(* The flag is up only inside condvar_signal(), and in the version with    *)
(* the handshake it is down before the second lock.                        *)
FlagInSignal ==
    /\ is_event_set => pc_w[Cond!MAIN] \in {"spin", "stuck", "relock"}
    /\ handshake /\ pc_w[Cond!MAIN] = "relock" => ~is_event_set

(* An event that was signalled is pending, or taken by a thread about to   *)
(* return, or processed; only the first version throws one away.           *)
Pending == IF is_event_set THEN 1 ELSE 0
Taken == IF \E w \in Waiters : pc_w[w] = "leave" THEN 1 ELSE 0
CondLedger ==
    /\ processed + Taken + Pending <= signals
    /\ handshake => processed + Taken + Pending = signals

CondRun == CondTypes /\ HolderOfMutex /\ FlagInSignal /\ CondLedger
CondInv == IF program = "condvar" THEN CondRun ELSE CondIdle

(* What the threads are called matters only so far: none is main(), and    *)
(* none stands for a free mutex.                                           *)
LEMMA CondNames == Cond!MAIN \notin Waiters /\ Cond!NOBODY \notin Waiters
  BY LecturesAssumption

(* The invariant holds after condvar_create().                             *)
LEMMA CondInit == Init => CondInv
<1> SUFFICES ASSUME Cond!Init PROVE CondRun
  BY DEF Init, CondInv
<1> USE CondNames DEF Cond!Init, Cond!Threads
<1>1. CondTypes
  BY DEF CondTypes, Cond!Steps, Cond!WaitSteps
<1>2. HolderOfMutex /\ FlagInSignal
  BY DEF HolderOfMutex, FlagInSignal, Cond!MAIN
<1>3. Taken = 0 /\ Pending = 0
  BY DEF Taken, Pending
<1> QED
  BY <1>1, <1>2, <1>3 DEF CondRun, CondLedger

(* Steps of condvar_signal() keep the invariant.                           *)
LEMMA CondSignalStep == CondRun /\ (Cond!Signal \/ Cond!JoinThreads) => CondRun'
<1> SUFFICES ASSUME CondRun, Cond!Signal \/ Cond!JoinThreads PROVE CondRun'
  OBVIOUS
<1> USE CondNames DEF CondRun, CondTypes, Cond!Threads, Cond!Goto, Cond!program
<1>1. /\ Cond!MAIN \in Cond!Threads
      /\ \A w \in Waiters : w \in Cond!Threads /\ w # Cond!MAIN /\ w # Cond!NOBODY
  OBVIOUS
<1>2. \A w \in Waiters : pc_w'[w] = pc_w[w]
  BY <1>1 DEF Cond!Signal, Cond!JoinThreads, Cond!signal_count, Cond!signal_set,
     Cond!signal_spin, Cond!signal_relock
<1>3. Taken' = Taken
  BY <1>2 DEF Taken
<1>4. Taken \in Nat /\ Pending \in Nat
  BY DEF Taken, Pending
<1>5. CASE Cond!signal_count \/ Cond!JoinThreads
  <2>1. pc_w[Cond!MAIN] = "idle" /\ pc_w'[Cond!MAIN] \in {"set", "join"}
    BY <1>1, <1>5 DEF Cond!signal_count, Cond!JoinThreads
  <2>2. UNCHANGED <<Cond!program, event_lock, is_event_set, signals, processed>>
    BY <1>5 DEF Cond!signal_count, Cond!JoinThreads
  <2>3. CondTypes'
    BY <1>5 DEF Cond!signal_count, Cond!JoinThreads, Cond!Steps, Cond!WaitSteps
  <2>4. HolderOfMutex' /\ FlagInSignal'
    BY <1>2, <2>1, <2>2 DEF HolderOfMutex, FlagInSignal
  <2>5. CondLedger'
    BY <1>3, <2>2 DEF CondLedger, Pending
  <2> QED
    BY <2>3, <2>4, <2>5
<1>6. CASE Cond!signal_set
  <2>1. pc_w[Cond!MAIN] = "set" /\ pc_w'[Cond!MAIN] = IF handshake THEN "spin" ELSE "relock"
    BY <1>1, <1>6 DEF Cond!signal_set
  <2>2. event_lock = Cond!MAIN /\ event_lock' = Cond!NOBODY /\ ~is_event_set
    BY <1>6, <2>1 DEF Cond!signal_set, HolderOfMutex, FlagInSignal
  <2>3. CondTypes'
    BY <1>6 DEF Cond!signal_set, Cond!Steps, Cond!WaitSteps
  <2>4. HolderOfMutex' /\ FlagInSignal'
    BY <1>1, <1>2, <1>6, <2>1, <2>2
       DEF Cond!signal_set, HolderOfMutex, FlagInSignal, Cond!MAIN, Cond!NOBODY
  <2>5. Pending = 0 /\ Pending' = 1
    BY <1>6, <2>2 DEF Cond!signal_set, Pending
  <2>6. CondLedger'
    BY <1>3, <1>4, <1>6, <2>5 DEF Cond!signal_set, CondLedger
  <2> QED
    BY <2>3, <2>4, <2>6
<1>7. CASE Cond!signal_spin
  <2>1. /\ pc_w[Cond!MAIN] = "spin" /\ pc_w'[Cond!MAIN] \in {"relock", "stuck"}
        /\ pc_w'[Cond!MAIN] = "relock" => ~is_event_set
    BY <1>1, <1>7 DEF Cond!signal_spin
  <2>2. UNCHANGED <<Cond!program, event_lock, is_event_set, signals, processed>>
    BY <1>7 DEF Cond!signal_spin
  <2>3. CondTypes'
    BY <1>7 DEF Cond!signal_spin, Cond!Steps, Cond!WaitSteps
  <2>4. HolderOfMutex' /\ FlagInSignal'
    BY <1>2, <2>1, <2>2 DEF HolderOfMutex, FlagInSignal
  <2>5. CondLedger'
    BY <1>3, <2>2 DEF CondLedger, Pending
  <2> QED
    BY <2>3, <2>4, <2>5
<1>8. CASE Cond!signal_relock
  <2>1. /\ pc_w[Cond!MAIN] = "relock" /\ pc_w'[Cond!MAIN] = "idle"
        /\ event_lock = Cond!NOBODY /\ event_lock' = Cond!MAIN
    BY <1>1, <1>8 DEF Cond!signal_relock
  <2>2. handshake => ~is_event_set
    BY <2>1 DEF FlagInSignal
  <2>3. CondTypes'
    BY <1>8 DEF Cond!signal_relock, Cond!Steps, Cond!WaitSteps
  <2>4. HolderOfMutex' /\ FlagInSignal'
    BY <1>1, <1>2, <1>8, <2>1 DEF Cond!signal_relock, HolderOfMutex, FlagInSignal, Cond!MAIN,
       Cond!NOBODY
  <2>5. Pending' = 0 /\ (handshake => Pending = 0)
    BY <1>8, <2>2 DEF Cond!signal_relock, Pending
  <2>6. CondLedger'
    BY <1>3, <1>4, <1>8, <2>5 DEF Cond!signal_relock, CondLedger
  <2> QED
    BY <2>3, <2>4, <2>6
<1> QED
  BY <1>5, <1>6, <1>7, <1>8 DEF Cond!Signal

(* Steps of condvar_wait() keep the invariant.                             *)
LEMMA CondWaitStep ==
  ASSUME CondRun, NEW w \in Waiters, Cond!Wait(w)
  PROVE  CondRun'
<1> USE CondNames DEF CondRun, CondTypes, Cond!Threads, Cond!Goto, Cond!program
<1>1. /\ Cond!MAIN \in Cond!Threads /\ w \in Cond!Threads
      /\ \A v \in Waiters : v \in Cond!Threads /\ v # Cond!MAIN /\ v # Cond!NOBODY
  OBVIOUS
<1>2. \A t \in Cond!Threads : t # w => pc_w'[t] = pc_w[t]
  BY DEF Cond!Wait, Cond!wait_enter, Cond!wait_lock, Cond!wait_take, Cond!wait_again,
     Cond!wait_leave
<1>3. pc_w'[Cond!MAIN] = pc_w[Cond!MAIN]
  BY <1>1, <1>2
<1>4. Taken \in Nat /\ Pending \in Nat
  BY DEF Taken, Pending
<1>5. CASE Cond!wait_enter(w)
  <2>1. pc_w[w] = "away" /\ pc_w'[w] = "lock"
    BY <1>1, <1>5 DEF Cond!wait_enter
  <2>2. UNCHANGED <<Cond!program, event_lock, is_event_set, signals, processed>>
    BY <1>5 DEF Cond!wait_enter
  <2>3. CondTypes'
    BY <1>5 DEF Cond!wait_enter, Cond!Steps, Cond!WaitSteps
  <2>4. HolderOfMutex' /\ FlagInSignal'
    BY <1>1, <1>2, <1>3, <2>1, <2>2 DEF HolderOfMutex, FlagInSignal
  <2>5. Taken' = Taken
    BY <1>1, <1>2, <2>1 DEF Taken
  <2>6. CondLedger'
    BY <2>2, <2>5 DEF CondLedger, Pending
  <2> QED
    BY <2>3, <2>4, <2>6
<1>6. CASE Cond!wait_lock(w)
  <2>1. pc_w[w] = "lock" /\ pc_w'[w] = "test" /\ event_lock = Cond!NOBODY /\ event_lock' = w
    BY <1>1, <1>6 DEF Cond!wait_lock
  <2>2. UNCHANGED <<Cond!program, is_event_set, signals, processed>>
    BY <1>6 DEF Cond!wait_lock
  <2>3. CondTypes'
    BY <1>6 DEF Cond!wait_lock, Cond!Steps, Cond!WaitSteps
  <2>4. HolderOfMutex' /\ FlagInSignal'
    BY <1>1, <1>2, <1>3, <2>1, <2>2 DEF HolderOfMutex, FlagInSignal, Cond!MAIN, Cond!NOBODY
  <2>5. Taken' = Taken
    BY <1>1, <1>2, <2>1 DEF Taken
  <2>6. CondLedger'
    BY <2>2, <2>5 DEF CondLedger, Pending
  <2> QED
    BY <2>3, <2>4, <2>6
<1>7. CASE Cond!wait_take(w)
  <2>1. pc_w[w] = "test" /\ pc_w'[w] = "leave" /\ is_event_set /\ ~is_event_set'
    BY <1>1, <1>7 DEF Cond!wait_take
  <2>2. UNCHANGED <<Cond!program, event_lock, signals, processed>>
    BY <1>7 DEF Cond!wait_take
  <2>3. CondTypes'
    BY <1>7 DEF Cond!wait_take, Cond!Steps, Cond!WaitSteps
  <2>4. HolderOfMutex' /\ FlagInSignal'
    BY <1>1, <1>2, <1>3, <2>1, <2>2 DEF HolderOfMutex, FlagInSignal
  <2>5. \A v \in Waiters : pc_w[v] # "leave"
    BY <2>1 DEF HolderOfMutex
  <2>6. Taken = 0 /\ Taken' = 1 /\ Pending = 1 /\ Pending' = 0
    BY <2>1, <2>5 DEF Taken, Pending
  <2>7. CondLedger'
    BY <2>2, <2>6 DEF CondLedger
  <2> QED
    BY <2>3, <2>4, <2>7
<1>8. CASE Cond!wait_again(w)
  <2>1. pc_w[w] = "test" /\ pc_w'[w] = "lock" /\ event_lock' = Cond!NOBODY
    BY <1>1, <1>8 DEF Cond!wait_again
  <2>2. event_lock = w
    BY <2>1 DEF HolderOfMutex
  <2>3. UNCHANGED <<Cond!program, is_event_set, signals, processed>>
    BY <1>8 DEF Cond!wait_again
  <2>4. CondTypes'
    BY <1>8 DEF Cond!wait_again, Cond!Steps, Cond!WaitSteps
  <2>5. HolderOfMutex' /\ FlagInSignal'
    BY <1>1, <1>2, <1>3, <2>1, <2>2, <2>3 DEF HolderOfMutex, FlagInSignal, Cond!MAIN,
       Cond!NOBODY
  <2>6. Taken' = Taken
    BY <1>1, <1>2, <2>1 DEF Taken
  <2>7. CondLedger'
    BY <2>3, <2>6 DEF CondLedger, Pending
  <2> QED
    BY <2>4, <2>5, <2>7
<1>9. CASE Cond!wait_leave(w)
  <2>1. pc_w[w] = "leave" /\ pc_w'[w] = "away" /\ event_lock' = Cond!NOBODY
    BY <1>1, <1>9 DEF Cond!wait_leave
  <2>2. event_lock = w
    BY <2>1 DEF HolderOfMutex
  <2>3. UNCHANGED <<Cond!program, is_event_set, signals>> /\ processed' = processed + 1
    BY <1>9 DEF Cond!wait_leave
  <2>4. CondTypes'
    BY <1>9 DEF Cond!wait_leave, Cond!Steps, Cond!WaitSteps
  <2>5. HolderOfMutex' /\ FlagInSignal'
    BY <1>1, <1>2, <1>3, <2>1, <2>2, <2>3 DEF HolderOfMutex, FlagInSignal, Cond!MAIN,
       Cond!NOBODY
  <2>6. \A v \in Waiters : pc_w'[v] # "leave"
    BY <2>2, <2>5, <2>1 DEF HolderOfMutex
  <2>7. Taken = 1 /\ Taken' = 0 /\ Pending' = Pending
    BY <2>1, <2>3, <2>6 DEF Taken, Pending
  <2>8. CondLedger'
    BY <1>4, <2>3, <2>7 DEF CondLedger
  <2> QED
    BY <2>4, <2>5, <2>8
<1> QED
  BY <1>5, <1>6, <1>7, <1>8, <1>9 DEF Cond!Wait

(* Every step of the program keeps it, and the steps of the others do not  *)
(* touch it.                                                               *)
LEMMA CondStep == CondInv /\ [Next]_vars => CondInv'
<1> SUFFICES ASSUME CondInv, [Next]_vars PROVE CondInv'
  OBVIOUS
<1>1. CASE CondNext
  <2>1. program = "condvar" /\ program' = program /\ Cond!Next
    BY <1>1 DEF CondNext
  <2>2. CondRun
    BY <2>1 DEF CondInv
  <2>3. CondRun'
    BY <2>1, <2>2, CondSignalStep, CondWaitStep DEF Cond!Next
  <2> QED
    BY <2>1, <2>3 DEF CondInv
<1>2. CASE UNCHANGED <<program, cond_vars>>
  BY <1>2 DEF CondInv, cond_vars, CondIdle, CondRun, CondTypes, HolderOfMutex, FlagInSignal,
     CondLedger, Pending, Taken
<1> QED
  BY <1>1, <1>2 DEF Next, vars, SortNext, AioNext, SemNext, ReorderNext, SpinNext, EarlyNext

(* The ledger is what EventsMatch says: at most one thread is leaving, and *)
(* the flag is down and the mutex main()'s when condvar_signal() is over.  *)
LEMMA CondRunMatches == CondRun => Cond!EventsMatch
<1> SUFFICES ASSUME CondRun PROVE Cond!EventsMatch
  OBVIOUS
<1> USE DEF CondRun, CondTypes
<1>1. Cond!Cardinality(Cond!Leaving) = Taken
  <2>1. CASE \E w \in Waiters : pc_w[w] = "leave"
    <3>1. PICK w \in Waiters : pc_w[w] = "leave"
      BY <2>1
    <3>2. \A v \in Waiters : pc_w[v] = "leave" => v = w
      BY <3>1 DEF HolderOfMutex
    <3>3. Cond!Leaving = {w}
      BY <3>1, <3>2 DEF Cond!Leaving
    <3> QED
      BY <2>1, <3>3, FS_Singleton, SameCardinality DEF Taken
  <2>2. CASE ~\E w \in Waiters : pc_w[w] = "leave"
    <3>1. Cond!Leaving = {}
      BY <2>2 DEF Cond!Leaving
    <3> QED
      BY <2>2, <3>1, FS_EmptySet, SameCardinality DEF Taken
  <2> QED
    BY <2>1, <2>2
<1>2. Taken \in Nat /\ Pending \in Nat
  BY DEF Taken, Pending
<1>3. processed + Cond!Cardinality(Cond!Leaving) <= signals
  BY <1>1, <1>2 DEF CondLedger
<1>4. ASSUME handshake, pc_w[Cond!MAIN] \in {"idle", "join"} PROVE processed = signals
  <2>1. event_lock = Cond!MAIN /\ ~is_event_set
    BY <1>4 DEF HolderOfMutex, FlagInSignal
  <2>2. \A w \in Waiters : pc_w[w] # "leave"
    BY <2>1 DEF HolderOfMutex
  <2>3. Taken = 0 /\ Pending = 0
    BY <2>1, <2>2 DEF Taken, Pending
  <2> QED
    BY <1>4, <2>3 DEF CondLedger
<1> QED
  BY <1>3, <1>4 DEF Cond!EventsMatch

(* 13_simple_condvar.c, 14_condvar.c: one signal lets at most one waiter   *)
(* return, and in the second version a signal that is over was processed.  *)
THEOREM LecturesEventsMatch == Spec => []EventsMatch
<1>1. CondInv => EventsMatch
  <2>1. ASSUME CondRun PROVE EventsMatch
    BY <2>1, CondRunMatches DEF EventsMatch
  <2>2. ASSUME CondIdle PROVE EventsMatch
    <3>1. Cond!Leaving = {}
      BY <2>2 DEF CondIdle, Cond!Leaving, Cond!Threads, IDLE
    <3>2. Cardinality(Cond!Leaving) = 0
      BY <3>1, FS_EmptySet
    <3> QED
      BY <2>2, <3>2, SameCardinality DEF CondIdle, EventsMatch, Cond!EventsMatch
  <2> QED
    BY <2>1, <2>2 DEF CondInv
<1> QED
  BY <1>1, CondInit, CondStep, PTL DEF Spec

-----------------------------------------------------------------------------
(* The spin locks.  Who is between the lock and the arrival of its release *)
(* in the memory:                                                          *)
Inside(t) == pc_l[t] \in {"section", "unlock"} \/ buf_l[t] # <<>>

SpinTypes ==
    /\ pc_l \in [Spinners -> {"lock", "section", "unlock", "done"}]
    /\ buf_l = [t \in Spinners |-> buf_l[t]]
    /\ mem_l = [v \in Spin!String \cup {"lock", "counter"} |-> mem_l[v]]

(* The lock in the memory is taken exactly while one thread is inside.     *)
LockIsHeld ==
    /\ mem_l["lock"] = IF \E t \in Spinners : Inside(t) THEN 1 ELSE 0
    /\ \A t, u \in Spinners : Inside(t) /\ Inside(u) => t = u

(* What a thread's buffer may hold: its increment, then its release.       *)
Increment == <<"counter", mem_l["counter"] + 1>>
Release == <<"lock", 0>>
CountingBuffers == \A t \in Spinners :
    \/ buf_l[t] = <<>>
    \/ pc_l[t] = "unlock" /\ buf_l[t] = <<Increment>>
    \/ pc_l[t] \in {"lock", "done"} /\ buf_l[t] = <<Increment, Release>>
    \/ pc_l[t] \in {"lock", "done"} /\ buf_l[t] = <<Release>>

(* The increments made: those in the memory and the one on its way are the *)
(* finished turns and the one before its unlock.                           *)
OnItsWay(t) == buf_l[t] \in {<<Increment>>, <<Increment, Release>>}
Turns == {x \in Spinners \X (1..Loops) : x[2] <= turns[x[1]]}
Ledger ==
    mem_l["counter"] + (IF \E t \in Spinners : OnItsWay(t) THEN 1 ELSE 0)
      = Cardinality(Turns) + (IF \E t \in Spinners : pc_l[t] = "unlock" THEN 1 ELSE 0)

CountingInv ==
    /\ mem_l["counter"] \in Nat /\ turns \in [Spinners -> 0..Loops]
    /\ \A t \in Spinners : pc_l[t] = "done" <=> turns[t] = Loops
    /\ CountingBuffers /\ Ledger

(* Of 7_spin_lock.c: the buffer is empty but before the unlock, and when   *)
(* nobody is inside, the string is whole or nobody has come yet.           *)
WholeBy(t) == mem_l["first"] = t /\ mem_l["last"] = t
TryInv ==
    /\ \A t \in Spinners :
        \/ buf_l[t] = <<>> /\ (pc_l[t] = "unlock" => WholeBy(t))
        \/ pc_l[t] = "unlock" /\ buf_l[t] = << <<"first", t>>, <<"last", t>> >>
        \/ pc_l[t] = "unlock" /\ buf_l[t] = << <<"last", t>> >> /\ mem_l["first"] = t
    /\ \/ \A t \in Spinners : pc_l[t] = "lock"
       \/ \E t \in Spinners : Inside(t)
       \/ \E t \in Spinners : WholeBy(t)

SpinInv ==
    /\ Spin!Counting => SpinTypes /\ LockIsHeld /\ CountingInv
    /\ kind = "try" => SpinTypes /\ LockIsHeld /\ TryInv

(* Buffers of one store and of two.                                        *)
LEMMA ShortSequences ==
    ASSUME NEW x, NEW y
    PROVE  /\ <<>> \o <<x>> = <<x>> /\ <<x>> \o <<y>> = <<x, y>>
           /\ Tail(<<x>>) = <<>> /\ Tail(<<x, y>>) = <<y>>
           /\ <<x>> # <<>> /\ <<x, y>> # <<>>
<1>1. <<x>> \o <<y>> = <<x, y>>
  <2>1. <<x>> \in Seq({x, y}) /\ <<y>> \in Seq({x, y}) /\ <<x, y>> \in Seq({x, y})
    OBVIOUS
  <2>2. /\ <<x>> \o <<y>> \in Seq({x, y}) /\ Len(<<x>> \o <<y>>) = 2
        /\ (<<x>> \o <<y>>)[1] = x /\ (<<x>> \o <<y>>)[2] = y
    BY <2>1
  <2>3. Len(<<x, y>>) = 2 /\ <<x, y>>[1] = x /\ <<x, y>>[2] = y
    OBVIOUS
  <2>4. \A k \in 1..2 : (<<x>> \o <<y>>)[k] = <<x, y>>[k]
    <3>1. \A k \in 1..2 : k = 1 \/ k = 2
      OBVIOUS
    <3> QED
      BY <2>2, <2>3, <3>1
  <2> DEFINE l == <<x>> \o <<y>>
             r == <<x, y>>
  <2> HIDE DEF l, r
  <2>5. /\ l \in Seq({x, y}) /\ r \in Seq({x, y}) /\ Len(l) = 2 /\ Len(r) = 2
        /\ \A k \in 1..2 : l[k] = r[k]
    BY <2>1, <2>2, <2>3, <2>4 DEF l, r
  <2>6. l = r
    BY <2>5, SeqEqual
  <2> QED
    BY <2>6 DEF l, r
<1>2. <<>> \o <<x>> = <<x>> /\ Tail(<<x>>) = <<>>
  OBVIOUS
<1>3. Tail(<<x, y>>) = <<y>>
  OBVIOUS
<1>4. <<x>> # <<>> /\ <<x, y>> # <<>>
  OBVIOUS
<1> QED
  BY <1>1, <1>2, <1>3, <1>4

(* A thread with an empty buffer reads the memory.                         *)
LEMMA LoadDrained ==
    ASSUME NEW t, buf_l[t] = <<>>, NEW v
    PROVE  Spin!Load(t, v) = mem_l[v]
<1>1. {k \in DOMAIN buf_l[t] : buf_l[t][k][1] = v} = {}
  OBVIOUS
<1> QED
  BY <1>1 DEF Spin!Load

(* One turn more, or all of them.                                          *)
LEMMA TurnsFacts ==
    ASSUME turns \in [Spinners -> 0..Loops]
    PROVE  /\ IsFiniteSet(Turns) /\ Cardinality(Turns) \in Nat
           /\ (\A t \in Spinners : turns[t] = Loops)
                => Cardinality(Turns) = Cardinality(Spinners) * Loops
<1> USE LecturesAssumption DEF LecturesAssumption
<1>1. /\ IsFiniteSet(1..Loops) /\ Cardinality(1..Loops) = Loops
  BY FS_Interval
<1>2. /\ IsFiniteSet(Spinners \X (1..Loops))
      /\ Cardinality(Spinners \X (1..Loops)) = Cardinality(Spinners) * Loops
  BY <1>1, FS_Product
<1>3. IsFiniteSet(Turns) /\ Cardinality(Turns) \in Nat
  BY <1>2, FS_Subset, FS_CardinalityType DEF Turns
<1>4. (\A t \in Spinners : turns[t] = Loops) => Turns = Spinners \X (1..Loops)
  BY DEF Turns
<1> QED
  BY <1>2, <1>3, <1>4

(* A finished turn is one more.                                            *)
LEMMA TurnAdded ==
    ASSUME turns \in [Spinners -> 0..Loops], NEW t \in Spinners, turns[t] < Loops,
           turns' = [turns EXCEPT ![t] = @ + 1]
    PROVE  Cardinality(Turns') = Cardinality(Turns) + 1
<1> USE LecturesAssumption DEF LecturesAssumption
<1> DEFINE new == <<t, turns[t] + 1>>
<1>1. new \notin Turns
  BY DEF Turns
<1>2. Turns' = Turns \cup {new}
  <2>1. \A u \in Spinners : turns'[u] = IF u = t THEN turns[t] + 1 ELSE turns[u]
    OBVIOUS
  <2>2. ASSUME NEW u \in Spinners, NEW k \in 1..Loops
        PROVE  <<u, k>> \in Turns' <=> <<u, k>> \in Turns \cup {new}
    BY <2>1 DEF Turns
  <2>3. new \in Spinners \X (1..Loops)
    OBVIOUS
  <2> QED
    BY <2>2, <2>3 DEF Turns
<1> HIDE DEF new
<1>3. IsFiniteSet(Turns)
  BY TurnsFacts
<1> QED
  BY <1>1, <1>2, <1>3, FS_AddElement

(* The invariant holds at the start: the memory is zero, all wait.         *)
LEMMA SpinInit == Init => SpinInv
<1> SUFFICES ASSUME Init PROVE SpinInv
  OBVIOUS
<1> USE LecturesAssumption DEF LecturesAssumption
<1>1. PICK a : Spin!InitWith(a)
  BY DEF Init, Spin!Init
<1>2. /\ \A t \in Spinners : pc_l[t] = "lock" /\ buf_l[t] = <<>> /\ turns[t] = 0 /\ ~Inside(t)
      /\ mem_l["lock"] = 0 /\ mem_l["counter"] = 0
  BY <1>1 DEF Spin!InitWith, Inside
<1>3. SpinTypes /\ LockIsHeld
  BY <1>1, <1>2 DEF Spin!InitWith, SpinTypes, LockIsHeld
<1>4. TryInv
  BY <1>2 DEF TryInv
<1>5. CountingInv
  <2>1. Turns = {}
    BY <1>2 DEF Turns
  <2>2. Cardinality(Turns) = 0
    BY <2>1, FS_EmptySet
  <2>3. \A t \in Spinners : ~OnItsWay(t)
    BY <1>2 DEF OnItsWay
  <2>4. Ledger
    BY <1>2, <2>2, <2>3 DEF Ledger
  <2>5. turns \in [Spinners -> 0..Loops]
    BY <1>1 DEF Spin!InitWith
  <2> QED
    BY <1>2, <2>4, <2>5 DEF CountingInv, CountingBuffers
<1> QED
  BY <1>3, <1>4, <1>5 DEF SpinInv

-----------------------------------------------------------------------------
(* 8_6_spinlock_acq_rel.c.  spin_lock() finds the lock free, so nobody is  *)
(* inside, and its own buffer is empty.                                    *)
LEMMA CountingLock ==
    ASSUME Spin!Counting, SpinInv, NEW t \in Spinners, Spin!spin_lock(t)
    PROVE  SpinInv'
<1>1. /\ SpinTypes /\ LockIsHeld /\ CountingInv /\ kind' = kind /\ Spin!Counting'
      /\ kind' # "try"
  BY DEF SpinInv, Spin!spin_lock, Spin!Goto, Spin!Counting
<1>2. /\ pc_l[t] = "lock" /\ mem_l["lock"] = 0 /\ buf_l[t] = <<>>
      /\ buf_l' = buf_l /\ turns' = turns
      /\ mem_l' = [mem_l EXCEPT !["lock"] = 1] /\ pc_l' = [pc_l EXCEPT ![t] = "section"]
  BY DEF Spin!spin_lock, Spin!Goto, Spin!LockedStore, Spin!Drained, Spin!SameTurn
<1>3. \A u \in Spinners : pc_l'[u] = IF u = t THEN "section" ELSE pc_l[u]
  BY <1>1, <1>2 DEF SpinTypes
<1>4. mem_l'["lock"] = 1 /\ mem_l'["counter"] = mem_l["counter"]
  BY <1>1, <1>2 DEF SpinTypes
<1>5. \A u \in Spinners : ~Inside(u) /\ (Inside(u)' <=> u = t)
  BY <1>1, <1>2, <1>3 DEF LockIsHeld, Inside
<1>6. SpinTypes'
  BY <1>1, <1>2 DEF SpinTypes
<1>7. LockIsHeld'
  BY <1>4, <1>5 DEF LockIsHeld
<1>8. \A u \in Spinners : buf_l[u] = <<>> /\ ~OnItsWay(u) /\ ~OnItsWay(u)'
  BY <1>2, <1>5 DEF OnItsWay, Inside
<1>9. CountingBuffers'
  BY <1>2, <1>8 DEF CountingBuffers
<1>10. Ledger'
  <2>1. (\E u \in Spinners : pc_l'[u] = "unlock") <=> (\E u \in Spinners : pc_l[u] = "unlock")
    BY <1>2, <1>3
  <2>2. Turns' = Turns
    BY <1>2 DEF Turns
  <2> QED
    BY <1>1, <1>4, <1>8, <2>1, <2>2 DEF CountingInv, Ledger
<1>11. CountingInv'
  BY <1>1, <1>2, <1>3, <1>4, <1>9, <1>10 DEF CountingInv
<1> QED
  BY <1>1, <1>6, <1>7, <1>11 DEF SpinInv

(* The increment goes to the buffer, of the value in the memory.           *)
LEMMA CountingSection ==
    ASSUME Spin!Counting, SpinInv, NEW t \in Spinners, Spin!Section(t)
    PROVE  SpinInv'
<1>1. /\ SpinTypes /\ LockIsHeld /\ CountingInv /\ kind' = kind /\ Spin!Counting'
      /\ kind' # "try" /\ pc_l[t] = "section" /\ buf_l[t] = <<>>
  BY DEF SpinInv, Spin!Section, Spin!Goto, Spin!Counting, CountingInv, CountingBuffers
<1>2. /\ mem_l' = mem_l /\ turns' = turns /\ pc_l' = [pc_l EXCEPT ![t] = "unlock"]
      /\ buf_l' = [buf_l EXCEPT ![t] = buf_l[t] \o <<Increment>>]
  BY <1>1, LoadDrained DEF Spin!Section, Spin!Goto, Spin!Store, Spin!SameTurn, Spin!Counting,
     Increment
<1>3. \A u \in Spinners : /\ pc_l'[u] = IF u = t THEN "unlock" ELSE pc_l[u]
                          /\ buf_l'[u] = IF u = t THEN <<Increment>> ELSE buf_l[u]
  BY <1>1, <1>2 DEF SpinTypes
<1>4. \A u \in Spinners : (Inside(u) <=> u = t) /\ (Inside(u)' <=> u = t)
  BY <1>1, <1>3 DEF LockIsHeld, Inside
<1>5. Increment' = Increment /\ Turns' = Turns
  BY <1>2 DEF Increment, Turns
<1>6. SpinTypes'
  BY <1>1, <1>2 DEF SpinTypes
<1>7. LockIsHeld'
  BY <1>1, <1>2, <1>4 DEF LockIsHeld
<1>8. CountingBuffers'
  BY <1>1, <1>3, <1>4, <1>5 DEF CountingBuffers, Inside
<1>9. Ledger'
  <2>1. \A u \in Spinners : pc_l[u] # "unlock" /\ ~OnItsWay(u)
    BY <1>1, <1>4 DEF Inside, OnItsWay
  <2>2. pc_l'[t] = "unlock" /\ OnItsWay(t)'
    BY <1>3, <1>5 DEF OnItsWay
  <2>3. Cardinality(Turns) \in Nat /\ mem_l["counter"] \in Nat
    BY <1>1, TurnsFacts DEF CountingInv
  <2> QED
    BY <1>1, <1>2, <1>5, <2>1, <2>2, <2>3 DEF CountingInv, Ledger
<1>10. CountingInv'
  BY <1>1, <1>2, <1>3, <1>8, <1>9 DEF CountingInv
<1> QED
  BY <1>1, <1>6, <1>7, <1>10 DEF SpinInv

(* The release waits behind the increment, or for it.                      *)
LEMMA CountingUnlock ==
    ASSUME Spin!Counting, SpinInv, NEW t \in Spinners, Spin!spin_unlock(t)
    PROVE  SpinInv'
<1> USE LecturesAssumption DEF LecturesAssumption
<1>1. /\ SpinTypes /\ LockIsHeld /\ CountingInv /\ kind' = kind /\ Spin!Counting'
      /\ kind' # "try" /\ pc_l[t] = "unlock" /\ buf_l[t] \in {<<>>, <<Increment>>}
      /\ turns[t] < Loops
  BY DEF SpinInv, Spin!spin_unlock, Spin!TurnDone, Spin!Goto, Spin!Counting, CountingInv,
     CountingBuffers
<1>2. /\ turns' = [turns EXCEPT ![t] = @ + 1]
      /\ pc_l' = [pc_l EXCEPT ![t] = IF turns[t] + 1 < Loops THEN "lock" ELSE "done"]
      /\ \/ mem_l' = mem_l /\ buf_l' = [buf_l EXCEPT ![t] = buf_l[t] \o <<Release>>]
         \/ /\ buf_l[t] = <<>> /\ buf_l' = buf_l
            /\ mem_l' = [mem_l EXCEPT !["lock"] = 0]
  BY DEF Spin!spin_unlock, Spin!TurnDone, Spin!Goto, Spin!Store, Spin!LockedStore,
     Spin!Drained, Release
<1>3. \A u \in Spinners :
        /\ u # t => pc_l'[u] = pc_l[u] /\ buf_l'[u] = buf_l[u] /\ turns'[u] = turns[u]
        /\ u = t => /\ pc_l'[u] \in {"lock", "done"} /\ turns'[u] = turns[u] + 1
                    /\ pc_l'[u] = "done" <=> turns'[u] = Loops
  BY <1>1, <1>2 DEF SpinTypes, CountingInv
<1>4. mem_l'["counter"] = mem_l["counter"] /\ Increment' = Increment
  BY <1>1, <1>2 DEF SpinTypes, Increment
<1>5. \/ /\ mem_l' = mem_l
         /\ buf_l'[t] = IF buf_l[t] = <<>> THEN <<Release>> ELSE <<Increment, Release>>
      \/ mem_l'["lock"] = 0 /\ buf_l'[t] = <<>> /\ buf_l[t] = <<>>
  <2>1. /\ <<>> \o <<Release>> = <<Release>>
        /\ <<Increment>> \o <<Release>> = <<Increment, Release>>
        /\ <<Increment>> # <<>>
    BY ShortSequences
  <2>2. CASE mem_l' = mem_l /\ buf_l' = [buf_l EXCEPT ![t] = buf_l[t] \o <<Release>>]
    <3>1. buf_l'[t] = buf_l[t] \o <<Release>>
      BY <1>1, <2>2 DEF SpinTypes
    <3> QED
      BY <1>1, <2>1, <2>2, <3>1
  <2>3. CASE buf_l[t] = <<>> /\ buf_l' = buf_l /\ mem_l' = [mem_l EXCEPT !["lock"] = 0]
    BY <1>1, <2>3 DEF SpinTypes
  <2> QED
    BY <1>2, <2>2, <2>3
<1>6. \A u \in Spinners : (Inside(u) <=> u = t) /\ (u # t => ~Inside(u)')
  BY <1>1, <1>3 DEF LockIsHeld, Inside
<1>7. SpinTypes'
  BY <1>1, <1>2 DEF SpinTypes
<1>8. LockIsHeld'
  <2>1. \/ mem_l' = mem_l /\ Inside(t)'
        \/ mem_l'["lock"] = 0 /\ ~Inside(t)'
    BY <1>3, <1>5 DEF Inside
  <2> QED
    BY <1>1, <1>6, <2>1 DEF LockIsHeld
<1>9. CountingBuffers'
  BY <1>3, <1>4, <1>5, <1>6 DEF CountingBuffers, Inside, Release
<1>10. Ledger'
  <2>1. Cardinality(Turns') = Cardinality(Turns) + 1
    BY <1>1, <1>2, TurnAdded DEF CountingInv
  <2>2. \A u \in Spinners : pc_l'[u] # "unlock"
    BY <1>3, <1>6 DEF Inside
  <2>3. OnItsWay(t)' <=> OnItsWay(t)
    BY <1>1, <1>4, <1>5 DEF OnItsWay, Release, Increment
  <2>4. (\E u \in Spinners : OnItsWay(u)') <=> (\E u \in Spinners : OnItsWay(u))
    BY <1>3, <1>4, <2>3 DEF OnItsWay, Release
  <2>5. Cardinality(Turns) \in Nat /\ mem_l["counter"] \in Nat
    BY <1>1, TurnsFacts DEF CountingInv
  <2> QED
    BY <1>1, <1>4, <2>1, <2>2, <2>4, <2>5 DEF CountingInv, Ledger
<1>11. CountingInv'
  <2>1. turns' \in [Spinners -> 0..Loops]
    BY <1>1, <1>2 DEF CountingInv
  <2> QED
    BY <1>1, <1>3, <1>4, <1>9, <1>10, <2>1 DEF CountingInv
<1> QED
  BY <1>1, <1>7, <1>8, <1>11 DEF SpinInv

(* The stores arrive in their order: the increment first, then the release *)
(* that ends the stay inside.                                              *)
LEMMA CountingDrain ==
    ASSUME Spin!Counting, SpinInv, NEW t \in Spinners, Spin!DrainOne(t)
    PROVE  SpinInv'
<1>1. /\ SpinTypes /\ LockIsHeld /\ CountingInv /\ kind' = kind /\ Spin!Counting'
      /\ kind' # "try" /\ buf_l[t] # <<>> /\ pc_l' = pc_l /\ turns' = turns
      /\ mem_l' = [mem_l EXCEPT ![Head(buf_l[t])[1]] = Head(buf_l[t])[2]]
      /\ buf_l' = [buf_l EXCEPT ![t] = Tail(buf_l[t])]
  BY DEF SpinInv, Spin!DrainOne, Spin!Drain, Spin!Drained, Spin!Counting
<1>2. /\ Inside(t) /\ Turns' = Turns
      /\ \A u \in Spinners : Inside(u) => u = t
      /\ \A u \in Spinners : u # t => /\ buf_l[u] = <<>> /\ buf_l'[u] = <<>>
                                      /\ pc_l[u] \notin {"section", "unlock"}
  BY <1>1 DEF LockIsHeld, Inside, SpinTypes, Turns
<1>3. SpinTypes'
  BY <1>1 DEF SpinTypes
<1>4. Cardinality(Turns) \in Nat /\ mem_l["counter"] \in Nat
  BY <1>1, TurnsFacts DEF CountingInv
<1>5. CASE \/ pc_l[t] = "unlock" /\ buf_l[t] = <<Increment>>
           \/ pc_l[t] \in {"lock", "done"} /\ buf_l[t] = <<Increment, Release>>
  <2>1. Head(buf_l[t]) = Increment /\ Increment[1] = "counter" /\ Increment[2] = mem_l["counter"] + 1
    BY <1>5 DEF Increment
  <2>2. mem_l'["counter"] = mem_l["counter"] + 1 /\ mem_l'["lock"] = mem_l["lock"]
    BY <1>1, <2>1 DEF SpinTypes
  <2>3. buf_l'[t] = IF pc_l[t] = "unlock" THEN <<>> ELSE <<Release>>
    <3>1. buf_l'[t] = Tail(buf_l[t])
      BY <1>1 DEF SpinTypes
    <3> QED
      BY <1>5, <3>1, ShortSequences
  <2>4. \A u \in Spinners : Inside(u)' <=> Inside(u)
    <3>1. Inside(t)'
      BY <1>1, <1>5, <2>3, ShortSequences DEF Inside
    <3>2. \A u \in Spinners : u # t => ~Inside(u)' /\ ~Inside(u)
      BY <1>1, <1>2 DEF Inside
    <3> QED
      BY <1>2, <3>1, <3>2
  <2>5. LockIsHeld'
    BY <1>1, <2>2, <2>4 DEF LockIsHeld
  <2>6. CountingBuffers'
    BY <1>1, <1>2, <1>5, <2>3 DEF CountingBuffers, Release
  <2>7. Ledger'
    <3>1. OnItsWay(t)
      BY <1>5 DEF OnItsWay
    <3>2. \A u \in Spinners : ~OnItsWay(u)'
      BY <1>2, <2>3 DEF OnItsWay, Release, Increment
    <3> QED
      BY <1>1, <1>2, <1>4, <2>2, <3>1, <3>2 DEF CountingInv, Ledger
  <2>8. CountingInv'
    BY <1>1, <1>4, <2>2, <2>6, <2>7 DEF CountingInv
  <2> QED
    BY <1>1, <1>3, <2>5, <2>8 DEF SpinInv
<1>6. CASE pc_l[t] \in {"lock", "done"} /\ buf_l[t] = <<Release>>
  <2>1. Head(buf_l[t]) = Release /\ Release[1] = "lock" /\ Release[2] = 0
    BY <1>6 DEF Release
  <2>2. mem_l'["lock"] = 0 /\ mem_l'["counter"] = mem_l["counter"]
    BY <1>1, <2>1 DEF SpinTypes
  <2>3. \A u \in Spinners : buf_l'[u] = <<>> /\ ~Inside(u)'
    <3>1. buf_l'[t] = Tail(buf_l[t])
      BY <1>1 DEF SpinTypes
    <3>2. buf_l'[t] = <<>>
      BY <1>6, <3>1, ShortSequences
    <3> QED
      BY <1>1, <1>2, <1>6, <3>2 DEF Inside
  <2>4. LockIsHeld'
    BY <2>2, <2>3 DEF LockIsHeld
  <2>5. CountingBuffers'
    BY <2>3 DEF CountingBuffers
  <2>6. Ledger'
    <3>1. \A u \in Spinners : ~OnItsWay(u) /\ ~OnItsWay(u)'
      BY <1>2, <1>6, <2>3 DEF OnItsWay, Release, Increment
    <3> QED
      BY <1>1, <1>2, <2>2, <3>1 DEF CountingInv, Ledger
  <2>7. CountingInv'
    BY <1>1, <2>2, <2>5, <2>6 DEF CountingInv
  <2> QED
    BY <1>1, <1>3, <2>4, <2>7 DEF SpinInv
<1> QED
  BY <1>1, <1>5, <1>6 DEF CountingInv, CountingBuffers

-----------------------------------------------------------------------------
(* 7_spin_lock.c.  A thread takes the lock, or sees that it is taken and   *)
(* leaves.                                                                 *)
LEMMA TryTakes ==
    ASSUME kind = "try", SpinInv, NEW t \in Spinners, Spin!TryLock(t)
    PROVE  SpinInv'
<1>1. /\ SpinTypes /\ LockIsHeld /\ TryInv /\ kind' = "try" /\ pc_l[t] = "lock"
  BY DEF SpinInv, Spin!TryLock, Spin!Goto, Spin!TurnDone
<1>2. ~Spin!Counting' /\ ~Spin!Counting
  BY <1>1 DEF Spin!Counting
<1>3. /\ buf_l[t] = <<>> /\ buf_l' = buf_l
      /\ \/ mem_l["lock"] = 1 /\ mem_l' = mem_l /\ pc_l' = [pc_l EXCEPT ![t] = "done"]
         \/ /\ mem_l["lock"] = 0 /\ mem_l' = [mem_l EXCEPT !["lock"] = 1]
            /\ pc_l' = [pc_l EXCEPT ![t] = "section"]
  BY <1>2, LoadDrained DEF Spin!TryLock, Spin!Goto, Spin!TurnDone, Spin!LockedStore,
     Spin!Drained
<1>4. SpinTypes'
  BY <1>1, <1>3 DEF SpinTypes
<1>5. mem_l'["first"] = mem_l["first"] /\ mem_l'["last"] = mem_l["last"]
  BY <1>1, <1>3 DEF SpinTypes, Spin!String
<1>6. \A u \in Spinners : u # t => pc_l'[u] = pc_l[u] /\ (Inside(u)' <=> Inside(u))
  BY <1>1, <1>3 DEF SpinTypes, Inside
<1>7. CASE mem_l["lock"] = 1 /\ mem_l' = mem_l /\ pc_l' = [pc_l EXCEPT ![t] = "done"]
  <2>1. pc_l'[t] = "done" /\ ~Inside(t) /\ ~Inside(t)'
    BY <1>1, <1>3, <1>7 DEF SpinTypes, Inside
  <2>2. \E u \in Spinners : Inside(u)'
    BY <1>1, <1>6, <1>7, <2>1 DEF LockIsHeld
  <2>3. LockIsHeld'
    BY <1>1, <1>6, <1>7, <2>1, <2>2 DEF LockIsHeld
  <2>4. TryInv'
    BY <1>1, <1>3, <1>5, <1>6, <2>1, <2>2 DEF TryInv, WholeBy
  <2> QED
    BY <1>1, <1>2, <1>4, <2>3, <2>4 DEF SpinInv
<1>8. CASE /\ mem_l["lock"] = 0 /\ mem_l' = [mem_l EXCEPT !["lock"] = 1]
           /\ pc_l' = [pc_l EXCEPT ![t] = "section"]
  <2>1. pc_l'[t] = "section" /\ Inside(t)' /\ mem_l'["lock"] = 1
    BY <1>1, <1>8 DEF SpinTypes, Inside
  <2>2. \A u \in Spinners : ~Inside(u) /\ (u # t => ~Inside(u)')
    BY <1>1, <1>6, <1>8 DEF LockIsHeld
  <2>3. LockIsHeld'
    BY <2>1, <2>2 DEF LockIsHeld
  <2>4. TryInv'
    BY <1>1, <1>3, <1>5, <1>6, <2>1 DEF TryInv, WholeBy
  <2> QED
    BY <1>1, <1>2, <1>4, <2>3, <2>4 DEF SpinInv
<1> QED
  BY <1>3, <1>7, <1>8

(* It writes its letter, and lets the lock go when all of it has arrived.  *)
LEMMA TryWrites ==
    ASSUME kind = "try", SpinInv, NEW t \in Spinners, Spin!Section(t) \/ Spin!spin_unlock(t)
    PROVE  SpinInv'
<1>1. SpinTypes /\ LockIsHeld /\ TryInv /\ kind' = "try"
  BY DEF SpinInv, Spin!Section, Spin!spin_unlock, Spin!Goto, Spin!TurnDone
<1>2. ~Spin!Counting' /\ ~Spin!Counting
  BY <1>1 DEF Spin!Counting
<1>3. CASE Spin!Section(t)
  <2>1. /\ pc_l[t] = "section" /\ buf_l[t] = <<>> /\ mem_l' = mem_l
        /\ pc_l' = [pc_l EXCEPT ![t] = "unlock"]
        /\ buf_l' = [buf_l EXCEPT ![t] = buf_l[t] \o << <<"first", t>>, <<"last", t>> >>]
    BY <1>1, <1>2, <1>3 DEF Spin!Section, Spin!Goto, Spin!Store, TryInv
  <2>2. /\ pc_l'[t] = "unlock" /\ buf_l'[t] = << <<"first", t>>, <<"last", t>> >>
        /\ \A u \in Spinners : u # t => pc_l'[u] = pc_l[u] /\ buf_l'[u] = buf_l[u]
    BY <1>1, <2>1 DEF SpinTypes
  <2>3. \A u \in Spinners : Inside(u)' <=> Inside(u)
    BY <2>1, <2>2 DEF Inside
  <2>4. SpinTypes'
    BY <1>1, <2>1 DEF SpinTypes
  <2>5. LockIsHeld'
    BY <1>1, <2>1, <2>3 DEF LockIsHeld
  <2>6. TryInv'
    <3>1. Inside(t)'
      BY <2>2 DEF Inside
    <3> QED
      BY <1>1, <2>1, <2>2, <3>1 DEF TryInv, WholeBy
  <2> QED
    BY <1>1, <1>2, <2>4, <2>5, <2>6 DEF SpinInv
<1>4. CASE Spin!spin_unlock(t)
  <2>1. /\ pc_l[t] = "unlock" /\ buf_l[t] = <<>> /\ buf_l' = buf_l
        /\ mem_l' = [mem_l EXCEPT !["lock"] = 0]
        /\ pc_l' = [pc_l EXCEPT ![t] = "done"]
    BY <1>2, <1>4 DEF Spin!spin_unlock, Spin!Goto, Spin!LockedStore, Spin!Drained,
       Spin!TurnDone
  <2>2. /\ pc_l'[t] = "done" /\ mem_l'["lock"] = 0
        /\ mem_l'["first"] = mem_l["first"] /\ mem_l'["last"] = mem_l["last"]
        /\ \A u \in Spinners : u # t => pc_l'[u] = pc_l[u]
    BY <1>1, <2>1 DEF SpinTypes
  <2>3. \A u \in Spinners : ~Inside(u)'
    BY <1>1, <2>1, <2>2 DEF LockIsHeld, Inside
  <2>4. SpinTypes'
    BY <1>1, <2>1 DEF SpinTypes
  <2>5. LockIsHeld'
    BY <2>2, <2>3 DEF LockIsHeld
  <2>6. WholeBy(t)'
    BY <1>1, <2>1, <2>2, ShortSequences DEF TryInv, WholeBy
  <2>7. TryInv'
    BY <2>3, <2>6 DEF TryInv, Inside
  <2> QED
    BY <1>1, <1>2, <2>4, <2>5, <2>7 DEF SpinInv
<1> QED
  BY <1>3, <1>4

(* Its letters arrive one by one.                                          *)
LEMMA TryDrain ==
    ASSUME kind = "try", SpinInv, NEW t \in Spinners, Spin!DrainOne(t)
    PROVE  SpinInv'
<1>1. /\ SpinTypes /\ LockIsHeld /\ TryInv /\ kind' = "try"
      /\ buf_l[t] # <<>> /\ pc_l' = pc_l
      /\ mem_l' = [mem_l EXCEPT ![Head(buf_l[t])[1]] = Head(buf_l[t])[2]]
      /\ buf_l' = [buf_l EXCEPT ![t] = Tail(buf_l[t])]
  BY DEF SpinInv, Spin!DrainOne, Spin!Drain, Spin!Drained
<1>2. ~Spin!Counting'
  BY <1>1 DEF Spin!Counting
<1>3. /\ pc_l[t] = "unlock" /\ buf_l'[t] = Tail(buf_l[t])
      /\ \A u \in Spinners : u # t => /\ buf_l[u] = <<>> /\ buf_l'[u] = <<>>
                                      /\ pc_l[u] \notin {"section", "unlock"}
  BY <1>1 DEF TryInv, LockIsHeld, Inside, SpinTypes
<1>4. \/ /\ buf_l'[t] = << <<"last", t>> >> /\ mem_l'["first"] = t
         /\ mem_l'["lock"] = mem_l["lock"]
      \/ buf_l'[t] = <<>> /\ WholeBy(t)' /\ mem_l'["lock"] = mem_l["lock"]
  <2>1. CASE buf_l[t] = << <<"first", t>>, <<"last", t>> >>
    <3>1. buf_l'[t] = << <<"last", t>> >>
      BY <1>3, <2>1, ShortSequences
    <3>2. Head(buf_l[t])[1] = "first" /\ Head(buf_l[t])[2] = t
      BY <2>1
    <3> QED
      BY <1>1, <3>1, <3>2 DEF SpinTypes, Spin!String
  <2>2. CASE buf_l[t] = << <<"last", t>> >> /\ mem_l["first"] = t
    <3>1. buf_l'[t] = <<>>
      BY <1>3, <2>2, ShortSequences
    <3>2. Head(buf_l[t])[1] = "last" /\ Head(buf_l[t])[2] = t
      BY <2>2
    <3> QED
      BY <1>1, <2>2, <3>1, <3>2 DEF SpinTypes, Spin!String, WholeBy
  <2> QED
    BY <1>1, <2>1, <2>2 DEF TryInv
<1>5. \A u \in Spinners : Inside(u)' <=> Inside(u)
  BY <1>1, <1>3 DEF Inside
<1>6. SpinTypes'
  BY <1>1 DEF SpinTypes
<1>7. LockIsHeld'
  BY <1>1, <1>4, <1>5 DEF LockIsHeld
<1>8. TryInv'
  <2>1. Inside(t)'
    BY <1>1, <1>3 DEF Inside
  <2> QED
    BY <1>1, <1>3, <1>4, <2>1 DEF TryInv
<1> QED
  BY <1>1, <1>2, <1>6, <1>7, <1>8 DEF SpinInv

(* Every step keeps the invariant; the lock of 6_bad_lock.c has none.      *)
LEMMA SpinStep == SpinInv /\ [Next]_vars => SpinInv'
<1> SUFFICES ASSUME SpinInv, [Next]_vars PROVE SpinInv'
  OBVIOUS
<1>1. ASSUME NEW t \in Spinners, Spin!thread_f(t) \/ Spin!DrainOne(t) PROVE SpinInv'
  <2>1. CASE Spin!Counting
    BY <1>1, <2>1, CountingLock, CountingSection, CountingUnlock, CountingDrain
       DEF Spin!thread_f, Spin!TryLock
  <2>2. CASE kind = "try"
    BY <1>1, <2>2, TryTakes, TryWrites, TryDrain
       DEF Spin!thread_f, Spin!spin_lock, Spin!Counting
  <2>3. CASE ~Spin!Counting /\ kind # "try"
    <3>1. kind' = kind
      BY <1>1 DEF Spin!thread_f, Spin!spin_lock, Spin!TryLock, Spin!Section,
         Spin!spin_unlock, Spin!DrainOne, Spin!Goto, Spin!TurnDone
    <3> QED
      BY <2>3, <3>1 DEF SpinInv, Spin!Counting
  <2> QED
    BY <2>1, <2>2, <2>3
<1>2. CASE UNCHANGED spin_vars
  BY <1>2 DEF spin_vars, SpinInv, Spin!Counting, SpinTypes, LockIsHeld, CountingInv, TryInv,
     CountingBuffers, Ledger, Turns, OnItsWay, Increment, Release, WholeBy, Inside
<1> QED
  BY <1>1, <1>2 DEF Next, vars, SortNext, AioNext, SemNext, ReorderNext, SpinNext, EarlyNext,
     CondNext, Spin!Next

(* With any number of threads and turns, and however late a release and    *)
(* the stores before it arrive in the memory: no increment under the lock  *)
(* of 8_6_spinlock_acq_rel.c is lost, and the string of 7_spin_lock.c is   *)
(* one thread's.                                                           *)
THEOREM LecturesSectionsWhole == Spec => []SectionsWhole
<1>1. SpinInv => SectionsWhole
  <2> SUFFICES ASSUME SpinInv, Spin!Joined
               PROVE  /\ Spin!Counting
                           => mem_l["counter"] = Cardinality(Spinners) * Loops
                      /\ kind = "try"
                           => \E t \in Spinners : \A v \in Spin!String : mem_l[v] = t
    BY SameCardinality DEF SectionsWhole, Spin!SectionsWhole
  <2>1. \A t \in Spinners : pc_l[t] = "done" /\ buf_l[t] = <<>> /\ ~Inside(t)
    BY DEF Spin!Joined, Spin!Drained, Inside
  <2>2. ASSUME Spin!Counting PROVE mem_l["counter"] = Cardinality(Spinners) * Loops
    <3>1. CountingInv /\ \A t \in Spinners : turns[t] = Loops /\ ~OnItsWay(t)
      BY <2>1, <2>2, ShortSequences DEF SpinInv, CountingInv, OnItsWay
    <3>2. Cardinality(Turns) = Cardinality(Spinners) * Loops /\ Cardinality(Turns) \in Nat
      BY <3>1, TurnsFacts DEF CountingInv
    <3>3. mem_l["counter"] = Cardinality(Turns)
      BY <2>1, <3>1, <3>2 DEF CountingInv, Ledger
    <3> QED
      BY <3>2, <3>3
  <2>3. ASSUME kind = "try"
        PROVE  \E t \in Spinners : \A v \in Spin!String : mem_l[v] = t
    <3>1. PICK t \in Spinners : TRUE
      BY LecturesAssumption DEF LecturesAssumption
    <3>2. \E u \in Spinners : WholeBy(u)
      BY <2>1, <2>3, <3>1 DEF SpinInv, TryInv
    <3> QED
      BY <3>2 DEF WholeBy, Spin!String
  <2> QED
    BY <2>2, <2>3
<1> QED
  BY <1>1, SpinInit, SpinStep, PTL DEF Spec

-----------------------------------------------------------------------------
(* The reordering example with the fence.  What main() stores in a round,  *)
(* and how much of it has arrived in the memory.                           *)
Script == << <<"end_t1", 0>>, <<"end_t2", 0>>, <<"X", 0>>, <<"Y", 0>>,
             <<"start_t1", 1>>, <<"start_t2", 1>> >>
Stored == IF pc_r["main"] = "wait" THEN 6 ELSE 2
Arrived == Stored - Len(buf_r["main"])
MainBuffer ==
    /\ Len(buf_r["main"]) <= Stored
    /\ \A k \in 1..Len(buf_r["main"]) : buf_r["main"][k] = Script[Arrived + k]

(* Before its start arrives a thread sleeps, and its last end is taken     *)
(* back.                                                                   *)
Asleep(t, start, end, e) ==
    /\ pc_r[t] = "wait" /\ buf_r[t] = <<>> /\ mem_r[start] = 0
    /\ Arrived >= e => mem_r[end] = 0

(* After it, it goes on to its barrier, and then to its end; past the      *)
(* barrier its own store is in the memory.                                 *)
BeforeBarrier(t, x, start, end) ==
    /\ mem_r[end] = 0
    /\ \/ pc_r[t] = "wait" /\ buf_r[t] = <<>> /\ mem_r[start] = 1
       \/ pc_r[t] = "read" /\ buf_r[t] = << <<start, 0>>, <<x, 1>> >>
       \/ pc_r[t] = "read" /\ buf_r[t] = << <<x, 1>> >> /\ mem_r[start] = 0
       \/ pc_r[t] = "read" /\ buf_r[t] = <<>> /\ mem_r[start] = 0 /\ mem_r[x] = 1
HasRead(t, x, r, start, end, v) ==
    /\ pc_r[t] = "wait" /\ mem_r[start] = 0 /\ mem_r[x] = 1
    /\ \/ buf_r[t] = << <<r, v>>, <<end, 1>> >> /\ mem_r[end] = 0
       \/ buf_r[t] = << <<end, 1>> >> /\ mem_r[r] = v /\ mem_r[end] = 0
       \/ buf_r[t] = <<>> /\ mem_r[r] = v /\ mem_r[end] = 1

(* s and e are the places of the thread's start and end in the script.     *)
ThreadAt(t, x, r, start, end, s, e) ==
    IF Arrived < s THEN Asleep(t, start, end, e)
    ELSE BeforeBarrier(t, x, start, end) \/ \E v \in {0, 1} : HasRead(t, x, r, start, end, v)

Thread1At == ThreadAt("thread1", "X", "r1", "start_t1", "end_t1", 5, 1)
Thread2At == ThreadAt("thread2", "Y", "r2", "start_t2", "end_t2", 6, 2)
HasRead1(v) == HasRead("thread1", "X", "r1", "start_t1", "end_t1", v)
HasRead2(v) == HasRead("thread2", "Y", "r2", "start_t2", "end_t2", v)
NotBothZero == Arrived = 6 => ~(HasRead1(0) /\ HasRead2(0))
CheckedNotBothZero == pc_r["main"] = "check" => ~(mem_r["r1"] = 0 /\ mem_r["r2"] = 0)
FenceTypes ==
    /\ pc_r \in [Reorder!Threads -> {"reset", "wait", "check", "read"}]
    /\ pc_r["main"] # "read"
    /\ buf_r \in [Reorder!Threads -> Seq(Reorder!Variables \X {0, 1})]
    /\ mem_r \in [Reorder!Variables -> {0, 1}]
FenceInv ==
    /\ FenceTypes /\ MainBuffer
    /\ Thread1At /\ Thread2At
    /\ NotBothZero /\ CheckedNotBothZero
ReorderInv == fence => program = "reorder" /\ FenceInv

(* A thread reads from the memory what it has not stored itself.           *)
LEMMA LoadFromMemory ==
  ASSUME NEW t, NEW v, \A k \in DOMAIN buf_r[t] : buf_r[t][k][1] # v
  PROVE  Reorder!Load(t, v) = mem_r[v]
  BY DEF Reorder!Load

(* Its only store of a variable is what it reads.                          *)
LEMMA LoadFromBuffer ==
  ASSUME NEW t, NEW v, NEW k \in DOMAIN buf_r[t], buf_r[t][k][1] = v,
         \A j \in DOMAIN buf_r[t] : buf_r[t][j][1] = v => j = k, k \in Int
  PROVE  Reorder!Load(t, v) = buf_r[t][k][2]
<1> DEFINE own == {j \in DOMAIN buf_r[t] : buf_r[t][j][1] = v}
<1>1. own = {k}
  OBVIOUS
<1>2. (CHOOSE l \in own : \A j \in own : j <= l) = k
  <2> HIDE DEF own
  <2>1. \E l \in own : \A j \in own : j <= l
    BY <1>1
  <2> QED
    BY <1>1, <2>1
<1> QED
  BY <1>1, <1>2 DEF Reorder!Load

(* What the sleeping main() learns from the two ends: everything it stored *)
(* has arrived, and both threads have read.                                *)
LEMMA BothHaveEnded ==
  ASSUME FenceInv, pc_r["main"] = "wait",
         Reorder!Load("main", "end_t1") = 1, Reorder!Load("main", "end_t2") = 1
  PROVE  /\ buf_r["main"] = <<>> /\ Arrived = 6
         /\ pc_r["thread1"] = "wait" /\ buf_r["thread1"] = <<>> /\ mem_r["start_t1"] = 0
         /\ pc_r["thread2"] = "wait" /\ buf_r["thread2"] = <<>> /\ mem_r["start_t2"] = 0
         /\ ~(mem_r["r1"] = 0 /\ mem_r["r2"] = 0)
<1> DEFINE b == buf_r["main"]
<1> DEFINE a == Arrived
<1>1. b \in Seq(Reorder!Variables \X {0, 1}) /\ Len(b) \in Nat /\ DOMAIN b = 1..Len(b)
  BY DEF FenceInv, FenceTypes, Reorder!Threads, Reorder!MAIN
<1>n. PICK n \in 0..6 : /\ n = Len(b) /\ a = 6 - n
                        /\ n = 6 => a = 0
                        /\ n = 5 => a = 1
  <2>1. Stored = 6 /\ a = Stored - Len(b)
    BY DEF Arrived, Stored
  <2>2. Len(b) <= Stored
    BY DEF FenceInv, MainBuffer
  <2>3. PICK n \in Nat : n = Len(b)
    BY <1>1
  <2> HIDE DEF a, b
  <2>6. a = 6 - n
    BY <2>1, <2>3
  <2>7. n <= 6
    BY <2>1, <2>2, <2>3
  <2>4. n \in 0..6
    BY <2>7
  <2>5. \A x \in 0..6 : (x = 6 => 6 - x = 0) /\ (x = 5 => 6 - x = 1)
    OBVIOUS
  <2>8. (n = 6 => a = 0) /\ (n = 5 => a = 1)
    BY <2>4, <2>5, <2>6
  <2> QED
    BY <2>3, <2>4, <2>6, <2>8
<1>2. \A k \in 1..Len(b) : b[k] = Script[a + k]
  BY DEF FenceInv, MainBuffer
<1> HIDE DEF a, b
<1>3. n # 6
  <2> SUFFICES ASSUME n = 6 PROVE FALSE
    OBVIOUS
  <2>a. a = 0
    BY <1>n
  <2>1. Len(b) = 6
    BY <1>n
  <2>3. DOMAIN b = 1..6 /\ 1 \in DOMAIN b
    BY <1>1, <2>1
  <2>4. \A k \in 1..6 : b[k] = Script[k]
    BY <1>2, <2>a, <2>1
  <2>2. b[1] = <<"end_t1", 0>> /\ \A j \in DOMAIN b : b[j][1] = "end_t1" => j = 1
    BY <2>3, <2>4 DEF Script
  <2> QED
    BY <2>2, <2>3, LoadFromBuffer DEF b
<1>4. n # 5
  <2> SUFFICES ASSUME n = 5 PROVE FALSE
    OBVIOUS
  <2>a. a = 1
    BY <1>n
  <2>1. Len(b) = 5
    BY <1>n
  <2>3. DOMAIN b = 1..5 /\ 1 \in DOMAIN b
    BY <1>1, <2>1
  <2>4. \A k \in 1..5 : b[k] = Script[1 + k]
    BY <1>2, <2>a, <2>1
  <2>2. b[1] = <<"end_t2", 0>> /\ \A j \in DOMAIN b : b[j][1] = "end_t2" => j = 1
    BY <2>3, <2>4 DEF Script
  <2> QED
    BY <2>2, <2>3, LoadFromBuffer DEF b
<1>5. \A j \in DOMAIN b : b[j][1] # "end_t1" /\ b[j][1] # "end_t2"
  <2> SUFFICES ASSUME NEW j \in DOMAIN b
               PROVE  b[j][1] # "end_t1" /\ b[j][1] # "end_t2"
    OBVIOUS
  <2>1. PICK k \in 3..6 : k = a + j
    <3>1. j \in 1..n
      BY <1>1, <1>n
    <3> QED
      BY <1>n, <1>3, <1>4, <3>1
  <2>2. b[j] = Script[k]
    BY <1>1, <1>2, <2>1
  <2>3. \A x \in 3..6 : Script[x][1] # "end_t1" /\ Script[x][1] # "end_t2"
    BY DEF Script
  <2> QED
    BY <2>1, <2>2, <2>3
<1>6. mem_r["end_t1"] = 1 /\ mem_r["end_t2"] = 1
  BY <1>5, LoadFromMemory DEF b
<1>7. a = 6
  <2>1. a \in 2..6
    BY <1>n, <1>3, <1>4
  <2> QED
    BY <1>6, <2>1 DEF FenceInv, Thread1At, Thread2At, ThreadAt, Asleep, a
<1>8. b = <<>>
  <2>1. n = 0 /\ Len(b) = 0
    BY <1>n, <1>7
  <2> QED
    BY <1>1, <2>1
<1>9. PICK v \in {0, 1} : HasRead1(v)
  BY <1>6, <1>7 DEF FenceInv, Thread1At, ThreadAt, BeforeBarrier, HasRead1, a
<1>10. PICK w \in {0, 1} : HasRead2(w)
  BY <1>6, <1>7 DEF FenceInv, Thread2At, ThreadAt, BeforeBarrier, HasRead2, a
<1>11. /\ pc_r["thread1"] = "wait" /\ buf_r["thread1"] = <<>> /\ mem_r["start_t1"] = 0
       /\ mem_r["r1"] = v
  BY <1>9, <1>6 DEF HasRead1, HasRead
<1>12. /\ pc_r["thread2"] = "wait" /\ buf_r["thread2"] = <<>> /\ mem_r["start_t2"] = 0
       /\ mem_r["r2"] = w
  BY <1>10, <1>6 DEF HasRead2, HasRead
<1>13. ~(HasRead1(0) /\ HasRead2(0))
  BY <1>7 DEF FenceInv, NotBothZero, a
<1>14. ~(v = 0 /\ w = 0)
  BY <1>9, <1>10, <1>13
<1> QED
  BY <1>7, <1>8, <1>11, <1>12, <1>14 DEF a, b

(* The steps of main() keep the invariant.                                 *)
LEMMA MainKeepsFence ==
  ASSUME FenceInv, Reorder!main
  PROVE  FenceInv'
<1> USE DEF Reorder!MAIN
<1>t. FenceTypes /\ "main" \in Reorder!Threads
  BY DEF FenceInv, Reorder!Threads
<1>l. Len(buf_r["main"]) \in Nat
  BY <1>t DEF FenceTypes
<1>m. mem_r' = mem_r
  BY DEF Reorder!main, Reorder!Store
<1>1. CASE pc_r["main"] = "reset"
  <2> DEFINE b == buf_r["main"]
             s == <<<<"X", 0>>, <<"Y", 0>>, <<"start_t1", 1>>, <<"start_t2", 1>>>>
  <2>1. /\ buf_r' = [buf_r EXCEPT !["main"] = b \o s]
        /\ pc_r' = [pc_r EXCEPT !["main"] = "wait"]
    BY <1>1 DEF Reorder!main, Reorder!Store, Reorder!Goto
  <2>2. s \in Seq(Reorder!Variables \X {0, 1}) /\ Len(s) = 4
    BY DEF Reorder!Variables
  <2>3. /\ buf_r["main"]' = b \o s /\ pc_r["main"]' = "wait"
        /\ buf_r["thread1"]' = buf_r["thread1"] /\ pc_r["thread1"]' = pc_r["thread1"]
        /\ buf_r["thread2"]' = buf_r["thread2"] /\ pc_r["thread2"]' = pc_r["thread2"]
    BY <1>t, <2>1 DEF FenceTypes, Reorder!Threads
  <2>4. b \in Seq(Reorder!Variables \X {0, 1})
    BY <1>t DEF FenceTypes
  <2>5. Len(b \o s) = Len(b) + 4 /\ b \o s \in Seq(Reorder!Variables \X {0, 1})
    BY <2>2, <2>4, ConcatProperties
  <2>6. FenceTypes'
    BY <1>t, <1>m, <2>1, <2>5 DEF FenceTypes
  <2>7. Stored = 2 /\ Stored' = 6 /\ Arrived' = Arrived /\ Arrived = 2 - Len(b) /\ Len(b) <= 2
    <3>1. Stored = 2 /\ Stored' = 6 /\ Len(b) <= Stored
      BY <1>1, <2>3 DEF Stored, FenceInv, MainBuffer
    <3>2. Arrived = 2 - Len(b) /\ Arrived' = 6 - (Len(b) + 4)
      BY <3>1, <2>3, <2>5 DEF Arrived
    <3> QED
      BY <3>1, <3>2, <1>l
  <2>8. MainBuffer'
    <3>1. \A k \in 1..Len(b) : b[k] = Script[Arrived + k]
      BY DEF FenceInv, MainBuffer
    <3>2. ASSUME NEW k \in 1..(Len(b) + 4) PROVE (b \o s)[k] = Script[Arrived + k]
      <4>1. CASE k <= Len(b)
        <5>1. (b \o s)[k] = b[k]
          BY <4>1, <2>2, <2>4, ConcatProperties
        <5> QED
          BY <4>1, <5>1, <3>1, <2>4
      <4>2. CASE k > Len(b)
        <5>1. (b \o s)[k] = s[k - Len(b)]
          BY <4>2, <2>2, <2>4, ConcatProperties
        <5>2. PICK l \in 1..4 : l = k - Len(b)
          BY <4>2, <2>4
        <5>3. Arrived + k = 2 + l
          <6>1. PICK n \in Nat : n = Len(b)
            BY <1>l
          <6>2. Arrived \in Int /\ Arrived + n = 2
            BY <6>1, <2>7
          <6>3. k = l + n
            BY <5>2, <6>1, <1>l
          <6>4. n \in Int /\ l \in Int
            BY <5>2, <6>1
          <6> QED
            BY <6>2, <6>3, <6>4
        <5>4. \A j \in 1..4 : s[j] = Script[2 + j]
          <6>1. /\ s[1] = Script[3] /\ s[2] = Script[4]
                /\ s[3] = Script[5] /\ s[4] = Script[6]
            BY DEF Script
          <6>2. \A j \in 1..4 : j \in {1, 2, 3, 4} /\ 2 + 1 = 3 /\ 2 + 2 = 4 /\ 2 + 3 = 5 /\ 2 + 4 = 6
            OBVIOUS
          <6> HIDE DEF s
          <6>3. ASSUME NEW j \in 1..4 PROVE s[j] = Script[2 + j]
            <7>1. j = 1 \/ j = 2 \/ j = 3 \/ j = 4
              BY <6>2
            <7> QED
              BY <6>1, <6>2, <7>1
          <6> QED
            BY <6>3
        <5> QED
          BY <5>1, <5>2, <5>3, <5>4
      <4> QED
        BY <4>1, <4>2, <2>4
    <3>3. Len(b) + 4 <= 6
      BY <2>7, <1>l
    <3> HIDE DEF b, s
    <3> QED
      BY <3>2, <3>3, <2>3, <2>5, <2>7 DEF MainBuffer
  <2>9. Arrived < 5 /\ Arrived < 6 /\ Arrived # 6
    BY <2>7, <1>l
  <2>10. Thread1At'
    BY <2>3, <2>7, <2>9, <1>m DEF FenceInv, Thread1At, ThreadAt, Asleep
  <2>11. Thread2At'
    BY <2>3, <2>7, <2>9, <1>m DEF FenceInv, Thread2At, ThreadAt, Asleep
  <2>12. NotBothZero' /\ CheckedNotBothZero'
    BY <2>3, <2>7, <2>9 DEF NotBothZero, CheckedNotBothZero
  <2> QED
    BY <2>6, <2>8, <2>10, <2>11, <2>12 DEF FenceInv
<1>2. CASE pc_r["main"] = "wait"
  <2> DEFINE s == <<<<"end_t1", 0>>, <<"end_t2", 0>>>>
  <2>1. /\ buf_r["main"] = <<>>
        /\ pc_r["thread1"] = "wait" /\ buf_r["thread1"] = <<>> /\ mem_r["start_t1"] = 0
        /\ pc_r["thread2"] = "wait" /\ buf_r["thread2"] = <<>> /\ mem_r["start_t2"] = 0
        /\ ~(mem_r["r1"] = 0 /\ mem_r["r2"] = 0)
    BY <1>2, BothHaveEnded DEF Reorder!main
  <2>2. /\ buf_r' = [buf_r EXCEPT !["main"] = @ \o s]
        /\ pc_r' = [pc_r EXCEPT !["main"] = "check"]
    BY <1>2 DEF Reorder!main, Reorder!Store, Reorder!Goto
  <2>3. s \in Seq(Reorder!Variables \X {0, 1}) /\ Len(s) = 2 /\ <<>> \o s = s
    BY DEF Reorder!Variables
  <2>4. /\ buf_r["main"]' = s /\ pc_r["main"]' = "check"
        /\ buf_r["thread1"]' = <<>> /\ pc_r["thread1"]' = "wait"
        /\ buf_r["thread2"]' = <<>> /\ pc_r["thread2"]' = "wait"
    BY <1>t, <2>1, <2>2, <2>3 DEF FenceTypes, Reorder!Threads
  <2>5. FenceTypes'
    BY <1>t, <1>m, <2>1, <2>2, <2>3 DEF FenceTypes
  <2>6. Stored' = 2 /\ Arrived' = 0
    BY <2>3, <2>4 DEF Stored, Arrived
  <2>7. MainBuffer'
    BY <2>3, <2>4, <2>6 DEF MainBuffer, Script
  <2>8. Thread1At' /\ Thread2At'
    BY <1>m, <2>1, <2>4, <2>6 DEF Thread1At, Thread2At, ThreadAt, Asleep
  <2>9. NotBothZero' /\ CheckedNotBothZero'
    BY <1>m, <2>1, <2>6 DEF NotBothZero, CheckedNotBothZero
  <2> QED
    BY <2>5, <2>7, <2>8, <2>9 DEF FenceInv
<1>3. CASE pc_r["main"] = "check"
  <2>1. buf_r' = buf_r /\ pc_r' = [pc_r EXCEPT !["main"] = "reset"]
    BY <1>3 DEF Reorder!main, Reorder!Goto
  <2>2. /\ buf_r["main"]' = buf_r["main"] /\ pc_r["main"]' = "reset"
        /\ buf_r["thread1"]' = buf_r["thread1"] /\ pc_r["thread1"]' = pc_r["thread1"]
        /\ buf_r["thread2"]' = buf_r["thread2"] /\ pc_r["thread2"]' = pc_r["thread2"]
    BY <1>t, <2>1 DEF FenceTypes, Reorder!Threads
  <2>3. FenceTypes'
    BY <1>t, <1>m, <2>1 DEF FenceTypes
  <2>4. Stored' = Stored /\ Arrived' = Arrived /\ Stored = 2 /\ Len(buf_r["main"]) <= Stored
    BY <1>3, <2>2 DEF Stored, Arrived, FenceInv, MainBuffer
  <2>5. MainBuffer'
    BY <2>2, <2>4 DEF FenceInv, MainBuffer
  <2>6. Arrived < 5 /\ Arrived < 6 /\ Arrived # 6
    BY <2>4, <1>l DEF Arrived
  <2>7. Thread1At' /\ Thread2At'
    BY <1>m, <2>2, <2>4, <2>6 DEF FenceInv, Thread1At, Thread2At, ThreadAt, Asleep
  <2>8. NotBothZero' /\ CheckedNotBothZero'
    BY <2>2, <2>4, <2>6 DEF NotBothZero, CheckedNotBothZero
  <2> QED
    BY <2>3, <2>5, <2>7, <2>8 DEF FenceInv
<1> QED
  BY <1>1, <1>2, <1>3 DEF Reorder!main

(* So does the arrival of a store of main().                               *)
LEMMA MainDrainKeepsFence ==
  ASSUME FenceInv, Reorder!DrainOne("main")
  PROVE  FenceInv'
<1> USE DEF Reorder!MAIN
<1> DEFINE b == buf_r["main"]
           a == Arrived
           S == Reorder!Variables \X {0, 1}
<1>t. FenceTypes /\ "main" \in Reorder!Threads
  BY DEF FenceInv, Reorder!Threads
<1>1. /\ b # <<>> /\ pc_r' = pc_r
      /\ mem_r' = [mem_r EXCEPT ![Head(b)[1]] = Head(b)[2]]
      /\ buf_r' = [buf_r EXCEPT !["main"] = Tail(b)]
  BY DEF Reorder!DrainOne, Reorder!Drain, Reorder!Drained
<1>2. b \in Seq(S) /\ Len(b) \in Nat
  BY <1>t DEF FenceTypes
<1>3. /\ Head(b) \in S /\ Tail(b) \in Seq(S) /\ Len(Tail(b)) = Len(b) - 1
      /\ \A l \in 1..Len(Tail(b)) : Tail(b)[l] = b[l + 1]
      /\ Len(b) >= 1 /\ Head(b) = b[1]
  <2> HIDE DEF b, S
  <2>1. Len(b) >= 1
    BY <1>1, <1>2
  <2>2. Head(b) = b[1]
    BY <1>1, <1>2
  <2> QED
    BY <1>1, <1>2, <2>1, <2>2, HeadTailProperties
<1>4. /\ buf_r["main"]' = Tail(b)
      /\ buf_r["thread1"]' = buf_r["thread1"] /\ buf_r["thread2"]' = buf_r["thread2"]
  BY <1>t, <1>1 DEF FenceTypes, Reorder!Threads
<1>5. FenceTypes'
  <2>1. buf_r' \in [Reorder!Threads -> Seq(S)]
    BY <1>t, <1>1, <1>3 DEF FenceTypes
  <2>2. mem_r' \in [Reorder!Variables -> {0, 1}]
    BY <1>t, <1>1, <1>3 DEF FenceTypes
  <2> QED
    BY <1>t, <1>1, <2>1, <2>2 DEF FenceTypes
<1>6. Stored \in {2, 6} /\ Stored' = Stored /\ a = Stored - Len(b) /\ a' = Stored - (Len(b) - 1)
  BY <1>1, <1>3, <1>4 DEF Stored, Arrived
<1>7. Len(b) <= Stored /\ \A k \in 1..Len(b) : b[k] = Script[a + k]
  BY DEF FenceInv, MainBuffer
<1>8. a \in 0..5 /\ a' = a + 1 /\ (Stored = 2 => a < 2)
  <2> HIDE DEF b, a
  <2> QED
    BY <1>2, <1>3, <1>6, <1>7
<1>9. Head(b) = Script[a + 1]
  <2> HIDE DEF b, a
  <2> QED
    BY <1>2, <1>3, <1>7
<1>10. MainBuffer'
  <2>1. ASSUME NEW k \in 1..(Len(b) - 1) PROVE Tail(b)[k] = Script[(a + 1) + k]
    <3>1. k + 1 \in 1..Len(b) /\ a + (k + 1) = (a + 1) + k
      BY <1>2, <1>8
    <3>2. Tail(b)[k] = b[k + 1]
      BY <1>3
    <3> QED
      BY <1>7, <3>1, <3>2
  <2>2. Len(b) - 1 <= Stored
    BY <1>2, <1>6, <1>7
  <2> HIDE DEF b
  <2> QED
    BY <2>1, <2>2, <1>3, <1>4, <1>6, <1>8 DEF MainBuffer
<1>11. mem_r' = [mem_r EXCEPT ![Script[a + 1][1]] = Script[a + 1][2]]
  BY <1>1, <1>9
<1>12. mem_r \in [Reorder!Variables -> {0, 1}]
  BY <1>t DEF FenceTypes
<1> HIDE DEF b
<1>13. CASE a \in {0, 1, 2, 3}
  <2>1. a < 5 /\ a < 6 /\ a' < 5 /\ a' < 6 /\ a' # 6
    BY <1>8, <1>13
  <2>2. /\ mem_r'["start_t1"] = mem_r["start_t1"] /\ mem_r'["start_t2"] = mem_r["start_t2"]
        /\ mem_r'["r1"] = mem_r["r1"] /\ mem_r'["r2"] = mem_r["r2"]
        /\ (a' >= 1 => mem_r'["end_t1"] = 0)
        /\ (a' >= 2 => mem_r'["end_t2"] = 0)
    <3>0. Thread1At /\ Thread2At
      BY DEF FenceInv
    <3>1. (a >= 1 => mem_r["end_t1"] = 0) /\ (a >= 2 => mem_r["end_t2"] = 0)
      BY <3>0, <2>1 DEF Thread1At, Thread2At, ThreadAt, Asleep
    <3> HIDE DEF a
    <3>2. CASE a = 0
      BY <3>1, <3>2, <1>8, <1>11, <1>12 DEF Script, Reorder!Variables
    <3>3. CASE a = 1
      BY <3>1, <3>3, <1>8, <1>11, <1>12 DEF Script, Reorder!Variables
    <3>4. CASE a = 2
      BY <3>1, <3>4, <1>8, <1>11, <1>12 DEF Script, Reorder!Variables
    <3>5. CASE a = 3
      BY <3>1, <3>5, <1>8, <1>11, <1>12 DEF Script, Reorder!Variables
    <3> QED
      BY <3>2, <3>3, <3>4, <3>5, <1>13
  <2>3. Thread1At'
    BY <1>1, <1>4, <2>1, <2>2 DEF FenceInv, Thread1At, ThreadAt, Asleep
  <2>4. Thread2At'
    BY <1>1, <1>4, <2>1, <2>2 DEF FenceInv, Thread2At, ThreadAt, Asleep
  <2>5. NotBothZero'
    BY <2>1 DEF NotBothZero
  <2>6. CheckedNotBothZero'
    BY <1>1, <2>2 DEF FenceInv, CheckedNotBothZero
  <2> QED
    BY <1>5, <1>10, <2>3, <2>4, <2>5, <2>6 DEF FenceInv
<1>14. CASE a = 4
  <2>0. Thread1At /\ Thread2At
    BY DEF FenceInv
  <2>1. a' = 5 /\ pc_r["main"] = "wait"
    BY <1>8, <1>14 DEF Stored
  <2>2. mem_r' = [mem_r EXCEPT !["start_t1"] = 1]
    BY <1>11, <1>14 DEF Script
  <2>3. Asleep("thread1", "start_t1", "end_t1", 1) /\ Asleep("thread2", "start_t2", "end_t2", 2)
    BY <1>14, <2>0 DEF Thread1At, Thread2At, ThreadAt
  <2>4. /\ mem_r'["start_t1"] = 1 /\ mem_r'["end_t1"] = mem_r["end_t1"]
        /\ mem_r'["start_t2"] = mem_r["start_t2"] /\ mem_r'["end_t2"] = mem_r["end_t2"]
    BY <1>12, <2>2 DEF Reorder!Variables
  <2>5. BeforeBarrier("thread1", "X", "start_t1", "end_t1")'
    BY <1>1, <1>4, <1>14, <2>3, <2>4 DEF Asleep, BeforeBarrier
  <2>6. Thread1At'
    BY <2>1, <2>5 DEF Thread1At, ThreadAt
  <2>7. Thread2At'
    BY <1>1, <1>4, <1>14, <2>1, <2>3, <2>4 DEF Thread2At, ThreadAt, Asleep
  <2>8. NotBothZero' /\ CheckedNotBothZero'
    BY <1>1, <2>1 DEF NotBothZero, CheckedNotBothZero
  <2> QED
    BY <1>5, <1>10, <2>6, <2>7, <2>8 DEF FenceInv
<1>15. CASE a = 5
  <2>0. Thread1At /\ Thread2At
    BY DEF FenceInv
  <2>1. a' = 6 /\ pc_r["main"] = "wait"
    BY <1>8, <1>15 DEF Stored
  <2>2. mem_r' = [mem_r EXCEPT !["start_t2"] = 1]
    BY <1>11, <1>15 DEF Script
  <2>3. Asleep("thread2", "start_t2", "end_t2", 2)
    BY <1>15, <2>0 DEF Thread2At, ThreadAt
  <2>4. /\ mem_r'["start_t2"] = 1 /\ mem_r'["end_t2"] = mem_r["end_t2"]
        /\ \A v \in {"start_t1", "end_t1", "X", "r1"} : mem_r'[v] = mem_r[v]
    BY <1>12, <2>2 DEF Reorder!Variables
  <2>5. BeforeBarrier("thread2", "Y", "start_t2", "end_t2")' /\ ~HasRead2(0)'
    BY <1>1, <1>4, <1>15, <2>3, <2>4 DEF Asleep, BeforeBarrier, HasRead2, HasRead
  <2>6. Thread2At'
    BY <2>1, <2>5 DEF Thread2At, ThreadAt
  <2>7. \/ BeforeBarrier("thread1", "X", "start_t1", "end_t1")
        \/ \E v \in {0, 1} : HasRead("thread1", "X", "r1", "start_t1", "end_t1", v)
    BY <1>15, <2>0 DEF Thread1At, ThreadAt
  <2>8. Thread1At'
    <3>1. CASE BeforeBarrier("thread1", "X", "start_t1", "end_t1")
      <4>1. BeforeBarrier("thread1", "X", "start_t1", "end_t1")'
        BY <3>1, <2>4, <1>1, <1>4 DEF BeforeBarrier
      <4> QED
        BY <4>1, <2>1 DEF Thread1At, ThreadAt
    <3>2. CASE \E v \in {0, 1} : HasRead("thread1", "X", "r1", "start_t1", "end_t1", v)
      <4>1. PICK v \in {0, 1} : HasRead("thread1", "X", "r1", "start_t1", "end_t1", v)
        BY <3>2
      <4>2. HasRead("thread1", "X", "r1", "start_t1", "end_t1", v)'
        BY <4>1, <2>4, <1>1, <1>4 DEF HasRead
      <4> QED
        BY <4>2, <2>1 DEF Thread1At, ThreadAt
    <3> QED
      BY <2>7, <3>1, <3>2
  <2>9. NotBothZero' /\ CheckedNotBothZero'
    BY <1>1, <2>1, <2>5 DEF NotBothZero, CheckedNotBothZero
  <2> QED
    BY <1>5, <1>10, <2>6, <2>8, <2>9 DEF FenceInv
<1> QED
  BY <1>8, <1>13, <1>14, <1>15

(* What a step leaves alone of a thread is where the thread is.            *)
LEMMA ThreadKept ==
  ASSUME NEW t, NEW x, NEW r, NEW start, NEW end, NEW s, NEW e,
         pc_r'[t] = pc_r[t], buf_r'[t] = buf_r[t], mem_r'[x] = mem_r[x], mem_r'[r] = mem_r[r],
         mem_r'[start] = mem_r[start], mem_r'[end] = mem_r[end], Arrived' = Arrived
  PROVE  /\ ThreadAt(t, x, r, start, end, s, e) => ThreadAt(t, x, r, start, end, s, e)'
         /\ \A v : HasRead(t, x, r, start, end, v)' = HasRead(t, x, r, start, end, v)
<1>1. \A v : HasRead(t, x, r, start, end, v)' = HasRead(t, x, r, start, end, v)
  BY DEF HasRead
<1>2. BeforeBarrier(t, x, start, end)' = BeforeBarrier(t, x, start, end)
  BY DEF BeforeBarrier
<1>3. Asleep(t, start, end, e)' = Asleep(t, start, end, e)
  BY DEF Asleep
<1> QED
  BY <1>1, <1>2, <1>3 DEF ThreadAt

(* So is what a step leaves alone of main().                               *)
LEMMA MainKept ==
  ASSUME pc_r'["main"] = pc_r["main"], buf_r'["main"] = buf_r["main"]
  PROVE  Arrived' = Arrived /\ (MainBuffer => MainBuffer')
BY DEF Arrived, Stored, MainBuffer

(* The steps of thread1 keep the invariant: its store has reached the      *)
(* memory when it reads the other one's.                                   *)
LEMMA Thread1KeepsFence ==
  ASSUME FenceInv, fence, Reorder!thread1_f
  PROVE  FenceInv'
<1> DEFINE b == buf_r["thread1"]
           S == Reorder!Variables \X {0, 1}
           At == ThreadAt("thread1", "X", "r1", "start_t1", "end_t1", 5, 1)
           Before == BeforeBarrier("thread1", "X", "start_t1", "end_t1")
           Read(v) == HasRead("thread1", "X", "r1", "start_t1", "end_t1", v)
<1>t. FenceTypes /\ Reorder!Threads = {"main", "thread1", "thread2"} /\ At
  BY DEF FenceInv, Thread1At, Reorder!Threads, Reorder!MAIN
<1>m. mem_r' = mem_r
  BY DEF Reorder!thread1_f, Reorder!Thread, Reorder!Store
<1>1. CASE pc_r["thread1"] = "wait"
  <2>1. /\ Reorder!Load("thread1", "start_t1") = 1
        /\ buf_r' = [buf_r EXCEPT !["thread1"] = @ \o <<<<"start_t1", 0>>, <<"X", 1>>>>]
        /\ pc_r' = [pc_r EXCEPT !["thread1"] = "read"]
    BY <1>1 DEF Reorder!thread1_f, Reorder!Thread, Reorder!Store, Reorder!Goto
  <2>2. ~Asleep("thread1", "start_t1", "end_t1", 1)
    BY <2>1, LoadFromMemory DEF Asleep
  <2>3. ASSUME NEW v, Read(v) PROVE FALSE
    <3>1. \A k \in DOMAIN b : b[k][1] # "start_t1"
      BY <2>3 DEF HasRead
    <3> QED
      BY <2>1, <2>3, <3>1, LoadFromMemory DEF HasRead
  <2>4. Before /\ ~(Arrived < 5) /\ b = <<>>
    BY <1>t, <1>1, <2>2, <2>3 DEF ThreadAt, BeforeBarrier
  <2>5. /\ buf_r'["thread1"] = <<<<"start_t1", 0>>, <<"X", 1>>>> /\ pc_r'["thread1"] = "read"
        /\ \A t \in {"main", "thread2"} : buf_r'[t] = buf_r[t] /\ pc_r'[t] = pc_r[t]
    BY <1>t, <2>1, <2>4 DEF FenceTypes
  <2>6. Arrived' = Arrived /\ MainBuffer'
    BY <2>5, MainKept DEF FenceInv
  <2>7. Thread2At'
    BY <1>m, <2>5, <2>6, ThreadKept DEF FenceInv, Thread2At
  <2>8. Before'
    BY <1>m, <2>4, <2>5 DEF BeforeBarrier
  <2>9. Thread1At'
    BY <2>4, <2>6, <2>8 DEF Thread1At, ThreadAt
  <2>10. NotBothZero' /\ CheckedNotBothZero'
    BY <1>m, <2>5 DEF FenceInv, NotBothZero, CheckedNotBothZero, HasRead1, HasRead
  <2>11. FenceTypes'
    <3>1. <<<<"start_t1", 0>>, <<"X", 1>>>> \in Seq(S)
      BY DEF Reorder!Variables
    <3>2. buf_r' \in [Reorder!Threads -> Seq(S)]
      BY <1>t, <2>1, <2>5, <3>1 DEF FenceTypes
    <3> QED
      BY <1>t, <1>m, <2>1, <3>2 DEF FenceTypes
  <2> QED
    BY <2>6, <2>7, <2>9, <2>10, <2>11 DEF FenceInv
<1>2. CASE pc_r["thread1"] = "read"
  <2> DEFINE v == mem_r["Y"]
  <2>1. b = <<>>
    BY <1>2 DEF Reorder!thread1_f, Reorder!Thread, Reorder!barrier, Reorder!Drained
  <2>2. /\ buf_r' = [buf_r EXCEPT !["thread1"] = @ \o <<<<"r1", v>>, <<"end_t1", 1>>>>]
        /\ pc_r' = [pc_r EXCEPT !["thread1"] = "wait"]
    BY <1>2, <2>1, LoadFromMemory
       DEF Reorder!thread1_f, Reorder!Thread, Reorder!Store, Reorder!Goto
  <2>3. v \in {0, 1}
    BY <1>t DEF FenceTypes, Reorder!Variables
  <2>4. /\ buf_r'["thread1"] = <<<<"r1", v>>, <<"end_t1", 1>>>> /\ pc_r'["thread1"] = "wait"
        /\ \A t \in {"main", "thread2"} : buf_r'[t] = buf_r[t] /\ pc_r'[t] = pc_r[t]
    BY <1>t, <2>1, <2>2 DEF FenceTypes
  <2>5. Before /\ ~(Arrived < 5)
    BY <1>t, <1>2 DEF ThreadAt, BeforeBarrier, Asleep, HasRead
  <2>6. Arrived' = Arrived /\ MainBuffer'
    BY <2>4, MainKept DEF FenceInv
  <2>7. Thread2At' /\ HasRead2(0)' = HasRead2(0)
    BY <1>m, <2>4, <2>6, ThreadKept DEF FenceInv, Thread2At, HasRead2
  <2>w. PICK w \in {0, 1} : w = v
    BY <2>3
  <2>8. Read(w)'
    BY <1>m, <1>2, <2>1, <2>w, <2>4, <2>5 DEF BeforeBarrier, HasRead
  <2>9. Thread1At'
    BY <2>5, <2>6, <2>8 DEF Thread1At, ThreadAt
  <2>10. NotBothZero'
    <3>1. HasRead2(0) => v = 1
      BY DEF HasRead2, HasRead
    <3>2. v = 1 => ~HasRead1(0)'
      BY <2>4 DEF HasRead1, HasRead
    <3> QED
      BY <2>7, <3>1, <3>2 DEF NotBothZero
  <2>11. CheckedNotBothZero'
    BY <1>m, <2>4 DEF FenceInv, CheckedNotBothZero
  <2>12. FenceTypes'
    <3>1. <<<<"r1", v>>, <<"end_t1", 1>>>> \in Seq(S)
      BY <2>3 DEF Reorder!Variables
    <3>2. buf_r' \in [Reorder!Threads -> Seq(S)]
      BY <1>t, <2>2, <2>4, <3>1 DEF FenceTypes
    <3> QED
      BY <1>t, <1>m, <2>2, <3>2 DEF FenceTypes
  <2> QED
    BY <2>6, <2>7, <2>9, <2>10, <2>11, <2>12 DEF FenceInv
<1> QED
  BY <1>1, <1>2 DEF Reorder!thread1_f, Reorder!Thread

(* So does the arrival of a store of thread1.                              *)
LEMMA Thread1DrainKeepsFence ==
  ASSUME FenceInv, Reorder!DrainOne("thread1")
  PROVE  FenceInv'
<1> DEFINE b == buf_r["thread1"]
           S == Reorder!Variables \X {0, 1}
           Before == BeforeBarrier("thread1", "X", "start_t1", "end_t1")
           Read(v) == HasRead("thread1", "X", "r1", "start_t1", "end_t1", v)
<1>t. FenceTypes /\ Reorder!Threads = {"main", "thread1", "thread2"}
  BY DEF FenceInv, Reorder!Threads, Reorder!MAIN
<1>1. /\ b # <<>> /\ pc_r' = pc_r
      /\ mem_r' = [mem_r EXCEPT ![Head(b)[1]] = Head(b)[2]]
      /\ buf_r' = [buf_r EXCEPT !["thread1"] = Tail(b)]
  BY DEF Reorder!DrainOne, Reorder!Drain, Reorder!Drained
<1>2. Head(b) \in S /\ Tail(b) \in Seq(S)
  <2>1. b \in Seq(S)
    BY <1>t DEF FenceTypes
  <2> QED
    BY <1>1, <2>1, HeadTailProperties
<1>3. FenceTypes'
  <2>1. buf_r' \in [Reorder!Threads -> Seq(S)]
    BY <1>t, <1>1, <1>2 DEF FenceTypes
  <2>2. mem_r' \in [Reorder!Variables -> {0, 1}]
    BY <1>t, <1>1, <1>2 DEF FenceTypes
  <2> QED
    BY <1>t, <1>1, <2>1, <2>2 DEF FenceTypes
<1>4. /\ buf_r'["thread1"] = Tail(b)
      /\ \A t \in {"main", "thread2"} : buf_r'[t] = buf_r[t]
  BY <1>t, <1>1 DEF FenceTypes
<1>5. Arrived' = Arrived /\ MainBuffer'
  BY <1>1, <1>4, MainKept DEF FenceInv
<1>6. ~(Arrived < 5) /\ (Before \/ \E v \in {0, 1} : Read(v))
  BY <1>1 DEF FenceInv, Thread1At, ThreadAt, Asleep
<1>7. mem_r \in [Reorder!Variables -> {0, 1}]
  BY <1>t DEF FenceTypes
<1>8. CheckedNotBothZero'
  <2>1. Len(buf_r["main"]) \in Nat
    BY <1>t DEF FenceTypes
  <2>3. Stored \in {2, 6} /\ Arrived = Stored - Len(buf_r["main"])
    BY DEF Arrived, Stored
  <2>2. Stored = 6
    BY <1>6, <2>1, <2>3
  <2> QED
    BY <1>1, <2>2 DEF CheckedNotBothZero, Stored
<1>9. (\A z \in {"Y", "r2", "start_t2", "end_t2"} : mem_r'[z] = mem_r[z])
      => Thread2At' /\ HasRead2(0)' = HasRead2(0)
  BY <1>1, <1>4, <1>5, ThreadKept DEF FenceInv, Thread2At, HasRead2
<1>10. CASE Before
  <2>1. \/ b = <<<<"start_t1", 0>>, <<"X", 1>>>>
        \/ b = <<<<"X", 1>>>> /\ mem_r["start_t1"] = 0
    BY <1>1, <1>10 DEF BeforeBarrier
  <2>2. pc_r["thread1"] = "read" /\ mem_r["end_t1"] = 0
    BY <1>1, <1>10 DEF BeforeBarrier
  <2>3. /\ \/ buf_r'["thread1"] = <<<<"X", 1>>>> /\ mem_r'["start_t1"] = 0
           \/ buf_r'["thread1"] = <<>> /\ mem_r'["start_t1"] = 0 /\ mem_r'["X"] = 1
        /\ mem_r'["end_t1"] = mem_r["end_t1"]
        /\ \A z \in {"Y", "r2", "start_t2", "end_t2"} : mem_r'[z] = mem_r[z]
    <3>1. CASE b = <<<<"start_t1", 0>>, <<"X", 1>>>>
      <4>1. Head(b) = <<"start_t1", 0>> /\ Tail(b) = <<<<"X", 1>>>>
        BY <3>1
      <4> HIDE DEF b
      <4>3. Head(b)[1] = "start_t1" /\ Head(b)[2] = 0
        BY <4>1
      <4>2. mem_r' = [mem_r EXCEPT !["start_t1"] = 0]
        BY <4>3, <1>1
      <4> QED
        BY <4>1, <4>2, <1>4, <1>7 DEF Reorder!Variables
    <3>2. CASE b = <<<<"X", 1>>>> /\ mem_r["start_t1"] = 0
      <4>1. Head(b) = <<"X", 1>> /\ Tail(b) = <<>>
        BY <3>2
      <4> HIDE DEF b
      <4>3. Head(b)[1] = "X" /\ Head(b)[2] = 1
        BY <4>1
      <4>2. mem_r' = [mem_r EXCEPT !["X"] = 1]
        BY <4>3, <1>1
      <4> QED
        BY <3>2, <4>1, <4>2, <1>4, <1>7 DEF Reorder!Variables
    <3> QED
      BY <2>1, <3>1, <3>2
  <2>4. Before'
    BY <1>1, <2>2, <2>3 DEF BeforeBarrier
  <2>5. Thread1At'
    BY <1>5, <1>6, <2>4 DEF Thread1At, ThreadAt
  <2>6. NotBothZero'
    BY <1>1, <2>2 DEF NotBothZero, HasRead1, HasRead
  <2> QED
    BY <1>3, <1>5, <1>8, <1>9, <2>3, <2>5, <2>6 DEF FenceInv
<1>11. ASSUME NEW v \in {0, 1}, Read(v) PROVE FenceInv'
  <2>1. \/ b = <<<<"r1", v>>, <<"end_t1", 1>>>> /\ mem_r["end_t1"] = 0
        \/ b = <<<<"end_t1", 1>>>> /\ mem_r["r1"] = v
    BY <1>1, <1>11 DEF HasRead
  <2>2. /\ pc_r["thread1"] = "wait" /\ mem_r["start_t1"] = 0 /\ mem_r["X"] = 1
    BY <1>11 DEF HasRead
  <2>3. /\ mem_r'["r1"] = v /\ mem_r'["start_t1"] = 0 /\ mem_r'["X"] = 1
        /\ \/ buf_r'["thread1"] = <<<<"end_t1", 1>>>> /\ mem_r'["end_t1"] = 0
           \/ buf_r'["thread1"] = <<>> /\ mem_r'["end_t1"] = 1
        /\ \A z \in {"Y", "r2", "start_t2", "end_t2"} : mem_r'[z] = mem_r[z]
    <3>1. CASE b = <<<<"r1", v>>, <<"end_t1", 1>>>> /\ mem_r["end_t1"] = 0
      <4>1. Head(b) = <<"r1", v>> /\ Tail(b) = <<<<"end_t1", 1>>>>
        BY <3>1
      <4> QED
        BY <3>1, <4>1, <2>2, <1>1, <1>4, <1>7 DEF Reorder!Variables
    <3>2. CASE b = <<<<"end_t1", 1>>>> /\ mem_r["r1"] = v
      <4>1. Head(b) = <<"end_t1", 1>> /\ Tail(b) = <<>>
        BY <3>2
      <4> QED
        BY <3>2, <4>1, <2>2, <1>1, <1>4, <1>7 DEF Reorder!Variables
    <3> QED
      BY <2>1, <3>1, <3>2
  <2>4. Read(v)'
    BY <1>1, <2>2, <2>3 DEF HasRead
  <2>5. Thread1At'
    BY <1>5, <1>6, <2>4 DEF Thread1At, ThreadAt
  <2>6. v # 0 => ~HasRead1(0)'
    BY <2>3 DEF HasRead1, HasRead
  <2>7. v = 0 => HasRead1(0)
    BY <1>11 DEF HasRead1
  <2>8. NotBothZero'
    BY <1>5, <1>9, <2>3, <2>6, <2>7 DEF FenceInv, NotBothZero
  <2> QED
    BY <1>3, <1>5, <1>8, <1>9, <2>3, <2>5, <2>8 DEF FenceInv
<1> QED
  BY <1>6, <1>10, <1>11

(* The steps of thread2 keep the invariant: its store has reached the      *)
(* memory when it reads the other one's.                                   *)
LEMMA Thread2KeepsFence ==
  ASSUME FenceInv, fence, Reorder!thread2_f
  PROVE  FenceInv'
<1> DEFINE b == buf_r["thread2"]
           S == Reorder!Variables \X {0, 1}
           At == ThreadAt("thread2", "Y", "r2", "start_t2", "end_t2", 6, 2)
           Before == BeforeBarrier("thread2", "Y", "start_t2", "end_t2")
           Read(v) == HasRead("thread2", "Y", "r2", "start_t2", "end_t2", v)
<1>t. FenceTypes /\ Reorder!Threads = {"main", "thread1", "thread2"} /\ At
  BY DEF FenceInv, Thread2At, Reorder!Threads, Reorder!MAIN
<1>m. mem_r' = mem_r
  BY DEF Reorder!thread2_f, Reorder!Thread, Reorder!Store
<1>1. CASE pc_r["thread2"] = "wait"
  <2>1. /\ Reorder!Load("thread2", "start_t2") = 1
        /\ buf_r' = [buf_r EXCEPT !["thread2"] = @ \o <<<<"start_t2", 0>>, <<"Y", 1>>>>]
        /\ pc_r' = [pc_r EXCEPT !["thread2"] = "read"]
    BY <1>1 DEF Reorder!thread2_f, Reorder!Thread, Reorder!Store, Reorder!Goto
  <2>2. ~Asleep("thread2", "start_t2", "end_t2", 2)
    BY <2>1, LoadFromMemory DEF Asleep
  <2>3. ASSUME NEW v, Read(v) PROVE FALSE
    <3>1. \A k \in DOMAIN b : b[k][1] # "start_t2"
      BY <2>3 DEF HasRead
    <3> QED
      BY <2>1, <2>3, <3>1, LoadFromMemory DEF HasRead
  <2>4. Before /\ ~(Arrived < 6) /\ b = <<>>
    BY <1>t, <1>1, <2>2, <2>3 DEF ThreadAt, BeforeBarrier
  <2>5. /\ buf_r'["thread2"] = <<<<"start_t2", 0>>, <<"Y", 1>>>> /\ pc_r'["thread2"] = "read"
        /\ \A t \in {"main", "thread1"} : buf_r'[t] = buf_r[t] /\ pc_r'[t] = pc_r[t]
    BY <1>t, <2>1, <2>4 DEF FenceTypes
  <2>6. Arrived' = Arrived /\ MainBuffer'
    BY <2>5, MainKept DEF FenceInv
  <2>7. Thread1At'
    BY <1>m, <2>5, <2>6, ThreadKept DEF FenceInv, Thread1At
  <2>8. Before'
    BY <1>m, <2>4, <2>5 DEF BeforeBarrier
  <2>9. Thread2At'
    BY <2>4, <2>6, <2>8 DEF Thread2At, ThreadAt
  <2>10. NotBothZero' /\ CheckedNotBothZero'
    BY <1>m, <2>5 DEF FenceInv, NotBothZero, CheckedNotBothZero, HasRead2, HasRead
  <2>11. FenceTypes'
    <3>1. <<<<"start_t2", 0>>, <<"Y", 1>>>> \in Seq(S)
      BY DEF Reorder!Variables
    <3>2. buf_r' \in [Reorder!Threads -> Seq(S)]
      BY <1>t, <2>1, <2>5, <3>1 DEF FenceTypes
    <3> QED
      BY <1>t, <1>m, <2>1, <3>2 DEF FenceTypes
  <2> QED
    BY <2>6, <2>7, <2>9, <2>10, <2>11 DEF FenceInv
<1>2. CASE pc_r["thread2"] = "read"
  <2> DEFINE v == mem_r["X"]
  <2>1. b = <<>>
    BY <1>2 DEF Reorder!thread2_f, Reorder!Thread, Reorder!barrier, Reorder!Drained
  <2>2. /\ buf_r' = [buf_r EXCEPT !["thread2"] = @ \o <<<<"r2", v>>, <<"end_t2", 1>>>>]
        /\ pc_r' = [pc_r EXCEPT !["thread2"] = "wait"]
    BY <1>2, <2>1, LoadFromMemory
       DEF Reorder!thread2_f, Reorder!Thread, Reorder!Store, Reorder!Goto
  <2>3. v \in {0, 1}
    BY <1>t DEF FenceTypes, Reorder!Variables
  <2>4. /\ buf_r'["thread2"] = <<<<"r2", v>>, <<"end_t2", 1>>>> /\ pc_r'["thread2"] = "wait"
        /\ \A t \in {"main", "thread1"} : buf_r'[t] = buf_r[t] /\ pc_r'[t] = pc_r[t]
    BY <1>t, <2>1, <2>2 DEF FenceTypes
  <2>5. Before /\ ~(Arrived < 6)
    BY <1>t, <1>2 DEF ThreadAt, BeforeBarrier, Asleep, HasRead
  <2>6. Arrived' = Arrived /\ MainBuffer'
    BY <2>4, MainKept DEF FenceInv
  <2>7. Thread1At' /\ HasRead1(0)' = HasRead1(0)
    BY <1>m, <2>4, <2>6, ThreadKept DEF FenceInv, Thread1At, HasRead1
  <2>w. PICK w \in {0, 1} : w = v
    BY <2>3
  <2>8. Read(w)'
    BY <1>m, <1>2, <2>1, <2>w, <2>4, <2>5 DEF BeforeBarrier, HasRead
  <2>9. Thread2At'
    BY <2>5, <2>6, <2>8 DEF Thread2At, ThreadAt
  <2>10. NotBothZero'
    <3>1. HasRead1(0) => v = 1
      BY DEF HasRead1, HasRead
    <3>2. v = 1 => ~HasRead2(0)'
      BY <2>4 DEF HasRead2, HasRead
    <3> QED
      BY <2>7, <3>1, <3>2 DEF NotBothZero
  <2>11. CheckedNotBothZero'
    BY <1>m, <2>4 DEF FenceInv, CheckedNotBothZero
  <2>12. FenceTypes'
    <3>1. <<<<"r2", v>>, <<"end_t2", 1>>>> \in Seq(S)
      BY <2>3 DEF Reorder!Variables
    <3>2. buf_r' \in [Reorder!Threads -> Seq(S)]
      BY <1>t, <2>2, <2>4, <3>1 DEF FenceTypes
    <3> QED
      BY <1>t, <1>m, <2>2, <3>2 DEF FenceTypes
  <2> QED
    BY <2>6, <2>7, <2>9, <2>10, <2>11, <2>12 DEF FenceInv
<1> QED
  BY <1>1, <1>2 DEF Reorder!thread2_f, Reorder!Thread

(* So does the arrival of a store of thread2.                              *)
LEMMA Thread2DrainKeepsFence ==
  ASSUME FenceInv, Reorder!DrainOne("thread2")
  PROVE  FenceInv'
<1> DEFINE b == buf_r["thread2"]
           S == Reorder!Variables \X {0, 1}
           Before == BeforeBarrier("thread2", "Y", "start_t2", "end_t2")
           Read(v) == HasRead("thread2", "Y", "r2", "start_t2", "end_t2", v)
<1>t. FenceTypes /\ Reorder!Threads = {"main", "thread1", "thread2"}
  BY DEF FenceInv, Reorder!Threads, Reorder!MAIN
<1>1. /\ b # <<>> /\ pc_r' = pc_r
      /\ mem_r' = [mem_r EXCEPT ![Head(b)[1]] = Head(b)[2]]
      /\ buf_r' = [buf_r EXCEPT !["thread2"] = Tail(b)]
  BY DEF Reorder!DrainOne, Reorder!Drain, Reorder!Drained
<1>2. Head(b) \in S /\ Tail(b) \in Seq(S)
  <2>1. b \in Seq(S)
    BY <1>t DEF FenceTypes
  <2> QED
    BY <1>1, <2>1, HeadTailProperties
<1>3. FenceTypes'
  <2>1. buf_r' \in [Reorder!Threads -> Seq(S)]
    BY <1>t, <1>1, <1>2 DEF FenceTypes
  <2>2. mem_r' \in [Reorder!Variables -> {0, 1}]
    BY <1>t, <1>1, <1>2 DEF FenceTypes
  <2> QED
    BY <1>t, <1>1, <2>1, <2>2 DEF FenceTypes
<1>4. /\ buf_r'["thread2"] = Tail(b)
      /\ \A t \in {"main", "thread1"} : buf_r'[t] = buf_r[t]
  BY <1>t, <1>1 DEF FenceTypes
<1>5. Arrived' = Arrived /\ MainBuffer'
  BY <1>1, <1>4, MainKept DEF FenceInv
<1>6. ~(Arrived < 6) /\ (Before \/ \E v \in {0, 1} : Read(v))
  BY <1>1 DEF FenceInv, Thread2At, ThreadAt, Asleep
<1>7. mem_r \in [Reorder!Variables -> {0, 1}]
  BY <1>t DEF FenceTypes
<1>8. CheckedNotBothZero'
  <2>1. Len(buf_r["main"]) \in Nat
    BY <1>t DEF FenceTypes
  <2>3. Stored \in {2, 6} /\ Arrived = Stored - Len(buf_r["main"])
    BY DEF Arrived, Stored
  <2>2. Stored = 6
    BY <1>6, <2>1, <2>3
  <2> QED
    BY <1>1, <2>2 DEF CheckedNotBothZero, Stored
<1>9. (\A z \in {"X", "r1", "start_t1", "end_t1"} : mem_r'[z] = mem_r[z])
      => Thread1At' /\ HasRead1(0)' = HasRead1(0)
  BY <1>1, <1>4, <1>5, ThreadKept DEF FenceInv, Thread1At, HasRead1
<1>10. CASE Before
  <2>1. \/ b = <<<<"start_t2", 0>>, <<"Y", 1>>>>
        \/ b = <<<<"Y", 1>>>> /\ mem_r["start_t2"] = 0
    BY <1>1, <1>10 DEF BeforeBarrier
  <2>2. pc_r["thread2"] = "read" /\ mem_r["end_t2"] = 0
    BY <1>1, <1>10 DEF BeforeBarrier
  <2>3. /\ \/ buf_r'["thread2"] = <<<<"Y", 1>>>> /\ mem_r'["start_t2"] = 0
           \/ buf_r'["thread2"] = <<>> /\ mem_r'["start_t2"] = 0 /\ mem_r'["Y"] = 1
        /\ mem_r'["end_t2"] = mem_r["end_t2"]
        /\ \A z \in {"X", "r1", "start_t1", "end_t1"} : mem_r'[z] = mem_r[z]
    <3>1. CASE b = <<<<"start_t2", 0>>, <<"Y", 1>>>>
      <4>1. Head(b) = <<"start_t2", 0>> /\ Tail(b) = <<<<"Y", 1>>>>
        BY <3>1
      <4> HIDE DEF b
      <4>3. Head(b)[1] = "start_t2" /\ Head(b)[2] = 0
        BY <4>1
      <4>2. mem_r' = [mem_r EXCEPT !["start_t2"] = 0]
        BY <4>3, <1>1
      <4> QED
        BY <4>1, <4>2, <1>4, <1>7 DEF Reorder!Variables
    <3>2. CASE b = <<<<"Y", 1>>>> /\ mem_r["start_t2"] = 0
      <4>1. Head(b) = <<"Y", 1>> /\ Tail(b) = <<>>
        BY <3>2
      <4> HIDE DEF b
      <4>3. Head(b)[1] = "Y" /\ Head(b)[2] = 1
        BY <4>1
      <4>2. mem_r' = [mem_r EXCEPT !["Y"] = 1]
        BY <4>3, <1>1
      <4> QED
        BY <3>2, <4>1, <4>2, <1>4, <1>7 DEF Reorder!Variables
    <3> QED
      BY <2>1, <3>1, <3>2
  <2>4. Before'
    BY <1>1, <2>2, <2>3 DEF BeforeBarrier
  <2>5. Thread2At'
    BY <1>5, <1>6, <2>4 DEF Thread2At, ThreadAt
  <2>6. NotBothZero'
    BY <1>1, <2>2 DEF NotBothZero, HasRead2, HasRead
  <2> QED
    BY <1>3, <1>5, <1>8, <1>9, <2>3, <2>5, <2>6 DEF FenceInv
<1>11. ASSUME NEW v \in {0, 1}, Read(v) PROVE FenceInv'
  <2>1. \/ b = <<<<"r2", v>>, <<"end_t2", 1>>>> /\ mem_r["end_t2"] = 0
        \/ b = <<<<"end_t2", 1>>>> /\ mem_r["r2"] = v
    BY <1>1, <1>11 DEF HasRead
  <2>2. /\ pc_r["thread2"] = "wait" /\ mem_r["start_t2"] = 0 /\ mem_r["Y"] = 1
    BY <1>11 DEF HasRead
  <2>3. /\ mem_r'["r2"] = v /\ mem_r'["start_t2"] = 0 /\ mem_r'["Y"] = 1
        /\ \/ buf_r'["thread2"] = <<<<"end_t2", 1>>>> /\ mem_r'["end_t2"] = 0
           \/ buf_r'["thread2"] = <<>> /\ mem_r'["end_t2"] = 1
        /\ \A z \in {"X", "r1", "start_t1", "end_t1"} : mem_r'[z] = mem_r[z]
    <3>1. CASE b = <<<<"r2", v>>, <<"end_t2", 1>>>> /\ mem_r["end_t2"] = 0
      <4>1. Head(b) = <<"r2", v>> /\ Tail(b) = <<<<"end_t2", 1>>>>
        BY <3>1
      <4> QED
        BY <3>1, <4>1, <2>2, <1>1, <1>4, <1>7 DEF Reorder!Variables
    <3>2. CASE b = <<<<"end_t2", 1>>>> /\ mem_r["r2"] = v
      <4>1. Head(b) = <<"end_t2", 1>> /\ Tail(b) = <<>>
        BY <3>2
      <4> QED
        BY <3>2, <4>1, <2>2, <1>1, <1>4, <1>7 DEF Reorder!Variables
    <3> QED
      BY <2>1, <3>1, <3>2
  <2>4. Read(v)'
    BY <1>1, <2>2, <2>3 DEF HasRead
  <2>5. Thread2At'
    BY <1>5, <1>6, <2>4 DEF Thread2At, ThreadAt
  <2>6. v # 0 => ~HasRead2(0)'
    BY <2>3 DEF HasRead2, HasRead
  <2>7. v = 0 => HasRead2(0)
    BY <1>11 DEF HasRead2
  <2>8. NotBothZero'
    BY <1>5, <1>9, <2>3, <2>6, <2>7 DEF FenceInv, NotBothZero
  <2> QED
    BY <1>3, <1>5, <1>8, <1>9, <2>3, <2>5, <2>8 DEF FenceInv
<1> QED
  BY <1>6, <1>10, <1>11

(* The invariant of 8_5_cpu_reordering.c holds in every behaviour.         *)
LEMMA ReorderIsFenced == Spec => []ReorderInv
<1>1. Init => ReorderInv
  <2> SUFFICES ASSUME Init, fence PROVE program = "reorder" /\ FenceInv
    BY DEF ReorderInv
  <2>0. program = "reorder"
    BY DEF Init, ReorderIdle
  <2>1. /\ mem_r = [v \in Reorder!Variables |-> 0]
        /\ buf_r = [t \in Reorder!Threads |-> <<>>]
        /\ pc_r = [t \in Reorder!Threads |-> IF t = "main" THEN "reset" ELSE "wait"]
    BY <2>0 DEF Init, Reorder!Init, Reorder!InitWith, Reorder!MAIN
  <2>2. Reorder!Threads = {"main", "thread1", "thread2"}
    BY DEF Reorder!Threads, Reorder!MAIN
  <2>3. FenceTypes
    BY <2>1, <2>2 DEF FenceTypes
  <2>4. buf_r["main"] = <<>> /\ Stored = 2 /\ Arrived = 2
    BY <2>1, <2>2 DEF Stored, Arrived
  <2>5. MainBuffer
    BY <2>4 DEF MainBuffer
  <2>6. Thread1At /\ Thread2At
    BY <2>1, <2>2, <2>4 DEF Thread1At, Thread2At, ThreadAt, Asleep, Reorder!Variables
  <2>7. NotBothZero /\ CheckedNotBothZero
    BY <2>1, <2>2, <2>4 DEF NotBothZero, CheckedNotBothZero
  <2> QED
    BY <2>0, <2>3, <2>5, <2>6, <2>7 DEF FenceInv
<1>2. ReorderInv /\ [Next]_vars => ReorderInv'
  <2> SUFFICES ASSUME ReorderInv, [Next]_vars, fence' PROVE program' = "reorder" /\ FenceInv'
    BY DEF ReorderInv
  <2>1. CASE ReorderNext
    <3>1. program = "reorder" /\ program' = program /\ fence /\ FenceInv
      <4>1. fence' = fence
        BY <2>1 DEF ReorderNext, Reorder!Next, Reorder!main, Reorder!thread1_f, Reorder!thread2_f,
                    Reorder!Thread, Reorder!Goto, Reorder!DrainOne
      <4> QED
        BY <2>1, <4>1 DEF ReorderNext, ReorderInv
    <3>2. \/ Reorder!main \/ Reorder!thread1_f \/ Reorder!thread2_f
          \/ Reorder!DrainOne("main") \/ Reorder!DrainOne("thread1") \/ Reorder!DrainOne("thread2")
      BY <2>1 DEF ReorderNext, Reorder!Next, Reorder!Threads, Reorder!MAIN
    <3> QED
      BY <3>1, <3>2, MainKeepsFence, Thread1KeepsFence, Thread2KeepsFence, MainDrainKeepsFence,
         Thread1DrainKeepsFence, Thread2DrainKeepsFence
  <2>2. CASE ~ReorderNext
    <3>1. UNCHANGED <<program, reorder_vars>>
      BY <2>2 DEF Next, vars, SortNext, AioNext, SemNext, SpinNext, EarlyNext, CondNext
    <3>2. UNCHANGED <<program, fence, pc_r, mem_r, buf_r>> /\ program = "reorder" /\ FenceInv
      BY <3>1 DEF reorder_vars, ReorderInv
    <3>3. Arrived' = Arrived
      BY <3>2, MainKept
    <3> QED
      BY <3>2, <3>3 DEF FenceInv, FenceTypes, MainBuffer, Stored, Thread1At, Thread2At, ThreadAt,
         Asleep, BeforeBarrier, HasRead, NotBothZero, HasRead1, HasRead2, CheckedNotBothZero
  <2> QED
    BY <2>1, <2>2
<1> QED
  BY <1>1, <1>2, PTL DEF Spec

(* 8_5_cpu_reordering.c with USE_CPU_FENCE: in no iteration do both        *)
(* threads read 0, in whatever order the stores arrive.                    *)
THEOREM LecturesNoReorderWithFence == Spec => []NoReorderWithFence
<1>1. ReorderInv => NoReorderWithFence
  <2> SUFFICES ASSUME FenceInv, pc_r["main"] = "check"
               PROVE  ~(Reorder!Load("main", "r1") = 0 /\ Reorder!Load("main", "r2") = 0)
    BY DEF ReorderInv, NoReorderWithFence, Reorder!NoReorderWithFence, Reorder!MAIN
  <2> DEFINE b == buf_r["main"]
  <2>1. b \in Seq(Reorder!Variables \X {0, 1}) /\ Len(b) \in Nat /\ DOMAIN b = 1..Len(b)
    BY DEF FenceInv, FenceTypes, Reorder!Threads, Reorder!MAIN
  <2>2. Stored = 2 /\ Arrived = Stored - Len(b) /\ Len(b) <= Stored
    BY DEF FenceInv, MainBuffer, Arrived, Stored
  <2>3. \A k \in 1..Len(b) : b[k] = Script[Arrived + k]
    BY DEF FenceInv, MainBuffer
  <2>4. \A k \in 1..Len(b) : Arrived + k \in {1, 2}
    <3> HIDE DEF b
    <3> QED
      BY <2>1, <2>2
  <2>5. Script[1][1] = "end_t1" /\ Script[2][1] = "end_t2"
    BY DEF Script
  <2>6. \A k \in DOMAIN b : b[k][1] # "r1" /\ b[k][1] # "r2"
    <3> HIDE DEF b
    <3> QED
      BY <2>1, <2>3, <2>4, <2>5
  <2> QED
    BY <2>6, LoadFromMemory DEF FenceInv, CheckedNotBothZero
<1> QED
  BY <1>1, ReorderIsFenced, PTL

-----------------------------------------------------------------------------
(* The servers.  Each socket is in one place: not yet connected, once in   *)
(* the backlog, or once in the table.                                      *)
Sockets == Clients \cup {Aio!Server}
AioTypes ==
    /\ table \in Seq(Sockets) /\ backlog \in Seq(Clients)
    /\ i \in Nat \ {0} /\ ready \subseteq Sockets
    /\ cli = [c \in Clients |-> cli[c]] /\ unread \in [Clients -> Nat]
    /\ fin \in [Clients -> BOOLEAN] /\ rst \in [Clients -> BOOLEAN]
OnePlace ==
    /\ \A a, b \in 1..Len(table) : table[a] = table[b] => a = b
    /\ \A a, b \in 1..Len(backlog) : backlog[a] = backlog[b] => a = b
    /\ \A a \in 1..Len(table), b \in 1..Len(backlog) : table[a] # backlog[b]
    /\ \A c \in Clients : cli[c] = "new" =>
        /\ \A a \in 1..Len(table) : table[a] # c
        /\ \A b \in 1..Len(backlog) : backlog[b] # c

(* The entry of the listening socket, which is never removed.              *)
ListensFirst == Len(table) > 0 /\ table[1] = Aio!Server
PollListens == api = "poll" /\ Aio!Up => ListensFirst

(* What was reported and is still to be served can still be read: only the *)
(* server's own turn takes that away, and it does not come back to a       *)
(* socket in the same round.  When poll() reports the listening socket,    *)
(* the round ends with its entry.                                          *)
InTable(s) == \E a \in 1..Len(table) : table[a] = s
ReportsStand ==
    /\ srv # "blocked"
    /\ srv = "accept" => /\ i = 1 /\ Aio!Server \in ready
                         /\ \A s \in ready : Aio!Readable(s)
                         /\ \A s \in ready \ {Aio!Server} : InTable(s)
    /\ srv = "scan" => \/ i = 1 /\ Aio!Server \in ready /\ ListensFirst
                       \/ \A a \in i..Len(table) :
                            table[a] \in ready \ {Aio!Server} => Aio!Readable(table[a])
    /\ srv = "serve" => \E s \in Sockets : ready = {s} /\ Aio!Readable(s)

AioInv == AioTypes /\ OnePlace /\ PollListens /\ ReportsStand

(* The invariant holds at the start, whichever program it is.              *)
LEMMA AioInit == Init => AioInv
<1> SUFFICES ASSUME Init PROVE AioInv
  OBVIOUS
<1>1. PICK a : Aio!InitWith(a)
  BY DEF Init, Aio!Init
<1>2. table = <<>> /\ backlog = <<>> /\ i = 1 /\ ready = {} /\ srv = "start"
  BY <1>1 DEF Aio!InitWith
<1>3. AioTypes
  <2>1. table \in Seq(Sockets) /\ backlog \in Seq(Clients)
    BY <1>2
  <2>2. cli = [c \in Clients |-> cli[c]] /\ unread \in [Clients -> Nat]
    BY <1>1 DEF Aio!InitWith
  <2>3. fin \in [Clients -> BOOLEAN] /\ rst \in [Clients -> BOOLEAN]
    BY <1>1 DEF Aio!InitWith
  <2> QED
    BY <1>2, <2>1, <2>2, <2>3 DEF AioTypes
<1>4. OnePlace
  BY <1>2 DEF OnePlace
<1>5. PollListens /\ ReportsStand
  BY <1>2 DEF PollListens, ReportsStand, Aio!Up
<1> QED
  BY <1>3, <1>4, <1>5 DEF AioInv

(* What a client does leaves the server's own state alone, and nothing     *)
(* that can be read is taken away.                                         *)
LEMMA ClientStep ==
    ASSUME AioInv, NEW c \in Clients, Aio!Client(c)
    PROVE  AioInv'
<1> USE LecturesAssumption DEF LecturesAssumption, AioInv
<1>1. UNCHANGED <<api, srv, table, ready, i>>
  BY DEF Aio!Client, Aio!Connect, Aio!Send, Aio!Receive, Aio!Close, Aio!Lose, Aio!loop
<1>2. /\ unread' \in [Clients -> Nat]
      /\ \A d \in Clients : unread[d] > 0 => unread'[d] > 0
  <2>1. unread' = unread \/ unread' = [unread EXCEPT ![c] = @ + 1]
    BY DEF Aio!Client, Aio!Connect, Aio!Send, Aio!Receive, Aio!Close, Aio!Lose
  <2>2. unread \in [Clients -> Nat]
    BY DEF AioTypes
  <2> HIDE DEF AioInv
  <2>3. CASE unread' = [unread EXCEPT ![c] = @ + 1]
    <3>1. /\ unread' \in [Clients -> Nat] /\ unread[c] \in Nat /\ unread'[c] = unread[c] + 1
          /\ \A d \in Clients : d # c => unread'[d] = unread[d]
      BY <2>2, <2>3
    <3> QED
      BY <3>1
  <2> QED
    BY <2>1, <2>2, <2>3
<1>3. /\ fin' \in [Clients -> BOOLEAN] /\ rst' \in [Clients -> BOOLEAN]
      /\ \A d \in Clients : (fin[d] => fin'[d]) /\ (rst[d] => rst'[d])
  <2>1. CASE UNCHANGED <<fin, rst>>
    BY <2>1 DEF AioTypes
  <2>2. CASE rst' = [rst EXCEPT ![c] = TRUE] /\ UNCHANGED fin
    BY <2>2 DEF AioTypes
  <2>3. CASE fin' = [fin EXCEPT ![c] = TRUE] /\ UNCHANGED rst
    BY <2>3 DEF AioTypes
  <2> QED
    BY <2>1, <2>2, <2>3 DEF Aio!Client, Aio!Connect, Aio!Send, Aio!Receive, Aio!Close, Aio!Lose
<1>4. /\ cli' = [d \in Clients |-> cli'[d]] /\ cli'[c] # "new"
      /\ \A d \in Clients : d # c => cli'[d] = cli[d]
  <2>1. PICK state : cli' = [cli EXCEPT ![c] = state] /\ state # "new"
    BY DEF Aio!Client, Aio!Connect, Aio!Send, Aio!Receive, Aio!Close, Aio!Lose
  <2>2. cli = [d \in Clients |-> cli[d]]
    BY DEF AioTypes
  <2> QED
    BY <2>1, <2>2
<1>5. backlog' = backlog \/ (backlog' = Append(backlog, c) /\ cli[c] = "new")
  BY DEF Aio!Client, Aio!Connect, Aio!Send, Aio!Receive, Aio!Close, Aio!Lose
<1>6. /\ backlog' \in Seq(Clients) /\ (backlog # <<>> => backlog' # <<>>)
      /\ Len(backlog) \in Nat /\ Len(backlog') \in Nat
      /\ \A b \in 1..Len(backlog') :
            \/ b \in 1..Len(backlog) /\ backlog'[b] = backlog[b]
            \/ b = Len(backlog) + 1 /\ backlog'[b] = c /\ cli[c] = "new"
  <2>1. backlog \in Seq(Clients)
    BY DEF AioTypes
  <2>2. CASE backlog' = backlog
    BY <2>1, <2>2
  <2>3. CASE backlog' = Append(backlog, c) /\ cli[c] = "new"
    BY <2>1, <2>3
  <2> QED
    BY <1>5, <2>2, <2>3
<1>7. AioTypes'
  BY <1>1, <1>2, <1>3, <1>4, <1>6 DEF AioTypes
<1>8. OnePlace'
  <2>1. \A a, b \in 1..Len(backlog') : backlog'[a] = backlog'[b] => a = b
    BY <1>6 DEF OnePlace
  <2>2. \A a \in 1..Len(table), b \in 1..Len(backlog') : table[a] # backlog'[b]
    BY <1>6 DEF OnePlace
  <2>3. \A d \in Clients : cli'[d] = "new" =>
            /\ \A a \in 1..Len(table) : table[a] # d
            /\ \A b \in 1..Len(backlog') : backlog'[b] # d
    BY <1>4, <1>6 DEF OnePlace
  <2> QED
    BY <1>1, <2>1, <2>2, <2>3 DEF OnePlace
<1>9. PollListens'
  BY <1>1 DEF PollListens, ListensFirst, Aio!Up
<1>10. ASSUME NEW s \in Sockets, Aio!Readable(s) PROVE Aio!Readable(s)'
  BY <1>2, <1>3, <1>6, <1>10 DEF Aio!Readable, Sockets
<1>11. ReportsStand'
  <2>1. ready \subseteq Sockets /\ \A a \in 1..Len(table) : table[a] \in Sockets
    BY DEF AioTypes
  <2>2. srv = "scan" /\ ~(i = 1 /\ Aio!Server \in ready /\ ListensFirst) =>
            \A a \in i..Len(table) :
                table[a] \in ready \ {Aio!Server} => Aio!Readable(table[a])'
    <3> SUFFICES ASSUME srv = "scan", ~(i = 1 /\ Aio!Server \in ready /\ ListensFirst),
                        NEW a \in i..Len(table), table[a] \in ready \ {Aio!Server}
                 PROVE  Aio!Readable(table[a])'
      OBVIOUS
    <3>1. Aio!Readable(table[a]) /\ table[a] \in Sockets
      BY <2>1 DEF ReportsStand
    <3> QED
      BY <1>1, <1>10, <3>1 DEF Sockets, Aio!Readable
  <2> QED
    BY <1>1, <1>10, <2>1, <2>2 DEF ReportsStand, InTable, ListensFirst
<1> QED
  BY <1>7, <1>8, <1>9, <1>11

(* What is left of a list without one entry.                               *)
LEMMA RemoveAtFacts ==
    ASSUME NEW S, NEW s \in Seq(S), NEW k \in 1..Len(s)
    PROVE  /\ Aio!RemoveAt(s, k) \in Seq(S) /\ Len(Aio!RemoveAt(s, k)) = Len(s) - 1
           /\ \A m \in 1..(Len(s) - 1) :
                Aio!RemoveAt(s, k)[m] = IF m < k THEN s[m] ELSE s[m + 1]
<1> DEFINE u == SubSeq(s, 1, k - 1)
           v == SubSeq(s, k + 1, Len(s))
<1>1. Len(s) \in Nat /\ \A m \in 1..Len(s) : s[m] \in S
  OBVIOUS
<1>2. u \in Seq(S) /\ Len(u) = k - 1 /\ \A m \in 1..(k - 1) : u[m] = s[m]
  BY <1>1, SubSeqProperties
<1>3. /\ v \in Seq(S) /\ Len(v) = Len(s) - k
      /\ \A m \in 1..(Len(s) - k) : v[m] = s[k + m]
  <2>1. \A m \in (k + 1)..Len(s) : s[m] \in S
    BY <1>1
  <2>2. /\ v \in Seq(S) /\ Len(v) = IF k + 1 <= Len(s) THEN Len(s) - (k + 1) + 1 ELSE 0
        /\ \A m \in 1..(Len(s) - (k + 1) + 1) : v[m] = s[(k + 1) + m - 1]
    BY <1>1, <2>1, SubSeqProperties
  <2> QED
    BY <1>1, <2>2
<1>4. Aio!RemoveAt(s, k) = u \o v
  BY DEF Aio!RemoveAt
<1> DEFINE w == u \o v
<1> HIDE DEF u, v
<1>5. /\ w \in Seq(S) /\ Len(w) = Len(u) + Len(v)
      /\ \A m \in 1..(Len(u) + Len(v)) :
            w[m] = IF m <= Len(u) THEN u[m] ELSE v[m - Len(u)]
  BY <1>2, <1>3, ConcatProperties
<1> HIDE DEF w
<1>6. Len(u) + Len(v) = Len(s) - 1
  BY <1>1, <1>2, <1>3
<1>7. ASSUME NEW m \in 1..(Len(s) - 1)
      PROVE  w[m] = IF m < k THEN s[m] ELSE s[m + 1]
  <2>1. w[m] = IF m <= k - 1 THEN u[m] ELSE v[m - (k - 1)]
    BY <1>2, <1>5, <1>6
  <2>2. CASE m < k
    <3>1. m \in 1..(k - 1) /\ m <= k - 1
      BY <1>1, <2>2
    <3> QED
      BY <1>2, <2>1, <2>2, <3>1
  <2>3. CASE m >= k
    <3>1. m - (k - 1) \in 1..(Len(s) - k) /\ k + (m - (k - 1)) = m + 1
      BY <1>1, <2>3
    <3>2. v[m - (k - 1)] = s[m + 1]
      BY <1>3, <3>1
    <3> QED
      BY <2>1, <2>3, <3>2
  <2>4. m < k \/ m >= k
    BY <1>1
  <2> QED
    BY <2>2, <2>3, <2>4
<1> QED
  BY <1>4, <1>5, <1>6, <1>7 DEF w

(* The end of a server, and its start.                                     *)
LEMMA EndStep ==
    ASSUME AioInv, Aio!End
    PROVE  AioInv'
<1>1. /\ table' = <<>> /\ backlog' = <<>> /\ i' = 1 /\ ready' = {} /\ srv' = "ended"
      /\ cli' = cli
  BY DEF Aio!End
<1>2. unread' \in [Clients -> Nat]
  BY DEF Aio!End
<1>3. fin' \in [Clients -> BOOLEAN] /\ rst' \in [Clients -> BOOLEAN]
  BY DEF Aio!End
<1>4. table' \in Seq(Sockets) /\ backlog' \in Seq(Clients)
  BY <1>1
<1>5. AioTypes'
  BY <1>1, <1>2, <1>3, <1>4 DEF AioInv, AioTypes
<1>6. OnePlace'
  BY <1>1 DEF OnePlace
<1>7. PollListens' /\ ReportsStand'
  BY <1>1 DEF PollListens, ReportsStand, Aio!Up
<1> QED
  BY <1>5, <1>6, <1>7 DEF AioInv

(* The start of a server: it listens, or it ends.                          *)
LEMMA StartStep ==
    ASSUME AioInv, NEW a, NEW watched \in {<<>>, <<Aio!Server>>}, Aio!Start(a, watched),
           a = "poll" => watched = <<Aio!Server>>
    PROVE  AioInv'
<1> USE LecturesAssumption DEF LecturesAssumption, AioInv
<1>1. /\ api = a /\ srv = "start"
      /\ \/ srv' = "wait" /\ table' = watched
         \/ srv' = "ended" /\ UNCHANGED table
      /\ UNCHANGED <<api, ready, i, cli, unread, fin, rst, backlog>>
  BY DEF Aio!Start, Aio!net
<1>2. /\ table' \in Seq(Sockets)
      /\ table' # table => \A b \in 1..Len(table') : b = 1 /\ table'[b] = Aio!Server
  <2>1. table \in Seq(Sockets)
    BY DEF AioTypes
  <2>2. CASE table' = <<>>
    BY <2>2
  <2>3. CASE table' = <<Aio!Server>>
    BY <2>3 DEF Sockets
  <2> QED
    BY <1>1, <2>1, <2>2, <2>3
<1>3. AioTypes'
  BY <1>1, <1>2 DEF AioTypes
<1>4. OnePlace'
  <2>1. \A b \in 1..Len(backlog) : backlog[b] \in Clients
    BY DEF AioTypes
  <2>2. CASE table' = table
    BY <1>1, <2>2 DEF OnePlace
  <2>3. CASE table' # table
    BY <1>1, <1>2, <2>1, <2>3 DEF OnePlace
  <2> QED
    BY <2>2, <2>3
<1>5. PollListens'
  BY <1>1 DEF PollListens, ListensFirst, Aio!Up
<1>6. ReportsStand'
  BY <1>1 DEF ReportsStand
<1> QED
  BY <1>3, <1>4, <1>5, <1>6

(* A new client leaves the backlog for the table; or the server ends.      *)
AcceptedBy(next) ==
    /\ srv' = next /\ UNCHANGED <<api, cli, unread, fin, rst>>
    /\ table' \in Seq(Sockets) /\ Len(table') = Len(table) + 1
    /\ \A a \in 1..Len(table) : table'[a] = table[a]
    /\ table'[Len(table) + 1] = Head(backlog) /\ Head(backlog) \in Clients
    /\ ~InTable(Head(backlog))
    /\ backlog' \in Seq(Clients) /\ OnePlace'

(* What accept() does to the table and the backlog.                        *)
LEMMA AcceptFacts ==
    ASSUME AioInv, NEW next, Aio!Accept(next), backlog # <<>>
    PROVE  Aio!End \/ AcceptedBy(next)
<1> USE LecturesAssumption DEF LecturesAssumption, AioInv
<1> SUFFICES ASSUME ~Aio!End PROVE AcceptedBy(next)
  OBVIOUS
<1> DEFINE h == Head(backlog)
<1>1. /\ table' = Append(table, h) /\ backlog' = Tail(backlog)
      /\ srv' = next /\ UNCHANGED <<api, cli, unread, fin, rst>>
  BY DEF Aio!Accept
<1>2. table \in Seq(Sockets) /\ backlog \in Seq(Clients)
  BY DEF AioTypes
<1>3. h \in Clients /\ h \in Sockets /\ h = backlog[1] /\ Len(backlog) \in Nat \ {0}
  BY <1>2 DEF Sockets
<1>4. /\ backlog' \in Seq(Clients) /\ Len(backlog') = Len(backlog) - 1
      /\ \A b \in 1..(Len(backlog) - 1) : backlog'[b] = backlog[b + 1]
  BY <1>1, <1>2
<1> HIDE DEF h
<1>5. /\ table' \in Seq(Sockets) /\ Len(table') = Len(table) + 1 /\ Len(table) \in Nat
      /\ \A a \in 1..Len(table) : table'[a] = table[a]
      /\ table'[Len(table) + 1] = h
  BY <1>1, <1>2, <1>3
<1>6. ~InTable(h)
  BY <1>3 DEF InTable, OnePlace
<1>7. cli[h] # "new" /\ \A b \in 2..Len(backlog) : backlog[b] # h
  BY <1>3 DEF OnePlace
<1>8. OnePlace'
  <2>1. \A a, b \in 1..Len(table') : table'[a] = table'[b] => a = b
    <3>1. \A a \in 1..Len(table') : a \in 1..Len(table) \/ a = Len(table) + 1
      BY <1>5
    <3> QED
      BY <1>5, <1>6, <3>1 DEF OnePlace, InTable
  <2>2. \A a, b \in 1..Len(backlog') : backlog'[a] = backlog'[b] => a = b
    BY <1>3, <1>4 DEF OnePlace
  <2>3. \A a \in 1..Len(table'), b \in 1..Len(backlog') : table'[a] # backlog'[b]
    <3> SUFFICES ASSUME NEW a \in 1..Len(table'), NEW b \in 1..Len(backlog')
                 PROVE  table'[a] # backlog'[b]
      OBVIOUS
    <3>1. b + 1 \in 2..Len(backlog) /\ backlog'[b] = backlog[b + 1]
      BY <1>3, <1>4
    <3>2. CASE a \in 1..Len(table)
      BY <1>3, <1>5, <3>1, <3>2 DEF OnePlace
    <3>3. CASE a = Len(table) + 1
      BY <1>5, <1>7, <3>1, <3>3
    <3> QED
      BY <1>5, <3>2, <3>3
  <2>4. ASSUME NEW d \in Clients, cli[d] = "new"
        PROVE  /\ \A a \in 1..Len(table') : table'[a] # d
               /\ \A b \in 1..Len(backlog') : backlog'[b] # d
    <3>1. d # h
      BY <1>7, <2>4
    <3>2. \A a \in 1..Len(table') : table'[a] # d
      BY <1>5, <2>4, <3>1 DEF OnePlace
    <3>3. \A b \in 1..Len(backlog') : backlog'[b] # d
      BY <1>3, <1>4, <2>4 DEF OnePlace
    <3> QED
      BY <3>2, <3>3
  <2> QED
    BY <1>1, <2>1, <2>2, <2>3, <2>4 DEF OnePlace
<1> QED
  BY <1>1, <1>3, <1>4, <1>5, <1>6, <1>8 DEF AcceptedBy, h

(* select() and poll(): what is readable is reported.                      *)
LEMMA WaitStep ==
    ASSUME AioInv, NEW a, NEW watched, Aio!Wait(a, watched),
           \A s \in watched \ {Aio!Server} : InTable(s)
    PROVE  AioInv'
<1> USE DEF AioInv
<1>1. /\ ready' \subseteq watched /\ \A s \in ready' : Aio!Readable(s)
      /\ i' = 1 /\ srv' = IF Aio!Server \in ready' THEN "accept" ELSE "scan"
      /\ srv = "wait" /\ UNCHANGED <<api, table, cli, unread, fin, rst, backlog>>
  BY DEF Aio!Wait, Aio!Report, Aio!net
<1>2. \A s \in ready' : Aio!Readable(s)'
  BY <1>1 DEF Aio!Readable
<1>3. \A b \in 1..Len(table) : table[b] \in Sockets
  BY DEF AioTypes
<1>4. ready' \subseteq Sockets
  BY <1>1, <1>3 DEF InTable, Sockets
<1>5. AioTypes' /\ OnePlace'
  BY <1>1, <1>4 DEF AioTypes, OnePlace
<1>6. PollListens'
  BY <1>1 DEF PollListens, ListensFirst, Aio!Up
<1>7. ReportsStand'
  <2>1. CASE Aio!Server \in ready'
    BY <1>1, <1>2, <2>1 DEF ReportsStand, InTable
  <2>2. CASE Aio!Server \notin ready'
    <3>1. ASSUME NEW b \in 1..Len(table), table[b] \in ready' PROVE Aio!Readable(table[b])'
      BY <1>1, <1>2, <3>1 DEF Aio!Readable
    <3> QED
      BY <1>1, <2>2, <3>1 DEF ReportsStand
  <2> QED
    BY <2>1, <2>2
<1> QED
  BY <1>5, <1>6, <1>7

(* The listening socket is served first.                                   *)
LEMMA ScanAcceptStep ==
    ASSUME AioInv, Aio!select_accept \/ Aio!poll_accept
    PROVE  AioInv'
<1> USE LecturesAssumption DEF LecturesAssumption, AioInv
<1>1. srv = "accept" /\ Aio!Accept("scan")
  BY DEF Aio!select_accept, Aio!poll_accept
<1>2. /\ i = 1 /\ Aio!Server \in ready /\ backlog # <<>>
      /\ \A s \in ready : Aio!Readable(s)
      /\ \A s \in ready \ {Aio!Server} : InTable(s)
  BY <1>1 DEF ReportsStand, Aio!Readable
<1>3. CASE Aio!End
  BY <1>3, EndStep
<1>4. CASE AcceptedBy("scan")
  <2> USE <1>4 DEF AcceptedBy
  <2>1. i' = i /\ ready \subseteq Sockets /\ Len(table) \in Nat
    BY DEF Aio!select_accept, Aio!poll_accept, AioTypes
  <2>2. ready' \subseteq Sockets
    BY <2>1 DEF Aio!select_accept, Aio!poll_accept, Sockets
  <2>3. AioTypes'
    BY <2>1, <2>2 DEF AioTypes
  <2>4. ListensFirst => ListensFirst'
    BY <2>1 DEF ListensFirst
  <2>5. PollListens'
    BY <1>1, <2>4 DEF PollListens, Aio!Up
  <2>6. CASE api = "poll"
    <3>1. Aio!Server \in ready' /\ ListensFirst
      BY <1>1, <1>2, <2>6 DEF Aio!select_accept, Aio!poll_accept, PollListens, Aio!Up
    <3>2. ReportsStand'
      BY <1>2, <2>1, <2>4, <3>1 DEF ReportsStand
    <3> QED
      BY <2>3, <2>5, <3>2
  <2>7. CASE api # "poll"
    <3>1. ready' = ready
      BY <2>7 DEF Aio!select_accept, Aio!poll_accept
    <3>2. ASSUME NEW a \in 1..Len(table'), table'[a] \in ready \ {Aio!Server}
          PROVE  Aio!Readable(table[a])' /\ table'[a] = table[a]
      <4>1. InTable(table'[a])
        BY <1>2, <3>2
      <4>2. a \in 1..Len(table) /\ table'[a] = table[a]
        BY <2>1, <4>1, <3>2
      <4>3. Aio!Readable(table[a]) /\ table[a] # Aio!Server
        BY <1>2, <3>2, <4>2
      <4> QED
        BY <4>2, <4>3 DEF Aio!Readable
    <3>3. \A a \in i'..Len(table') :
            table'[a] \in ready' \ {Aio!Server} => Aio!Readable(table[a])'
      BY <1>2, <2>1, <3>1, <3>2
    <3>4. ReportsStand'
      BY <3>3 DEF ReportsStand
    <3> QED
      BY <2>3, <2>5, <3>4
  <2> QED
    BY <2>6, <2>7
<1> QED
  BY <1>1, <1>2, <1>3, <1>4, AcceptFacts

(* A socket that can be read is read without waiting, and no other one is  *)
(* touched.                                                                *)
LEMMA InteractFacts ==
    ASSUME AioTypes, NEW s \in Sockets, Aio!Interact(s)
    PROVE  /\ s # Aio!Server /\ Aio!Readable(s) => Aio!interact(s) # Aio!NEVER
           /\ Aio!interact(Aio!Server) = -1
           /\ unread' \in [Clients -> Nat] /\ UNCHANGED <<cli, backlog>>
           /\ fin' \in [Clients -> BOOLEAN] /\ rst' \in [Clients -> BOOLEAN]
           /\ \A d \in Clients : d # s =>
                /\ unread'[d] = unread[d] /\ fin'[d] = fin[d] /\ rst'[d] = rst[d]
<1> USE LecturesAssumption DEF LecturesAssumption
<1>1. unread \in [Clients -> Nat] /\ fin \in [Clients -> BOOLEAN] /\ rst \in [Clients -> BOOLEAN]
  BY DEF AioTypes
<1>2. Aio!interact(Aio!Server) = -1
  BY DEF Aio!interact
<1>3. ASSUME s # Aio!Server PROVE s \in Clients
  BY <1>3 DEF Sockets
<1>4. ASSUME s # Aio!Server, Aio!Readable(s) PROVE Aio!interact(s) # Aio!NEVER
  <2>1. s \in Clients /\ unread[s] \in Nat /\ (unread[s] > 0 \/ fin[s] \/ rst[s])
    BY <1>1, <1>3, <1>4 DEF Aio!Readable
  <2>2. CASE rst[s]
    BY <1>4, <2>2 DEF Aio!interact, Aio!NEVER
  <2>3. CASE ~rst[s] /\ unread[s] > 0
    BY <1>4, <2>3 DEF Aio!interact, Aio!NEVER
  <2>4. CASE ~rst[s] /\ unread[s] = 0 /\ fin[s]
    BY <1>4, <2>4 DEF Aio!interact, Aio!NEVER
  <2> QED
    BY <2>1, <2>2, <2>3, <2>4
<1>5. /\ fin' \in [Clients -> BOOLEAN] /\ rst' \in [Clients -> BOOLEAN]
      /\ \A d \in Clients : d # s => fin'[d] = fin[d] /\ rst'[d] = rst[d]
  <2>1. CASE UNCHANGED <<fin, rst>>
    BY <1>1, <2>1
  <2>2. CASE rst' = [rst EXCEPT ![s] = FALSE] /\ fin' = [fin EXCEPT ![s] = TRUE]
    BY <1>1, <2>2
  <2> QED
    BY <2>1, <2>2 DEF Aio!Interact
<1>6. /\ unread' \in [Clients -> Nat] /\ UNCHANGED <<cli, backlog>>
      /\ \A d \in Clients : d # s => unread'[d] = unread[d]
  <2>1. CASE UNCHANGED unread
    BY <1>1, <2>1 DEF Aio!Interact
  <2>2. CASE Aio!interact(s) = 4
    <3>1. unread' = [unread EXCEPT ![s] = @ - 1]
      BY <2>2 DEF Aio!Interact
    <3>2. s \in Clients
      BY <1>2, <1>3, <2>2
    <3>3. unread[s] > 0
      BY <1>1, <2>2, <3>2 DEF Aio!interact, Aio!NEVER
    <3> QED
      BY <1>1, <3>1, <3>2, <3>3 DEF Aio!Interact
  <2> QED
    BY <2>1, <2>2 DEF Aio!Interact
<1> QED
  BY <1>2, <1>4, <1>5, <1>6

(* An entry leaves the table.                                              *)
LEMMA RemovedFacts ==
    ASSUME AioInv, NEW k \in 1..Len(table), table' = Aio!RemoveAt(table, k),
           UNCHANGED <<cli, backlog>>
    PROVE  /\ table' \in Seq(Sockets) /\ Len(table') \in Nat
           /\ \A a \in 1..Len(table') : \E b \in 1..Len(table) :
                table'[a] = table[b] /\ b = IF a < k THEN a ELSE a + 1
           /\ OnePlace'
           /\ table[k] # Aio!Server /\ ListensFirst => ListensFirst'
<1> USE DEF AioInv
<1>1. table \in Seq(Sockets) /\ Len(table) \in Nat
  BY DEF AioTypes
<1>2. /\ table' \in Seq(Sockets) /\ Len(table') = Len(table) - 1
      /\ \A m \in 1..(Len(table) - 1) : table'[m] = IF m < k THEN table[m] ELSE table[m + 1]
  BY <1>1, RemoveAtFacts
<1>3. \A a \in 1..Len(table') : \E b \in 1..Len(table) :
            table'[a] = table[b] /\ b = IF a < k THEN a ELSE a + 1
  BY <1>1, <1>2
<1>4. OnePlace'
  <2>1. \A a, b \in 1..Len(table') : table'[a] = table'[b] => a = b
    <3> SUFFICES ASSUME NEW a \in 1..Len(table'), NEW b \in 1..Len(table'),
                        table'[a] = table'[b]
                 PROVE  a = b
      OBVIOUS
    <3>1. PICK e \in 1..Len(table) : table'[a] = table[e] /\ e = IF a < k THEN a ELSE a + 1
      BY <1>3
    <3>2. PICK f \in 1..Len(table) : table'[b] = table[f] /\ f = IF b < k THEN b ELSE b + 1
      BY <1>3
    <3>3. e = f
      BY <3>1, <3>2 DEF OnePlace
    <3> QED
      BY <1>1, <1>2, <3>1, <3>2, <3>3
  <2>2. \A a \in 1..Len(table'), b \in 1..Len(backlog) : table'[a] # backlog[b]
    BY <1>3 DEF OnePlace
  <2>3. \A d \in Clients : cli[d] = "new" => \A a \in 1..Len(table') : table'[a] # d
    BY <1>3 DEF OnePlace
  <2> QED
    BY <2>1, <2>2, <2>3 DEF OnePlace
<1>5. ASSUME table[k] # Aio!Server, ListensFirst PROVE ListensFirst'
  <2>1. k # 1 /\ Len(table) > 1 /\ 1 < k
    BY <1>1, <1>5 DEF ListensFirst
  <2> QED
    BY <1>1, <1>2, <1>5, <2>1 DEF ListensFirst
<1> QED
  BY <1>1, <1>2, <1>3, <1>4, <1>5

(* One turn of the loop over the array.                                    *)
LEMMA ScanStep ==
    ASSUME AioInv, Aio!select_scan \/ Aio!poll_scan
    PROVE  AioInv'
<1> USE LecturesAssumption DEF LecturesAssumption
<1>1. /\ srv = "scan" /\ api' = api
      /\ IF i > Len(table) \/ nfds = 0
         THEN srv' = "wait" /\ ready' = {} /\ i' = 1 /\ UNCHANGED <<table, Aio!net>>
         ELSE IF table[i] \notin ready
         THEN i' = i + 1 /\ UNCHANGED <<srv, table, ready, Aio!net>>
         ELSE /\ Aio!Interact(table[i]) /\ i' = i + 1 /\ ready' = ready
              /\ srv' = CASE Aio!interact(table[i]) = Aio!NEVER -> "blocked"
                          [] Aio!interact(table[i]) = -1 -> "wait" [] OTHER -> srv
              /\ IF Aio!interact(table[i]) = 0
                 THEN table' = Aio!RemoveAt(table, i) ELSE UNCHANGED table
  BY DEF Aio!select_scan, Aio!poll_scan, Aio!Scan, Aio!select_remove_client,
     Aio!poll_remove_client
<1>2. /\ AioTypes /\ i \in Nat \ {0} /\ Len(table) \in Nat
      /\ \A a \in 1..Len(table) : table[a] \in Sockets
  BY DEF AioInv, AioTypes
<1>3. \/ i = 1 /\ Aio!Server \in ready /\ ListensFirst
      \/ \A a \in i..Len(table) :
            table[a] \in ready \ {Aio!Server} => Aio!Readable(table[a])
  BY <1>1 DEF AioInv, ReportsStand
<1>4. CASE i > Len(table) \/ nfds = 0
  <2>1. srv' = "wait" /\ ready' = {} /\ i' = 1
        /\ UNCHANGED <<table, cli, unread, fin, rst, backlog>>
    BY <1>1, <1>4 DEF Aio!net
  <2>2. AioTypes' /\ OnePlace' /\ PollListens' /\ ReportsStand'
    BY <1>1, <2>1 DEF AioInv, AioTypes, OnePlace, PollListens, ListensFirst, ReportsStand, Aio!Up
  <2> QED
    BY <2>2 DEF AioInv
<1>5. CASE ~(i > Len(table) \/ nfds = 0) /\ table[i] \notin ready
  <2>1. i' = i + 1 /\ UNCHANGED <<srv, table, ready, cli, unread, fin, rst, backlog>>
    BY <1>1, <1>5 DEF Aio!net
  <2>2. AioTypes' /\ OnePlace' /\ PollListens'
    BY <1>1, <1>2, <2>1
       DEF AioInv, AioTypes, OnePlace, PollListens, ListensFirst, Aio!Up
  <2>3. ~(i = 1 /\ Aio!Server \in ready /\ ListensFirst)
    BY <1>5 DEF ListensFirst
  <2>4. \A a \in (i + 1)..Len(table) :
            table[a] \in ready \ {Aio!Server} => Aio!Readable(table[a])'
    <3> SUFFICES ASSUME NEW a \in (i + 1)..Len(table), table[a] \in ready \ {Aio!Server}
                 PROVE  Aio!Readable(table[a])'
      OBVIOUS
    <3>1. Aio!Readable(table[a])
      BY <1>2, <1>3, <2>3
    <3> QED
      BY <2>1, <3>1 DEF Aio!Readable
  <2>5. ReportsStand'
    BY <1>1, <2>1, <2>4 DEF ReportsStand
  <2> QED
    BY <2>2, <2>5 DEF AioInv
<1>6. CASE ~(i > Len(table) \/ nfds = 0) /\ table[i] \in ready
  <2> DEFINE s == table[i]
             rc == Aio!interact(s)
  <2>1. /\ Aio!Interact(s) /\ i' = i + 1 /\ ready' = ready
        /\ srv' = CASE rc = Aio!NEVER -> "blocked" [] rc = -1 -> "wait" [] OTHER -> srv
        /\ IF rc = 0 THEN table' = Aio!RemoveAt(table, i) ELSE UNCHANGED table
    BY <1>1, <1>6
  <2>2. i \in 1..Len(table) /\ s \in Sockets
    BY <1>2, <1>6
  <2>3. /\ s # Aio!Server /\ Aio!Readable(s) => rc # Aio!NEVER
        /\ s = Aio!Server => rc = -1
        /\ unread' \in [Clients -> Nat] /\ UNCHANGED <<cli, backlog>>
        /\ fin' \in [Clients -> BOOLEAN] /\ rst' \in [Clients -> BOOLEAN]
        /\ \A d \in Clients : d # s =>
                /\ unread'[d] = unread[d] /\ fin'[d] = fin[d] /\ rst'[d] = rst[d]
    BY <1>2, <2>1, <2>2, InteractFacts
  <2>4. ASSUME s # Aio!Server
        PROVE  /\ Aio!Readable(s)
               /\ \A a \in i..Len(table) :
                    table[a] \in ready \ {Aio!Server} => Aio!Readable(table[a])
    <3>1. ~(i = 1 /\ Aio!Server \in ready /\ ListensFirst)
      BY <2>4 DEF ListensFirst
    <3> QED
      BY <1>2, <1>3, <1>6, <2>2, <2>4, <3>1
  <2>5. srv' \in {"wait", "scan"} /\ (s = Aio!Server => srv' = "wait" /\ table' = table)
    <3>1. rc # Aio!NEVER
      BY <2>3, <2>4 DEF Aio!NEVER
    <3> HIDE DEF rc, s
    <3>2. srv' \in {"wait", "scan"} /\ (rc = -1 => srv' = "wait")
      BY <1>1, <2>1, <3>1 DEF Aio!NEVER
    <3> QED
      BY <2>1, <2>3, <3>2
  <2>6. /\ table' \in Seq(Sockets) /\ Len(table') \in Nat /\ OnePlace'
        /\ \A a \in 1..Len(table') : \E b \in 1..Len(table) :
                table'[a] = table[b] /\ (a > i => b > i)
        /\ ListensFirst => ListensFirst'
    <3>1. CASE rc = 0
      <4>1. table' = Aio!RemoveAt(table, i) /\ s # Aio!Server
        BY <2>1, <2>3, <3>1
      <4>2. /\ table' \in Seq(Sockets) /\ Len(table') \in Nat
            /\ \A a \in 1..Len(table') : \E b \in 1..Len(table) :
                table'[a] = table[b] /\ b = IF a < i THEN a ELSE a + 1
            /\ OnePlace'
            /\ ListensFirst => ListensFirst'
        BY <2>2, <2>3, <4>1, RemovedFacts
      <4>3. ASSUME NEW a \in 1..Len(table')
            PROVE  \E b \in 1..Len(table) : table'[a] = table[b] /\ (a > i => b > i)
        <5>1. PICK b \in 1..Len(table) : table'[a] = table[b] /\ b = IF a < i THEN a ELSE a + 1
          BY <4>2
        <5>2. a > i => b > i
          BY <1>2, <4>2, <5>1
        <5> QED
          BY <5>1, <5>2
      <4> QED
        BY <4>2, <4>3
    <3>2. CASE rc # 0
      <4>1. table' = table
        BY <2>1, <3>2
      <4> QED
        BY <1>2, <2>3, <4>1 DEF AioInv, AioTypes, OnePlace, ListensFirst
    <3> QED
      BY <3>1, <3>2
  <2>7. AioTypes'
    BY <1>2, <2>1, <2>3, <2>6 DEF AioTypes
  <2>8. PollListens'
    BY <1>1, <2>6 DEF AioInv, PollListens, Aio!Up
  <2>9. ASSUME srv' = "scan", NEW a \in (i + 1)..Len(table'),
               table'[a] \in ready \ {Aio!Server}
        PROVE  Aio!Readable(table[a])'
    <3>1. s # Aio!Server
      BY <2>5, <2>9
    <3>2. a \in 1..Len(table') /\ a > i
      BY <1>2, <2>6
    <3>3. PICK b \in 1..Len(table) : table'[a] = table[b] /\ b > i
      BY <2>6, <3>2
    <3>4. b \in i..Len(table) /\ table[b] \in ready \ {Aio!Server}
      BY <1>2, <2>9, <3>3
    <3>5. Aio!Readable(table[b])
      BY <2>4, <3>1, <3>4
    <3>6. table[b] # s /\ table[b] \in Clients
      BY <1>2, <2>2, <3>3, <3>4 DEF AioInv, OnePlace, Sockets
    <3> QED
      BY <2>3, <3>3, <3>5, <3>6 DEF Aio!Readable
  <2>10. ReportsStand'
    BY <2>1, <2>5, <2>9 DEF ReportsStand
  <2> QED
    BY <2>6, <2>7, <2>8, <2>10 DEF AioInv
<1> QED
  BY <1>4, <1>5, <1>6

(* kevent() and epoll_wait(): one socket that is readable is reported.     *)
LEMMA WaitOneStep ==
    ASSUME AioInv, NEW a, Aio!WaitOne(a)
    PROVE  AioInv'
<1> USE DEF AioInv
<1>1. PICK s \in Aio!Range(table) : Aio!Readable(s) /\ ready' = {s}
  BY DEF Aio!WaitOne
<1>2. srv = "wait" /\ srv' = "serve" /\ UNCHANGED <<api, table, i, cli, unread, fin, rst, backlog>>
  BY DEF Aio!WaitOne, Aio!net
<1>3. s \in Sockets
  BY <1>1 DEF Aio!Range, AioTypes
<1>4. AioTypes' /\ OnePlace'
  BY <1>1, <1>2, <1>3 DEF AioTypes, OnePlace
<1>5. PollListens'
  BY <1>2 DEF PollListens, ListensFirst, Aio!Up
<1>6. Aio!Readable(s)'
  BY <1>1, <1>2 DEF Aio!Readable
<1>7. ReportsStand'
  BY <1>1, <1>2, <1>3, <1>6 DEF ReportsStand
<1> QED
  BY <1>4, <1>5, <1>7

(* It is served.                                                           *)
LEMMA ServeStep ==
    ASSUME AioInv, Aio!kqueue_serve \/ Aio!epoll_serve
    PROVE  AioInv'
<1> USE LecturesAssumption DEF LecturesAssumption
<1>1. /\ srv = "serve"
      /\ IF ready = {Aio!Server} THEN Aio!Accept("wait")
         ELSE \E c \in ready :
            IF Aio!interact(c) = -1 THEN Aio!End
            ELSE /\ Aio!Interact(c) /\ api' = api
                 /\ srv' = IF Aio!interact(c) = Aio!NEVER THEN "blocked" ELSE "wait"
                 /\ \/ table' = table
                    \/ \E k \in DOMAIN table :
                            table[k] = c /\ table' = Aio!RemoveAt(table, k)
      /\ srv' # "ended" => ready' = {} /\ i' = i
  BY DEF Aio!kqueue_serve, Aio!epoll_serve, Aio!Serve
<1>2. PICK s \in Sockets : ready = {s} /\ Aio!Readable(s)
  BY <1>1 DEF AioInv, ReportsStand
<1>3. AioTypes /\ Len(table) \in Nat /\ DOMAIN table = 1..Len(table)
  BY DEF AioInv, AioTypes
<1>4. CASE Aio!End
  BY <1>4, EndStep
<1>5. CASE s = Aio!Server /\ ~Aio!End
  <2>1. backlog # <<>> /\ Aio!Accept("wait")
    BY <1>1, <1>2, <1>5 DEF Aio!Readable
  <2>2. AcceptedBy("wait") /\ ready' = {} /\ i' = i
    BY <1>1, <1>5, <2>1, AcceptFacts DEF AcceptedBy
  <2>3. AioTypes'
    BY <1>3, <2>2 DEF AcceptedBy, AioTypes
  <2>4. PollListens' /\ ReportsStand'
    BY <1>1, <1>3, <2>2
       DEF AioInv, AcceptedBy, PollListens, ListensFirst, Aio!Up, ReportsStand
  <2> QED
    BY <2>2, <2>3, <2>4 DEF AioInv, AcceptedBy
<1>6. CASE s # Aio!Server /\ ~Aio!End
  <2>1. /\ Aio!Interact(s) /\ api' = api
        /\ srv' = IF Aio!interact(s) = Aio!NEVER THEN "blocked" ELSE "wait"
        /\ \/ table' = table
           \/ \E k \in DOMAIN table : table[k] = s /\ table' = Aio!RemoveAt(table, k)
    BY <1>1, <1>2, <1>6
  <2>2. /\ Aio!interact(s) # Aio!NEVER
        /\ unread' \in [Clients -> Nat] /\ UNCHANGED <<cli, backlog>>
        /\ fin' \in [Clients -> BOOLEAN] /\ rst' \in [Clients -> BOOLEAN]
    BY <1>2, <1>3, <1>6, <2>1, InteractFacts
  <2>3. srv' = "wait" /\ ready' = {} /\ i' = i
    BY <1>1, <2>1, <2>2
  <2>4. table' \in Seq(Sockets) /\ OnePlace' /\ (ListensFirst => ListensFirst')
    <3>1. CASE table' = table
      BY <2>2, <3>1 DEF AioInv, AioTypes, OnePlace, ListensFirst
    <3>2. ASSUME NEW k \in DOMAIN table, table[k] = s, table' = Aio!RemoveAt(table, k)
          PROVE  table' \in Seq(Sockets) /\ OnePlace' /\ (ListensFirst => ListensFirst')
      BY <1>3, <1>6, <2>2, <3>2, RemovedFacts
    <3> QED
      BY <2>1, <3>1, <3>2
  <2>5. AioTypes'
    BY <1>3, <2>2, <2>3, <2>4 DEF AioTypes
  <2>6. PollListens' /\ ReportsStand'
    BY <1>1, <2>1, <2>3, <2>4 DEF AioInv, PollListens, Aio!Up, ReportsStand
  <2> QED
    BY <2>4, <2>5, <2>6 DEF AioInv
<1> QED
  BY <1>4, <1>5, <1>6

(* Every step keeps the invariant.                                         *)
LEMMA AioStep == AioInv /\ [Next]_vars => AioInv'
<1> SUFFICES ASSUME AioInv, [Next]_vars PROVE AioInv'
  OBVIOUS
<1>1. CASE AioNext
  <2>1. CASE \E c \in Clients : Aio!Client(c)
    BY <2>1, ClientStep
  <2>2. CASE Aio!select_start \/ Aio!poll_start \/ Aio!kqueue_start \/ Aio!epoll_start
    BY <2>2, StartStep
       DEF Aio!select_start, Aio!poll_start, Aio!kqueue_start, Aio!epoll_start
  <2>3. CASE Aio!select_wait \/ Aio!poll_wait
    <3>1. \A s \in Aio!Range(table) : InTable(s)
      <4>1. DOMAIN table = 1..Len(table)
        BY DEF AioInv, AioTypes
      <4> QED
        BY <4>1 DEF Aio!Range, InTable
    <3>2. CASE Aio!select_wait
      <4>1. \A s \in ({Aio!Server} \cup Aio!Range(table)) \ {Aio!Server} : InTable(s)
        BY <3>1
      <4> QED
        BY <3>2, <4>1, WaitStep DEF Aio!select_wait
    <3>3. CASE Aio!poll_wait
      <4>1. \A s \in Aio!Range(table) \ {Aio!Server} : InTable(s)
        BY <3>1
      <4> QED
        BY <3>3, <4>1, WaitStep DEF Aio!poll_wait
    <3> QED
      BY <2>3, <3>2, <3>3
  <2>4. CASE Aio!select_accept \/ Aio!poll_accept
    BY <2>4, ScanAcceptStep
  <2>5. CASE Aio!select_scan \/ Aio!poll_scan
    BY <2>5, ScanStep
  <2>6. CASE Aio!kqueue_wait \/ Aio!epoll_wait
    BY <2>6, WaitOneStep DEF Aio!kqueue_wait, Aio!epoll_wait
  <2>7. CASE Aio!kqueue_serve \/ Aio!epoll_serve
    BY <2>7, ServeStep
  <2> QED
    BY <1>1, <2>1, <2>2, <2>3, <2>4, <2>5, <2>6, <2>7 DEF AioNext, Aio!Next, Aio!Serving
<1>2. CASE UNCHANGED aio_vars
  <2> USE <1>2 DEF aio_vars, AioInv
  <2>1. AioTypes' /\ OnePlace' /\ PollListens'
    BY DEF AioTypes, OnePlace, PollListens, ListensFirst, Aio!Up
  <2>2. ReportsStand'
    BY DEF ReportsStand, InTable, ListensFirst, Aio!Readable
  <2> QED
    BY <2>1, <2>2
<1> QED
  BY <1>1, <1>2 DEF Next, vars, SortNext, SemNext, ReorderNext, SpinNext, EarlyNext, CondNext

(* With any number of clients, that come, send, end or are killed between  *)
(* any two turns of the server's loop, and any limit of descriptors: none  *)
(* of the four servers calls read() on a socket that has nothing to read.  *)
THEOREM LecturesNeverBlocks == Spec => []NeverBlocks
<1>1. AioInv => NeverBlocks
  BY DEF AioInv, ReportsStand, NeverBlocks, Aio!NeverBlocks
<1> QED
  BY <1>1, AioInit, AioStep, PTL DEF Spec
=============================================================================
