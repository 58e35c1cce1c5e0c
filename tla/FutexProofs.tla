---------------------------- MODULE FutexProofs ----------------------------
(***************************************************************************)
(* Proofs about Futex: the lock excludes, no wakeup is lost, and the       *)
(* counter under the lock is the atomic counter, for any threads and       *)
(* rounds.                                                                 *)
(***************************************************************************)
EXTENDS Futex, TLAPS

(* Only threads in the loop's body have a round left to do.                *)
InRound == {"lock", "wait", "sleep", "read", "write"}

(* The strengthening: the word says whether somebody is inside, and there  *)
(* is at most one; what it has read is still the counter; sleepers are     *)
(* those that the kernel holds; nobody moves after main() has printed.     *)
LockWord == /\ futex = 0 => \A t \in Threads : ~Inside(t)
            /\ futex = 1 => \E t \in Threads : Inside(t)
RegisterFresh == \A t \in Threads : pc[t] = "write" => register[t] = counter
RoundsLeft == \A t \in Threads : /\ pc[t] \in InRound => done[t] < Rounds
                                 /\ pc[t] = "end" => done[t] = Rounds
Sleepers == \A t \in sleeping : pc[t] = "sleep"
PrintedLast == printed # -1 => \A t \in Threads : pc[t] = "end"

IInv == /\ TypeOK /\ LockWord /\ MutualExclusion /\ RegisterFresh /\ RoundsLeft
        /\ Sleepers /\ PrintedLast

-----------------------------------------------------------------------------
(* The invariant holds before main() starts the threads.                   *)
LEMMA InitInvariant == Init => IInv
<1> SUFFICES ASSUME Init PROVE IInv
  OBVIOUS
<1> USE FutexAssumption DEF FutexAssumption, Init
<1>1. TypeOK
  <2>1. printed \in Nat \cup {-1}
    OBVIOUS
  <2>2. pc \in [Threads -> Steps]
    BY DEF Steps
  <2>3. /\ register \in [Threads -> Nat]
        /\ done \in [Threads -> 0..Rounds]
    OBVIOUS
  <2> QED
    BY <2>1, <2>2, <2>3 DEF TypeOK
<1>2. LockWord /\ MutualExclusion
  BY DEF LockWord, MutualExclusion, Inside
<1>3. RegisterFresh /\ RoundsLeft
  BY DEF RegisterFresh, RoundsLeft, InRound
<1>4. Sleepers /\ PrintedLast
  BY DEF Sleepers, PrintedLast
<1> QED
  BY <1>1, <1>2, <1>3, <1>4 DEF IInv

(* Types are kept by every step of 8_futex.c.                              *)
LEMMA TypeStep == IInv /\ [Next]_vars => TypeOK'
<1> SUFFICES ASSUME IInv, [Next]_vars PROVE TypeOK'
  OBVIOUS
<1> USE FutexAssumption DEF FutexAssumption, IInv, TypeOK, Steps, Goto
<1>1. CASE StartAll
  BY <1>1 DEF StartAll
<1>2. CASE JoinAll
  BY <1>2 DEF JoinAll
<1>3. ASSUME NEW t \in Threads, ThreadStep(t)
      PROVE  TypeOK'
  <2>1. CASE WaitForStart(t)
    BY <2>1 DEF WaitForStart
  <2>2. CASE Loop(t)
    BY <2>2 DEF Loop
  <2>3. CASE futex_lock(t)
    BY <2>3 DEF futex_lock
  <2>4. CASE futex_wait(t)
    BY <2>4 DEF futex_wait
  <2>5. CASE ReadCounter(t)
    BY <2>5 DEF ReadCounter
  <2>6. CASE WriteCounter(t)
    BY <2>6 DEF WriteCounter, RoundsLeft, InRound
  <2>7. CASE futex_unlock(t)
    BY <2>7 DEF futex_unlock
  <2>8. CASE futex_wake(t)
    BY <2>8 DEF futex_wake
  <2> QED
    BY <1>3, <2>1, <2>2, <2>3, <2>4, <2>5, <2>6, <2>7, <2>8 DEF ThreadStep
<1>4. ASSUME NEW t \in Threads, Interrupt(t)
      PROVE  TypeOK'
  BY <1>4 DEF Interrupt
<1>5. CASE UNCHANGED vars
  BY <1>5 DEF vars
<1> QED
  BY <1>1, <1>2, <1>3, <1>4, <1>5 DEF Next, MainStep

(* Every step of 8_futex.c keeps the rest of the invariant.                *)
LEMMA NextInvariant == IInv /\ [Next]_vars => IInv'
<1> SUFFICES ASSUME IInv, [Next]_vars PROVE IInv'
  OBVIOUS
<1> DEFINE Rest == LockWord /\ MutualExclusion /\ RegisterFresh /\ RoundsLeft
                   /\ Sleepers /\ PrintedLast
<1>0. TypeOK /\ TypeOK' /\ Rest
  BY TypeStep DEF IInv
<1> USE FutexAssumption, <1>0
    DEF FutexAssumption, TypeOK, LockWord, MutualExclusion, RegisterFresh, RoundsLeft, Sleepers,
        PrintedLast, Inside, InRound, Goto
<1>1. ASSUME StartAll PROVE Rest'
  BY <1>1 DEF StartAll
<1>2. ASSUME JoinAll PROVE Rest'
  BY <1>2 DEF JoinAll
<1>3. ASSUME NEW t \in Threads, ThreadStep(t)
      PROVE  Rest'
  <2>1. CASE WaitForStart(t)
    BY <2>1 DEF WaitForStart
  <2>2. CASE Loop(t)
    BY <2>2 DEF Loop
  <2>3. CASE futex_lock(t)
    BY <2>3 DEF futex_lock
  <2>4. CASE futex_wait(t)
    BY <2>4 DEF futex_wait
  <2>5. CASE ReadCounter(t)
    BY <2>5 DEF ReadCounter
  <2>6. CASE WriteCounter(t)
    BY <2>6 DEF WriteCounter
  <2>7. CASE futex_unlock(t)
    BY <2>7 DEF futex_unlock
  <2>8. CASE futex_wake(t)
    BY <2>8 DEF futex_wake
  <2> QED
    BY <1>3, <2>1, <2>2, <2>3, <2>4, <2>5, <2>6, <2>7, <2>8 DEF ThreadStep
<1>4. ASSUME NEW t \in Threads, Interrupt(t)
      PROVE  Rest'
  BY <1>4 DEF Interrupt
<1>5. ASSUME UNCHANGED vars PROVE Rest'
  BY <1>5 DEF vars
<1> QED
  BY <1>1, <1>2, <1>3, <1>4, <1>5 DEF Next, MainStep, IInv

(* The inductive invariant holds in every state of every execution.        *)
THEOREM FutexInductive == Spec => []IInv
BY InitInvariant, NextInvariant, PTL DEF Spec

(* The state of 8_futex.c keeps its types.                                 *)
THEOREM FutexTypeCorrect == Spec => []TypeOK
<1>1. IInv => TypeOK
  BY DEF IInv
<1> QED
  BY <1>1, FutexInductive, PTL

(* Two threads are never between futex_lock() and futex_unlock().          *)
THEOREM FutexMutualExclusion == Spec => []MutualExclusion
<1>1. IInv => MutualExclusion
  BY DEF IInv
<1> QED
  BY <1>1, FutexInductive, PTL

(* No wakeup is lost: when a thread goes to sleep, the lock is held; who   *)
(* unlocks goes on to wake; who is woken tries the lock.                   *)
LEMMA WakeupInit == Init => NoLostWakeup
BY DEF Init, NoLostWakeup

(* Every step keeps it: the steps below are those of Next.                 *)
LEMMA WakeupStep == IInv /\ NoLostWakeup /\ [Next]_vars => NoLostWakeup'
<1> SUFFICES ASSUME IInv, NoLostWakeup, [Next]_vars PROVE NoLostWakeup'
  OBVIOUS
<1>0. TypeOK /\ LockWord
  BY DEF IInv
<1> USE <1>0 DEF TypeOK, LockWord, NoLostWakeup, Inside, Goto
<1>1. CASE StartAll
  BY <1>1 DEF StartAll
<1>2. CASE JoinAll
  BY <1>2 DEF JoinAll
<1>3. ASSUME NEW t \in Threads, ThreadStep(t)
      PROVE  NoLostWakeup'
  <2>1. CASE WaitForStart(t)
    BY <2>1 DEF WaitForStart
  <2>2. CASE Loop(t)
    BY <2>2 DEF Loop
  <2>3. CASE futex_lock(t)
    BY <2>3 DEF futex_lock
  <2>4. CASE futex_wait(t)
    BY <2>4 DEF futex_wait
  <2>5. CASE ReadCounter(t)
    BY <2>5 DEF ReadCounter
  <2>6. CASE WriteCounter(t)
    BY <2>6 DEF WriteCounter
  <2>7. CASE futex_unlock(t)
    BY <2>7 DEF futex_unlock
  <2>8. CASE futex_wake(t)
    BY <2>8 DEF futex_wake
  <2> QED
    BY <1>3, <2>1, <2>2, <2>3, <2>4, <2>5, <2>6, <2>7, <2>8 DEF ThreadStep
<1>4. ASSUME NEW t \in Threads, Interrupt(t)
      PROVE  NoLostWakeup'
  BY <1>4 DEF Interrupt
<1>5. CASE UNCHANGED vars
  BY <1>5 DEF vars
<1> QED
  BY <1>1, <1>2, <1>3, <1>4, <1>5 DEF Next, MainStep

(* While a thread sleeps in FUTEX_WAIT, another is on its way to wake it,  *)
(* directly or by taking the lock and giving it back.                      *)
THEOREM FutexNoLostWakeup == Spec => []NoLostWakeup
BY WakeupInit, WakeupStep, FutexInductive, PTL DEF Spec

-----------------------------------------------------------------------------
(* The counter under the lock starts as the atomic counter does...         *)
LEMMA RefineInit == Init => Atomic!Init
BY DEF Init, Atomic!Init

(* ... and a step is an atomic increment, the end of a thread, the output, *)
(* or nothing to it.  The increment happens with the write: what was read  *)
(* before is still the counter, since the thread is alone inside.          *)
LEMMA RefineStep == IInv /\ [Next]_vars => [Atomic!Next]_Atomic!vars
<1> SUFFICES ASSUME IInv, [Next]_vars PROVE [Atomic!Next]_Atomic!vars
  OBVIOUS
<1>0. TypeOK /\ RegisterFresh /\ RoundsLeft
  BY DEF IInv
<1> USE <1>0, FutexAssumption DEF FutexAssumption, TypeOK, Goto
<1>1. CASE StartAll
  BY <1>1 DEF StartAll, Atomic!vars
<1>2. CASE JoinAll
  <2>1. /\ \A t \in Threads : [s \in Threads |-> pc[s] = "end"][t]
        /\ [s \in Threads |-> pc[s] = "end"]' = [s \in Threads |-> pc[s] = "end"]
    BY <1>2 DEF JoinAll
  <2>2. Atomic!PrintCounter
    BY <1>2, <2>1 DEF JoinAll, Atomic!PrintCounter
  <2> QED
    BY <2>2 DEF Atomic!Next
<1>3. ASSUME NEW t \in Threads, ThreadStep(t)
      PROVE  [Atomic!Next]_Atomic!vars
  <2>1. CASE WaitForStart(t)
    BY <2>1 DEF WaitForStart, Atomic!vars
  <2>2. CASE Loop(t)
    <3>1. CASE done[t] < Rounds
      BY <2>2, <3>1 DEF Loop, Atomic!vars
    <3>2. CASE ~(done[t] < Rounds)
      <4>1. /\ done[t] = Rounds
            /\ pc[t] = "loop"
            /\ pc' = [pc EXCEPT ![t] = "end"]
            /\ UNCHANGED <<counter, done, printed>>
        BY <2>2, <3>2 DEF Loop
      <4>2. [s \in Threads |-> pc[s] = "end"]'
              = [[s \in Threads |-> pc[s] = "end"] EXCEPT ![t] = TRUE]
        BY <4>1
      <4>3. Atomic!Finish(t)
        BY <4>1, <4>2 DEF Atomic!Finish
      <4> QED
        BY <4>3 DEF Atomic!Next
    <3> QED
      BY <3>1, <3>2
  <2>3. CASE futex_lock(t)
    BY <2>3 DEF futex_lock, Atomic!vars
  <2>4. CASE futex_wait(t)
    BY <2>4 DEF futex_wait, Atomic!vars
  <2>5. CASE ReadCounter(t)
    BY <2>5 DEF ReadCounter, Atomic!vars
  <2>6. CASE WriteCounter(t)
    <3>1. Atomic!Add(t)
      BY <2>6 DEF WriteCounter, Atomic!Add, RegisterFresh, RoundsLeft, InRound
    <3> QED
      BY <3>1 DEF Atomic!Next
  <2>7. CASE futex_unlock(t)
    BY <2>7 DEF futex_unlock, Atomic!vars
  <2>8. CASE futex_wake(t)
    BY <2>8 DEF futex_wake, Atomic!vars, IInv, Sleepers
  <2> QED
    BY <1>3, <2>1, <2>2, <2>3, <2>4, <2>5, <2>6, <2>7, <2>8 DEF ThreadStep
<1>4. ASSUME NEW t \in Threads, Interrupt(t)
      PROVE  [Atomic!Next]_Atomic!vars
  BY <1>4 DEF Interrupt, Atomic!vars, IInv, Sleepers
<1>5. CASE UNCHANGED vars
  BY <1>5 DEF vars, Atomic!vars
<1> QED
  BY <1>1, <1>2, <1>3, <1>4, <1>5 DEF Next, MainStep

(* The program of 8_futex.c implements the safety part of AtomicCounter:   *)
(* no increment is lost, whatever the threads and rounds.                  *)
THEOREM FutexIsAtomic == Spec => Atomic!Init /\ [][Atomic!Next]_Atomic!vars
BY RefineInit, RefineStep, FutexInductive, PTL DEF Spec
=============================================================================
