--------------------------- MODULE CThreadProofs ---------------------------
(***************************************************************************)
(* Proofs about CThread, for any number of threads, joined or not: no      *)
(* stack is freed while its thread can be on it, and every record is       *)
(* handed over exactly once.                                               *)
(***************************************************************************)
EXTENDS CThread, TLAPS

(* main() is in its first loop, where it creates and detaches thread i.    *)
Creating == \/ pc[MAIN] \in {"create", "created", "kept", "detach", "unlock"}
            \/ pc[MAIN] \in DestroySteps /\ ret[MAIN] = "detach"

(* A thread that has got past the place where it looks at is_detached.     *)
Past == {"finish", "unlock", "exiting", "gone"}

(* Its record has been given to the list of stacks.                        *)
Handed(t) == t \in Listed \/ stack[t] = "freed"

ThreadHolds(t) == pc[t] \in {"spin", "scan", "finish", "unlock"}
MainHolds(t) == /\ t = i
                /\ \/ pc[MAIN] \in {"detach", "unlock"}
                   \/ pc[MAIN] \in DestroySteps /\ ret[MAIN] = "detach"

(* Where the loop of main() is, and what cthread_destroy() returns to.     *)
MainInv ==
    /\ pc[MAIN] \notin {"check", "exit"} => i < N
    /\ \A t \in Threads : ret[t] = "finish"
    /\ pc[MAIN] \in DestroySteps => /\ ret[MAIN] \in {"detach", "join_next"}
                                    /\ is_finished[i] /\ ~is_detached[i]

(* What a thread's place says of its record.                               *)
BirthInv == \A t \in Threads :
    /\ pc[t] = "unborn" <=> Creating /\ (t > i \/ (t = i /\ pc[MAIN] = "create"))
    /\ stack[t] = "none" <=> pc[t] = "unborn"
TidInv == \A t \in Threads :
    /\ pc[t] \in {"lock", "spin", "scan", "finish", "unlock", "exiting"} => tid[t]
    /\ is_finished[t] <=> pc[t] \in {"unlock", "exiting", "gone"}

(* The record's lock excludes cthread_detach() and the thread's end.       *)
LockInv == \A t \in Threads :
    /\ lock[t] <=> ThreadHolds(t) \/ MainHolds(t)
    /\ ~(ThreadHolds(t) /\ MainHolds(t))

(* Only what main() has left can be detached; a thread destroys only its   *)
(* own record, and only when it is.                                        *)
DetachInv == \A t \in Threads :
    /\ is_detached[t] /\ Creating => t < i \/ (t = i /\ pc[MAIN] = "unlock")
    /\ pc[t] \in DestroySteps => is_detached[t]

(* Who hands a record over: of a detached thread exactly the one that came *)
(* last; of another one only cthread_join(), or cthread_detach() between   *)
(* its look at is_finished and its write of is_detached.                   *)
HandedInv == \A t \in Threads :
    /\ is_detached[t] \/ (t = i /\ pc[MAIN] = "detach") => (Handed(t) <=> pc[t] \in Past)
    /\ Handed(t) => pc[t] \in Past
    /\ ~is_detached[t] /\ Handed(t) =>
         \/ pc[MAIN] \in {"check", "exit"}
         \/ pc[MAIN] = "detach" /\ t = i
         \/ ~Creating /\ (t < i \/ (t = i /\ pc[MAIN] = "join_next"))
    /\ stack[t] = "freed" => pc[t] = "gone"

(* The list under its spin lock: whoever scans it has in its iterator what *)
(* is not freed yet.                                                       *)
ListInv ==
    /\ IsInjective(stack_list)
    /\ last_stack_lock <=> \E a \in Actors : pc[a] = "scan"
    /\ \A a, b \in Actors : pc[a] = "scan" /\ pc[b] = "scan" => a = b
    /\ ~last_stack_lock => \A t \in Listed : stack[t] = "allocated"
    /\ \A a \in Actors : pc[a] = "scan" =>
         /\ IsInjective(iter[a])
         /\ ToSet(iter[a]) = {t \in Listed : stack[t] = "allocated"}

IInv == /\ TypeOK /\ MainInv /\ BirthInv /\ TidInv /\ LockInv /\ DetachInv
        /\ HandedInv /\ ListInv

-----------------------------------------------------------------------------
(* Taking the first record off a list without repetitions.                 *)
LEMMA TailOfList ==
    ASSUME NEW S, NEW s \in Seq(S), s # <<>>, IsInjective(s)
    PROVE  /\ Head(s) \in ToSet(s)
           /\ Tail(s) \in Seq(S)
           /\ IsInjective(Tail(s))
           /\ ToSet(Tail(s)) = ToSet(s) \ {Head(s)}
<1>1. /\ Len(s) \in Nat \ {0} /\ DOMAIN s = 1..Len(s) /\ Head(s) = s[1]
      /\ Tail(s) \in Seq(S) /\ Len(Tail(s)) = Len(s) - 1
      /\ DOMAIN Tail(s) = 1..(Len(s) - 1)
      /\ \A k \in 1..(Len(s) - 1) : Tail(s)[k] = s[k + 1]
  OBVIOUS
<1>2. IsInjective(Tail(s))
  <2> SUFFICES ASSUME NEW a \in DOMAIN Tail(s), NEW b \in DOMAIN Tail(s),
                      Tail(s)[a] = Tail(s)[b]
               PROVE  a = b
    BY DEF IsInjective
  <2>1. a + 1 \in DOMAIN s /\ b + 1 \in DOMAIN s /\ s[a + 1] = s[b + 1]
    BY <1>1
  <2>2. a + 1 = b + 1
    BY <2>1 DEF IsInjective
  <2> QED
    BY <1>1, <2>2
<1>3. ASSUME NEW x \in ToSet(Tail(s)) PROVE x \in ToSet(s) \ {Head(s)}
  <2>1. PICK k \in DOMAIN Tail(s) : x = Tail(s)[k]
    BY DEF ToSet
  <2>2. k + 1 \in DOMAIN s /\ 1 \in DOMAIN s /\ x = s[k + 1] /\ k + 1 # 1
    BY <1>1, <2>1
  <2>3. x # s[1]
    BY <2>2 DEF IsInjective
  <2> QED
    BY <1>1, <2>2, <2>3 DEF ToSet
<1>4. ASSUME NEW x \in ToSet(s), x # Head(s) PROVE x \in ToSet(Tail(s))
  <2>1. PICK k \in DOMAIN s : x = s[k]
    BY DEF ToSet
  <2>2. k # 1 /\ k - 1 \in DOMAIN Tail(s) /\ Tail(s)[k - 1] = s[k]
    BY <1>1, <1>4, <2>1
  <2> QED
    BY <2>1, <2>2 DEF ToSet
<1>5. Head(s) \in ToSet(s)
  BY <1>1 DEF ToSet
<1> QED
  BY <1>1, <1>2, <1>3, <1>4, <1>5

(* Putting a record that is not there in front of it.                      *)
LEMMA LinkToList ==
    ASSUME NEW S, NEW s \in Seq(S), NEW x \in S, x \notin ToSet(s), IsInjective(s)
    PROVE  /\ <<x>> \o s \in Seq(S)
           /\ IsInjective(<<x>> \o s)
           /\ ToSet(<<x>> \o s) = {x} \cup ToSet(s)
<1> DEFINE l == <<x>> \o s
<1>1. /\ l \in Seq(S) /\ Len(s) \in Nat /\ DOMAIN s = 1..Len(s)
      /\ DOMAIN l = 1..(Len(s) + 1) /\ l[1] = x
      /\ \A k \in 1..Len(s) : l[k + 1] = s[k]
  OBVIOUS
<1>2. ASSUME NEW k \in DOMAIN l, k # 1
      PROVE  k - 1 \in DOMAIN s /\ l[k] = s[k - 1] /\ l[k] \in ToSet(s)
  <2>1. k - 1 \in DOMAIN s /\ l[k] = s[k - 1]
    BY <1>1, <1>2
  <2> QED
    BY <2>1 DEF ToSet
<1> HIDE DEF l
<1>3. IsInjective(l)
  <2> SUFFICES ASSUME NEW a \in DOMAIN l, NEW b \in DOMAIN l, l[a] = l[b]
               PROVE  a = b
    BY DEF IsInjective
  <2>1. CASE a = 1 \/ b = 1
    BY <1>1, <1>2, <2>1
  <2>2. CASE a # 1 /\ b # 1
    <3>1. a - 1 = b - 1
      BY <1>2, <2>2 DEF IsInjective
    <3> QED
      BY <1>1, <3>1
  <2> QED
    BY <2>1, <2>2
<1>4. ToSet(l) \subseteq {x} \cup ToSet(s)
  BY <1>1, <1>2 DEF ToSet
<1>5. ASSUME NEW y \in ToSet(s) PROVE y \in ToSet(l)
  <2>1. PICK k \in DOMAIN s : y = s[k]
    BY DEF ToSet
  <2>2. k + 1 \in DOMAIN l /\ l[k + 1] = y
    BY <1>1, <2>1
  <2> QED
    BY <2>2 DEF ToSet
<1>6. x \in ToSet(l)
  <2>1. 1 \in DOMAIN l
    BY <1>1
  <2> QED
    BY <1>1, <2>1 DEF ToSet
<1> QED
  BY <1>1, <1>3, <1>4, <1>5, <1>6 DEF l

-----------------------------------------------------------------------------
(* The actors: main() is none of the threads.                              *)
LEMMA ActorFacts == /\ N \in Nat /\ Joins \in BOOLEAN
                    /\ MAIN \in Actors /\ MAIN \notin Threads
                    /\ Threads \subseteq Actors /\ Threads \subseteq Nat
                    /\ \A a \in Actors : a = MAIN \/ a \in Threads
  BY CThreadAssumption DEF CThreadAssumption, Actors, Threads, MAIN

(* Whom cthread_destroy() destroys is a thread whose record is there and   *)
(* was not handed over yet.                                                *)
LEMMA DestroyedFacts ==
    ASSUME IInv, NEW a \in Actors, pc[a] \in DestroySteps
    PROVE  /\ Destroyed(a) \in Threads
           /\ ~Handed(Destroyed(a))
           /\ stack[Destroyed(a)] = "allocated"
<1> USE ActorFacts DEF IInv
<1>1. CASE a = MAIN
  <2>1. Destroyed(a) = i /\ i \in Threads
    BY <1>1 DEF Destroyed, MainInv, TypeOK, Threads, DestroySteps
  <2>2. is_finished[i] /\ ~is_detached[i] /\ ret[MAIN] \in {"detach", "join_next"}
    BY <1>1 DEF MainInv
  <2>3. pc[i] \in {"unlock", "exiting", "gone"}
    BY <2>1, <2>2 DEF TidInv
  <2>4. stack[i] \in {"allocated", "freed"}
    BY <2>1, <2>3 DEF BirthInv, TypeOK
  <2>5. ~Handed(i)
    BY <1>1, <2>1, <2>2 DEF HandedInv, Creating, DestroySteps, Threads
  <2> QED
    BY <2>1, <2>4, <2>5 DEF Handed
<1>2. CASE a \in Threads
  <2>1. Destroyed(a) = a /\ is_detached[a] /\ pc[a] \notin Past
    BY <1>2 DEF Destroyed, DetachInv, DestroySteps, Past
  <2>2. ~Handed(a)
    BY <1>2, <2>1 DEF HandedInv
  <2>3. stack[a] \in {"allocated", "freed"}
    BY <1>2 DEF BirthInv, TypeOK, DestroySteps
  <2> QED
    BY <1>2, <2>1, <2>2, <2>3 DEF Handed
<1> QED
  BY <1>1, <1>2

(* The invariant holds before main() creates the first thread.             *)
LEMMA InitInvariant == Init => IInv
<1> SUFFICES ASSUME Init PROVE IInv
  OBVIOUS
<1> USE ActorFacts DEF Init
<1>1. /\ \A t \in Threads : pc[t] = "unborn"
      /\ pc[MAIN] = IF N = 0 THEN "check" ELSE "create"
  OBVIOUS
<1>2. Listed = {} /\ IsInjective(stack_list)
  BY DEF Listed, ToSet, IsInjective
<1>3. TypeOK
  <2>1. stack_list \in Seq(Threads)
    OBVIOUS
  <2>7. last_stack_lock \in BOOLEAN
    OBVIOUS
  <2>2. /\ lock \in [Threads -> BOOLEAN] /\ is_finished \in [Threads -> BOOLEAN]
        /\ is_detached \in [Threads -> BOOLEAN] /\ tid \in [Threads -> BOOLEAN]
    OBVIOUS
  <2>3. stack \in [Threads -> {"none", "allocated", "freed"}] /\ i \in 0..N
    OBVIOUS
  <2>4. pc \in [Actors -> DestroySteps \cup RunnerSteps \cup MainSteps]
    BY DEF DestroySteps, RunnerSteps, MainSteps
  <2>5. /\ \A t \in Threads : pc[t] \in DestroySteps \cup RunnerSteps
        /\ pc[MAIN] \in DestroySteps \cup MainSteps
    BY <1>1 DEF DestroySteps, RunnerSteps, MainSteps
  <2>6. /\ iter \in [Actors -> Seq(Threads)]
        /\ ret \in [Actors -> {"finish", "detach", "join_next"}]
    OBVIOUS
  <2> HIDE DEF Init
  <2> QED
    BY <2>1, <2>2, <2>3, <2>4, <2>5, <2>6, <2>7 DEF TypeOK
<1>4. MainInv
  BY <1>1 DEF MainInv, DestroySteps
<1>5. BirthInv
  BY <1>1 DEF BirthInv, Creating, Threads, DestroySteps
<1>6. TidInv
  BY <1>1 DEF TidInv
<1>7. LockInv
  BY <1>1 DEF LockInv, ThreadHolds, MainHolds, DestroySteps
<1>8. DetachInv
  BY <1>1 DEF DetachInv, DestroySteps
<1>9. HandedInv
  BY <1>1, <1>2 DEF HandedInv, Handed, Past, DestroySteps
<1>10. ListInv
  BY <1>1, <1>2 DEF ListInv
<1> QED
  BY <1>3, <1>4, <1>5, <1>6, <1>7, <1>8, <1>9, <1>10 DEF IInv

-----------------------------------------------------------------------------
(* The steps of a thread, one by one.  None touches what main() knows.     *)
LEMMA func_Step == ASSUME IInv, NEW t \in Threads, func(t) PROVE IInv'
<1> USE ActorFacts DEF IInv, func, At, Goto
<1>1. /\ pc[t] = "start" /\ pc'[t] = "lock" /\ tid'[t]
      /\ \A a \in Actors : a # t => pc'[a] = pc[a]
      /\ \A u \in Threads : u # t => tid'[u] = tid[u]
      /\ \A u \in Threads : Handed(u)' = Handed(u)
      /\ Creating' = Creating /\ Listed' = Listed
  BY DEF TypeOK, Handed, Listed, Creating
<1>2. TypeOK'
  BY DEF TypeOK, RunnerSteps
<1>3. MainInv' /\ BirthInv' /\ TidInv'
  BY <1>1 DEF MainInv, BirthInv, TidInv
<1>4. LockInv' /\ DetachInv'
  BY <1>1 DEF LockInv, DetachInv, ThreadHolds, MainHolds, DestroySteps
<1>5. HandedInv'
  BY <1>1 DEF HandedInv, Past
<1>6. ListInv'
  BY <1>1 DEF ListInv
<1> QED
  BY <1>2, <1>3, <1>4, <1>5, <1>6

(* Under its lock the thread sees whether it is detached.  If so it takes  *)
(* its record to the list, if not it leaves it to main().                  *)
LEMMA runner_lock_Step == ASSUME IInv, NEW t \in Threads, runner_lock(t) PROVE IInv'
<1> USE ActorFacts DEF IInv, runner_lock, At, Goto, CallDestroy
<1>1. /\ pc[t] = "lock" /\ ~lock[t] /\ lock'[t]
      /\ pc'[t] = (IF is_detached[t] THEN "spin" ELSE "finish")
      /\ \A a \in Actors : a # t => pc'[a] = pc[a]
      /\ \A u \in Threads : u # t => lock'[u] = lock[u]
      /\ ret'[MAIN] = ret[MAIN] /\ \A u \in Threads : ret'[u] = "finish"
      /\ \A u \in Threads : Handed(u)' = Handed(u)
      /\ Creating' = Creating /\ Listed' = Listed
  BY DEF TypeOK, Handed, Listed, Creating, MainInv
<1>2. TypeOK'
  <2>1. pc' \in [Actors -> DestroySteps \cup RunnerSteps \cup MainSteps]
    BY DEF TypeOK, RunnerSteps, DestroySteps
  <2>2. \A u \in Threads : pc'[u] \in DestroySteps \cup RunnerSteps
    BY <1>1 DEF TypeOK, RunnerSteps, DestroySteps
  <2>3. ret' \in [Actors -> {"finish", "detach", "join_next"}]
    BY DEF TypeOK
  <2> QED
    BY <1>1, <2>1, <2>2, <2>3 DEF TypeOK
<1>3. MainInv' /\ BirthInv' /\ TidInv'
  BY <1>1 DEF MainInv, BirthInv, TidInv
<1>4. LockInv'
  BY <1>1 DEF LockInv, ThreadHolds, MainHolds, DestroySteps
<1>5. DetachInv'
  BY <1>1 DEF DetachInv, DestroySteps
<1>6. HandedInv'
  <2>1. ~MainHolds(t)
    BY <1>1 DEF LockInv
  <2> QED
    BY <1>1, <2>1 DEF HandedInv, MainHolds, Past
<1>7. ListInv'
  BY <1>1 DEF ListInv
<1> QED
  BY <1>2, <1>3, <1>4, <1>5, <1>6, <1>7

(* The thread's end as main() sees it.                                     *)
LEMMA runner_finish_Step == ASSUME IInv, NEW t \in Threads, runner_finish(t) PROVE IInv'
<1> USE ActorFacts DEF IInv, runner_finish, At, Goto
<1>1. /\ pc[t] = "finish" /\ pc'[t] = "unlock" /\ is_finished'[t]
      /\ \A a \in Actors : a # t => pc'[a] = pc[a]
      /\ \A u \in Threads : u # t => is_finished'[u] = is_finished[u]
      /\ \A u \in Threads : Handed(u)' = Handed(u)
      /\ Creating' = Creating /\ Listed' = Listed
  BY DEF TypeOK, Handed, Listed, Creating
<1>2. TypeOK'
  BY DEF TypeOK, RunnerSteps
<1>3. MainInv' /\ BirthInv' /\ TidInv'
  BY <1>1 DEF MainInv, BirthInv, TidInv
<1>4. LockInv' /\ DetachInv'
  BY <1>1 DEF LockInv, DetachInv, ThreadHolds, MainHolds, DestroySteps
<1>5. HandedInv'
  BY <1>1 DEF HandedInv, Past
<1>6. ListInv'
  BY <1>1 DEF ListInv
<1> QED
  BY <1>2, <1>3, <1>4, <1>5, <1>6

(* It lets the lock go, which main() did not hold.                         *)
LEMMA runner_unlock_Step == ASSUME IInv, NEW t \in Threads, runner_unlock(t) PROVE IInv'
<1> USE ActorFacts DEF IInv, runner_unlock, At, Goto
<1>1. /\ pc[t] = "unlock" /\ pc'[t] = "exiting" /\ ~lock'[t]
      /\ \A a \in Actors : a # t => pc'[a] = pc[a]
      /\ \A u \in Threads : u # t => lock'[u] = lock[u]
      /\ \A u \in Threads : Handed(u)' = Handed(u)
      /\ Creating' = Creating /\ Listed' = Listed
  BY DEF TypeOK, Handed, Listed, Creating
<1>2. TypeOK'
  BY DEF TypeOK, RunnerSteps
<1>3. MainInv' /\ BirthInv' /\ TidInv'
  BY <1>1 DEF MainInv, BirthInv, TidInv
<1>4. LockInv' /\ DetachInv'
  BY <1>1 DEF LockInv, DetachInv, ThreadHolds, MainHolds, DestroySteps
<1>5. HandedInv'
  BY <1>1 DEF HandedInv, Past
<1>6. ListInv'
  BY <1>1 DEF ListInv
<1> QED
  BY <1>2, <1>3, <1>4, <1>5, <1>6

(* The kernel clears the tid of a thread that has left its stack.          *)
LEMMA clear_tid_Step == ASSUME IInv, NEW t \in Threads, clear_tid(t) PROVE IInv'
<1> USE ActorFacts DEF IInv, clear_tid, At, Goto
<1>1. /\ pc[t] = "exiting" /\ pc'[t] = "gone"
      /\ \A a \in Actors : a # t => pc'[a] = pc[a]
      /\ \A u \in Threads : u # t => tid'[u] = tid[u]
      /\ \A u \in Threads : Handed(u)' = Handed(u)
      /\ Creating' = Creating /\ Listed' = Listed
  BY DEF TypeOK, Handed, Listed, Creating
<1>2. TypeOK'
  BY DEF TypeOK, RunnerSteps
<1>3. MainInv' /\ BirthInv' /\ TidInv'
  BY <1>1 DEF MainInv, BirthInv, TidInv
<1>4. LockInv' /\ DetachInv'
  BY <1>1 DEF LockInv, DetachInv, ThreadHolds, MainHolds, DestroySteps
<1>5. HandedInv'
  BY <1>1 DEF HandedInv, Past
<1>6. ListInv'
  BY <1>1 DEF ListInv
<1> QED
  BY <1>2, <1>3, <1>4, <1>5, <1>6

-----------------------------------------------------------------------------
(* cthread_destroy() takes the list when nobody has it.                    *)
LEMMA spin_lock_list_Step == ASSUME IInv, NEW a \in Actors, spin_lock_list(a) PROVE IInv'
<1> USE ActorFacts DEF IInv, spin_lock_list, At, Goto
<1>1. /\ pc[a] = "spin" /\ pc'[a] = "scan" /\ ~last_stack_lock /\ last_stack_lock'
      /\ iter'[a] = stack_list
      /\ \A b \in Actors : b # a => pc'[b] = pc[b] /\ iter'[b] = iter[b]
      /\ \A u \in Threads : Handed(u)' = Handed(u)
      /\ Listed' = Listed
  BY DEF TypeOK, Handed, Listed
<1>2. Creating' = Creating /\ \A u \in Threads : MainHolds(u)' = MainHolds(u)
  BY <1>1 DEF Creating, MainHolds, DestroySteps
<1>3. TypeOK'
  BY DEF TypeOK, RunnerSteps, DestroySteps
<1>4. MainInv' /\ BirthInv' /\ TidInv'
  BY <1>1, <1>2 DEF MainInv, BirthInv, TidInv, DestroySteps
<1>5. LockInv' /\ DetachInv'
  BY <1>1, <1>2 DEF LockInv, DetachInv, ThreadHolds, DestroySteps
<1>6. HandedInv'
  BY <1>1, <1>2 DEF HandedInv, Past
<1>7. ListInv'
  <2>1. \A b \in Actors : pc'[b] = "scan" <=> b = a
    BY <1>1 DEF ListInv
  <2>2. ToSet(iter'[a]) = {t \in Listed : stack[t] = "allocated"}
    BY <1>1 DEF ListInv, Listed
  <2> QED
    BY <1>1, <2>1, <2>2 DEF ListInv
<1> QED
  BY <1>3, <1>4, <1>5, <1>6, <1>7

(* It frees a stack whose tid is zero: that thread is gone, for a record   *)
(* is on the list only when its thread is past its own cthread_destroy(),  *)
(* and from there to its exit the tid is set.                              *)
LEMMA free_stack_Step == ASSUME IInv, NEW a \in Actors, free_stack(a) PROVE IInv'
<1> USE ActorFacts DEF IInv, free_stack, At
<1> DEFINE h == Head(iter[a])
<1>1. /\ pc[a] = "scan" /\ iter[a] \in Seq(Threads) /\ iter[a] # <<>> /\ ~tid[h]
      /\ IsInjective(iter[a]) /\ ToSet(iter[a]) = {t \in Listed : stack[t] = "allocated"}
  BY DEF TypeOK, ListInv
<1>2. /\ h \in Listed /\ h \in Threads /\ stack[h] = "allocated"
      /\ Tail(iter[a]) \in Seq(Threads) /\ IsInjective(Tail(iter[a]))
      /\ ToSet(Tail(iter[a])) = {t \in Listed : stack[t] = "allocated"} \ {h}
  BY <1>1, TailOfList
<1>3. pc[h] = "gone"
  BY <1>1, <1>2 DEF HandedInv, Handed, TidInv, Past
<1> HIDE DEF h
<1>4. /\ stack' = [stack EXCEPT ![h] = "freed"] /\ iter'[a] = Tail(iter[a])
      /\ \A b \in Actors : b # a => iter'[b] = iter[b]
      /\ Listed' = Listed
  BY DEF TypeOK, Listed, h
<1>5. /\ stack'[h] = "freed" /\ \A u \in Threads : u # h => stack'[u] = stack[u]
      /\ \A u \in Threads : Handed(u)' = Handed(u)
  BY <1>2, <1>4 DEF TypeOK, Handed
<1>6. Creating' = Creating /\ \A u \in Threads : MainHolds(u)' = MainHolds(u)
  BY DEF Creating, MainHolds
<1>7. TypeOK'
  <2>1. iter' \in [Actors -> Seq(Threads)]
    BY <1>2 DEF TypeOK
  <2>2. stack' \in [Threads -> {"none", "allocated", "freed"}]
    BY <1>4 DEF TypeOK
  <2> QED
    BY <2>1, <2>2 DEF TypeOK
<1>8. MainInv' /\ TidInv' /\ LockInv' /\ DetachInv'
  BY <1>6 DEF MainInv, TidInv, LockInv, DetachInv, ThreadHolds
<1>9. BirthInv'
  BY <1>2, <1>5, <1>6 DEF BirthInv
<1>10. HandedInv'
  BY <1>3, <1>5, <1>6 DEF HandedInv
<1>11. ListInv'
  <2>1. ToSet(iter'[a]) = {t \in Listed' : stack'[t] = "allocated"}
    <3>1. Listed \subseteq Threads
      BY DEF Listed, ToSet, TypeOK
    <3> QED
      BY <1>2, <1>4, <1>5, <3>1
  <2>2. \A b \in Actors : pc'[b] = "scan" => b = a
    BY <1>1 DEF ListInv
  <2>3. last_stack_lock'
    BY <1>1 DEF ListInv
  <2> QED
    BY <1>1, <1>2, <1>4, <2>1, <2>2, <2>3 DEF ListInv
<1> QED
  BY <1>7, <1>8, <1>9, <1>10, <1>11

(* It puts its record in front of what was not freed, and lets the list    *)
(* go.                                                                     *)
LEMMA link_stack_Step == ASSUME IInv, NEW a \in Actors, link_stack(a) PROVE IInv'
<1> USE ActorFacts DEF IInv
<1> DEFINE d == Destroyed(a)
<1>1. /\ pc[a] = "scan" /\ pc[a] \in DestroySteps /\ iter[a] \in Seq(Threads)
      /\ IsInjective(iter[a]) /\ ToSet(iter[a]) = {t \in Listed : stack[t] = "allocated"}
  BY DEF TypeOK, ListInv, link_stack, At, DestroySteps
<1>2. d \in Threads /\ ~Handed(d) /\ stack[d] = "allocated"
  BY <1>1, DestroyedFacts
<1>3. d \notin ToSet(iter[a])
  BY <1>1, <1>2 DEF Handed
<1>4. /\ stack_list' \in Seq(Threads) /\ IsInjective(stack_list')
      /\ Listed' = {d} \cup {t \in Listed : stack[t] = "allocated"}
  BY <1>1, <1>2, <1>3, LinkToList DEF link_stack, Listed
<1>5. Listed \subseteq Threads
  BY DEF Listed, ToSet, TypeOK
<1>6. \A u \in Threads : Handed(u)' <=> Handed(u) \/ u = d
  <2>1. \A u \in Listed : stack[u] \in {"allocated", "freed"}
    BY <1>5 DEF HandedInv, Handed, BirthInv, TypeOK, Past
  <2> QED
    BY <1>4, <1>2, <2>1 DEF Handed, link_stack
<1>7. /\ pc'[a] = ret[a] /\ \A b \in Actors : b # a => pc'[b] = pc[b]
      /\ last_stack_lock' = FALSE
      /\ \A b \in Actors : b # a => ret'[b] = ret[b] /\ iter'[b] = iter[b]
      /\ ret'[a] = "finish"
      /\ UNCHANGED <<lock, is_finished, is_detached, tid, stack, i>>
  BY DEF link_stack, Goto, TypeOK
<1>8. /\ a = MAIN => /\ pc'[MAIN] \in {"detach", "join_next"} /\ d = i /\ is_finished[i]
                     /\ ~is_detached[i]
                     /\ pc[i] \in {"unlock", "exiting", "gone"} /\ i < N
      /\ a # MAIN => pc'[a] = "finish" /\ d = a /\ is_detached[a] /\ a \in Threads
  BY <1>1, <1>2, <1>7 DEF MainInv, Destroyed, TidInv, DetachInv
<1> HIDE DEF d
<1>9. Creating' = Creating /\ \A u \in Threads : MainHolds(u)' = MainHolds(u)
  BY <1>1, <1>7, <1>8 DEF Creating, MainHolds, DestroySteps
<1>10. TypeOK'
  <2>1. pc' \in [Actors -> DestroySteps \cup RunnerSteps \cup MainSteps]
    <3>1. ret[a] \in RunnerSteps \cup MainSteps
      BY DEF TypeOK, RunnerSteps, MainSteps
    <3> QED
      BY <3>1 DEF TypeOK, link_stack, Goto
  <2>2. /\ \A u \in Threads : pc'[u] \in DestroySteps \cup RunnerSteps
        /\ pc'[MAIN] \in DestroySteps \cup MainSteps
    <3>1. /\ \A u \in Threads : pc[u] \in DestroySteps \cup RunnerSteps
          /\ pc[MAIN] \in DestroySteps \cup MainSteps
      BY DEF TypeOK
    <3>2. ASSUME NEW u \in Threads PROVE pc'[u] \in DestroySteps \cup RunnerSteps
      <4>1. CASE u = a
        BY <1>7, <1>8, <4>1 DEF RunnerSteps
      <4>2. CASE u # a
        BY <1>7, <3>1, <4>2
      <4> QED
        BY <4>1, <4>2
    <3>3. pc'[MAIN] \in DestroySteps \cup MainSteps
      <4>1. CASE a = MAIN
        BY <1>8, <4>1 DEF MainSteps
      <4>2. CASE a # MAIN
        BY <1>7, <3>1, <4>2
      <4> QED
        BY <4>1, <4>2
    <3> QED
      BY <3>2, <3>3
  <2>3. /\ ret' \in [Actors -> {"finish", "detach", "join_next"}]
        /\ iter' \in [Actors -> Seq(Threads)]
    BY DEF TypeOK, link_stack
  <2> QED
    BY <1>4, <1>7, <2>1, <2>2, <2>3 DEF TypeOK
<1>11. MainInv'
  BY <1>1, <1>7, <1>8 DEF MainInv, DestroySteps
<1>12. BirthInv' /\ TidInv'
  BY <1>1, <1>7, <1>8, <1>9 DEF BirthInv, TidInv
<1>13. LockInv' /\ DetachInv'
  BY <1>1, <1>7, <1>8, <1>9 DEF LockInv, DetachInv, ThreadHolds, DestroySteps
<1>14. HandedInv'
  <2> SUFFICES ASSUME NEW t \in Threads
               PROVE  /\ (is_detached[t] \/ (t = i /\ pc'[MAIN] = "detach"))
                           => (Handed(t)' <=> pc'[t] \in Past)
                      /\ Handed(t)' => pc'[t] \in Past
                      /\ ~is_detached[t] /\ Handed(t)' =>
                           \/ pc'[MAIN] \in {"check", "exit"}
                           \/ pc'[MAIN] = "detach" /\ t = i
                           \/ ~Creating' /\ (t < i \/ (t = i /\ pc'[MAIN] = "join_next"))
                      /\ stack[t] = "freed" => pc'[t] = "gone"
    BY <1>7 DEF HandedInv
  <2>1. CASE t = d
    <3>1. Handed(t)' /\ pc'[t] \in Past
      BY <1>6, <1>7, <1>8, <2>1 DEF Past
    <3>2. a = MAIN /\ pc'[MAIN] = "join_next" => ~Creating'
      BY DEF Creating, DestroySteps
    <3> QED
      BY <1>2, <1>8, <2>1, <3>1, <3>2
  <2>2. CASE t # d
    <3>1. (Handed(t)' <=> Handed(t)) /\ pc'[t] = pc[t]
      BY <1>6, <1>7, <1>8, <2>2
    <3>2. a = MAIN => pc[MAIN] = "scan" /\ t # i
      BY <1>1, <1>8, <2>2
    <3> QED
      BY <1>7, <1>9, <2>2, <3>1, <3>2 DEF HandedInv
  <2> QED
    BY <2>1, <2>2
<1>15. ListInv'
  <2>1. \A b \in Actors : pc'[b] # "scan"
    BY <1>1, <1>7, <1>8 DEF ListInv
  <2> QED
    BY <1>2, <1>4, <1>7, <2>1 DEF ListInv
<1> QED
  BY <1>10, <1>11, <1>12, <1>13, <1>14, <1>15

-----------------------------------------------------------------------------
(* main() creates thread i, of which nobody knows.                         *)
LEMMA cthread_create_Step == ASSUME IInv, cthread_create PROVE IInv'
<1> USE ActorFacts DEF IInv, cthread_create
<1>1. /\ pc[MAIN] = "create" /\ i \in Threads /\ Creating
  BY DEF MainInv, TypeOK, Threads, Creating
<1>2. pc[i] = "unborn" /\ stack[i] = "none" /\ ~is_detached[i] /\ i \notin Listed
  BY <1>1 DEF BirthInv, DetachInv, HandedInv, Handed, Past
<1>3. /\ pc'[MAIN] \in {"created", "kept"} /\ pc'[i] = "start" /\ stack'[i] = "allocated"
      /\ \A t \in Threads : t # i => /\ pc'[t] = pc[t] /\ tid'[t] = tid[t]
                                     /\ stack'[t] = stack[t]
      /\ Listed' = Listed /\ Creating'
      /\ UNCHANGED <<stack_list, last_stack_lock, lock, is_finished, is_detached, iter,
                     ret, i>>
  BY <1>1 DEF TypeOK, Listed, Creating
<1>4. \A t \in Threads : Handed(t)' <=> Handed(t)
  BY <1>1, <1>2, <1>3 DEF Handed
<1>5. TypeOK'
  <2>1. /\ stack' \in [Threads -> {"none", "allocated", "freed"}]
        /\ tid' \in [Threads -> BOOLEAN]
    BY <1>1 DEF TypeOK
  <2>2. pc' \in [Actors -> DestroySteps \cup RunnerSteps \cup MainSteps]
    BY <1>1 DEF TypeOK, RunnerSteps, MainSteps
  <2>3. /\ \A t \in Threads : pc'[t] \in DestroySteps \cup RunnerSteps
        /\ pc'[MAIN] \in DestroySteps \cup MainSteps
    BY <1>3 DEF TypeOK, RunnerSteps, MainSteps
  <2> QED
    BY <2>1, <2>2, <2>3 DEF TypeOK
<1> HIDE DEF cthread_create
<1>6. MainInv'
  BY <1>1, <1>3 DEF MainInv, DestroySteps, Threads
<1>7. BirthInv'
  BY <1>1, <1>2, <1>3 DEF BirthInv, Threads
<1>12. TidInv'
  BY <1>1, <1>2, <1>3 DEF TidInv
<1>8. LockInv'
  BY <1>1, <1>2, <1>3 DEF LockInv, ThreadHolds, MainHolds, DestroySteps
<1>9. DetachInv'
  BY <1>1, <1>2, <1>3 DEF DetachInv, DestroySteps
<1>10. HandedInv'
  BY <1>1, <1>2, <1>3, <1>4 DEF HandedInv
<1>11. ListInv'
  <2>1. \A a \in Actors : pc'[a] = "scan" <=> pc[a] = "scan"
    BY <1>1, <1>2, <1>3
  <2>2. Listed \subseteq Threads
    BY DEF Listed, ToSet, TypeOK
  <2>3. \A t \in Listed : stack'[t] = stack[t]
    BY <1>2, <1>3, <2>2
  <2>4. {t \in Listed' : stack'[t] = "allocated"} = {t \in Listed : stack[t] = "allocated"}
    BY <1>3, <2>3
  <2> QED
    BY <1>3, <2>1, <2>3, <2>4 DEF ListInv
<1> QED
  BY <1>5, <1>6, <1>7, <1>8, <1>9, <1>10, <1>11, <1>12

(* What the list keeps as long as nobody enters or leaves it.              *)
LEMMA ListKept ==
    ASSUME IInv, UNCHANGED <<stack_list, last_stack_lock, stack, iter>>,
           \A a \in Actors : pc'[a] = "scan" <=> pc[a] = "scan"
    PROVE  ListInv'
  BY DEF IInv, ListInv, Listed

(* main() goes on to the next thread, from one it keeps or has detached.   *)
LEMMA CreatingNext_Step == ASSUME IInv, keep_thread \/ detach_unlock PROVE IInv'
<1> USE ActorFacts DEF IInv
<1>1. /\ pc[MAIN] \in {"kept", "unlock"} /\ i \in Threads /\ Creating
      /\ UNCHANGED <<stack_list, last_stack_lock, is_finished, is_detached, tid, stack,
                     iter, ret>>
      /\ pc' = [pc EXCEPT ![MAIN] = pc'[MAIN]]
  BY DEF MainInv, TypeOK, Threads, Creating, keep_thread, detach_unlock, NextThread, Goto,
         DestroySteps
<1>2. \/ i + 1 < N /\ i' = i + 1 /\ pc'[MAIN] = "create" /\ Creating'
      \/ i + 1 = N /\ i' = 0 /\ pc'[MAIN] = "join" /\ ~Creating'
  BY <1>1 DEF keep_thread, detach_unlock, NextThread, Goto, TypeOK, Creating, Threads,
              DestroySteps
<1>3. \A t \in Threads : pc'[t] = pc[t]
  BY <1>1 DEF TypeOK
<1>4. /\ Listed' = Listed /\ \A t \in Threads : Handed(t)' <=> Handed(t)
  BY <1>1 DEF Listed, Handed
<1>5. /\ lock' \in [Threads -> BOOLEAN]
      /\ \A t \in Threads : lock'[t] <=> ThreadHolds(t)
  <2>1. CASE keep_thread
    BY <2>1 DEF keep_thread, TypeOK, LockInv, MainHolds, DestroySteps
  <2>2. CASE detach_unlock
    BY <1>1, <2>2 DEF detach_unlock, TypeOK, LockInv, MainHolds, DestroySteps
  <2> QED
    BY <2>1, <2>2
<1>6. TypeOK'
  <2>1. pc' \in [Actors -> DestroySteps \cup RunnerSteps \cup MainSteps]
    BY <1>1, <1>2 DEF TypeOK, MainSteps
  <2>2. i' \in 0..N
    BY <1>1, <1>2 DEF Threads
  <2> QED
    BY <1>1, <1>2, <1>3, <1>5, <2>1, <2>2 DEF TypeOK, MainSteps
<1>7. MainInv'
  BY <1>1, <1>2 DEF MainInv, DestroySteps
<1>8. BirthInv'
  BY <1>1, <1>2, <1>3 DEF BirthInv, Threads
<1>9. TidInv'
  BY <1>1, <1>3 DEF TidInv
<1>10. LockInv'
  BY <1>2, <1>3, <1>5 DEF LockInv, ThreadHolds, MainHolds, DestroySteps
<1>11. DetachInv'
  BY <1>1, <1>2, <1>3 DEF DetachInv, Threads
<1>12. HandedInv'
  BY <1>1, <1>2, <1>3, <1>4 DEF HandedInv
<1>13. ListInv'
  BY <1>1, <1>2, <1>3, ListKept
<1> QED
  BY <1>6, <1>7, <1>8, <1>9, <1>10, <1>11, <1>12, <1>13

(* cthread_detach() locks the record.  A thread that has finished leaves   *)
(* it to main(); one that has not, and does not hold the lock, has not yet *)
(* looked at is_detached.                                                  *)
LEMMA detach_lock_Step == ASSUME IInv, detach_lock PROVE IInv'
<1> USE ActorFacts DEF IInv
<1>1. /\ pc[MAIN] = "created" /\ i \in Threads /\ Creating /\ ~lock[i] /\ ~is_detached[i]
      /\ UNCHANGED <<stack_list, last_stack_lock, is_finished, is_detached, tid, stack,
                     iter, i>>
  BY DEF MainInv, TypeOK, Threads, Creating, detach_lock, DetachInv
<1>2. /\ lock'[i] /\ \A t \in Threads : t # i => lock'[t] = lock[t]
      /\ \A t \in Threads : pc'[t] = pc[t] /\ ret'[t] = ret[t]
      /\ \/ is_finished[i] /\ pc'[MAIN] = "spin" /\ ret'[MAIN] = "detach"
         \/ ~is_finished[i] /\ pc'[MAIN] = "detach" /\ ret' = ret
  BY <1>1 DEF detach_lock, CallDestroy, Goto, TypeOK
<1>3. Creating' /\ \A t \in Threads : MainHolds(t)' <=> t = i
  BY <1>1, <1>2 DEF Creating, MainHolds, DestroySteps
<1>4. Listed' = Listed /\ \A t \in Threads : Handed(t)' <=> Handed(t)
  BY <1>1 DEF Listed, Handed
<1>5. TypeOK'
  <2>1. pc' \in [Actors -> DestroySteps \cup RunnerSteps \cup MainSteps]
    BY DEF TypeOK, MainSteps, DestroySteps, detach_lock, CallDestroy, Goto
  <2>2. /\ lock' \in [Threads -> BOOLEAN]
        /\ ret' \in [Actors -> {"finish", "detach", "join_next"}]
    BY DEF TypeOK, detach_lock, CallDestroy
  <2> QED
    BY <1>1, <1>2, <2>1, <2>2 DEF TypeOK, MainSteps, DestroySteps
<1>6. MainInv'
  BY <1>1, <1>2 DEF MainInv, DestroySteps
<1>7. BirthInv'
  BY <1>1, <1>2, <1>3 DEF BirthInv
<1>8. TidInv' /\ DetachInv'
  BY <1>1, <1>2 DEF TidInv, DetachInv
<1>9. LockInv'
  <2>1. \A t \in Threads : ~MainHolds(t)
    BY <1>1 DEF MainHolds, DestroySteps
  <2> QED
    BY <1>1, <1>2, <1>3, <2>1 DEF LockInv, ThreadHolds
<1>10. HandedInv'
  <2>1. ~is_finished[i] => pc[i] \notin Past
    BY <1>1 DEF LockInv, ThreadHolds, TidInv, Past
  <2> QED
    BY <1>1, <1>2, <1>4, <2>1 DEF HandedInv
<1>11. ListInv'
  BY <1>1, <1>2, ListKept
<1> QED
  BY <1>5, <1>6, <1>7, <1>8, <1>9, <1>10, <1>11

(* It marks the thread detached, still under the lock.                     *)
LEMMA detach_set_Step == ASSUME IInv, detach_set PROVE IInv'
<1> USE ActorFacts DEF IInv
<1>1. /\ pc[MAIN] = "detach" /\ i \in Threads /\ Creating
      /\ UNCHANGED <<stack_list, last_stack_lock, lock, is_finished, tid, stack, iter,
                     ret, i>>
  BY DEF MainInv, TypeOK, Threads, Creating, detach_set
<1>2. /\ is_detached'[i] /\ \A t \in Threads : t # i => is_detached'[t] = is_detached[t]
      /\ pc'[MAIN] = "unlock" /\ \A t \in Threads : pc'[t] = pc[t]
  BY <1>1 DEF detach_set, Goto, TypeOK
<1>3. Creating' /\ \A t \in Threads : MainHolds(t)' <=> MainHolds(t)
  BY <1>1, <1>2 DEF Creating, MainHolds
<1>4. Listed' = Listed /\ \A t \in Threads : Handed(t)' <=> Handed(t)
  BY <1>1 DEF Listed, Handed
<1>5. TypeOK'
  BY DEF TypeOK, MainSteps, detach_set, Goto
<1>6. MainInv' /\ BirthInv' /\ TidInv'
  BY <1>1, <1>2, <1>3 DEF MainInv, BirthInv, TidInv, DestroySteps
<1>7. LockInv' /\ DetachInv'
  BY <1>1, <1>2, <1>3 DEF LockInv, DetachInv, ThreadHolds
<1>8. HandedInv'
  BY <1>1, <1>2, <1>4 DEF HandedInv
<1>9. ListInv'
  BY <1>1, <1>2, ListKept
<1> QED
  BY <1>5, <1>6, <1>7, <1>8, <1>9

(* cthread_join() destroys a thread that has finished and was kept.        *)
LEMMA cthread_join_Step == ASSUME IInv, cthread_join PROVE IInv'
<1> USE ActorFacts DEF IInv
<1>1. /\ pc[MAIN] = "join" /\ i \in Threads /\ ~Creating /\ ~is_detached[i] /\ is_finished[i]
      /\ UNCHANGED <<stack_list, last_stack_lock, lock, is_finished, is_detached, tid,
                     stack, iter, i>>
  BY DEF MainInv, TypeOK, Threads, Creating, cthread_join, DestroySteps
<1>2. /\ pc'[MAIN] = "spin" /\ ret'[MAIN] = "join_next"
      /\ \A t \in Threads : pc'[t] = pc[t] /\ ret'[t] = ret[t]
  BY <1>1 DEF cthread_join, CallDestroy, Goto, TypeOK
<1>3. ~Creating' /\ \A t \in Threads : MainHolds(t)' <=> MainHolds(t)
  BY <1>1, <1>2 DEF Creating, MainHolds, DestroySteps
<1>4. Listed' = Listed /\ \A t \in Threads : Handed(t)' <=> Handed(t)
  BY <1>1 DEF Listed, Handed
<1>5. TypeOK'
  BY DEF TypeOK, MainSteps, DestroySteps, cthread_join, CallDestroy, Goto
<1>6. MainInv' /\ BirthInv' /\ TidInv'
  BY <1>1, <1>2, <1>3 DEF MainInv, BirthInv, TidInv, DestroySteps
<1>7. LockInv' /\ DetachInv'
  BY <1>1, <1>2, <1>3 DEF LockInv, DetachInv, ThreadHolds
<1>8. HandedInv'
  BY <1>1, <1>2, <1>3, <1>4 DEF HandedInv
<1>9. ListInv'
  BY <1>1, <1>2, ListKept
<1> QED
  BY <1>5, <1>6, <1>7, <1>8, <1>9

(* To the next thread to join.                                             *)
LEMMA join_next_Step == ASSUME IInv, join_next PROVE IInv'
<1> USE ActorFacts DEF IInv
<1>1. /\ \/ pc[MAIN] = "join_next"
         \/ pc[MAIN] = "join" /\ is_detached[i]
      /\ i \in Threads /\ ~Creating
      /\ UNCHANGED <<stack_list, last_stack_lock, lock, is_finished, is_detached, tid,
                     stack, iter, ret>>
  BY DEF MainInv, TypeOK, Threads, Creating, join_next, DestroySteps
<1>2. /\ \/ i + 1 < N /\ i' = i + 1 /\ pc'[MAIN] = "join"
         \/ i + 1 = N /\ i' = 0 /\ pc'[MAIN] = "check"
      /\ \A t \in Threads : pc'[t] = pc[t]
  BY <1>1 DEF join_next, NextThread, Goto, TypeOK, Threads
<1>3. ~Creating' /\ \A t \in Threads : ~MainHolds(t)' /\ ~MainHolds(t)
  BY <1>1, <1>2 DEF Creating, MainHolds, DestroySteps
<1>4. Listed' = Listed /\ \A t \in Threads : Handed(t)' <=> Handed(t)
  BY <1>1 DEF Listed, Handed
<1>5. TypeOK'
  <2>1. pc' \in [Actors -> DestroySteps \cup RunnerSteps \cup MainSteps]
    BY DEF TypeOK, MainSteps, join_next, NextThread, Goto
  <2>2. i' \in 0..N
    BY <1>1, <1>2 DEF Threads
  <2> QED
    BY <1>1, <1>2, <2>1, <2>2 DEF TypeOK, MainSteps
<1>6. MainInv' /\ BirthInv' /\ TidInv'
  BY <1>1, <1>2, <1>3 DEF MainInv, BirthInv, TidInv, DestroySteps
<1>7. LockInv' /\ DetachInv'
  BY <1>1, <1>2, <1>3 DEF LockInv, DetachInv, ThreadHolds
<1>8. HandedInv'
  BY <1>1, <1>2, <1>3, <1>4 DEF HandedInv, Threads
<1>9. ListInv'
  BY <1>1, <1>2, ListKept
<1> QED
  BY <1>5, <1>6, <1>7, <1>8, <1>9

(* The last loop, and the report.                                          *)
LEMMA Check_Step == ASSUME IInv, check_restart \/ check_next \/ report PROVE IInv'
<1> USE ActorFacts DEF IInv
<1>1. /\ pc[MAIN] = "check" /\ i' \in 0..N /\ ~Creating
      /\ pc' = [pc EXCEPT ![MAIN] = pc'[MAIN]] /\ pc'[MAIN] \in {"check", "exit"}
      /\ UNCHANGED <<stack_list, last_stack_lock, lock, is_finished, is_detached, tid,
                     stack, iter, ret>>
  BY DEF TypeOK, Creating, check_restart, check_next, report, Goto, DestroySteps
<1>2. \A t \in Threads : pc'[t] = pc[t]
  BY <1>1 DEF TypeOK
<1>3. ~Creating' /\ \A t \in Threads : ~MainHolds(t)' /\ ~MainHolds(t)
  BY <1>1 DEF Creating, MainHolds, DestroySteps
<1>4. Listed' = Listed /\ \A t \in Threads : Handed(t)' <=> Handed(t)
  BY <1>1 DEF Listed, Handed
<1>5. TypeOK'
  <2>1. pc' \in [Actors -> DestroySteps \cup RunnerSteps \cup MainSteps]
    BY <1>1 DEF TypeOK, MainSteps
  <2> QED
    BY <1>1, <1>2, <2>1 DEF TypeOK, MainSteps
<1>6. MainInv' /\ BirthInv' /\ TidInv'
  BY <1>1, <1>2, <1>3 DEF MainInv, BirthInv, TidInv, DestroySteps
<1>7. LockInv' /\ DetachInv'
  BY <1>1, <1>2, <1>3 DEF LockInv, DetachInv, ThreadHolds
<1>8. HandedInv'
  BY <1>1, <1>2, <1>4 DEF HandedInv
<1>9. ListInv'
  BY <1>1, <1>2, ListKept
<1> QED
  BY <1>5, <1>6, <1>7, <1>8, <1>9

-----------------------------------------------------------------------------
(* Every step keeps the invariant.                                         *)
LEMMA Inductive == IInv /\ [Next]_vars => IInv'
<1> SUFFICES ASSUME IInv, [Next]_vars PROVE IInv'
  OBVIOUS
<1>1. CASE MainStep
  BY <1>1, cthread_create_Step, CreatingNext_Step, detach_lock_Step, detach_set_Step,
     cthread_join_Step, join_next_Step, Check_Step DEF MainStep
<1>2. CASE \E t \in Threads : ThreadStep(t)
  BY <1>2, func_Step, runner_lock_Step, runner_finish_Step, runner_unlock_Step,
     clear_tid_Step DEF ThreadStep
<1>3. CASE \E a \in Actors : DestroyStep(a)
  BY <1>3, spin_lock_list_Step, free_stack_Step, link_stack_Step DEF DestroyStep
<1>4. CASE UNCHANGED vars
  BY <1>4 DEF vars, IInv, TypeOK, MainInv, BirthInv, TidInv, LockInv, DetachInv, HandedInv,
              ListInv, Creating, Handed, ThreadHolds, MainHolds, Listed
<1> QED
  BY <1>1, <1>2, <1>3, <1>4 DEF Next

(* However many threads there are, and however cthread_detach(), the ends  *)
(* of the threads and cthread_join() interleave: cthread_destroy() frees   *)
(* no stack before its thread has left it, and the record it links is not  *)
(* freed.                                                                  *)
THEOREM CThreadNoStackFreedInUse == Spec => []NoStackFreedInUse
<1>1. IInv => NoStackFreedInUse
  <2> SUFFICES ASSUME IInv PROVE NoStackFreedInUse
    OBVIOUS
  <2>1. \A t \in Threads : stack[t] = "freed" => pc[t] = "gone"
    BY DEF IInv, HandedInv
  <2>2. \A a \in Actors : pc[a] = "scan" => stack[Destroyed(a)] = "allocated"
    BY DestroyedFacts DEF DestroySteps
  <2> QED
    BY <2>1, <2>2 DEF NoStackFreedInUse
<1> QED
  BY <1>1, InitInvariant, Inductive, PTL DEF Spec

(* Every record is linked at most once and never after it was freed, and   *)
(* the record of a detached thread is handed over exactly when the thread  *)
(* has finished, by itself or by cthread_detach().                         *)
THEOREM CThreadRecordOnce == Spec => []RecordOnce
<1>1. IInv => RecordOnce
  <2> SUFFICES ASSUME IInv PROVE RecordOnce
    OBVIOUS
  <2>1. IsInjective(stack_list)
    BY DEF IInv, ListInv
  <2>2. \A a \in Actors : pc[a] \in {"spin", "scan"} => Destroyed(a) \notin Listed
    BY DestroyedFacts DEF DestroySteps, Handed
  <2>3. last_stack_lock \/ \A t \in Listed : stack[t] = "allocated"
    BY DEF IInv, ListInv
  <2>4. ASSUME NEW t \in Threads, ~lock[t], is_detached[t]
        PROVE  (t \in Listed \/ stack[t] = "freed") = is_finished[t]
    <3>1. pc[t] \notin {"finish", "unlock"}
      BY <2>4 DEF IInv, LockInv, ThreadHolds
    <3>2. Handed(t) <=> pc[t] \in Past
      BY <2>4 DEF IInv, HandedInv
    <3>3. is_finished[t] <=> pc[t] \in {"unlock", "exiting", "gone"}
      BY DEF IInv, TidInv
    <3>4. Handed(t) <=> is_finished[t]
      BY <3>1, <3>2, <3>3 DEF Past
    <3>5. is_finished[t] \in BOOLEAN
      BY DEF IInv, TypeOK
    <3> QED
      BY <3>4, <3>5 DEF Handed
  <2> QED
    BY <2>1, <2>2, <2>3, <2>4 DEF RecordOnce
<1> QED
  BY <1>1, InitInvariant, Inductive, PTL DEF Spec
=============================================================================
