--------------------------- MODULE HeapHelpProofs ---------------------------
(***************************************************************************)
(* A proof about HeapHelp, for any number of threads and any calls of the  *)
(* client: the counter tracks the heap, and a correct program is never     *)
(* stopped for a double free.                                              *)
(***************************************************************************)
EXTENDS HeapHelp, FiniteSetTheorems, TLAPS

(* The call of thread t works on a block that it got from the client and   *)
(* that is still counted.                                                  *)
Owns(t) == op[t] \in {"resize", "shrink"} \/ (op[t] = "free" /\ pc[t] # "call")

Pending == {t \in Threads : Uncounted(t)}
Owners == {t \in Threads : Owns(t)}

Numbers ==
    /\ alloc_count \in Int /\ heap \in Int /\ shrunk \in Int /\ twice \in Int
    /\ held \in Nat /\ report \in Int
    /\ pc \in [Threads -> Steps] /\ op \in [Threads -> Ops]

(* Which steps belong to which calls.                                      *)
StepInv == \A t \in Threads :
    /\ op[t] = "none" <=> pc[t] \in {"unborn", "idle"}
    /\ pc[t] = "inner_count" => op[t] = "dup" /\ calls_back
    /\ pc[t] = "count" => op[t] \in {"new", "dup", "free"}

(* The two books that are kept: of the blocks, and of the client's rights  *)
(* to free one.                                                            *)
CountInv == alloc_count + Cardinality(Pending) = heap + shrunk + twice
OwnInv == alloc_count >= held + Cardinality(Owners)

ReportInv == report # -1 => report = alloc_count /\ Busy = {}

IInv == /\ Numbers /\ StepInv /\ CountInv /\ OwnInv /\ ReportInv
        /\ failed # "double-free"

-----------------------------------------------------------------------------
Bit(b) == IF b THEN 1 ELSE 0

(* A set of threads that differs in one thread at most.                    *)
LEMMA OneMoreOrLess ==
    ASSUME NEW S, NEW T, IsFiniteSet(S), NEW t, S \ {t} = T \ {t}
    PROVE  /\ IsFiniteSet(T)
           /\ Cardinality(S) \in Nat
           /\ Cardinality(T) = Cardinality(S) + Bit(t \in T) - Bit(t \in S)
<1> DEFINE R == S \ {t}
<1>1. IsFiniteSet(R) /\ Cardinality(R) \in Nat
  BY FS_Subset, FS_CardinalityType
<1>2. /\ IsFiniteSet(R \cup {t})
      /\ Cardinality(R \cup {t}) = Cardinality(R) + 1
  BY <1>1, FS_AddElement
<1>3. ASSUME NEW X, X \ {t} = R
      PROVE  IsFiniteSet(X) /\ Cardinality(X) = Cardinality(R) + Bit(t \in X)
  <2>1. CASE t \in X
    <3>1. X = R \cup {t}
      BY <1>3, <2>1
    <3> QED
      BY <1>2, <2>1, <3>1 DEF Bit
  <2>2. CASE t \notin X
    <3>1. X = R
      BY <1>3, <2>2
    <3> HIDE DEF R
    <3> QED
      BY <1>1, <2>2, <3>1 DEF Bit
  <2> QED
    BY <2>1, <2>2
<1>4. /\ Cardinality(S) = Cardinality(R) + Bit(t \in S)
      /\ IsFiniteSet(T) /\ Cardinality(T) = Cardinality(R) + Bit(t \in T)
  BY <1>3
<1> HIDE DEF R
<1> QED
  BY <1>1, <1>4 DEF Bit

(* A step of thread t changes both books by what becomes of t.             *)
LEMMA BooksChange ==
    ASSUME NEW t \in Threads, calls_back' = calls_back,
           \A u \in Threads \ {t} : pc'[u] = pc[u] /\ op'[u] = op[u]
    PROVE  /\ Cardinality(Pending) \in Nat /\ Cardinality(Owners) \in Nat
           /\ Cardinality(Pending')
                = Cardinality(Pending) + Bit(Uncounted(t)') - Bit(Uncounted(t))
           /\ Cardinality(Owners') = Cardinality(Owners) + Bit(Owns(t)') - Bit(Owns(t))
<1>1. IsFiniteSet(Pending) /\ IsFiniteSet(Owners)
  BY HeapHelpAssumption, FS_Subset DEF HeapHelpAssumption, Pending, Owners
<1>2. \A u \in Threads \ {t} : (Uncounted(u)' <=> Uncounted(u)) /\ (Owns(u)' <=> Owns(u))
  BY DEF Uncounted, Owns
<1>3. Pending \ {t} = Pending' \ {t} /\ Owners \ {t} = Owners' \ {t}
  BY <1>2 DEF Pending, Owners
<1>4. /\ t \in Pending <=> Uncounted(t)
      /\ t \in Pending' <=> Uncounted(t)'
      /\ t \in Owners <=> Owns(t)
      /\ t \in Owners' <=> Owns(t)'
  BY DEF Pending, Owners
<1>5. /\ Cardinality(Pending) \in Nat
      /\ Cardinality(Pending') = Cardinality(Pending) + Bit(t \in Pending') - Bit(t \in Pending)
  BY <1>1, <1>3, OneMoreOrLess
<1>6. /\ Cardinality(Owners) \in Nat
      /\ Cardinality(Owners') = Cardinality(Owners) + Bit(t \in Owners') - Bit(t \in Owners)
  BY <1>1, <1>3, OneMoreOrLess
<1> QED
  BY <1>4, <1>5, <1>6 DEF Bit

(* An owner of a block has its count.                                      *)
LEMMA OwnerIsCounted ==
    ASSUME NEW t \in Threads, Owns(t)
    PROVE  Cardinality(Owners) \in Nat /\ Cardinality(Owners) >= 1
<1>1. IsFiniteSet(Owners) /\ t \in Owners
  BY HeapHelpAssumption, FS_Subset DEF HeapHelpAssumption, Owners
<1>2. Cardinality(Owners) \in Nat /\ Cardinality(Owners) # 0
  BY <1>1, FS_CardinalityType, FS_EmptySet
<1> QED
  BY <1>2

-----------------------------------------------------------------------------
(* Nothing is reported while a thread is in one of the functions.          *)
LEMMA NoReportYet ==
    ASSUME IInv, NEW t \in Threads, pc[t] \notin {"unborn", "idle"}
    PROVE  report = -1
  BY DEF IInv, StepInv, ReportInv, Busy

(* Before the first call nothing is counted.                               *)
LEMMA InitInvariant == Init => IInv
<1> SUFFICES ASSUME Init PROVE IInv
  OBVIOUS
<1> USE DEF Init
<1>1. Numbers
  <2>1. pc \in [Threads -> Steps] /\ op \in [Threads -> Ops]
    BY DEF Steps, Ops
  <2> QED
    BY <2>1 DEF Numbers
<1>2. StepInv
  BY DEF StepInv
<1>3. Pending = {} /\ Owners = {}
  BY DEF Pending, Owners, Uncounted, Owns
<1>4. Cardinality(Pending) = 0 /\ Cardinality(Owners) = 0
  BY <1>3, FS_EmptySet
<1>5. CountInv /\ OwnInv /\ ReportInv
  BY <1>4 DEF CountInv, OwnInv, ReportInv
<1> QED
  BY <1>1, <1>2, <1>5 DEF IInv

(* heaph_touch() and the start of a thread leave the books alone.          *)
LEMMA Quiet_Step ==
    ASSUME IInv, NEW t \in Threads,
           \/ Start(t) \/ heaph_touch(t) \/ heaph_lock(t) \/ heaph_init(t)
           \/ exchange_is_done(t) \/ heaph_unlock(t)
    PROVE  IInv'
<1> USE DEF IInv
<1>1. /\ UNCHANGED <<alloc_count, heap, held, shrunk, calls_back, twice, op, report>>
      /\ \/ pc' = pc
         \/ pc' = [pc EXCEPT ![t] = pc'[t]]
  BY DEF Start, heaph_touch, heaph_lock, heaph_init, exchange_is_done, heaph_unlock, Goto,
         history, Numbers
<1>2. /\ pc[t] \notin {"call", "count", "inner_count"}
      /\ pc'[t] \in Steps \ {"inner_count"}
      /\ pc'[t] = "count" => op[t] = "free"
      /\ pc'[t] = "call" => op[t] # "free"
      /\ pc'[t] \in {"unborn", "idle"} <=> pc[t] \in {"unborn", "idle"}
  BY DEF Start, heaph_touch, heaph_lock, heaph_init, exchange_is_done, heaph_unlock, Goto,
         AfterTouch, At, Numbers, Steps
<1>3. \A u \in Threads \ {t} : pc'[u] = pc[u] /\ op'[u] = op[u]
  BY <1>1 DEF Numbers
<1>4. Numbers'
  BY <1>1, <1>2 DEF Numbers
<1>5. StepInv'
  BY <1>1, <1>2, <1>3 DEF StepInv
<1>6. ~Uncounted(t) /\ ~Uncounted(t)' /\ (Owns(t)' <=> Owns(t))
  BY <1>1, <1>2 DEF Uncounted, Owns
<1>7. /\ Cardinality(Pending') = Cardinality(Pending)
      /\ Cardinality(Owners') = Cardinality(Owners)
  BY <1>1, <1>3, <1>6, BooksChange DEF Bit
<1>8. CountInv' /\ OwnInv'
  BY <1>1, <1>7 DEF CountInv, OwnInv
<1>9. ReportInv'
  BY <1>1 DEF ReportInv, Busy
<1>10. failed' # "double-free"
  BY DEF Start, heaph_touch, heaph_lock, heaph_init, exchange_is_done, heaph_unlock
<1> QED
  BY <1>4, <1>5, <1>8, <1>9, <1>10

(* The client hands a block over to the call, and with it the right to its *)
(* count.                                                                  *)
LEMMA Call_Step == ASSUME IInv, NEW t \in Threads, NEW o \in ClientOps, Call(t, o) PROVE IInv'
<1> USE DEF IInv
<1>1. /\ pc[t] = "idle" /\ report = -1 /\ pc' = [pc EXCEPT ![t] = "touch"]
      /\ op' = [op EXCEPT ![t] = o]
      /\ UNCHANGED <<alloc_count, heap, shrunk, calls_back, twice, report, failed>>
      /\ \/ o \in {"new", "dup"} /\ held' = held
         \/ o \in {"resize", "shrink", "free"} /\ held > 0 /\ held' = held - 1
  BY DEF Call, At, Goto, history
<1>2. /\ pc'[t] = "touch" /\ op'[t] = o /\ op[t] = "none"
      /\ \A u \in Threads \ {t} : pc'[u] = pc[u] /\ op'[u] = op[u]
  BY <1>1 DEF Numbers, StepInv
<1>3. Numbers'
  BY <1>1 DEF Numbers, Steps, Ops
<1>4. StepInv'
  BY <1>1, <1>2 DEF StepInv
<1>5. /\ ~Uncounted(t) /\ ~Uncounted(t)' /\ ~Owns(t)
      /\ Owns(t)' <=> o \in {"resize", "shrink", "free"}
  BY <1>1, <1>2 DEF Uncounted, Owns
<1>6. /\ Cardinality(Pending') = Cardinality(Pending)
      /\ Cardinality(Owners) \in Nat
      /\ Cardinality(Owners')
           = Cardinality(Owners) + Bit(o \in {"resize", "shrink", "free"})
  BY <1>1, <1>2, <1>5, BooksChange DEF Bit
<1>7. CountInv'
  BY <1>1, <1>6 DEF CountInv
<1>8. OwnInv'
  BY <1>1, <1>6 DEF OwnInv, Numbers, Bit
<1>9. ReportInv'
  BY <1>1 DEF ReportInv
<1> QED
  BY <1>1, <1>3, <1>4, <1>7, <1>8, <1>9

(* A call that goes to the default function for a new block: the heap has  *)
(* the block before the counter has it.                                    *)
LEMMA NewBlock_Step ==
    ASSUME IInv, NEW t \in Threads, default_malloc(t) \/ default_strdup(t) PROVE IInv'
<1> USE DEF IInv
<1>1. /\ pc[t] = "call" /\ op[t] \in {"new", "dup"}
      /\ UNCHANGED <<alloc_count, held, shrunk, calls_back, twice, report, failed>>
      /\ \A u \in Threads \ {t} : pc'[u] = pc[u] /\ op'[u] = op[u]
  BY DEF default_malloc, default_strdup, At, Goto, Return, history, Numbers
<1>2. \/ /\ heap' = heap + 1 /\ op' = op
         /\ pc'[t] = IF op[t] = "dup" /\ calls_back THEN "inner_count" ELSE "count"
      \/ /\ heap' = heap /\ op'[t] = "none" /\ pc'[t] = "idle"
  BY DEF default_malloc, default_strdup, Goto, Return, Numbers
<1>3. Numbers'
  <2>1. pc' \in [Threads -> Steps] /\ op' \in [Threads -> Ops]
    BY DEF default_malloc, default_strdup, Goto, Return, Numbers, Steps, Ops
  <2> QED
    BY <1>1, <1>2, <2>1 DEF Numbers
<1>4. StepInv'
  BY <1>1, <1>2 DEF StepInv
<1>5. ~Uncounted(t) /\ ~Owns(t) /\ ~Owns(t)' /\ (Uncounted(t)' <=> heap' = heap + 1)
  BY <1>1, <1>2 DEF Uncounted, Owns, Numbers
<1>6. /\ Cardinality(Pending) \in Nat
      /\ Cardinality(Pending') = Cardinality(Pending) + Bit(heap' = heap + 1)
      /\ Cardinality(Owners') = Cardinality(Owners)
  BY <1>1, <1>5, BooksChange DEF Bit
<1>7. CountInv'
  BY <1>1, <1>2, <1>6 DEF CountInv, Numbers, Bit
<1>8. OwnInv'
  BY <1>1, <1>6 DEF OwnInv
<1>9. ReportInv'
  BY <1>1, NoReportYet DEF ReportInv
<1> QED
  BY <1>1, <1>3, <1>4, <1>7, <1>8, <1>9

(* The count of libc's own malloc().                                       *)
LEMMA inner_count_Step == ASSUME IInv, NEW t \in Threads, inner_count(t) PROVE IInv'
<1> USE DEF IInv
<1>1. /\ pc[t] = "inner_count" /\ op[t] = "dup" /\ calls_back
      /\ pc' = [pc EXCEPT ![t] = "count"]
      /\ alloc_count' = alloc_count + 1
      /\ UNCHANGED <<heap, held, shrunk, calls_back, twice, op, report, failed>>
  BY DEF inner_count, At, Goto, history, StepInv
<1>2. pc'[t] = "count" /\ \A u \in Threads \ {t} : pc'[u] = pc[u] /\ op'[u] = op[u]
  BY <1>1 DEF Numbers
<1>3. Numbers'
  BY <1>1 DEF Numbers, Steps
<1>4. StepInv'
  BY <1>1, <1>2 DEF StepInv
<1>5. Uncounted(t) /\ ~Uncounted(t)' /\ ~Owns(t) /\ ~Owns(t)'
  BY <1>1, <1>2 DEF Uncounted, Owns
<1>6. /\ Cardinality(Pending) \in Nat
      /\ Cardinality(Pending') = Cardinality(Pending) - 1
      /\ Cardinality(Owners) \in Nat
      /\ Cardinality(Owners') = Cardinality(Owners)
  BY <1>1, <1>2, <1>5, BooksChange DEF Bit
<1>7. CountInv' /\ OwnInv'
  BY <1>1, <1>6 DEF CountInv, OwnInv, Numbers
<1>8. ReportInv'
  BY <1>1, NoReportYet DEF ReportInv
<1> QED
  BY <1>1, <1>3, <1>4, <1>7, <1>8

(* The count of a new block comes before its return: when the client has   *)
(* the block, it has the right to free it.                                 *)
LEMMA alloc_count_inc_Step == ASSUME IInv, NEW t \in Threads, alloc_count_inc(t) PROVE IInv'
<1> USE DEF IInv
<1>1. /\ pc[t] = "count" /\ op[t] \in {"new", "dup"}
      /\ pc' = [pc EXCEPT ![t] = "idle"] /\ op' = [op EXCEPT ![t] = "none"]
      /\ alloc_count' = alloc_count + 1 /\ held' = held + 1
      /\ twice' = IF op[t] = "dup" /\ calls_back THEN twice + 1 ELSE twice
      /\ UNCHANGED <<heap, shrunk, calls_back, report, failed>>
  BY DEF alloc_count_inc, At, Goto, Return
<1>2. /\ pc'[t] = "idle" /\ op'[t] = "none"
      /\ \A u \in Threads \ {t} : pc'[u] = pc[u] /\ op'[u] = op[u]
  BY <1>1 DEF Numbers
<1>3. Numbers'
  BY <1>1 DEF Numbers, Steps, Ops
<1>4. StepInv'
  BY <1>1, <1>2 DEF StepInv
<1>5. /\ Uncounted(t) <=> ~(op[t] = "dup" /\ calls_back)
      /\ ~Uncounted(t)' /\ ~Owns(t) /\ ~Owns(t)'
  BY <1>1, <1>2 DEF Uncounted, Owns
<1>6. /\ Cardinality(Pending) \in Nat
      /\ Cardinality(Pending')
           = Cardinality(Pending) - Bit(~(op[t] = "dup" /\ calls_back))
      /\ Cardinality(Owners) \in Nat
      /\ Cardinality(Owners') = Cardinality(Owners)
  BY <1>1, <1>2, <1>5, BooksChange DEF Bit
<1>7. CountInv'
  BY <1>1, <1>6 DEF CountInv, Numbers, Bit
<1>8. OwnInv'
  BY <1>1, <1>6 DEF OwnInv, Numbers
<1>9. ReportInv'
  BY <1>1, NoReportYet DEF ReportInv
<1> QED
  BY <1>1, <1>3, <1>4, <1>7, <1>8, <1>9

(* realloc() gives the block back, or frees it and leaves its count.       *)
LEMMA Realloc_Step ==
    ASSUME IInv, NEW t \in Threads, default_realloc(t) \/ realloc_to_zero(t) PROVE IInv'
<1> USE DEF IInv
<1>1. /\ pc[t] = "call" /\ op[t] \in {"resize", "shrink"}
      /\ pc' = [pc EXCEPT ![t] = "idle"] /\ op' = [op EXCEPT ![t] = "none"]
      /\ \/ held' = held + 1 /\ UNCHANGED <<heap, shrunk>>
         \/ held' = held /\ heap' = heap - 1 /\ shrunk' = shrunk + 1
      /\ UNCHANGED <<alloc_count, calls_back, twice, report, failed>>
  BY DEF default_realloc, realloc_to_zero, At, Goto, Return, history
<1>2. /\ pc'[t] = "idle" /\ op'[t] = "none"
      /\ \A u \in Threads \ {t} : pc'[u] = pc[u] /\ op'[u] = op[u]
  BY <1>1 DEF Numbers
<1>3. Numbers'
  BY <1>1 DEF Numbers, Steps, Ops
<1>4. StepInv'
  BY <1>1, <1>2 DEF StepInv
<1>5. ~Uncounted(t) /\ ~Uncounted(t)' /\ Owns(t) /\ ~Owns(t)'
  BY <1>1, <1>2 DEF Uncounted, Owns
<1>6. /\ Cardinality(Pending) \in Nat
      /\ Cardinality(Pending') = Cardinality(Pending)
      /\ Cardinality(Owners) \in Nat
      /\ Cardinality(Owners') = Cardinality(Owners) - 1
  BY <1>1, <1>2, <1>5, BooksChange DEF Bit
<1>7. CountInv' /\ OwnInv'
  BY <1>1, <1>6 DEF CountInv, OwnInv, Numbers
<1>8. ReportInv'
  BY <1>1, NoReportYet DEF ReportInv
<1> QED
  BY <1>1, <1>3, <1>4, <1>7, <1>8

(* free() finds its own count: the counter does not fall below zero.       *)
LEMMA alloc_count_sub_Step == ASSUME IInv, NEW t \in Threads, alloc_count_sub(t) PROVE IInv'
<1> USE DEF IInv
<1>1. /\ pc[t] = "count" /\ op[t] = "free" /\ pc' = [pc EXCEPT ![t] = "call"]
      /\ alloc_count' = alloc_count - 1
      /\ failed' = IF alloc_count' >= 0 THEN "no" ELSE "double-free"
      /\ UNCHANGED <<heap, held, shrunk, calls_back, twice, op, report>>
  BY DEF alloc_count_sub, At, Goto, history
<1>2. pc'[t] = "call" /\ \A u \in Threads \ {t} : pc'[u] = pc[u] /\ op'[u] = op[u]
  BY <1>1 DEF Numbers
<1>3. Numbers'
  BY <1>1 DEF Numbers, Steps
<1>4. StepInv'
  BY <1>1, <1>2 DEF StepInv
<1>5. ~Uncounted(t) /\ Uncounted(t)' /\ Owns(t) /\ ~Owns(t)'
  BY <1>1, <1>2 DEF Uncounted, Owns
<1>6. /\ Cardinality(Pending) \in Nat
      /\ Cardinality(Pending') = Cardinality(Pending) + 1
      /\ Cardinality(Owners) \in Nat
      /\ Cardinality(Owners') = Cardinality(Owners) - 1
  BY <1>1, <1>2, <1>5, BooksChange DEF Bit
<1>7. CountInv' /\ OwnInv'
  BY <1>1, <1>6 DEF CountInv, OwnInv, Numbers
<1>8. failed' # "double-free"
  <2>1. alloc_count >= 1
    BY <1>5, OwnerIsCounted DEF OwnInv, Numbers
  <2> QED
    BY <1>1, <2>1 DEF Numbers
<1>9. ReportInv'
  BY <1>1, NoReportYet DEF ReportInv
<1> QED
  BY <1>3, <1>4, <1>7, <1>8, <1>9

(* The block goes back to the heap after its count.                        *)
LEMMA default_free_Step == ASSUME IInv, NEW t \in Threads, default_free(t) PROVE IInv'
<1> USE DEF IInv
<1>1. /\ pc[t] = "call" /\ op[t] = "free" /\ heap' = heap - 1
      /\ pc' = [pc EXCEPT ![t] = "idle"] /\ op' = [op EXCEPT ![t] = "none"]
      /\ UNCHANGED <<alloc_count, held, shrunk, calls_back, twice, report, failed>>
  BY DEF default_free, At, Goto, Return, history
<1>2. /\ pc'[t] = "idle" /\ op'[t] = "none"
      /\ \A u \in Threads \ {t} : pc'[u] = pc[u] /\ op'[u] = op[u]
  BY <1>1 DEF Numbers
<1>3. Numbers'
  BY <1>1 DEF Numbers, Steps, Ops
<1>4. StepInv'
  BY <1>1, <1>2 DEF StepInv
<1>5. Uncounted(t) /\ ~Uncounted(t)' /\ ~Owns(t) /\ ~Owns(t)'
  BY <1>1, <1>2 DEF Uncounted, Owns
<1>6. /\ Cardinality(Pending) \in Nat
      /\ Cardinality(Pending') = Cardinality(Pending) - 1
      /\ Cardinality(Owners) \in Nat
      /\ Cardinality(Owners') = Cardinality(Owners)
  BY <1>1, <1>2, <1>5, BooksChange DEF Bit
<1>7. CountInv' /\ OwnInv'
  BY <1>1, <1>6 DEF CountInv, OwnInv, Numbers
<1>8. ReportInv'
  BY <1>1, NoReportYet DEF ReportInv
<1> QED
  BY <1>1, <1>3, <1>4, <1>7, <1>8

(* The report is the counter of a moment when no call is under way.        *)
LEMMA heaph_atexit_Step == ASSUME IInv, heaph_atexit PROVE IInv'
<1> USE DEF IInv, heaph_atexit, history
<1>1. Numbers' /\ StepInv' /\ ReportInv'
  BY DEF Numbers, StepInv, ReportInv, Busy
<1>2. Pending' = Pending /\ Owners' = Owners
  BY DEF Pending, Owners, Uncounted, Owns
<1> QED
  BY <1>1, <1>2 DEF CountInv, OwnInv

(* Every step keeps the invariant.                                         *)
LEMMA Inductive == IInv /\ [Next]_vars => IInv'
<1> SUFFICES ASSUME IInv, [Next]_vars PROVE IInv'
  OBVIOUS
<1>1. CASE heaph_atexit
  BY <1>1, heaph_atexit_Step
<1>2. ASSUME NEW t \in Threads, ThreadStep(t) PROVE IInv'
  BY <1>2, Quiet_Step, Call_Step, NewBlock_Step, inner_count_Step, alloc_count_inc_Step,
     Realloc_Step, alloc_count_sub_Step, default_free_Step DEF ThreadStep
<1>3. CASE UNCHANGED vars
  <2>1. Pending' = Pending /\ Owners' = Owners
    BY <1>3 DEF vars, Pending, Owners, Uncounted, Owns
  <2> QED
    BY <1>3, <2>1 DEF vars, IInv, Numbers, StepInv, CountInv, OwnInv, ReportInv, Busy
<1> QED
  BY <1>1, <1>2, <1>3 DEF Next

(* Whatever calls whatever threads make, and whichever of them free the    *)
(* blocks of others: the counter is right but for the calls under way, so  *)
(* is the report at exit, and a correct program is never stopped with      *)
(* "Double-free detected".                                                 *)
THEOREM HeapHelpCountTracksHeap == Spec => []CountTracksHeap
<1>1. IInv => CountTracksHeap
  <2> SUFFICES ASSUME IInv PROVE CountTracksHeap
    OBVIOUS
  <2>1. ASSUME report # -1 PROVE report = heap + shrunk + twice
    <3>1. report = alloc_count /\ Pending = {}
      BY <2>1 DEF IInv, ReportInv, StepInv, Busy, Pending, Uncounted
    <3>2. Cardinality(Pending) = 0
      BY <3>1, FS_EmptySet
    <3> QED
      BY <3>1, <3>2 DEF IInv, CountInv, Numbers
  <2> QED
    BY <2>1 DEF CountTracksHeap, IInv, CountInv, Pending
<1> QED
  BY <1>1, InitInvariant, Inductive, PTL DEF Spec
=============================================================================
