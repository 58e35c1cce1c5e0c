------------------------------ MODULE HeapHelp ------------------------------
(***************************************************************************)
(* utils/heap_help/heap_help.c: the replacements of malloc() and its       *)
(* relatives that count allocations, called by several threads at once.    *)
(* A step is one atomic operation, one call of libc, or code that touches  *)
(* only locals.  The client is correct: it frees only blocks it holds, and *)
(* every thread may free what another one has allocated.                   *)
(***************************************************************************)
EXTENDS Integers, FiniteSets

CONSTANTS Threads,
          Main,             \* the thread that exists from the beginning
          ClientOps,        \* the calls the client makes
          MaxBlocks         \* bound on alloc_count

ASSUME HeapHelpAssumption ==
    /\ IsFiniteSet(Threads) /\ Main \in Threads
    /\ ClientOps \subseteq {"new", "dup", "resize", "shrink", "free"}
    /\ MaxBlocks \in Nat

NOBODY == "nobody"

VARIABLES
    alloc_count, global_lock, is_done,  \* the statics of heap_help.c
    handlers,       \* how often heaph_atexit is registered
    heap,           \* how many blocks the default allocator has given out
    held,           \* how many of them the client holds
    shrunk,         \* how many of them realloc(p, 0) has freed
    calls_back,     \* whether libc's own calls of malloc() come here as well
    twice,          \* how many blocks were counted twice for that reason
    pc, op,         \* of each thread: the next step, and the call it is in
    report,         \* what heaph_atexit printed: -1 for nothing
    failed          \* "no", "double-free" or "assert"

vars == <<alloc_count, global_lock, is_done, handlers, heap, held, shrunk,
          calls_back, twice, pc, op, report, failed>>
history == <<shrunk, calls_back, twice>>

(* The calls: "new" is malloc(), calloc() or realloc(NULL, n); "dup" is    *)
(* strdup() or a getline() into NULL, for which libc itself calls malloc();*)
(* "resize" is a realloc() or getline() that gets and gives back a block;  *)
(* "shrink" is realloc(p, 0).                                              *)
Ops == {"none", "new", "dup", "resize", "shrink", "free"}
Steps == {"unborn", "idle", "touch", "lock", "init", "exchange", "unlock_assert",
          "unlock", "call", "inner_count", "count"}

TypeOK ==
    /\ alloc_count \in -1..MaxBlocks
    /\ global_lock \in Threads \cup {NOBODY}
    /\ is_done \in BOOLEAN
    /\ handlers \in 0..Cardinality(Threads)
    /\ heap \in 0..MaxBlocks
    /\ held \in 0..MaxBlocks
    /\ shrunk \in 0..MaxBlocks
    /\ calls_back \in BOOLEAN
    /\ twice \in 0..MaxBlocks
    /\ pc \in [Threads -> Steps]
    /\ op \in [Threads -> Ops]
    /\ report \in -1..MaxBlocks
    /\ failed \in {"no", "double-free", "assert"}

Init ==
    /\ alloc_count = 0 /\ global_lock = NOBODY /\ is_done = FALSE
    /\ handlers = 0 /\ heap = 0 /\ held = 0 /\ shrunk = 0
    /\ calls_back \in BOOLEAN /\ twice = 0
    /\ pc = [t \in Threads |-> IF t = Main THEN "idle" ELSE "unborn"]
    /\ op = [t \in Threads |-> "none"]
    /\ report = -1
    /\ failed = "no"

At(t, step) == failed = "no" /\ pc[t] = step
Goto(t, step) == pc' = [pc EXCEPT ![t] = step]

-----------------------------------------------------------------------------
(* The client.  Blocks on their way between the client and the allocator   *)
(* are counted in neither `held` nor, for a new one, in `heap`.            *)

(* Another thread is started.  Some libc's pthread_create() allocates for  *)
(* it, and so goes through heaph_touch() first; not all do, and a bare     *)
(* clone() need not.                                                       *)
Start(t) ==
    /\ failed = "no" /\ pc[t] = "unborn"
    /\ pc[Main] = "idle"
    /\ report = -1
    /\ Goto(t, "idle")
    /\ UNCHANGED <<alloc_count, global_lock, is_done, handlers, heap, held,
                   history, op,
                   report, failed>>

Busy == {t \in Threads : op[t] # "none"}

Call(t, o) ==
    /\ At(t, "idle")
    /\ report = -1
    /\ \/ /\ o \in {"new", "dup"}
          /\ LET dups == {u \in Busy : op[u] = "dup"} \cup {u \in {t} : o = "dup"}
             IN  alloc_count + Cardinality(Busy \cup {t}) + Cardinality(dups)
                   <= MaxBlocks
          /\ UNCHANGED held
       \/ /\ o \in {"resize", "shrink", "free"}
          /\ held > 0
          /\ held' = held - 1
    /\ op' = [op EXCEPT ![t] = o]
    /\ Goto(t, "touch")
    /\ UNCHANGED <<alloc_count, global_lock, is_done, handlers, heap, history,
                   report, failed>>

-----------------------------------------------------------------------------
(* heaph_touch(): initialize before the first call.                        *)
AfterTouch(t) == IF op[t] = "free" THEN "count" ELSE "call"

heaph_touch(t) ==
    /\ At(t, "touch")
    /\ Goto(t, IF is_done THEN AfterTouch(t) ELSE "lock")
    /\ UNCHANGED <<alloc_count, global_lock, is_done, handlers, heap, held,
                   history, op,
                   report, failed>>

(* The spin on the lock, with its naps, is a wait.                         *)
heaph_lock(t) ==
    /\ At(t, "lock")
    /\ global_lock = NOBODY
    /\ global_lock' = t
    /\ Goto(t, "init")
    /\ UNCHANGED <<alloc_count, is_done, handlers, heap, held, history, op,
                   report, failed>>

(* With HHREPORT=1.                                                        *)
heaph_init(t) ==
    /\ At(t, "init")
    /\ handlers' = handlers + 1
    /\ Goto(t, "exchange")
    /\ UNCHANGED <<alloc_count, global_lock, is_done, heap, held, history, op,
                   report, failed>>

exchange_is_done(t) ==
    /\ At(t, "exchange")
    /\ is_done' = TRUE
    /\ Goto(t, IF is_done THEN "unlock_assert" ELSE "unlock")
    /\ UNCHANGED <<alloc_count, global_lock, handlers, heap, held, history, op,
                   report, failed>>

(* heaph_unlock(), and the assert(!old) of heaph_touch().                  *)
heaph_unlock(t) ==
    /\ At(t, "unlock") \/ At(t, "unlock_assert")
    /\ global_lock' = NOBODY
    /\ IF pc[t] = "unlock_assert"
       THEN failed' = "assert" /\ UNCHANGED pc
       ELSE Goto(t, AfterTouch(t)) /\ UNCHANGED failed
    /\ UNCHANGED <<alloc_count, is_done, handlers, heap, held, history, op, report>>

-----------------------------------------------------------------------------
(* The replaced functions.                                                 *)

Return(t) == Goto(t, "idle") /\ op' = [op EXCEPT ![t] = "none"]

(* The default function, for a new block: it may fail and give NULL.       *)
default_malloc(t) ==
    /\ At(t, "call")
    /\ op[t] = "new"
    /\ \/ heap' = heap + 1 /\ Goto(t, "count") /\ UNCHANGED op
       \/ Return(t) /\ UNCHANGED heap
    /\ UNCHANGED <<alloc_count, global_lock, is_done, handlers, held, history,
                   report, failed>>

(* strdup() and getline() of libc.  In glibc their malloc() is the         *)
(* replacement (heaph_touch() has been done); elsewhere it need not be.    *)
default_strdup(t) ==
    /\ At(t, "call")
    /\ op[t] = "dup"
    /\ \/ /\ heap' = heap + 1
          /\ Goto(t, IF calls_back THEN "inner_count" ELSE "count")
          /\ UNCHANGED op
       \/ Return(t) /\ UNCHANGED heap
    /\ UNCHANGED <<alloc_count, global_lock, is_done, handlers, held, history,
                   report, failed>>

(* The malloc() inside counts the block, and strdup() counts it again.     *)
inner_count(t) ==
    /\ At(t, "inner_count")
    /\ alloc_count' = alloc_count + 1
    /\ Goto(t, "count")
    /\ UNCHANGED <<global_lock, is_done, handlers, heap, held, history, op, report,
                   failed>>

alloc_count_inc(t) ==
    /\ At(t, "count")
    /\ op[t] \in {"new", "dup"}
    /\ alloc_count' = alloc_count + 1
    /\ twice' = IF op[t] = "dup" /\ calls_back THEN twice + 1 ELSE twice
    /\ held' = held + 1
    /\ Return(t)
    /\ UNCHANGED <<global_lock, is_done, handlers, heap, shrunk, calls_back, report,
                   failed>>

(* realloc() of a block, also when it fails and leaves it; and getline()   *)
(* into a buffer.  Nothing is counted.                                     *)
default_realloc(t) ==
    /\ At(t, "call")
    /\ op[t] = "resize"
    /\ held' = held + 1
    /\ Return(t)
    /\ UNCHANGED <<alloc_count, global_lock, is_done, handlers, heap, history,
                   report, failed>>

(* realloc(p, 0): glibc frees the block and returns NULL.                  *)
realloc_to_zero(t) ==
    /\ At(t, "call")
    /\ op[t] = "shrink"
    /\ heap' = heap - 1
    /\ shrunk' = shrunk + 1
    /\ Return(t)
    /\ UNCHANGED <<alloc_count, global_lock, is_done, handlers, held, calls_back,
                   twice, report, failed>>

(* free() counts first.                                                    *)
alloc_count_sub(t) ==
    /\ At(t, "count")
    /\ op[t] = "free"
    /\ alloc_count' = alloc_count - 1
    /\ failed' = IF alloc_count' >= 0 THEN "no" ELSE "double-free"
    /\ Goto(t, "call")
    /\ UNCHANGED <<global_lock, is_done, handlers, heap, held, history, op, report>>

(* Mutant: free() only counts.                                             *)
default_free_forgotten(t) ==
    /\ At(t, "call")
    /\ op[t] = "free"
    /\ Return(t)
    /\ UNCHANGED <<alloc_count, global_lock, is_done, handlers, heap, held,
                   history, report, failed>>

default_free(t) ==
    /\ At(t, "call")
    /\ op[t] = "free"
    /\ heap' = heap - 1
    /\ Return(t)
    /\ UNCHANGED <<alloc_count, global_lock, is_done, handlers, held, history,
                   report, failed>>

(* main() returns once the other threads are idle; the handlers run, all   *)
(* but the first of them without effect.                                   *)
heaph_atexit ==
    /\ failed = "no"
    /\ report = -1
    /\ Busy = {}
    /\ handlers > 0
    /\ report' = alloc_count
    /\ UNCHANGED <<alloc_count, global_lock, is_done, handlers, heap, held,
                   history, pc, op, failed>>

ThreadStep(t) ==
    \/ Start(t)
    \/ \E o \in ClientOps : Call(t, o)
    \/ heaph_touch(t)
    \/ heaph_lock(t)
    \/ heaph_init(t)
    \/ exchange_is_done(t)
    \/ heaph_unlock(t)
    \/ default_malloc(t)
    \/ default_strdup(t)
    \/ inner_count(t)
    \/ alloc_count_inc(t)
    \/ default_realloc(t)
    \/ realloc_to_zero(t)
    \/ alloc_count_sub(t)
    \/ default_free(t)

Next == heaph_atexit \/ \E t \in Threads : ThreadStep(t)

(* A thread inside one of the functions goes on.                           *)
Inside(t) == ThreadStep(t) /\ op[t] # "none"
Spec == Init /\ [][Next]_vars /\ \A t \in Threads : WF_vars(Inside(t))

-----------------------------------------------------------------------------
(* Also in the middle of calls, the counter is the number of blocks that    *)
(* are out, but for those that the functions have got and not yet counted, *)
(* or counted as freed and not yet given back; and it keeps one for each   *)
(* block that realloc(p, 0) has freed and for each that strdup() or        *)
(* getline() have counted again.  So the report at exit is exact for a     *)
(* program that calls none of these, and never misses a leak of any.  And  *)
(* a correct program is never stopped with "Double-free detected": a block *)
(* reaches free() only after its allocation was counted, whatever thread   *)
(* frees it, since the count precedes the return.                          *)
Uncounted(t) ==
    \/ pc[t] = "inner_count"
    \/ /\ pc[t] = "count"
       /\ op[t] \in (IF calls_back THEN {"new"} ELSE {"new", "dup"})
    \/ pc[t] = "call" /\ op[t] = "free"
CountTracksHeap ==
    /\ failed # "double-free"
    /\ failed = "no" =>
        /\ alloc_count + Cardinality({t \in Threads : Uncounted(t)})
             = heap + shrunk + twice
        /\ report # -1 => report = heap + shrunk + twice

(* Whenever no call is under way, the counter is the number of blocks that *)
(* have not been freed, "the number of not freed allocations" of README.md *)
(* that heaph_get_alloc_count() returns; so the report at exit is right.   *)
CountIsLive == /\ Busy = {} => alloc_count = heap
               /\ report # -1 => report = heap
=============================================================================
