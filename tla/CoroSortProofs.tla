--------------------------- MODULE CoroSortProofs ---------------------------
(***************************************************************************)
(* Proofs about CoroSort, for any number of coroutines and files and any   *)
(* numbers in them: every file is read once, and what main() reports of a  *)
(* coroutine is exact; the arrays stay sorted in blocks while the merges   *)
(* of several coroutines alternate; and the output is the sorted union.    *)
(***************************************************************************)
EXTENDS CoroSort, WellFoundedInduction, FiniteSetTheorems, SequenceTheorems, TLAPS

(* A coroutine that has finished keeps the turn from all the others until  *)
(* coro_sched_wait() has returned it.                                      *)
SchedInv ==
    /\ TypeOK
    /\ finished # {} => turn = Sched
    /\ \A c, d \in finished : c = d

(* The clock: it is read again wherever a coroutine goes on, so the time   *)
(* between two readings is the time in which it ran.                       *)
ClockInv ==
    /\ at \in [Coros -> RestartPlaces]
    /\ now \in Nat /\ worked \in [Coros -> Nat] /\ t_summary = worked
    /\ t_invoked \in [Coros -> Nat]

(* The copy of the switch count is right where it is not going to be made  *)
(* again: before the first file, and after the last one.                   *)
Returned(c) == c \notin live \ finished
CountInv ==
    /\ yields \in [Coros -> Nat] /\ switch_count \in [Coros -> Nat]
    /\ \A c \in Coros : at[c] = "start" \/ Returned(c) => switch_count[c] = yields[c]

(* The claims: a file that is claimed has been read, unless the program    *)
(* has exited over it; and a coroutine returns when all are claimed.       *)
ClaimInv ==
    /\ processed \in [FileIds -> BOOLEAN]
    /\ reads \in [FileIds -> Nat]
    /\ \A f \in FileIds : reads[f] <= 1 /\ (~processed[f] => reads[f] = 0)
    /\ phase # "exited" => \A f \in FileIds : processed[f] => reads[f] = 1
    /\ (\E c \in 1..made : Returned(c)) => \A f \in FileIds : processed[f]

PhaseInv ==
    /\ phase \in {"create", "wait", "merge", "done", "exited"}
    /\ phase # "create" => made = MaxCoros
    /\ phase \in {"merge", "done"} => live = {}

SortInv == SchedInv /\ ClockInv /\ CountInv /\ ClaimInv /\ PhaseInv
-----------------------------------------------------------------------------
(* The first file nobody has claimed is found, if there is one.            *)
LEMMA NothingLeftToClaim ==
    ASSUME processed \in [FileIds -> BOOLEAN], ~\E f \in FileIds : get_file(f)
    PROVE  \A f \in FileIds : processed[f]
<1> DEFINE unclaimed == {f \in FileIds : ~processed[f]}
<1>1. FileIds \subseteq Nat
  BY CoroSortAssumption DEF CoroSortAssumption, FileIds
<1> SUFFICES ASSUME unclaimed # {} PROVE FALSE
  OBVIOUS
<1>2. \E f \in unclaimed : \A g \in unclaimed : ~(<<g, f>> \in OpToRel(<, Nat))
  BY <1>1, NatLessThanWellFounded, WFMin
<1>3. PICK f \in unclaimed : \A g \in unclaimed : ~(g < f)
  BY <1>1, <1>2 DEF OpToRel
<1>4. get_file(f)
  BY <1>3 DEF get_file
<1> QED
  BY <1>3, <1>4

(* The invariant holds at the start.                                       *)
LEMMA SortInitInvariant == SortInit => SortInv
<1> SUFFICES ASSUME SortInit PROVE SortInv
  OBVIOUS
<1> USE MaxCorosAssumption, CoroSortAssumption DEF MaxCorosAssumption, CoroSortAssumption
<1>1. SchedInv
  BY DEF SortInit, Init, SchedInv, TypeOK
<1>2. ClockInv
  BY DEF SortInit, ClockInv, RestartPlaces
<1>3. CountInv
  BY DEF SortInit, CountInv
<1>4. ClaimInv
  <2>1. processed \in [FileIds -> BOOLEAN] /\ \A f \in FileIds : ~processed[f]
    BY DEF SortInit
  <2>2. reads \in [FileIds -> Nat] /\ \A f \in FileIds : reads[f] = 0
    BY DEF SortInit
  <2>3. made = 0
    BY DEF SortInit, Init
  <2>4. 1..made = {}
    BY <2>3
  <2> QED
    BY <2>1, <2>2, <2>4 DEF ClaimInv
<1>5. PhaseInv
  BY DEF SortInit, Init, PhaseInv
<1> QED
  BY <1>1, <1>2, <1>3, <1>4, <1>5 DEF SortInv

(* The scheduler's own steps, in which nobody's counts change.             *)
LEMMA SchedKept ==
    ASSUME SchedInv,
           \/ New \/ Yield \/ Finish \/ Wait \/ WaitNothing
           \/ (\E c \in Coros : Reap(c)) \/ Dispatch
    PROVE  SchedInv'
<1> USE MaxCorosAssumption DEF MaxCorosAssumption, SchedInv, TypeOK, Sched, User
<1>1. CASE New
  BY <1>1 DEF New
<1>2. CASE Yield
  BY <1>2 DEF Yield, Coros
<1>3. CASE Finish
  BY <1>3 DEF Finish
<1>4. CASE Wait \/ WaitNothing
  BY <1>4 DEF Wait, WaitNothing
<1>5. CASE \E c \in Coros : Reap(c)
  BY <1>5 DEF Reap
<1>6. CASE Dispatch
  BY <1>6 DEF Dispatch
<1> QED
  BY <1>1, <1>2, <1>3, <1>4, <1>5, <1>6

(* A coroutine that yields or returns has not returned before, and nobody  *)
(* else is affected.                                                       *)
LEMMA RunnerFacts ==
    ASSUME SortInv, NEW c \in Coros, turn = c, Yield \/ Finish
    PROVE  /\ SchedInv' /\ c \in live /\ finished = {} /\ ~Returned(c)
           /\ \A d \in Coros : d # c => (Returned(d)' <=> Returned(d))
           /\ Yield => ~Returned(c)'
           /\ UNCHANGED <<made, live>>
<1> USE MaxCorosAssumption DEF MaxCorosAssumption, SortInv, Coros
<1>1. SchedInv'
  BY SchedKept
<1>2. c \in live /\ c # Sched /\ UNCHANGED <<made, live>>
  BY DEF Yield, Finish, Sched
<1>3. finished = {}
  BY <1>2 DEF SchedInv
<1>4. finished' = (IF Yield THEN {} ELSE {c})
  BY <1>3 DEF Yield, Finish
<1> QED
  BY <1>1, <1>2, <1>3, <1>4 DEF Returned, Yield, Finish

(* The time that c reports grows by what it has worked, from every place   *)
(* where it was suspended to every place where it gives up control.        *)
LEMMA ClockedFacts ==
    ASSUME ClockInv, NEW c \in Coros, NEW place \in StopPlaces, Clocked(c, place),
           at' \in [Coros -> RestartPlaces]
    PROVE  ClockInv'
<1>1. /\ now \in Nat /\ now' = now + 1
      /\ worked \in [Coros -> Nat] /\ worked' = [worked EXCEPT ![c] = @ + 1]
      /\ t_invoked \in [Coros -> Nat] /\ t_invoked' = [t_invoked EXCEPT ![c] = now]
      /\ t_summary = worked
      /\ t_summary' = [t_summary EXCEPT ![c] = @ + (now' - t_invoked'[c])]
  BY DEF ClockInv, Clocked
<1>2. t_invoked' \in [Coros -> Nat] /\ t_invoked'[c] = now
  BY <1>1
<1>3. now' - t_invoked'[c] = 1
  BY <1>1, <1>2
<1>4. t_summary' = worked' /\ worked' \in [Coros -> Nat] /\ now' \in Nat
  BY <1>1, <1>3
<1> QED
  BY <1>2, <1>4 DEF ClockInv

(* coro_yield() with the count as it was, or reported again.               *)
LEMMA YieldFacts ==
    ASSUME SortInv, NEW c \in Coros, turn = c, NEW place \in {"read", "merged", "passed"},
           coro_yield(c, place), switch_count' = switch_count \/ switch_count' = Reported(c)
    PROVE  SchedInv' /\ ClockInv' /\ CountInv' /\ UNCHANGED <<made, live, finished>>
<1> USE DEF SortInv
<1>1. /\ Yield /\ Clocked(c, place) /\ at' = [at EXCEPT ![c] = place]
      /\ yields' = [yields EXCEPT ![c] = @ + 1]
  BY DEF coro_yield
<1>2. /\ SchedInv' /\ ~Returned(c) /\ ~Returned(c)'
      /\ \A d \in Coros : d # c => (Returned(d)' <=> Returned(d))
  BY <1>1, RunnerFacts
<1>3. /\ at \in [Coros -> RestartPlaces]
      /\ place # "start" /\ place \in RestartPlaces /\ place \in StopPlaces
  BY DEF ClockInv, RestartPlaces, StopPlaces
<1>4. yields \in [Coros -> Nat] /\ switch_count \in [Coros -> Nat]
  BY DEF CountInv
<1>5. /\ at' \in [Coros -> RestartPlaces] /\ at'[c] = place
      /\ \A d \in Coros : d # c => at'[d] = at[d]
  BY <1>1, <1>3
<1>6. yields' \in [Coros -> Nat] /\ \A d \in Coros : d # c => yields'[d] = yields[d]
  BY <1>1, <1>4
<1>7. /\ switch_count' \in [Coros -> Nat]
      /\ \A d \in Coros : d # c => switch_count'[d] = switch_count[d]
  BY <1>4 DEF Reported
<1>8. CountInv'
  BY <1>2, <1>3, <1>5, <1>6, <1>7 DEF CountInv
<1>9. ClockInv'
  BY <1>1, <1>3, <1>5, ClockedFacts
<1> QED
  BY <1>1, <1>2, <1>8, <1>9 DEF Yield

(* Merges and passes.                                                      *)
LEMMA MergeStepInvariant ==
    ASSUME SortInv, NEW c \in Coros, MergeStep(c) \/ PassEnd(c)
    PROVE  SortInv'
<1>1. PICK place \in {"merged", "passed"} : coro_yield(c, place)
  BY DEF MergeStep, PassEnd
<1>2. turn = c /\ UNCHANGED <<processed, reads, switch_count, phase>>
  BY DEF MergeStep, PassEnd, pool
<1>4. SchedInv' /\ ClockInv' /\ CountInv' /\ UNCHANGED <<made, live, finished>>
  BY <1>1, <1>2, YieldFacts
<1>5. ClaimInv' /\ PhaseInv'
  BY <1>2, <1>4 DEF SortInv, ClaimInv, PhaseInv, Returned
<1> QED
  BY <1>4, <1>5 DEF SortInv

(* A file is claimed and read.                                             *)
LEMMA TakeFileInvariant ==
    ASSUME SortInv, NEW c \in Coros, NEW f \in FileIds, TakeFile(c, f)
    PROVE  SortInv'
<1>1. /\ turn = c /\ ~processed[f] /\ coro_yield(c, "read") /\ switch_count' = Reported(c)
      /\ processed' = [processed EXCEPT ![f] = TRUE]
      /\ reads' = [reads EXCEPT ![f] = @ + 1] /\ phase' = phase
  BY DEF TakeFile, AtHead, get_file
<1>2. SchedInv' /\ ClockInv' /\ CountInv' /\ UNCHANGED <<made, live, finished>>
  BY <1>1, YieldFacts
<1>3. ClaimInv'
  <2>1. /\ processed \in [FileIds -> BOOLEAN] /\ reads \in [FileIds -> Nat]
        /\ reads[f] = 0
    BY <1>1 DEF SortInv, ClaimInv
  <2>2. /\ processed' \in [FileIds -> BOOLEAN] /\ processed'[f]
        /\ \A g \in FileIds : g # f => processed'[g] = processed[g]
    BY <1>1, <2>1
  <2>3. /\ reads' \in [FileIds -> Nat] /\ reads'[f] = 1
        /\ \A g \in FileIds : g # f => reads'[g] = reads[g]
    BY <1>1, <2>1
  <2>4. (\E d \in 1..made : Returned(d)) => \A g \in FileIds : processed'[g]
    BY <2>2 DEF SortInv, ClaimInv
  <2> QED
    BY <1>1, <1>2, <2>2, <2>3, <2>4 DEF SortInv, ClaimInv, Returned
<1>4. PhaseInv'
  BY <1>1, <1>2 DEF SortInv, PhaseInv
<1> QED
  BY <1>2, <1>3, <1>4 DEF SortInv

(* The program exits over an empty file.                                   *)
LEMMA TakeEmptyFileInvariant ==
    ASSUME SortInv, NEW c \in Coros, NEW f \in FileIds, TakeEmptyFile(c, f)
    PROVE  SortInv'
<1> USE DEF SortInv
<1>1. /\ turn = c /\ phase = "wait" /\ phase' = "exited" /\ switch_count' = Reported(c)
      /\ processed' = [processed EXCEPT ![f] = TRUE]
      /\ UNCHANGED <<made, live, finished, turn, reads, at, yields, t_invoked, t_summary,
                     worked, now>>
  BY DEF TakeEmptyFile, AtHead, vars
<1>2. SchedInv' /\ ClockInv' /\ PhaseInv'
  BY <1>1 DEF SchedInv, TypeOK, ClockInv, PhaseInv
<1>3. ClaimInv'
  <2>1. /\ processed' \in [FileIds -> BOOLEAN] /\ processed'[f]
        /\ \A g \in FileIds : g # f => processed'[g] = processed[g]
    BY <1>1 DEF ClaimInv
  <2> QED
    BY <1>1, <2>1 DEF ClaimInv, Returned
<1>4. CountInv'
  <2>1. /\ switch_count' \in [Coros -> Nat]
        /\ switch_count'[c] = IF at[c] = "start" THEN switch_count[c] ELSE yields[c]
        /\ \A d \in Coros : d # c => switch_count'[d] = switch_count[d]
    BY <1>1 DEF CountInv, Reported
  <2> QED
    BY <1>1, <2>1 DEF CountInv, Returned
<1> QED
  BY <1>2, <1>3, <1>4

(* A coroutine finds no file, reports for the last time and returns.       *)
LEMMA ReturnInvariant ==
    ASSUME SortInv, NEW c \in Coros, Return(c)
    PROVE  SortInv'
<1> USE DEF SortInv
<1>1. /\ turn = c /\ phase = "wait" /\ Finish /\ Clocked(c, "return") /\ switch_count' = Reported(c)
      /\ ~\E f \in FileIds : get_file(f)
      /\ UNCHANGED <<processed, reads, at, yields, phase>>
  BY DEF Return, AtHead, pool
<1>2. /\ SchedInv' /\ UNCHANGED <<made, live>> /\ live # {}
      /\ \A d \in Coros : d # c => (Returned(d)' <=> Returned(d))
  BY <1>1, RunnerFacts
<1>3. ClockInv'
  <2>1. at' \in [Coros -> RestartPlaces] /\ "return" \in StopPlaces
    BY <1>1 DEF ClockInv, StopPlaces
  <2> QED
    BY <1>1, <2>1, ClockedFacts
<1>4. CountInv'
  <2>1. /\ switch_count' \in [Coros -> Nat]
        /\ switch_count'[c] = IF at[c] = "start" THEN switch_count[c] ELSE yields[c]
        /\ \A d \in Coros : d # c => switch_count'[d] = switch_count[d]
    BY <1>1 DEF CountInv, Reported
  <2> QED
    BY <1>1, <1>2, <2>1 DEF CountInv
<1>5. ClaimInv'
  <2>1. \A f \in FileIds : processed[f]
    BY <1>1, NothingLeftToClaim DEF ClaimInv
  <2> QED
    BY <1>1, <2>1 DEF ClaimInv
<1>6. PhaseInv'
  BY <1>1, <1>2 DEF PhaseInv
<1> QED
  BY <1>2, <1>3, <1>4, <1>5, <1>6

(* Steps of main().                                                        *)
LEMMA MainInvariant ==
    ASSUME SortInv, Create \/ Scheduler \/ AllReturned \/ WriteNumber \/ Written
    PROVE  SortInv'
<1> USE MaxCorosAssumption DEF MaxCorosAssumption, SortInv
<1>1. UNCHANGED <<processed, reads, at, yields, switch_count, t_invoked, t_summary, worked, now>>
  BY DEF Create, Scheduler, AllReturned, WriteNumber, Written, pool, coros
<1>2. ClockInv'
  BY <1>1 DEF ClockInv
<1>3. CASE Create
  <2>1. /\ New /\ phase = "create"
        /\ phase' = IF made' = MaxCoros THEN "wait" ELSE "create"
    BY <1>3 DEF Create
  <2>2. SchedInv'
    BY <2>1, SchedKept
  <2>3. /\ made \in Nat /\ made' = made + 1 /\ live' = live \cup {made + 1}
        /\ finished' = finished /\ finished \subseteq live /\ live \subseteq 1..made
    BY <2>1 DEF New, SchedInv, TypeOK
  <2>4. \A c \in Coros : Returned(c)' => Returned(c)
    BY <2>3 DEF Returned
  <2>5. \A c \in 1..made' : Returned(c)' => c \in 1..made /\ Returned(c)
    <3> SUFFICES ASSUME NEW c \in 1..made', Returned(c)' PROVE c \in 1..made /\ Returned(c)
      OBVIOUS
    <3>1. c # made + 1
      BY <2>3 DEF Returned
    <3> QED
      BY <2>3, <3>1 DEF Returned
  <2>6. CountInv'
    BY <1>1, <2>4 DEF CountInv
  <2>7. ClaimInv'
    BY <1>1, <2>1, <2>5 DEF ClaimInv
  <2>8. PhaseInv'
    BY <2>1 DEF PhaseInv
  <2> QED
    BY <1>2, <2>2, <2>6, <2>7, <2>8
<1>4. CASE Scheduler \/ AllReturned
  <2>1. phase = "wait" /\ (Wait \/ (\E c \in Coros : Reap(c)) \/ Dispatch \/ WaitNothing)
    BY <1>4 DEF Scheduler, AllReturned
  <2>2. SchedInv'
    BY <2>1, SchedKept
  <2>3. made' = made /\ live' \ finished' = live \ finished
    BY <2>1 DEF Wait, Reap, Dispatch, WaitNothing
  <2>4. \A c : Returned(c)' <=> Returned(c)
    BY <2>3 DEF Returned
  <2>5. /\ phase' \in {"wait", "merge"}
        /\ phase' = "merge" => live' = {}
    BY <1>4 DEF Scheduler, AllReturned, WaitNothing
  <2>6. CountInv' /\ ClaimInv'
    BY <1>1, <2>1, <2>3, <2>4, <2>5 DEF CountInv, ClaimInv
  <2>7. PhaseInv'
    BY <2>1, <2>3, <2>5 DEF PhaseInv
  <2> QED
    BY <1>2, <2>2, <2>6, <2>7
<1>5. CASE WriteNumber \/ Written
  <2>1. phase = "merge" /\ phase' \in {"merge", "done"} /\ UNCHANGED <<made, live, finished, turn>>
    BY <1>5 DEF WriteNumber, Written, vars
  <2>2. SchedInv' /\ PhaseInv'
    BY <2>1 DEF SchedInv, TypeOK, PhaseInv
  <2>3. CountInv' /\ ClaimInv'
    BY <1>1, <2>1 DEF CountInv, ClaimInv, Returned
  <2> QED
    BY <1>2, <2>2, <2>3
<1> QED
  BY <1>3, <1>4, <1>5

(* Every step keeps the invariant.                                         *)
LEMMA SortStep == SortInv /\ [SortNext]_all => SortInv'
<1> SUFFICES ASSUME SortInv, [SortNext]_all PROVE SortInv'
  OBVIOUS
<1>1. CASE SortNext
  BY <1>1, MainInvariant, MergeStepInvariant, ReturnInvariant, TakeFileInvariant,
     TakeEmptyFileInvariant DEF SortNext
<1>2. CASE UNCHANGED all
  BY <1>2 DEF all, vars, pool, coros, SortInv, SchedInv, TypeOK, ClockInv, CountInv, ClaimInv,
     PhaseInv, Returned
<1> QED
  BY <1>1, <1>2

(* For any number of coroutines and files: get_file() and the claim after  *)
(* it give no file to two coroutines, and when coro_sched_wait() has       *)
(* returned NULL every file has been read.                                 *)
THEOREM CoroSortEveryFileReadOnce == SortSpec => []EveryFileReadOnce
<1>1. ASSUME SortInv PROVE EveryFileReadOnce
  <2> USE <1>1, MaxCorosAssumption DEF SortInv, MaxCorosAssumption
  <2>1. \A f \in FileIds : reads[f] <= 1
    BY DEF ClaimInv
  <2>2. ASSUME phase \in {"merge", "done"}, MaxCoros > 0
        PROVE  \A f \in FileIds : reads[f] = 1
    <3>1. 1 \in 1..made /\ Returned(1)
      BY <2>2 DEF PhaseInv, Returned
    <3> QED
      BY <2>2, <3>1 DEF ClaimInv
  <2> QED
    BY <2>1, <2>2 DEF EveryFileReadOnce
<1> QED
  BY <1>1, SortInitInvariant, SortStep, PTL DEF SortSpec

(* For any number of coroutines and files, however their work is           *)
(* interleaved: the switch count that main() prints is the coroutine's,    *)
(* and its working time is the time in which it ran.                       *)
THEOREM CoroSortReportExact == SortSpec => []ReportExact
<1>1. ASSUME SortInv PROVE ReportExact
  <2>1. ASSUME NEW c \in Coros, phase \in {"merge", "done"}
        PROVE  switch_count[c] = yields[c]
    <3>1. Returned(c)
      BY <1>1, <2>1 DEF SortInv, PhaseInv, Returned
    <3> QED
      BY <1>1, <3>1 DEF SortInv, CountInv
  <2> QED
    BY <1>1, <2>1 DEF SortInv, ClockInv, ReportExact
<1> QED
  BY <1>1, SortInitInvariant, SortStep, PTL DEF SortSpec
-----------------------------------------------------------------------------
(* A set of numbers that is not empty has a least one: what holds at 0 and *)
(* goes on from each number to the next holds everywhere.                  *)
LEMMA Induction ==
    ASSUME NEW n \in Nat, NEW S, 0 \in S, \A k \in 1..n : k - 1 \in S => k \in S
    PROVE  \A k \in 0..n : k \in S
<1> DEFINE T == {k \in 0..n : k \notin S}
<1> SUFFICES ASSUME T # {} PROVE FALSE
  OBVIOUS
<1>1. T \subseteq Nat
  OBVIOUS
<1>2. PICK k \in T : \A j \in T : ~(<<j, k>> \in OpToRel(<, Nat))
  BY <1>1, NatLessThanWellFounded, WFMin
<1>3. k \in 1..n /\ k - 1 \in 0..n /\ k - 1 \notin T
  <2>1. k \in 1..n /\ k - 1 \in 0..n /\ k - 1 < k
    OBVIOUS
  <2> QED
    BY <1>1, <1>2, <2>1 DEF OpToRel
<1> QED
  BY <1>3

-----------------------------------------------------------------------------
(* What a merge makes of two arrays.                                       *)

(* The rule by which me_merge() takes the k-th number, a of l  *)
(* being taken; x and y are the lengths.                                   *)
Takes(l, r, x, y, a, k) == a + 1 <= x /\ (k - a > y \/ l[a + 1] < r[k - a])
TakesFromLeft(l, r, x, y, f, n) ==
    /\ f \in [0..n -> Int]
    /\ f[0] = 0
    /\ \A k \in 1..n : f[k] = IF Takes(l, r, x, y, f[k - 1], k) THEN f[k - 1] + 1 ELSE f[k - 1]

(* FromLeft follows it.                                                    *)
LEMMA FromLeftDefined ==
    ASSUME NEW l, NEW r, NEW x \in Nat, NEW y \in Nat, x = Len(l), y = Len(r)
    PROVE  TakesFromLeft(l, r, x, y, FromLeft(l, r), x + y)
<1> DEFINE n == x + y
           Good == {k \in 0..n : \E f : TakesFromLeft(l, r, x, y, f, k)}
<1>0. n \in Nat
  OBVIOUS
<1>1. 0 \in Good
  <2>1. TakesFromLeft(l, r, x, y, [k \in 0..0 |-> 0], 0)
    BY DEF TakesFromLeft
  <2> QED
    BY <1>0, <2>1
<1>2. ASSUME NEW k \in 1..n, k - 1 \in Good PROVE k \in Good
  <2>1. PICK f : TakesFromLeft(l, r, x, y, f, k - 1)
    BY <1>2
  <2> DEFINE e == IF Takes(l, r, x, y, f[k - 1], k) THEN f[k - 1] + 1 ELSE f[k - 1]
             g == [j \in 0..k |-> IF j = k THEN e ELSE f[j]]
  <2>2. f \in [0..(k - 1) -> Int] /\ k \in Int /\ k >= 1
    BY <1>0, <2>1 DEF TakesFromLeft
  <2>3. e \in Int
    BY <2>2
  <2>4. g \in [0..k -> Int] /\ g[0] = 0 /\ g[k] = e /\ g[k - 1] = f[k - 1]
    BY <2>1, <2>2, <2>3 DEF TakesFromLeft
  <2>5. ASSUME NEW j \in 1..(k - 1)
        PROVE  g[j] = f[j] /\ g[j - 1] = f[j - 1]
    BY <2>2
  <2>6. \A j \in 1..k : j = k \/ j \in 1..(k - 1)
    BY <2>2
  <2> HIDE DEF g
  <2>7. TakesFromLeft(l, r, x, y, g, k)
    BY <2>1, <2>4, <2>5, <2>6 DEF TakesFromLeft
  <2> QED
    BY <2>7
<1>3. PICK f : TakesFromLeft(l, r, x, y, f, n)
  <2>1. n \in Good
    <3> HIDE DEF Good, n
    <3>1. \A k \in 0..n : k \in Good
      BY <1>0, <1>1, <1>2, Induction
    <3> QED
      BY <1>0, <3>1
  <2> QED
    BY <2>1
<1> HIDE DEF n
<1> DEFINE rule(g, k) == IF k = 0 THEN 0
                         ELSE LET i == g[k - 1] + 1
                                  j == k - g[k - 1]
                              IN  IF i <= Len(l) /\ (j > Len(r) \/ l[i] < r[j]) THEN i ELSE g[k - 1]
<1>4. ASSUME NEW g, NEW k \in 1..n
      PROVE  rule(g, k) = IF Takes(l, r, x, y, g[k - 1], k) THEN g[k - 1] + 1 ELSE g[k - 1]
  <2>1. k # 0
    BY <1>0
  <2> QED
    BY <2>1 DEF Takes
<1>5. rule(f, 0) = 0 /\ \A g : rule(g, 0) = 0
  OBVIOUS
<1>6. /\ 0 \in 0..n /\ n \in 0..n /\ \A k \in 0..n : k = 0 \/ k \in 1..n
      /\ \A k \in 1..n : k - 1 \in 0..n /\ k \in 0..n
  BY <1>0
<1>7. FromLeft(l, r) = CHOOSE g : g = [k \in 0..n |-> rule(g, k)]
  BY DEF FromLeft, n
<1> HIDE DEF rule
<1>8. f = [k \in 0..n |-> rule(f, k)]
  <2>1. f \in [0..n -> Int] /\ f[0] = 0
    BY <1>3 DEF TakesFromLeft
  <2>2. \A k \in 1..n : f[k] = rule(f, k)
    BY <1>3, <1>4, <1>6, <2>1 DEF TakesFromLeft
  <2>3. \A k \in 0..n : f[k] = rule(f, k)
    BY <1>5, <1>6, <2>1, <2>2
  <2> QED
    BY <2>1, <2>3
<1>9. ASSUME NEW g, g = [k \in 0..n |-> rule(g, k)] PROVE TakesFromLeft(l, r, x, y, g, n)
  <2>1. g[0] = 0 /\ \A k \in 1..n : g[k] = rule(g, k)
    BY <1>5, <1>6, <1>9
  <2> DEFINE Typed == {k \in 0..n : g[k] \in Int}
  <2>2. 0 \in Typed
    BY <1>6, <2>1
  <2>3. ASSUME NEW k \in 1..n, k - 1 \in Typed PROVE k \in Typed
    <3>1. g[k - 1] \in Int
      BY <2>3
    <3>2. g[k] \in Int
      BY <1>4, <2>1, <3>1
    <3> QED
      BY <1>6, <3>2
  <2>4. \A k \in 0..n : k \in Typed
    <3> HIDE DEF Typed
    <3> QED
      BY <1>0, <2>2, <2>3, Induction
  <2>5. g \in [0..n -> Int]
    BY <1>9, <2>4
  <2> QED
    BY <1>4, <1>6, <2>1, <2>5 DEF TakesFromLeft
<1> QED
  <2>1. FromLeft(l, r) = [k \in 0..n |-> rule(FromLeft(l, r), k)]
    BY <1>7, <1>8
  <2>2. TakesFromLeft(l, r, x, y, FromLeft(l, r), n)
    BY <1>9, <2>1
  <2> QED
    BY <2>2 DEF n

(* What was taken came from the two, and they never go back.               *)
Taken(f, x, y, n) ==
    /\ \A k \in 0..n : f[k] \in 0..x /\ k - f[k] \in 0..y
    /\ \A k \in 1..n : f[k - 1] \in 0..x /\ k - f[k - 1] \in 1..(y + 1)
    /\ \A k \in 1..n : f[k] = f[k - 1] \/ f[k] = f[k - 1] + 1
    /\ \A a, b \in 0..n : a <= b => f[a] <= f[b] /\ a - f[a] <= b - f[b]

(* That follows from the rule.                                             *)
LEMMA TakenFacts ==
    ASSUME NEW l, NEW r, NEW x \in Nat, NEW y \in Nat, NEW n \in Nat, n = x + y,
           NEW f, TakesFromLeft(l, r, x, y, f, n)
    PROVE  Taken(f, x, y, n)
<1>1. /\ f[0] = 0 /\ \A k \in 0..n : f[k] \in Int
      /\ \A k \in 1..n : f[k] = IF Takes(l, r, x, y, f[k - 1], k) THEN f[k - 1] + 1 ELSE f[k - 1]
  BY DEF TakesFromLeft
<1>0. \A k \in 1..n : k - 1 \in 0..n /\ k \in 0..n
  OBVIOUS
<1>2. \A k \in 0..n : f[k] \in 0..x /\ k - f[k] \in 0..y
  <2> DEFINE Good == {k \in 0..n : f[k] \in 0..x /\ k - f[k] \in 0..y}
  <2>1. 0 \in Good
    BY <1>1
  <2>2. ASSUME NEW k \in 1..n, k - 1 \in Good PROVE k \in Good
    <3> DEFINE a == f[k - 1]
    <3>1. a \in Int /\ a >= 0 /\ a <= x /\ k - 1 - a >= 0 /\ k - 1 - a <= y
      BY <2>2
    <3>2. f[k] = IF Takes(l, r, x, y, a, k) THEN a + 1 ELSE a
      BY <1>1
    <3> HIDE DEF a
    <3>3. CASE Takes(l, r, x, y, a, k)
      <4>1. a + 1 <= x /\ f[k] = a + 1
        BY <3>2, <3>3 DEF Takes
      <4>2. f[k] \in 0..x /\ k - f[k] \in 0..y
        BY <3>1, <4>1
      <4> QED
        BY <1>0, <4>2
    <3>4. CASE ~Takes(l, r, x, y, a, k)
      <4>1. f[k] = a /\ (a + 1 <= x => ~(k - a > y))
        BY <3>2, <3>4 DEF Takes
      <4>3. k - a <= y
        BY <3>1, <4>1
      <4>2. f[k] \in 0..x /\ k - f[k] \in 0..y
        BY <3>1, <4>1, <4>3
      <4> QED
        BY <1>0, <4>2
    <3> QED
      BY <3>3, <3>4
  <2> HIDE DEF Good
  <2>3. \A k \in 0..n : k \in Good
    BY <2>1, <2>2, Induction
  <2> QED
    BY <2>3 DEF Good
<1>3. \A k \in 1..n : f[k] = f[k - 1] \/ f[k] = f[k - 1] + 1
  BY <1>1
<1>4. ASSUME NEW a \in 0..n, NEW b \in 0..n, a <= b PROVE f[a] <= f[b] /\ a - f[a] <= b - f[b]
  <2> DEFINE Good == {k \in 0..n : a <= k => f[a] <= f[k] /\ a - f[a] <= k - f[k]}
  <2>1. 0 \in Good
    <3>1. a <= 0 => a = 0
      OBVIOUS
    <3> QED
      BY <1>1, <3>1
  <2>2. ASSUME NEW k \in 1..n, k - 1 \in Good PROVE k \in Good
    <3>1. f[a] \in Int /\ f[k] \in Int /\ f[k - 1] \in Int
      BY <1>0, <1>1
    <3>2. CASE a <= k - 1
      <4> DEFINE u == f[a]
                 v == f[k - 1]
                 w == f[k]
      <4>1. u <= v /\ a - u <= k - 1 - v
        BY <2>2, <3>2
      <4>2. w = v \/ w = v + 1
        BY <1>3
      <4>3. u \in Int /\ v \in Int /\ w \in Int
        BY <3>1
      <4> HIDE DEF u, v, w
      <4>4. u <= w /\ a - u <= k - w
        BY <4>1, <4>2, <4>3
      <4> QED
        BY <1>0, <4>4 DEF u, w
    <3>3. CASE ~(a <= k - 1)
      <4>1. a <= k => a = k
        BY <3>3
      <4> QED
        BY <1>0, <3>1, <4>1
    <3> QED
      BY <3>2, <3>3
  <2> HIDE DEF Good
  <2>3. \A k \in 0..n : k \in Good
    BY <2>1, <2>2, Induction
  <2> QED
    BY <1>4, <2>3 DEF Good
<1>5. ASSUME NEW k \in 1..n PROVE f[k - 1] \in 0..x /\ k - f[k - 1] \in 1..(y + 1)
  <2> DEFINE a == f[k - 1]
  <2>1. a \in 0..x /\ k - 1 - a \in 0..y
    BY <1>0, <1>2
  <2> HIDE DEF a
  <2>2. a \in 0..x /\ k - a \in 1..(y + 1)
    BY <2>1
  <2> QED
    BY <2>2 DEF a
<1> QED
  BY <1>2, <1>3, <1>4, <1>5 DEF Taken

(* p tells where in l or r each number of m is from.                       *)
Merges(m, l, r, x, n) ==
    \E p \in [1..n -> 1..n] :
        /\ \A k \in 1..n : m[k] = IF p[k] <= x THEN l[p[k]] ELSE r[p[k] - x]
        /\ \A j, k \in 1..n : p[j] = p[k] => j = k

(* A merge rearranges what it merges.                                      *)
LEMMA MergedRearranges ==
    ASSUME NEW l, NEW r, NEW x \in Nat, NEW y \in Nat, x = Len(l), y = Len(r),
           l \in [1..x -> Int], r \in [1..y -> Int], NEW n \in Nat, n = x + y
    PROVE  Merged(l, r) \in [1..n -> Int] /\ Merges(Merged(l, r), l, r, x, n)
<1> DEFINE f == FromLeft(l, r)
           m == Merged(l, r)
<1>1. TakesFromLeft(l, r, x, y, f, n)
  BY FromLeftDefined
<1>4. m = [k \in 1..n |-> IF f[k] = f[k - 1] THEN r[k - f[k]] ELSE l[f[k]]]
  BY DEF Merged
<1> HIDE DEF f, m
<1>2. /\ \A k \in 0..n : f[k] \in 0..x /\ k - f[k] \in 0..y
      /\ \A k \in 1..n : f[k - 1] \in 0..x /\ k - f[k - 1] \in 1..(y + 1)
      /\ \A k \in 1..n : f[k] = f[k - 1] \/ f[k] = f[k - 1] + 1
      /\ \A a, b \in 0..n : a <= b => f[a] <= f[b] /\ a - f[a] <= b - f[b]
  <2>1. Taken(f, x, y, n)
    BY <1>1, TakenFacts
  <2> QED
    BY <2>1 DEF Taken
<1>3. \A k \in 1..n : k - 1 \in 0..n /\ k \in 0..n
  OBVIOUS
<1> DEFINE p == [k \in 1..n |-> IF f[k] = f[k - 1] THEN x + (k - f[k]) ELSE f[k]]
<1>5. ASSUME NEW k \in 1..n, f[k] = f[k - 1]
      PROVE  /\ p[k] \in 1..n /\ p[k] > x /\ p[k] = x + (k - f[k]) /\ p[k] - x = k - f[k]
             /\ m[k] = r[k - f[k]] /\ m[k] \in Int
  <2> DEFINE a == f[k]
  <2>1. a \in 0..x /\ k - a \in 0..y /\ k - a \in 1..(y + 1)
    BY <1>2, <1>3, <1>5
  <2>2. p[k] = x + (k - a) /\ m[k] = r[k - a]
    BY <1>4, <1>5
  <2> HIDE DEF a, p
  <2>3. k - a \in 1..y /\ x + (k - a) \in 1..n /\ x + (k - a) > x /\ x + (k - a) - x = k - a
    BY <2>1
  <2>4. r[k - a] \in Int
    BY <2>3
  <2> QED
    BY <2>2, <2>3, <2>4 DEF a
<1>6. ASSUME NEW k \in 1..n, f[k] # f[k - 1]
      PROVE  /\ f[k] = f[k - 1] + 1 /\ p[k] = f[k] /\ p[k] \in 1..n /\ p[k] <= x
             /\ m[k] = l[f[k]] /\ m[k] \in Int
  <2> DEFINE a == f[k]
             b == f[k - 1]
  <2>1. a = b + 1 /\ a \in 0..x /\ b \in 0..x
    BY <1>2, <1>3, <1>6
  <2>2. p[k] = a /\ m[k] = l[a]
    BY <1>4, <1>6
  <2> HIDE DEF a, b, p
  <2>3. a \in 1..x /\ a \in 1..n /\ a <= x
    BY <2>1
  <2>4. l[a] \in Int
    BY <2>3
  <2> QED
    BY <2>1, <2>2, <2>3, <2>4 DEF a, b
<1>7. p \in [1..n -> 1..n]
  <2>1. \A k \in 1..n : p[k] \in 1..n
    BY <1>5, <1>6
  <2>2. p = [k \in 1..n |-> p[k]]
    OBVIOUS
  <2> HIDE DEF p
  <2> QED
    BY <2>1, <2>2
<1> HIDE DEF p
<1>8. ASSUME NEW k \in 1..n PROVE m[k] = IF p[k] <= x THEN l[p[k]] ELSE r[p[k] - x]
  <2>1. CASE f[k] = f[k - 1]
    <3>1. ~(p[k] <= x)
      BY <1>5, <1>7, <2>1
    <3> QED
      BY <1>5, <2>1, <3>1
  <2>2. CASE f[k] # f[k - 1]
    BY <1>6, <2>2
  <2> QED
    BY <2>1, <2>2
<1>9. m \in [1..n -> Int]
  <2>1. \A k \in 1..n : m[k] \in Int
    BY <1>5, <1>6
  <2>2. m = [k \in 1..n |-> m[k]]
    BY <1>4
  <2> QED
    BY <2>1, <2>2
<1>10. ASSUME NEW j \in 1..n, NEW k \in 1..n, j < k PROVE p[j] # p[k]
  <2> DEFINE u == f[j]
             v == f[k - 1]
             w == f[k]
  <2>1. /\ u \in Int /\ v \in Int /\ w \in Int
        /\ u <= v /\ j - u <= k - 1 - v
    <3>1. j <= k - 1 /\ j \in 0..n /\ k - 1 \in 0..n /\ k \in 0..n
      BY <1>10
    <3>2. u \in 0..x /\ v \in 0..x /\ w \in 0..x
      BY <1>2, <3>1
    <3>3. u <= v /\ j - u <= (k - 1) - v
      BY <1>2, <3>1
    <3> QED
      BY <3>2, <3>3
  <2>2. IF w = v THEN p[k] = x + (k - w) /\ p[k] > x ELSE p[k] = w /\ w = v + 1 /\ p[k] <= x
    BY <1>5, <1>6
  <2>3. IF u = f[j - 1] THEN p[j] = x + (j - u) /\ p[j] > x ELSE p[j] = u /\ p[j] <= x
    BY <1>5, <1>6
  <2> HIDE DEF u, v, w
  <2>4. p[j] \in Int /\ p[k] \in Int
    <3>1. p[j] \in 1..n /\ p[k] \in 1..n
      BY <1>7
    <3> QED
      BY <3>1
  <2> QED
    BY <2>1, <2>2, <2>3, <2>4
<1>11. \A j, k \in 1..n : p[j] = p[k] => j = k
  <2>1. \A j, k \in 1..n : j < k \/ k < j \/ j = k
    OBVIOUS
  <2> QED
    BY <1>10, <2>1
<1> QED
  BY <1>7, <1>8, <1>9, <1>11 DEF m, Merges

(* And of two sorted ones it makes a sorted one: what is taken is not      *)
(* greater than what is left of either.                                    *)
LEMMA MergedAscends ==
    ASSUME NEW l, NEW r, NEW x \in Nat, NEW y \in Nat, x = Len(l), y = Len(r),
           l \in [1..x -> Int], r \in [1..y -> Int], NEW n \in Nat, n = x + y,
           \A i, j \in 1..x : i < j => l[i] <= l[j],
           \A i, j \in 1..y : i < j => r[i] <= r[j]
    PROVE  \A i, j \in 1..n : i < j => Merged(l, r)[i] <= Merged(l, r)[j]
<1> DEFINE f == FromLeft(l, r)
           m == Merged(l, r)
<1>1. TakesFromLeft(l, r, x, y, f, n)
  BY FromLeftDefined
<1>4. m = [k \in 1..n |-> IF f[k] = f[k - 1] THEN r[k - f[k]] ELSE l[f[k]]]
  BY DEF Merged
<1> HIDE DEF f, m
<1>2. /\ \A k \in 0..n : f[k] \in 0..x /\ k - f[k] \in 0..y
      /\ \A k \in 1..n : f[k - 1] \in 0..x /\ k - f[k - 1] \in 1..(y + 1)
      /\ \A k \in 1..n : f[k] = f[k - 1] \/ f[k] = f[k - 1] + 1
      /\ \A a, b \in 0..n : a <= b => f[a] <= f[b] /\ a - f[a] <= b - f[b]
  <2>1. Taken(f, x, y, n)
    BY <1>1, TakenFacts
  <2> QED
    BY <2>1 DEF Taken
<1>3. \A k \in 1..n : k - 1 \in 0..n /\ k \in 0..n
  OBVIOUS
<1>l. \A i, j \in 1..x : l[i] \in Int /\ (i <= j => l[i] <= l[j])
  <2>1. \A i, j \in 1..x : i <= j => i < j \/ i = j
    OBVIOUS
  <2>2. \A i \in 1..x : l[i] \in Int /\ l[i] <= l[i]
    OBVIOUS
  <2> QED
    BY <2>1, <2>2
<1>r. \A i, j \in 1..y : r[i] \in Int /\ (i <= j => r[i] <= r[j])
  <2>1. \A i, j \in 1..y : i <= j => i < j \/ i = j
    OBVIOUS
  <2>2. \A i \in 1..y : r[i] \in Int /\ r[i] <= r[i]
    OBVIOUS
  <2> QED
    BY <2>1, <2>2
<1> DEFINE Lowest(e, k) == /\ \A j \in 1..x : j > f[k] => e <= l[j]
                          /\ \A j \in 1..y : j > k - f[k] => e <= r[j]
(* What was taken last.                                                    *)
<1>5. ASSUME NEW k \in 1..n PROVE Lowest(m[k], k)
  <2> DEFINE a == f[k - 1]
  <2>1. a \in 0..x /\ k - a \in 1..(y + 1)
    BY <1>2
  <2>2. f[k] = IF Takes(l, r, x, y, a, k) THEN a + 1 ELSE a
    BY <1>1 DEF TakesFromLeft
  <2>3. m[k] = IF f[k] = a THEN r[k - f[k]] ELSE l[f[k]]
    BY <1>4
  <2>4. k - f[k] \in 0..y
    BY <1>2, <1>3
  <2> HIDE DEF a
  <2>5. CASE Takes(l, r, x, y, a, k)
    <3>1. a + 1 \in 1..x /\ f[k] = a + 1 /\ f[k] # a
      BY <2>1, <2>2, <2>5 DEF Takes
    <3>2. m[k] = l[a + 1]
      BY <2>3, <3>1
    <3>3. \A j \in 1..x : j > a + 1 => l[a + 1] <= l[j]
      <4>1. \A j \in 1..x : j > a + 1 => a + 1 <= j
        BY <2>1
      <4> QED
        BY <1>l, <3>1, <4>1
    <3>4. ASSUME NEW j \in 1..y, j > k - (a + 1) PROVE l[a + 1] <= r[j]
      <4>1. k - a \in 1..y /\ k - a <= j /\ ~(k - a > y)
        BY <2>1, <3>4
      <4>2. l[a + 1] < r[k - a]
        BY <2>5, <4>1 DEF Takes
      <4>3. r[k - a] \in Int /\ r[j] \in Int /\ l[a + 1] \in Int /\ r[k - a] <= r[j]
        BY <1>l, <1>r, <3>1, <4>1
      <4> QED
        BY <4>2, <4>3
    <3> QED
      BY <3>1, <3>2, <3>3, <3>4
  <2>6. CASE ~Takes(l, r, x, y, a, k)
    <3>1. f[k] = a /\ m[k] = r[k - a]
      BY <2>2, <2>3, <2>6
    <3>2. k - a \in 1..y
      BY <2>1, <2>4, <3>1
    <3>3. \A j \in 1..y : j > k - a => r[k - a] <= r[j]
      <4>1. \A j \in 1..y : j > k - a => k - a <= j
        BY <2>1
      <4> QED
        BY <1>r, <3>2, <4>1
    <3>4. ASSUME NEW j \in 1..x, j > a PROVE r[k - a] <= l[j]
      <4>1. a + 1 \in 1..x /\ a + 1 <= j /\ ~(k - a > y)
        BY <2>1, <3>2, <3>4
      <4>2. l[a + 1] \in Int /\ l[j] \in Int /\ r[k - a] \in Int /\ l[a + 1] <= l[j]
        BY <1>l, <1>r, <3>2, <4>1
      <4>3. ~(l[a + 1] < r[k - a])
        BY <2>6, <4>1 DEF Takes
      <4> QED
        BY <4>2, <4>3
    <3> QED
      BY <3>1, <3>3, <3>4
  <2> QED
    BY <2>5, <2>6
(* And so what was taken before.                                           *)
<1>6. ASSUME NEW i \in 1..n, NEW k \in 1..n, i <= k PROVE Lowest(m[i], k)
  <2> DEFINE u == f[i]
             w == f[k]
  <2>1. u \in Int /\ w \in Int /\ u <= w /\ i - u <= k - w
    BY <1>2, <1>3, <1>6
  <2>2. Lowest(m[i], i)
    BY <1>5
  <2>3. /\ \A j \in 1..x : j > u => m[i] <= l[j]
        /\ \A j \in 1..y : j > i - u => m[i] <= r[j]
    BY <2>2
  <2> HIDE DEF u, w
  <2>4. \A j \in 1..x : j > w => j > u
    BY <2>1
  <2>5. \A j \in 1..y : j > k - w => j > i - u
    BY <2>1
  <2>6. /\ \A j \in 1..x : j > w => m[i] <= l[j]
        /\ \A j \in 1..y : j > k - w => m[i] <= r[j]
    BY <2>3, <2>4, <2>5
  <2> QED
    BY <2>6 DEF w
<1>7. ASSUME NEW i \in 1..n, NEW k \in 1..n, i < k PROVE m[i] <= m[k]
  <2> DEFINE v == f[k - 1]
             w == f[k]
  <2>1. k - 1 \in 1..n /\ i <= k - 1
    BY <1>7
  <2>2. Lowest(m[i], k - 1)
    BY <1>6, <2>1
  <2>3. /\ \A j \in 1..x : j > v => m[i] <= l[j]
        /\ \A j \in 1..y : j > k - 1 - v => m[i] <= r[j]
    BY <2>2
  <2>4. /\ w \in 0..x /\ v \in 0..x /\ k - w \in 0..y /\ k - v \in 1..(y + 1)
        /\ w = v \/ w = v + 1
    BY <1>2, <1>3
  <2>5. m[k] = IF w = v THEN r[k - w] ELSE l[w]
    BY <1>4
  <2> HIDE DEF v, w
  <2>6. CASE w = v
    <3>1. k - w \in 1..y /\ k - w > k - 1 - v
      BY <2>4, <2>6
    <3> QED
      BY <2>3, <2>5, <2>6, <3>1
  <2>7. CASE w # v
    <3>1. w \in 1..x /\ w > v
      BY <2>4, <2>7
    <3> QED
      BY <2>3, <2>5, <2>7, <3>1
  <2> QED
    BY <2>6, <2>7
<1> QED
  BY <1>7 DEF m

(* s has the numbers of t in another order: p tells from where each is.    *)
Rearranges(s, t) ==
    /\ DOMAIN s = DOMAIN t
    /\ \E p \in [DOMAIN s -> DOMAIN t] :
          /\ \A k \in DOMAIN s : s[k] = t[p[k]]
          /\ \A j, k \in DOMAIN s : p[j] = p[k] => j = k

(* To rearrange is to have such a p.                                       *)
LEMMA RearrangesBy ==
    ASSUME NEW s, NEW t, NEW d, DOMAIN s = d, DOMAIN t = d, NEW p \in [d -> d],
           \A k \in d : s[k] = t[p[k]], \A j, k \in d : p[j] = p[k] => j = k
    PROVE  Rearranges(s, t)
  BY DEF Rearranges

(* A sequence rearranges itself.                                           *)
LEMMA RearrangesSame == \A s : Rearranges(s, s)
<1> SUFFICES ASSUME NEW s PROVE Rearranges(s, s)
  OBVIOUS
<1> DEFINE p == [k \in DOMAIN s |-> k]
<1>1. p \in [DOMAIN s -> DOMAIN s] /\ \A k \in DOMAIN s : p[k] = k
  OBVIOUS
<1> QED
  BY <1>1 DEF Rearranges

(* And what it rearranges, when that rearranges a third one.               *)
LEMMA RearrangesAgain ==
    ASSUME NEW s, NEW t, NEW u, Rearranges(s, t), Rearranges(t, u)
    PROVE  Rearranges(s, u)
<1> DEFINE d == DOMAIN s
<1>1. DOMAIN t = d /\ DOMAIN u = d
  BY DEF Rearranges
<1>2. PICK p \in [d -> d] : /\ \A k \in d : s[k] = t[p[k]]
                            /\ \A j, k \in d : p[j] = p[k] => j = k
  BY <1>1 DEF Rearranges
<1>3. PICK q \in [d -> d] : /\ \A k \in d : t[k] = u[q[k]]
                            /\ \A j, k \in d : q[j] = q[k] => j = k
  BY <1>1 DEF Rearranges
<1> DEFINE pq == [k \in d |-> q[p[k]]]
<1>4. pq \in [d -> d] /\ \A k \in d : s[k] = u[pq[k]]
  BY <1>2, <1>3
<1>5. \A j, k \in d : pq[j] = pq[k] => j = k
  BY <1>2, <1>3
<1> HIDE DEF pq
<1> QED
  BY <1>1, <1>4, <1>5 DEF Rearranges

(* A block of an array, the numbers after the i-th up to the j-th, is      *)
(* sorted.                                                                 *)
Block(a, i, j) == \A p, q \in DOMAIN a : i < p /\ p < q /\ q <= j => a[p] <= a[q]

(* Two blocks of an array that are sorted are merged into one; the rest    *)
(* stays where it is.                                                      *)
LEMMA MergeAtFacts ==
    ASSUME NEW a, NEW len \in Nat, a \in Seq(Int), Len(a) = len,
           NEW cs \in Nat, cs >= 1, NEW ls \in Nat, ls < len - 1,
           Block(a, ls, ls + cs), Block(a, ls + cs, ls + 2 * cs),
           NEW b, b = MergeAt(a, cs, ls)
    PROVE  /\ b \in Seq(Int) /\ Len(b) = len
           /\ \A k \in 1..len : k <= ls \/ k > ls + 2 * cs => b[k] = a[k]
           /\ Block(b, ls, ls + 2 * cs)
           /\ Rearranges(b, a)
<1>1. PICK mid \in Int : mid = IF ls + cs - 1 < len - 1 THEN ls + cs - 1 ELSE len - 1
  OBVIOUS
<1>2. PICK rhs \in Int : rhs = IF ls + 2 * cs - 1 < len - 1 THEN ls + 2 * cs - 1 ELSE len - 1
  OBVIOUS
<1>3. ls <= mid /\ mid <= rhs /\ rhs <= len - 1 /\ mid <= ls + cs - 1 /\ rhs <= ls + 2 * cs - 1
  BY <1>1, <1>2
<1>4. \A k \in 1..len : (k > rhs + 1 => k > ls + 2 * cs) /\ (k <= ls + 2 * cs => k <= rhs + 1)
  BY <1>2
<1>5. mid < rhs => mid = ls + cs - 1
  BY <1>1, <1>2
<1> DEFINE pre == SubSeq(a, 1, ls)
           l == SubSeq(a, ls + 1, mid + 1)
           r == SubSeq(a, mid + 2, rhs + 1)
           post == SubSeq(a, rhs + 2, len)
           m == Merged(l, r)
<1>6. b = (pre \o m) \o post
  BY <1>1, <1>2 DEF MergeAt, me_merge, Least
<1>7. PICK x \in Nat : x = mid + 1 - ls
  BY <1>3
<1>8. PICK y \in Nat : y = rhs - mid
  BY <1>3
<1>9. PICK n \in Nat : n = x + y /\ n = rhs + 1 - ls
  BY <1>3, <1>7, <1>8
<1>10. a \in [1..len -> Int]
  OBVIOUS
<1>11. pre \in Seq(Int) /\ Len(pre) = ls /\ \A k \in 1..ls : pre[k] = a[k]
  <2>1. \A k \in 1..ls : a[k] \in Int
    BY <1>10
  <2>2. /\ SubSeq(a, 1, ls) \in Seq(Int)
        /\ Len(SubSeq(a, 1, ls)) = IF 1 <= ls THEN ls - 1 + 1 ELSE 0
        /\ \A k \in 1..(ls - 1 + 1) : SubSeq(a, 1, ls)[k] = a[1 + k - 1]
    BY <2>1, SubSeqProperties
  <2> HIDE DEF pre
  <2>3. ls - 1 + 1 = ls /\ \A k \in 1..ls : 1 + k - 1 = k
    OBVIOUS
  <2> QED
    BY <2>2, <2>3 DEF pre
<1>12. l \in Seq(Int) /\ Len(l) = x /\ \A k \in 1..x : l[k] = a[ls + k]
  <2>1. \A k \in (ls + 1)..(mid + 1) : a[k] \in Int
    BY <1>3, <1>10
  <2>2. /\ l \in Seq(Int) /\ Len(l) = IF ls + 1 <= mid + 1 THEN (mid + 1) - (ls + 1) + 1 ELSE 0
        /\ \A k \in 1..((mid + 1) - (ls + 1) + 1) : l[k] = a[(ls + 1) + k - 1]
    BY <2>1, SubSeqProperties
  <2> HIDE DEF l
  <2>3. /\ (mid + 1) - (ls + 1) + 1 = x /\ ls + 1 <= mid + 1
        /\ \A k \in 1..x : (ls + 1) + k - 1 = ls + k
    BY <1>3, <1>7
  <2> QED
    BY <2>2, <2>3
<1>13. r \in Seq(Int) /\ Len(r) = y /\ \A k \in 1..y : r[k] = a[mid + 1 + k]
  <2>1. \A k \in (mid + 2)..(rhs + 1) : a[k] \in Int
    BY <1>3, <1>10
  <2>2. /\ r \in Seq(Int) /\ Len(r) = IF mid + 2 <= rhs + 1 THEN (rhs + 1) - (mid + 2) + 1 ELSE 0
        /\ \A k \in 1..((rhs + 1) - (mid + 2) + 1) : r[k] = a[(mid + 2) + k - 1]
    BY <2>1, SubSeqProperties
  <2> HIDE DEF r
  <2>3. /\ (rhs + 1) - (mid + 2) + 1 = y /\ (~(mid + 2 <= rhs + 1) => y = 0)
        /\ \A k \in 1..y : (mid + 2) + k - 1 = mid + 1 + k
    BY <1>3, <1>8
  <2> QED
    BY <2>2, <2>3
<1>14. /\ post \in Seq(Int) /\ Len(post) = len - (rhs + 1)
       /\ \A k \in 1..(len - (rhs + 1)) : post[k] = a[rhs + 1 + k]
  <2>0. rhs + 2 \in Int /\ len \in Int
    OBVIOUS
  <2>1. \A k \in (rhs + 2)..len : a[k] \in Int
    BY <1>3, <1>10
  <2>2. /\ post \in Seq(Int) /\ Len(post) = IF rhs + 2 <= len THEN len - (rhs + 2) + 1 ELSE 0
        /\ \A k \in 1..(len - (rhs + 2) + 1) : post[k] = a[(rhs + 2) + k - 1]
    BY ONLY <2>0, <2>1, SubSeqProperties
  <2> HIDE DEF post
  <2>3. /\ len - (rhs + 2) + 1 = len - (rhs + 1) /\ (~(rhs + 2 <= len) => len - (rhs + 1) = 0)
        /\ \A k \in 1..(len - (rhs + 1)) : (rhs + 2) + k - 1 = rhs + 1 + k
    BY <1>3
  <2> QED
    BY <2>2, <2>3
<1> HIDE DEF pre, l, r, post, m
<1>15. l \in [1..x -> Int] /\ r \in [1..y -> Int]
  BY <1>12, <1>13
<1>m. x = Len(l) /\ y = Len(r) /\ n = x + y
  BY <1>9, <1>12, <1>13
<1>16. m \in [1..n -> Int]
  BY <1>m, <1>15, MergedRearranges DEF m
<1>17. PICK pm \in [1..n -> 1..n] :
         /\ \A k \in 1..n : m[k] = IF pm[k] <= x THEN l[pm[k]] ELSE r[pm[k] - x]
         /\ \A j, k \in 1..n : pm[j] = pm[k] => j = k
  <2>1. Merges(m, l, r, x, n)
    BY <1>m, <1>15, MergedRearranges DEF m
  <2> QED
    BY <2>1 DEF Merges
<1>18. \A k \in 1..n : m[k] = a[ls + pm[k]]
  <2> TAKE k \in 1..n
  <2>1. PICK j \in 1..n : j = pm[k]
    BY <1>17
  <2>2. CASE j <= x
    <3>1. j \in 1..x
      BY <2>2
    <3>2. m[k] = l[j]
      BY <1>17, <2>1, <2>2
    <3> QED
      BY <1>12, <2>1, <3>1, <3>2
  <2>3. CASE ~(j <= x)
    <3>1. j - x \in 1..y /\ mid + 1 + (j - x) = ls + j
      BY <1>7, <1>9, <2>3
    <3>2. m[k] = r[j - x]
      BY <1>17, <2>1, <2>3
    <3> QED
      BY <1>13, <2>1, <3>1, <3>2
  <2> QED
    BY <2>2, <2>3
<1>19. m \in Seq(Int) /\ Len(m) = n
  <2>1. m \in Seq(Int)
    BY <1>16
  <2>2. DOMAIN m = 1..n /\ DOMAIN m = 1..Len(m) /\ Len(m) \in Nat /\ n \in Nat
    BY <1>16, <2>1
  <2> QED
    BY <2>1, <2>2
<1>20. /\ b \in Seq(Int) /\ Len(b) = len
       /\ \A k \in 1..len : b[k] = IF k <= ls THEN a[k]
                                   ELSE IF k <= ls + n THEN m[k - ls] ELSE a[k]
  <2> DEFINE c == pre \o m
  <2>1. /\ c \in Seq(Int) /\ Len(c) = ls + n
        /\ \A k \in 1..(ls + n) : c[k] = IF k <= ls THEN pre[k] ELSE m[k - ls]
    <3>1. /\ c \in Seq(Int) /\ Len(c) = Len(pre) + Len(m)
          /\ \A k \in 1..(Len(pre) + Len(m)) :
                c[k] = IF k <= Len(pre) THEN pre[k] ELSE m[k - Len(pre)]
      BY <1>11, <1>19, ConcatProperties
    <3> HIDE DEF c
    <3> QED
      BY <1>11, <1>19, <3>1
  <2>2. b = c \o post
    BY <1>6
  <2> HIDE DEF c
  <2>3. /\ b \in Seq(Int) /\ Len(b) = Len(c) + Len(post)
        /\ \A k \in 1..(Len(c) + Len(post)) : b[k] = IF k <= Len(c) THEN c[k] ELSE post[k - Len(c)]
    <3>1. c \in Seq(Int) /\ post \in Seq(Int)
      BY <1>14, <2>1
    <3> QED
      BY <2>2, <3>1, ConcatProperties
  <2>4. Len(c) = ls + n /\ Len(c) + Len(post) = len /\ len - (rhs + 1) = len - (ls + n)
    BY <1>9, <1>14, <2>1
  <2>5. /\ b \in Seq(Int) /\ Len(b) = len
        /\ \A k \in 1..len : b[k] = IF k <= ls + n THEN c[k] ELSE post[k - (ls + n)]
    BY <2>3, <2>4
  <2>6. ASSUME NEW k \in 1..len
        PROVE  b[k] = IF k <= ls THEN a[k] ELSE IF k <= ls + n THEN m[k - ls] ELSE a[k]
    <3>1. CASE k <= ls
      <4>1. k \in 1..ls /\ k <= ls + n /\ k \in 1..(ls + n)
        BY <3>1
      <4> QED
        BY <1>11, <2>1, <2>5, <3>1, <4>1
    <3>2. CASE ~(k <= ls) /\ k <= ls + n
      <4>1. k \in 1..(ls + n)
        BY <3>2
      <4> QED
        BY <2>1, <2>5, <3>2, <4>1
    <3>3. CASE ~(k <= ls + n)
      <4>1. ~(k <= ls) /\ k - (ls + n) \in 1..(len - (rhs + 1)) /\ rhs + 1 + (k - (ls + n)) = k
        BY <1>9, <3>3
      <4>2. b[k] = post[k - (ls + n)]
        BY <2>5, <3>3
      <4> QED
        BY <1>14, <3>3, <4>1, <4>2
    <3> QED
      BY <3>1, <3>2, <3>3
  <2> QED
    BY <2>5, <2>6
<1>21. \A k \in 1..len : k <= ls \/ k > ls + 2 * cs => b[k] = a[k]
  <2> SUFFICES ASSUME NEW k \in 1..len, k <= ls \/ k > ls + 2 * cs PROVE b[k] = a[k]
    OBVIOUS
  <2>1. k <= ls \/ ~(k <= ls + n)
    BY <1>3, <1>9
  <2> QED
    BY <1>20, <2>1
<1>22. Block(b, ls, ls + 2 * cs)
  <2>1. \A i, j \in 1..x : i < j => l[i] <= l[j]
    <3> SUFFICES ASSUME NEW i \in 1..x, NEW j \in 1..x, i < j PROVE l[i] <= l[j]
      OBVIOUS
    <3>1. /\ ls + i \in 1..len /\ ls + j \in 1..len
          /\ ls < ls + i /\ ls + i < ls + j /\ ls + j <= ls + cs
      BY <1>3, <1>7
    <3>2. a[ls + i] <= a[ls + j]
      BY <1>10, <3>1 DEF Block
    <3> QED
      BY <1>12, <3>2
  <2>2. \A i, j \in 1..y : i < j => r[i] <= r[j]
    <3> SUFFICES ASSUME NEW i \in 1..y, NEW j \in 1..y, i < j PROVE r[i] <= r[j]
      OBVIOUS
    <3>0. mid = ls + cs - 1
      BY <1>5, <1>8, <1>3
    <3>1. /\ mid + 1 + i \in 1..len /\ mid + 1 + j \in 1..len
          /\ ls + cs < mid + 1 + i /\ mid + 1 + i < mid + 1 + j /\ mid + 1 + j <= ls + 2 * cs
      BY <1>3, <1>8, <3>0
    <3>2. a[mid + 1 + i] <= a[mid + 1 + j]
      BY <1>10, <3>1 DEF Block
    <3> QED
      BY <1>13, <3>2
  <2>3. \A i, j \in 1..n : i < j => m[i] <= m[j]
    BY <1>m, <1>15, <2>1, <2>2, MergedAscends DEF m
  <2> SUFFICES ASSUME NEW p \in 1..len, NEW q \in 1..len, ls < p, p < q, q <= ls + 2 * cs
               PROVE  b[p] <= b[q]
    BY <1>20 DEF Block
  <2>4. q <= rhs + 1
    BY <1>4
  <2>5. p - ls \in 1..n /\ q - ls \in 1..n /\ p - ls < q - ls
    BY <1>9, <2>4
  <2>6. ~(p <= ls) /\ p <= ls + n /\ ~(q <= ls) /\ q <= ls + n
    BY <2>5
  <2>7. b[p] = m[p - ls] /\ b[q] = m[q - ls]
    BY <1>20, <2>6
  <2> QED
    BY <2>3, <2>5, <2>7
<1>23. Rearranges(b, a)
  <2> DEFINE p == [k \in 1..len |-> IF k <= ls \/ k > ls + n THEN k ELSE ls + pm[k - ls]]
  <2>0. ls + n <= len
    BY <1>3, <1>9
  <2>1. ASSUME NEW k \in 1..len, k <= ls \/ k > ls + n PROVE p[k] = k /\ b[k] = a[p[k]]
    <3>1. p[k] = k
      BY <2>1
    <3>2. k <= ls \/ ~(k <= ls + n)
      BY <2>1
    <3> QED
      BY <1>20, <3>1, <3>2
  <2>2. ASSUME NEW k \in 1..len, ~(k <= ls \/ k > ls + n)
        PROVE  /\ k - ls \in 1..n /\ pm[k - ls] \in 1..n /\ p[k] = ls + pm[k - ls]
               /\ p[k] > ls /\ p[k] <= ls + n /\ p[k] \in 1..len /\ b[k] = a[p[k]]
    <3>1. k - ls \in 1..n /\ ~(k <= ls) /\ k <= ls + n
      BY <2>2
    <3>2. PICK j \in 1..n : j = pm[k - ls]
      BY <1>17, <3>1
    <3>3. p[k] = ls + j
      BY <2>2, <3>2
    <3>4. b[k] = m[k - ls]
      BY <1>20, <3>1
    <3>5. m[k - ls] = a[ls + j]
      BY <1>18, <3>1, <3>2
    <3> HIDE DEF p
    <3>6. p[k] > ls /\ p[k] <= ls + n /\ p[k] \in 1..len
      BY <2>0, <3>3
    <3> QED
      BY <3>1, <3>2, <3>3, <3>4, <3>5, <3>6
  <2>3. p \in [1..len -> 1..len]
    <3>1. \A k \in 1..len : p[k] \in 1..len
      BY <2>1, <2>2
    <3>2. p = [k \in 1..len |-> p[k]]
      OBVIOUS
    <3> HIDE DEF p
    <3> QED
      BY <3>1, <3>2
  <2> HIDE DEF p
  <2>4. ASSUME NEW j \in 1..len, NEW k \in 1..len, p[j] = p[k] PROVE j = k
    <3>1. CASE j <= ls \/ j > ls + n
      <4>1. CASE k <= ls \/ k > ls + n
        BY <2>1, <2>4, <3>1, <4>1
      <4>2. CASE ~(k <= ls \/ k > ls + n)
        <5>1. p[j] = j /\ p[k] > ls /\ p[k] <= ls + n
          BY <2>1, <2>2, <3>1, <4>2
        <5> QED
          BY <2>4, <3>1, <5>1
      <4> QED
        BY <4>1, <4>2
    <3>2. CASE ~(j <= ls \/ j > ls + n)
      <4>1. CASE k <= ls \/ k > ls + n
        <5>1. p[k] = k /\ p[j] > ls /\ p[j] <= ls + n
          BY <2>1, <2>2, <3>2, <4>1
        <5> QED
          BY <2>4, <4>1, <5>1
      <4>2. CASE ~(k <= ls \/ k > ls + n)
        <5>1. /\ p[j] = ls + pm[j - ls] /\ p[k] = ls + pm[k - ls]
              /\ j - ls \in 1..n /\ k - ls \in 1..n /\ pm[j - ls] \in 1..n /\ pm[k - ls] \in 1..n
          BY <2>2, <3>2, <4>2
        <5>2. pm[j - ls] = pm[k - ls]
          <6>1. ls + pm[j - ls] = ls + pm[k - ls]
            BY <2>4, <5>1
          <6>2. \A u, v \in 1..n : ls + u = ls + v => u = v
            OBVIOUS
          <6> QED
            BY <5>1, <6>1, <6>2
        <5>3. j - ls = k - ls
          BY <1>17, <5>1, <5>2
        <5> QED
          BY <5>3
      <4> QED
        BY <4>1, <4>2
    <3> QED
      BY <3>1, <3>2
  <2>5. \A k \in 1..len : b[k] = a[p[k]]
    BY <2>1, <2>2
  <2>6. DOMAIN b = 1..len /\ DOMAIN a = 1..len
    BY <1>20
  <2>7. \A j, k \in 1..len : p[j] = p[k] => j = k
    BY <2>4
  <2> DEFINE d == 1..len
  <2>8. /\ DOMAIN b = d /\ DOMAIN a = d /\ p \in [d -> d]
        /\ \A k \in d : b[k] = a[p[k]]
        /\ \A j, k \in d : p[j] = p[k] => j = k
    BY <2>3, <2>5, <2>6, <2>7
  <2> HIDE DEF d
  <2> QED
    BY ONLY <2>8, RearrangesBy
<1> QED
  BY <1>20, <1>21, <1>22, <1>23

-----------------------------------------------------------------------------
(* The blocks of me_mergesort().                                           *)

(* A multiple of s comes at least s before a greater one.                  *)
LEMMA BlocksApart ==
    ASSUME NEW s \in Nat, NEW k \in Nat, NEW m \in Nat, k < m
    PROVE  k * s + s <= m * s
<1>1. PICK d \in Nat : m = k + 1 + d
  <2>1. m - (k + 1) \in Nat /\ m = k + 1 + (m - (k + 1))
    OBVIOUS
  <2> QED
    BY <2>1
<1>2. m * s = k * s + s + d * s /\ d * s >= 0 /\ k * s \in Int
  BY <1>1
<1> QED
  BY <1>2

(* A block where two arrays agree.                                         *)
LEMMA BlockKept ==
    ASSUME NEW a, NEW b, NEW len \in Nat, DOMAIN a = 1..len, DOMAIN b = 1..len,
           NEW i \in Int, NEW j \in Int,
           \A k \in 1..len : i < k /\ k <= j => b[k] = a[k], Block(a, i, j)
    PROVE  Block(b, i, j)
<1> SUFFICES ASSUME NEW p \in 1..len, NEW q \in 1..len, i < p, p < q, q <= j
             PROVE  b[p] <= b[q]
  BY DEF Block
<1>1. i < q /\ p <= j
  OBVIOUS
<1>2. b[p] = a[p] /\ b[q] = a[q]
  BY <1>1
<1> QED
  BY <1>2 DEF Block

(* A block inside another.                                                 *)
LEMMA BlockInside ==
    ASSUME NEW a, NEW len \in Nat, DOMAIN a = 1..len,
           NEW i \in Int, NEW j \in Int, NEW g \in Int, NEW h \in Int,
           g <= i, j <= h, Block(a, g, h)
    PROVE  Block(a, i, j)
<1> SUFFICES ASSUME NEW p \in 1..len, NEW q \in 1..len, i < p, p < q, q <= j
             PROVE  a[p] <= a[q]
  BY DEF Block
<1>1. g < p /\ q <= h
  OBVIOUS
<1> QED
  BY <1>1 DEF Block

(* me_mergesort()'s invariant: the array lies in sorted blocks of cs       *)
(* numbers, in blocks of twice that size left of ls.                       *)
Blocks(a, cs, ls) ==
    /\ \E m \in Nat : ls = 2 * m * cs
    /\ \A k \in Nat : Block(a, k * cs, k * cs + cs)
    /\ \A k \in Nat : 2 * k * cs < ls => Block(a, 2 * k * cs, 2 * k * cs + 2 * cs)

(* It holds of any array at the start.                                     *)
LEMMA BlocksOfOne ==
    ASSUME NEW a \in Seq(Int)
    PROVE  Blocks(a, 1, 0)
<1>1. 0 \in Nat /\ 0 = 2 * 0 * 1
  OBVIOUS
<1>2. ASSUME NEW k \in Nat PROVE Block(a, k * 1, k * 1 + 1)
  <2>1. \A p, q \in DOMAIN a : ~(k * 1 < p /\ p < q /\ q <= k * 1 + 1)
    OBVIOUS
  <2> QED
    BY <2>1 DEF Block
<1>3. \A k \in Nat : ~(2 * k * 1 < 0)
  OBVIOUS
<1> QED
  BY <1>1, <1>2, <1>3 DEF Blocks

(* A merge makes one block of two.                                         *)
LEMMA BlocksMerged ==
    ASSUME NEW a \in Seq(Int), NEW len \in Nat, Len(a) = len, NEW cs \in Nat, cs >= 1,
           NEW ls \in Nat, ls < len - 1, Blocks(a, cs, ls),
           NEW b, b = MergeAt(a, cs, ls)
    PROVE  b \in Seq(Int) /\ Len(b) = len /\ Rearranges(b, a) /\ Blocks(b, cs, ls + 2 * cs)
<1>1. PICK m \in Nat : ls = 2 * m * cs
  BY DEF Blocks
<1>2. /\ 2 * m \in Nat /\ 2 * m + 1 \in Nat
      /\ (2 * m) * cs = ls /\ (2 * m + 1) * cs = ls + cs /\ (2 * m + 2) * cs = ls + 2 * cs
  BY <1>1
<1>3. Block(a, ls, ls + cs)
  <2>1. Block(a, (2 * m) * cs, (2 * m) * cs + cs)
    BY <1>2 DEF Blocks
  <2> QED
    BY <1>2, <2>1
<1>4. Block(a, ls + cs, ls + 2 * cs)
  <2>1. Block(a, (2 * m + 1) * cs, (2 * m + 1) * cs + cs)
    BY <1>2 DEF Blocks
  <2>2. (2 * m + 1) * cs + cs = ls + 2 * cs
    BY <1>2
  <2> QED
    BY <1>2, <2>1, <2>2
<1>5. /\ b \in Seq(Int) /\ Len(b) = len
      /\ \A k \in 1..len : k <= ls \/ k > ls + 2 * cs => b[k] = a[k]
      /\ Block(b, ls, ls + 2 * cs)
      /\ Rearranges(b, a)
  BY <1>3, <1>4, MergeAtFacts
<1>d. DOMAIN a = 1..len /\ DOMAIN b = 1..len
  BY <1>5
<1>6. ASSUME NEW i \in Int, NEW j \in Int, j <= ls \/ ls + 2 * cs <= i, Block(a, i, j)
      PROVE  Block(b, i, j)
  <2>1. \A k \in 1..len : i < k /\ k <= j => k <= ls \/ k > ls + 2 * cs
    BY <1>6
  <2>2. \A k \in 1..len : i < k /\ k <= j => b[k] = a[k]
    BY <1>5, <2>1
  <2> QED
    BY <1>6, <1>d, <2>2, BlockKept
<1>7. ASSUME NEW k \in Nat PROVE Block(b, k * cs, k * cs + cs)
  <2>1. PICK e \in Nat : e = k * cs
    OBVIOUS
  <2>2. Block(a, e, e + cs)
    BY <2>1 DEF Blocks
  <2>3. CASE k < 2 * m
    <3>1. k * cs + cs <= (2 * m) * cs
      BY <1>2, <2>3, BlocksApart
    <3>2. e + cs <= ls
      BY <1>2, <2>1, <3>1
    <3> QED
      BY <1>6, <2>1, <2>2, <3>2
  <2>4. CASE k = 2 * m \/ k = 2 * m + 1
    <3>1. e = ls \/ e = ls + cs
      BY <1>2, <2>1, <2>4
    <3>2. ls <= e /\ e + cs <= ls + 2 * cs
      BY <3>1
    <3>3. Block(b, e, e + cs)
      BY <1>5, <1>d, <3>2, BlockInside
    <3> QED
      BY <2>1, <3>3
  <2>5. CASE k > 2 * m + 1
    <3>1. (2 * m + 1) * cs + cs <= k * cs
      BY <1>2, <2>5, BlocksApart
    <3>2. ls + 2 * cs <= e
      BY <1>2, <2>1, <3>1
    <3> QED
      BY <1>6, <2>1, <2>2, <3>2
  <2> QED
    BY <2>3, <2>4, <2>5
<1>8. ASSUME NEW k \in Nat, 2 * k * cs < ls + 2 * cs
      PROVE  Block(b, 2 * k * cs, 2 * k * cs + 2 * cs)
  <2>1. PICK e \in Nat : e = 2 * k * cs
    OBVIOUS
  <2>2. e = k * (2 * cs) /\ ls = m * (2 * cs) /\ 2 * cs \in Nat
    BY <1>1, <2>1
  <2>3. CASE k < m
    <3>1. e + 2 * cs <= ls
      <4>1. k * (2 * cs) + 2 * cs <= m * (2 * cs)
        BY <2>2, <2>3, BlocksApart
      <4> QED
        BY <2>2, <4>1
    <3>2. Block(a, e, e + 2 * cs)
      <4>1. 2 * k * cs < ls
        BY <2>1, <3>1
      <4>2. Block(a, 2 * k * cs, 2 * k * cs + 2 * cs)
        BY <4>1 DEF Blocks
      <4> QED
        BY <2>1, <4>2
    <3>3. Block(b, e, e + 2 * cs)
      BY <1>6, <3>1, <3>2
    <3> QED
      BY <2>1, <3>3
  <2>4. CASE k = m
    <3>1. e = ls
      BY <1>1, <2>1, <2>4
    <3> QED
      BY <1>5, <2>1, <3>1
  <2>5. CASE k > m
    <3>1. m * (2 * cs) + 2 * cs <= k * (2 * cs)
      BY <2>2, <2>5, BlocksApart
    <3>2. ls + 2 * cs <= e
      BY <2>2, <3>1
    <3> QED
      BY <1>8, <2>1, <3>2
  <2> QED
    BY <2>3, <2>4, <2>5
<1>9. m + 1 \in Nat /\ ls + 2 * cs = 2 * (m + 1) * cs
  BY <1>1
<1> QED
  BY <1>5, <1>7, <1>8, <1>9 DEF Blocks

(* When a pass has come to the end of the array, all blocks have twice the *)
(* size: the last may be shorter, or a single number that had no partner.  *)
LEMMA BlocksDoubled ==
    ASSUME NEW a \in Seq(Int), NEW len \in Nat, Len(a) = len, NEW cs \in Nat, cs >= 1,
           NEW ls \in Nat, ls >= len - 1, Blocks(a, cs, ls)
    PROVE  Blocks(a, 2 * cs, 0)
<1>1. 0 \in Nat /\ 0 = 2 * 0 * (2 * cs)
  OBVIOUS
<1>2. ASSUME NEW k \in Nat PROVE Block(a, k * (2 * cs), k * (2 * cs) + 2 * cs)
  <2>1. PICK e \in Nat : e = 2 * k * cs /\ e = k * (2 * cs)
    OBVIOUS
  <2>2. CASE e < ls
    <3>1. Block(a, 2 * k * cs, 2 * k * cs + 2 * cs)
      BY <2>1, <2>2 DEF Blocks
    <3> QED
      BY <2>1, <3>1
  <2>3. CASE ~(e < ls)
    <3>1. \A p, q \in 1..len : ~(e < p /\ p < q)
      BY <2>3
    <3>2. DOMAIN a = 1..len
      OBVIOUS
    <3>3. Block(a, e, e + 2 * cs)
      BY <3>1, <3>2 DEF Block
    <3> QED
      BY <2>1, <3>3
  <2> QED
    BY <2>2, <2>3
<1>3. \A k \in Nat : ~(2 * k * (2 * cs) < 0)
  <2>1. \A k \in Nat : 2 * k * (2 * cs) \in Nat
    OBVIOUS
  <2> QED
    BY <2>1
<1> QED
  BY <1>1, <1>2, <1>3 DEF Blocks

(* One block that is longer than the array: the array is sorted.           *)
LEMMA BlocksEnd ==
    ASSUME NEW a \in Seq(Int), NEW cs \in Nat, cs > Len(a), NEW ls, Blocks(a, cs, ls)
    PROVE  Ascending(a)
<1>1. PICK len \in Nat : len = Len(a) /\ DOMAIN a = 1..len
  OBVIOUS
<1>2. Block(a, 0, cs)
  <2>1. Block(a, 0 * cs, 0 * cs + cs)
    BY DEF Blocks
  <2>2. 0 * cs = 0 /\ 0 + cs = cs
    OBVIOUS
  <2> QED
    BY <2>1, <2>2
<1>3. \A q \in 1..len : 0 < q /\ q <= cs
  BY <1>1
<1> QED
  BY <1>1, <1>2, <1>3 DEF Block, Ascending

(* h is a bijection that tells where in b each element of a is.            *)
Occurs(v, a, S) == Cardinality({p \in S : a[p] = v})
Matches(h, a, S, b, T) ==
    /\ h \in [S -> T]
    /\ \A p, q \in S : h[p] = h[q] => p = q
    /\ \A t \in T : \E p \in S : h[p] = t
    /\ \A p \in S : a[p] = b[h[p]]

(* A number occurs as often on one side of it as on the other.             *)
LEMMA OccursAlike ==
    ASSUME NEW S, IsFiniteSet(S), NEW T, NEW h, NEW a, NEW b, Matches(h, a, S, b, T), NEW v
    PROVE  IsFiniteSet(T) /\ Occurs(v, a, S) = Occurs(v, b, T)
<1> DEFINE A == {p \in S : a[p] = v}
           B == {t \in T : b[t] = v}
           g == [p \in A |-> h[p]]
<1>1. IsFiniteSet(A)
  BY FS_Subset
<1>2. g \in [A -> B]
  BY DEF Matches
<1>3. \A p, q \in A : g[p] = g[q] => p = q
  BY DEF Matches
<1>4. \A t \in B : \E p \in A : g[p] = t
  BY DEF Matches
<1> HIDE DEF A, B, g
<1>5. g \in Bijection(A, B)
  BY <1>2, <1>3, <1>4 DEF Bijection, Injection, Surjection, IsInjective
<1>6. ExistsBijection(A, B)
  BY <1>5 DEF ExistsBijection
<1>7. Cardinality(B) = Cardinality(A)
  BY <1>1, <1>6, FS_Bijection
<1>8. h \in Bijection(S, T)
  BY DEF Matches, Bijection, Injection, Surjection, IsInjective
<1>9. IsFiniteSet(T)
  BY <1>8, FS_Bijection DEF ExistsBijection
<1> QED
  BY <1>7, <1>9 DEF A, B, Occurs

(* What rearranges an array has a number from each of its places.          *)
LEMMA RearrangesAll ==
    ASSUME NEW s, NEW n \in Nat, DOMAIN s = 1..n, NEW t, Rearranges(s, t)
    PROVE  DOMAIN t = 1..n /\ \E p : Matches(p, s, 1..n, t, 1..n)
<1> DEFINE d == 1..n
<1>1. DOMAIN s = d /\ DOMAIN t = d
  BY DEF Rearranges
<1>2. PICK p \in [d -> d] : /\ \A k \in d : s[k] = t[p[k]]
                            /\ \A j, k \in d : p[j] = p[k] => j = k
  BY <1>1 DEF Rearranges
<1>3. IsFiniteSet(d)
  BY FS_Interval
<1> HIDE DEF d
<1>4. p \in Injection(d, d)
  BY <1>2 DEF Injection, IsInjective
<1>5. p \in Surjection(d, d)
  BY <1>3, <1>4, FS_Injection
<1>6. \A i \in d : \E k \in d : p[k] = i
  BY <1>5 DEF Surjection
<1>7. Matches(p, s, d, t, d)
  BY <1>2, <1>6 DEF Matches
<1> QED
  BY <1>1, <1>7 DEF d

(* It has every number as often.                                           *)
LEMMA RearrangesSameNumbers ==
    ASSUME NEW s \in Seq(Int), NEW t, Rearranges(s, t)
    PROVE  SameNumbers(s, t)
<1>1. PICK n \in Nat : n = Len(s) /\ DOMAIN s = 1..n
  OBVIOUS
<1>2. DOMAIN t = 1..n /\ \E p : Matches(p, s, 1..n, t, 1..n)
  BY <1>1, RearrangesAll
<1> DEFINE d == 1..n
<1>3. IsFiniteSet(d)
  BY FS_Interval
<1>4. DOMAIN s = d /\ DOMAIN t = d
  BY <1>1, <1>2
<1>5. PICK p : Matches(p, s, d, t, d)
  BY <1>2
<1> HIDE DEF d
<1>6. \A v : Occurs(v, s, d) = Occurs(v, t, d)
  BY <1>3, <1>5, OccursAlike
<1> QED
  BY <1>4, <1>6 DEF SameNumbers, Count, Occurs

(* A sorted block, as a sequence of its own.                               *)
LEMMA BlockAscends ==
    ASSUME NEW a \in Seq(Int), NEW i \in Nat, NEW n \in Nat, Block(a, i, i + n)
    PROVE  Ascending(SubSeq(a, i + 1, Least(i + n, Len(a))))
<1>1. PICK len \in Nat : len = Len(a) /\ DOMAIN a = 1..len /\ a \in [1..len -> Int]
  OBVIOUS
<1>2. PICK j \in Nat : j = Least(i + n, Len(a)) /\ j <= i + n /\ j <= len
  <2>1. \E j \in Nat : j = Least(i + n, len) /\ j <= i + n /\ j <= len
    BY DEF Least
  <2> QED
    BY <1>1, <2>1
<1> DEFINE s == SubSeq(a, i + 1, j)
<1>3. \A k \in (i + 1)..j : a[k] \in Int
  BY <1>1, <1>2
<1>4. i + 1 \in Int /\ j \in Int
  BY <1>2
<1>5. /\ s \in Seq(Int) /\ Len(s) = IF i + 1 <= j THEN j - (i + 1) + 1 ELSE 0
      /\ \A k \in 1..(j - (i + 1) + 1) : s[k] = a[(i + 1) + k - 1]
  BY ONLY <1>3, <1>4, SubSeqProperties
<1> HIDE DEF s
<1>6. DOMAIN s = 1..Len(s)
  BY <1>5
<1>7. \A k \in 1..Len(s) : s[k] = a[i + k] /\ i + k \in 1..len /\ i < i + k /\ i + k <= i + n
  <2> TAKE k \in 1..Len(s)
  <2>1. k \in 1..(j - (i + 1) + 1) /\ (i + 1) + k - 1 = i + k
    BY <1>2, <1>4, <1>5
  <2>2. i + k \in 1..len /\ i < i + k /\ i + k <= i + n
    BY <1>2, <2>1
  <2> QED
    BY <1>5, <2>1, <2>2
<1>8. ASSUME NEW p \in 1..Len(s), NEW q \in 1..Len(s), p < q PROVE s[p] <= s[q]
  <2>1. i + p < i + q
    BY <1>8
  <2>2. a[i + p] <= a[i + q]
    BY <1>1, <1>7, <2>1 DEF Block
  <2> QED
    BY <1>7, <2>2
<1>9. Ascending(s)
  BY <1>6, <1>8 DEF Ascending
<1> QED
  BY <1>2, <1>9 DEF s

(* The loop invariant as BlocksSorted states it of a coroutine's array.    *)
LEMMA BlocksAscend ==
    ASSUME NEW a \in Seq(Int), NEW cs \in Nat, NEW ls \in Nat, Blocks(a, cs, ls), NEW k \in Nat
    PROVE  /\ Ascending(SubSeq(a, k * cs + 1, Least(k * cs + cs, Len(a))))
           /\ 2 * k * cs < ls =>
                Ascending(SubSeq(a, 2 * k * cs + 1, Least(2 * k * cs + 2 * cs, Len(a))))
<1>1. k * cs \in Nat /\ 2 * k * cs \in Nat /\ 2 * cs \in Nat
  OBVIOUS
<1>2. Block(a, k * cs, k * cs + cs)
  BY DEF Blocks
<1>3. 2 * k * cs < ls => Block(a, 2 * k * cs, 2 * k * cs + 2 * cs)
  BY DEF Blocks
<1> DEFINE e == k * cs
           g == 2 * k * cs
           h == 2 * cs
<1>4. e \in Nat /\ g \in Nat /\ h \in Nat /\ Block(a, e, e + cs) /\ (g < ls => Block(a, g, g + h))
  BY <1>1, <1>2, <1>3
<1> HIDE DEF e, g, h
<1>5. Ascending(SubSeq(a, e + 1, Least(e + cs, Len(a))))
  BY <1>4, BlockAscends
<1>6. g < ls => Ascending(SubSeq(a, g + 1, Least(g + h, Len(a))))
  BY <1>4, BlockAscends
<1> QED
  BY <1>5, <1>6 DEF e, g, h

-----------------------------------------------------------------------------
(* The arrays while the coroutines take turns.                             *)

(* Who holds which file: what a coroutine claims it keeps until its next   *)
(* claim, and nobody else touches it.                                      *)
HolderInv ==
    /\ file \in [Coros -> {NONE} \cup FileIds]
    /\ at \in [Coros -> {"start", "read", "merged", "passed"}]
    /\ size \in [Coros -> Nat \ {0}] /\ left \in [Coros -> Nat]
    /\ \A c \in Coros : at[c] = "start" <=> file[c] = NONE
    /\ \A c \in Coros : file[c] # NONE => processed[file[c]]
    /\ \A c, d \in Coros : file[c] = file[d] /\ file[c] # NONE => c = d

(* The arrays: what is read of a file, in another order.                   *)
NumbersInv ==
    /\ content \in [FileIds -> Seq(Int)]
    /\ numbers \in [FileIds -> Seq(Int)]
    /\ \A f \in FileIds : IF processed[f] THEN Rearranges(numbers[f], content[f])
                                          ELSE numbers[f] = <<>>

(* Where each coroutine is in its sort, and that it leaves an array only   *)
(* when it is sorted.                                                      *)
BlocksInv == \A c \in Coros : file[c] # NONE => Blocks(numbers[file[c]], CurrSize(c), LeftStart(c))
SortedInv ==
    /\ \A c \in Coros : Returned(c) => ~InSort(c)
    /\ \A f \in FileIds : processed[f] /\ (\A c \in Coros : file[c] # f) => Ascending(numbers[f])

DataInv == HolderInv /\ NumbersInv /\ BlocksInv /\ SortedInv

(* The invariant holds at the start.                                       *)
LEMMA DataInit == SortInit => DataInv
<1> SUFFICES ASSUME SortInit PROVE DataInv
  OBVIOUS
<1> USE CoroSortAssumption DEF CoroSortAssumption
<1>1. HolderInv
  BY DEF SortInit, HolderInv, NONE, FileIds
<1>2. content \in [FileIds -> Seq(Int)]
  <2>1. content \in [FileIds -> Arrays]
    BY DEF SortInit
  <2>2. ASSUME NEW s \in Arrays PROVE s \in Seq(Int)
    <3>1. PICK n \in 0..MaxLength : s \in [1..n -> Values]
      BY <2>2 DEF Arrays
    <3>2. MaxLength \in Nat /\ Values \subseteq Int
      OBVIOUS
    <3>3. n \in Nat
      BY <3>2
    <3>4. s \in [1..n -> Int]
      BY <3>1, <3>2
    <3> QED
      BY <3>3, <3>4
  <2> QED
    BY <2>1, <2>2
<1>3. NumbersInv
  BY <1>2 DEF SortInit, NumbersInv
<1>4. BlocksInv /\ SortedInv
  BY DEF SortInit, BlocksInv, SortedInv, InSort
<1> QED
  BY <1>1, <1>3, <1>4 DEF DataInv

(* The loop variables are numbers.                                         *)
LEMMA LoopTypes ==
    ASSUME HolderInv, NEW c \in Coros
    PROVE  CurrSize(c) \in Nat /\ CurrSize(c) >= 1 /\ LeftStart(c) \in Nat
<1>1. size[c] \in Nat /\ size[c] >= 1 /\ left[c] \in Nat
  <2>1. size[c] \in Nat \ {0} /\ left[c] \in Nat
    BY DEF HolderInv
  <2> QED
    BY <2>1
<1>2. left[c] + 2 * size[c] \in Nat /\ 2 * size[c] \in Nat /\ 2 * size[c] >= 1
  BY <1>1
<1> QED
  BY <1>1, <1>2 DEF CurrSize, LeftStart

(* A coroutine whose locals and array stay is where it was in its sort.    *)
LEMMA OthersKept ==
    ASSUME NEW d \in Coros, file[d] # NONE <=> at[d] # "start",
           at'[d] = at[d], file'[d] = file[d], size'[d] = size[d], left'[d] = left[d],
           file[d] # NONE => numbers'[file[d]] = numbers[file[d]]
    PROVE  /\ CurrSize(d)' = CurrSize(d) /\ LeftStart(d)' = LeftStart(d)
           /\ InSort(d)' <=> InSort(d)
  BY DEF CurrSize, LeftStart, InSort, Rhs

(* Steps in which nobody's sort moves on.                                  *)
LEMMA DataKept ==
    ASSUME DataInv, UNCHANGED <<content, processed, numbers, at, file, size, left>>,
           \A c \in Coros : Returned(c)' => Returned(c) \/ ~InSort(c)
    PROVE  DataInv'
<1> USE DEF DataInv
<1>1. HolderInv' /\ NumbersInv'
  BY DEF HolderInv, NumbersInv
<1>2. \A c \in Coros : /\ CurrSize(c)' = CurrSize(c) /\ LeftStart(c)' = LeftStart(c)
                       /\ InSort(c)' <=> InSort(c)
  BY DEF CurrSize, LeftStart, InSort, Rhs
<1>3. BlocksInv' /\ SortedInv'
  BY <1>2 DEF BlocksInv, SortedInv
<1> QED
  BY <1>1, <1>3

(* A merge.                                                                *)
LEMMA MergeStepData ==
    ASSUME SortInv, DataInv, NEW c \in Coros, MergeStep(c)
    PROVE  DataInv'
<1> DEFINE f == file[c]
           a == numbers[f]
           cs == CurrSize(c)
           ls == LeftStart(c)
           b == MergeAt(a, cs, ls)
<1> USE DEF DataInv
<1>1. /\ turn = c /\ InSort(c) /\ ls < Len(a) - 1
      /\ numbers' = [numbers EXCEPT ![f] = b]
      /\ size' = [size EXCEPT ![c] = cs] /\ left' = [left EXCEPT ![c] = ls]
      /\ at' = [at EXCEPT ![c] = "merged"]
      /\ UNCHANGED <<content, processed, file>> /\ Yield
  BY DEF MergeStep, coro_yield, Rhs
<1>2. f \in FileIds /\ f # NONE /\ processed[f] /\ a \in Seq(Int)
  BY <1>1 DEF InSort, HolderInv, NumbersInv
<1>3. cs \in Nat /\ cs >= 1 /\ ls \in Nat /\ Blocks(a, cs, ls)
  BY <1>2, LoopTypes DEF BlocksInv
<1>4. b \in Seq(Int) /\ Len(b) = Len(a) /\ Rearranges(b, a) /\ Blocks(b, cs, ls + 2 * cs)
  <2>1. PICK len \in Nat : len = Len(a)
    BY <1>2
  <2> QED
    BY <1>1, <1>2, <1>3, <2>1, BlocksMerged
<1>5. \A d \in Coros : d # c => /\ at'[d] = at[d] /\ size'[d] = size[d] /\ left'[d] = left[d]
  BY <1>1 DEF HolderInv
<1>6. /\ numbers' \in [FileIds -> Seq(Int)] /\ numbers'[f] = b
      /\ \A g \in FileIds : g # f => numbers'[g] = numbers[g]
  BY <1>1, <1>2, <1>4 DEF NumbersInv
<1>7. at'[c] = "merged" /\ size'[c] = cs /\ left'[c] = ls
  BY <1>1 DEF HolderInv
<1>8. HolderInv'
  <2>1. /\ at' \in [Coros -> {"start", "read", "merged", "passed"}]
        /\ size' \in [Coros -> Nat \ {0}] /\ left' \in [Coros -> Nat]
    BY <1>1, <1>3 DEF HolderInv
  <2>2. \A d \in Coros : at'[d] = "start" <=> file[d] = NONE
    BY <1>2, <1>5, <1>7 DEF HolderInv
  <2> QED
    BY <1>1, <2>1, <2>2 DEF HolderInv
<1>9. NumbersInv'
  <2>1. Rearranges(b, content[f])
    BY <1>2, <1>4, RearrangesAgain DEF NumbersInv
  <2>2. \A g \in FileIds : IF processed[g] THEN Rearranges(numbers'[g], content[g])
                                           ELSE numbers'[g] = <<>>
    BY <1>2, <1>6, <2>1 DEF NumbersInv
  <2> QED
    BY <1>1, <1>6, <2>2 DEF NumbersInv
<1>10. CurrSize(c)' = cs /\ LeftStart(c)' = ls + 2 * cs
  BY <1>7 DEF CurrSize, LeftStart
<1>11. ASSUME NEW d \in Coros, d # c
       PROVE  /\ CurrSize(d)' = CurrSize(d) /\ LeftStart(d)' = LeftStart(d)
              /\ InSort(d)' <=> InSort(d)
              /\ file[d] # NONE => numbers'[file[d]] = numbers[file[d]]
  <2>1. file[d] # NONE => file[d] \in FileIds /\ file[d] # f
    BY <1>2, <1>11 DEF HolderInv
  <2>2. file[d] # NONE => numbers'[file[d]] = numbers[file[d]]
    BY <1>6, <2>1
  <2>3. file[d] # NONE <=> at[d] # "start"
    BY DEF HolderInv
  <2> QED
    BY <1>1, <1>5, <1>11, <2>2, <2>3, OthersKept
<1> HIDE DEF f, a, cs, ls, b
<1>12. BlocksInv'
  <2>1. Blocks(numbers'[file[c]], CurrSize(c)', LeftStart(c)')
    BY <1>4, <1>6, <1>10 DEF f
  <2>2. \A d \in Coros : file[d] # NONE => Blocks(numbers'[file[d]], CurrSize(d)', LeftStart(d)')
    BY <1>11, <2>1 DEF BlocksInv
  <2> QED
    BY <1>1, <2>2 DEF BlocksInv
<1>13. SortedInv'
  <2>1. \A d \in Coros : Returned(d)' => d # c /\ Returned(d)
    BY <1>1, RunnerFacts
  <2>2. \A d \in Coros : Returned(d)' => ~InSort(d)'
    BY <1>11, <2>1 DEF SortedInv
  <2>3. \A g \in FileIds : processed[g] /\ (\A d \in Coros : file[d] # g) => Ascending(numbers'[g])
    BY <1>6 DEF SortedInv, f
  <2> QED
    BY <1>1, <2>2, <2>3 DEF SortedInv
<1> QED
  BY <1>8, <1>9, <1>12, <1>13

(* The end of a pass.                                                      *)
LEMMA PassEndData ==
    ASSUME SortInv, DataInv, NEW c \in Coros, PassEnd(c)
    PROVE  DataInv'
<1> DEFINE f == file[c]
           a == numbers[f]
           cs == CurrSize(c)
           ls == LeftStart(c)
<1> USE DEF DataInv
<1>1. /\ turn = c /\ InSort(c) /\ ls >= Len(a) - 1
      /\ size' = [size EXCEPT ![c] = cs]
      /\ at' = [at EXCEPT ![c] = "passed"]
      /\ UNCHANGED <<content, processed, numbers, file, left>> /\ Yield
  BY DEF PassEnd, coro_yield, Rhs, pool
<1>2. f \in FileIds /\ f # NONE /\ a \in Seq(Int)
  BY <1>1 DEF InSort, HolderInv, NumbersInv
<1>3. cs \in Nat /\ cs >= 1 /\ ls \in Nat /\ Blocks(a, cs, ls)
  BY <1>2, LoopTypes DEF BlocksInv
<1>4. Blocks(a, 2 * cs, 0)
  <2>1. PICK len \in Nat : len = Len(a)
    BY <1>2
  <2> QED
    BY <1>1, <1>2, <1>3, <2>1, BlocksDoubled
<1>5. \A d \in Coros : d # c => /\ at'[d] = at[d] /\ size'[d] = size[d]
  BY <1>1 DEF HolderInv
<1>7. at'[c] = "passed" /\ size'[c] = cs
  BY <1>1 DEF HolderInv
<1>8. HolderInv'
  <2>1. /\ at' \in [Coros -> {"start", "read", "merged", "passed"}]
        /\ size' \in [Coros -> Nat \ {0}]
    BY <1>1, <1>3 DEF HolderInv
  <2>2. \A d \in Coros : at'[d] = "start" <=> file[d] = NONE
    BY <1>2, <1>5, <1>7 DEF HolderInv
  <2> QED
    BY <1>1, <2>1, <2>2 DEF HolderInv
<1>9. NumbersInv'
  BY <1>1 DEF NumbersInv
<1>10. CurrSize(c)' = 2 * cs /\ LeftStart(c)' = 0
  BY <1>7 DEF CurrSize, LeftStart
<1>11. ASSUME NEW d \in Coros, d # c
       PROVE  /\ CurrSize(d)' = CurrSize(d) /\ LeftStart(d)' = LeftStart(d)
              /\ InSort(d)' <=> InSort(d)
  <2>3. file[d] # NONE <=> at[d] # "start"
    BY DEF HolderInv
  <2> QED
    BY <1>1, <1>5, <1>11, <2>3, OthersKept
<1> HIDE DEF f, a, cs, ls
<1>12. BlocksInv'
  <2>1. Blocks(numbers[file[c]], CurrSize(c)', LeftStart(c)')
    BY <1>4, <1>10 DEF f, a
  <2>2. \A d \in Coros : file[d] # NONE => Blocks(numbers[file[d]], CurrSize(d)', LeftStart(d)')
    BY <1>11, <2>1 DEF BlocksInv
  <2> QED
    BY <1>1, <2>2 DEF BlocksInv
<1>13. SortedInv'
  <2>1. \A d \in Coros : Returned(d)' => d # c /\ Returned(d)
    BY <1>1, RunnerFacts
  <2>2. \A d \in Coros : Returned(d)' => ~InSort(d)'
    BY <1>11, <2>1 DEF SortedInv
  <2> QED
    BY <1>1, <2>2 DEF SortedInv
<1> QED
  BY <1>8, <1>9, <1>12, <1>13

(* A coroutine that is through with its array leaves it sorted.            *)
LEMMA ThroughSorted ==
    ASSUME DataInv, NEW c \in Coros, ~InSort(c), file[c] # NONE
    PROVE  Ascending(numbers[file[c]])
<1> USE DEF DataInv
<1>1. numbers[file[c]] \in Seq(Int) /\ at[c] # "start"
  BY DEF HolderInv, NumbersInv
<1>2. CurrSize(c) \in Nat
  BY LoopTypes
<1>3. CurrSize(c) > Len(numbers[file[c]])
  <2>1. ~(CurrSize(c) <= Len(numbers[file[c]]))
    BY <1>1 DEF InSort, Rhs
  <2>2. PICK len \in Nat : len = Len(numbers[file[c]])
    BY <1>1
  <2> QED
    BY <1>2, <2>1, <2>2
<1>4. Blocks(numbers[file[c]], CurrSize(c), LeftStart(c))
  BY DEF BlocksInv
<1> QED
  BY <1>1, <1>2, <1>3, <1>4, BlocksEnd

(* The next file.                                                          *)
LEMMA TakeFileData ==
    ASSUME SortInv, DataInv, NEW c \in Coros, NEW f \in FileIds, TakeFile(c, f)
    PROVE  DataInv'
<1> USE DEF DataInv
<1>1. /\ turn = c /\ ~InSort(c) /\ ~processed[f]
      /\ processed' = [processed EXCEPT ![f] = TRUE]
      /\ numbers' = [numbers EXCEPT ![f] = content[f]]
      /\ file' = [file EXCEPT ![c] = f]
      /\ at' = [at EXCEPT ![c] = "read"]
      /\ UNCHANGED <<content, size, left>> /\ Yield
  BY DEF TakeFile, AtHead, get_file, coro_yield
<1>2. processed \in [FileIds -> BOOLEAN] /\ f # NONE
  BY CoroSortAssumption DEF SortInv, ClaimInv, FileIds, NONE
<1>3. /\ processed'[f] /\ numbers'[f] = content[f] /\ numbers' \in [FileIds -> Seq(Int)]
      /\ \A g \in FileIds : g # f => processed'[g] = processed[g] /\ numbers'[g] = numbers[g]
  BY <1>1, <1>2 DEF NumbersInv
<1>4. /\ at'[c] = "read" /\ file'[c] = f
      /\ \A d \in Coros : d # c => at'[d] = at[d] /\ file'[d] = file[d]
  BY <1>1 DEF HolderInv
<1>5. \A d \in Coros : file[d] # NONE => file[d] \in FileIds /\ file[d] # f /\ processed[file[d]]
  BY <1>1 DEF HolderInv
<1>6. HolderInv'
  <2>1. /\ at' \in [Coros -> {"start", "read", "merged", "passed"}]
        /\ file' \in [Coros -> {NONE} \cup FileIds]
    BY <1>1 DEF HolderInv
  <2>2. \A d \in Coros : at'[d] = "start" <=> file'[d] = NONE
    BY <1>2, <1>4 DEF HolderInv
  <2>3. \A d \in Coros : file'[d] # NONE => processed'[file'[d]]
    BY <1>3, <1>4, <1>5
  <2>4. \A d, e \in Coros : file'[d] = file'[e] /\ file'[d] # NONE => d = e
    BY <1>4, <1>5 DEF HolderInv
  <2> QED
    BY <1>1, <2>1, <2>2, <2>3, <2>4 DEF HolderInv
<1>7. NumbersInv'
  <2>1. Rearranges(numbers'[f], content[f])
    BY <1>3, RearrangesSame
  <2>2. \A g \in FileIds : IF processed'[g] THEN Rearranges(numbers'[g], content[g])
                                            ELSE numbers'[g] = <<>>
    BY <1>3, <2>1 DEF NumbersInv
  <2> QED
    BY <1>1, <1>3, <2>2 DEF NumbersInv
<1>8. ASSUME NEW d \in Coros, d # c
      PROVE  /\ CurrSize(d)' = CurrSize(d) /\ LeftStart(d)' = LeftStart(d)
             /\ InSort(d)' <=> InSort(d)
             /\ file[d] # NONE => numbers'[file[d]] = numbers[file[d]]
  <2>1. file[d] # NONE => numbers'[file[d]] = numbers[file[d]]
    BY <1>3, <1>5
  <2>2. file[d] # NONE <=> at[d] # "start"
    BY DEF HolderInv
  <2> QED
    BY <1>1, <1>4, <1>8, <2>1, <2>2, OthersKept
<1>9. BlocksInv'
  <2>1. CurrSize(c)' = 1 /\ LeftStart(c)' = 0
    BY <1>4 DEF CurrSize, LeftStart
  <2>2. Blocks(content[f], 1, 0)
    BY BlocksOfOne DEF NumbersInv
  <2>3. Blocks(numbers'[file'[c]], CurrSize(c)', LeftStart(c)')
    BY <1>3, <1>4, <2>1, <2>2
  <2>4. \A d \in Coros : file'[d] # NONE => Blocks(numbers'[file'[d]], CurrSize(d)', LeftStart(d)')
    BY <1>4, <1>8, <2>3 DEF BlocksInv
  <2> QED
    BY <2>4 DEF BlocksInv
<1>10. SortedInv'
  <2>1. \A d \in Coros : Returned(d)' => d # c /\ Returned(d)
    BY <1>1, RunnerFacts
  <2>2. \A d \in Coros : Returned(d)' => ~InSort(d)'
    BY <1>8, <2>1 DEF SortedInv
  <2>3. ASSUME NEW g \in FileIds, processed'[g], \A d \in Coros : file'[d] # g
        PROVE  Ascending(numbers'[g])
    <3>1. g # f
      BY <1>4, <2>3
    <3>2. processed[g] /\ numbers'[g] = numbers[g]
      BY <1>3, <2>3, <3>1
    <3>3. CASE file[c] = g
      <4>1. file[c] # NONE
        BY <3>3, CoroSortAssumption DEF FileIds, NONE
      <4> QED
        BY <1>1, <3>2, <3>3, <4>1, ThroughSorted
    <3>4. CASE file[c] # g
      <4>1. \A d \in Coros : file[d] # g
        BY <1>4, <2>3, <3>4
      <4> QED
        BY <3>2, <4>1 DEF SortedInv
    <3> QED
      BY <3>3, <3>4
  <2> QED
    BY <2>2, <2>3 DEF SortedInv
<1> QED
  BY <1>6, <1>7, <1>9, <1>10

(* The empty file: its array is empty and stays so.                        *)
LEMMA TakeEmptyFileData ==
    ASSUME SortInv, DataInv, NEW c \in Coros, NEW f \in FileIds, TakeEmptyFile(c, f)
    PROVE  DataInv'
<1> USE DEF DataInv
<1>1. /\ ~processed[f] /\ content[f] = <<>>
      /\ processed' = [processed EXCEPT ![f] = TRUE]
      /\ UNCHANGED <<live, finished, content, numbers, at, file, size, left>>
  BY DEF TakeEmptyFile, AtHead, get_file, vars
<1>2. processed \in [FileIds -> BOOLEAN]
  BY DEF SortInv, ClaimInv
<1>3. processed'[f] /\ \A g \in FileIds : g # f => processed'[g] = processed[g]
  BY <1>1, <1>2
<1>4. numbers[f] = <<>>
  BY <1>1 DEF NumbersInv
<1>5. HolderInv'
  <2>1. \A d \in Coros : file[d] # NONE => processed'[file[d]]
    BY <1>1, <1>3 DEF HolderInv
  <2> QED
    BY <1>1, <2>1 DEF HolderInv
<1>6. NumbersInv'
  <2>1. Rearranges(numbers[f], content[f])
    BY <1>1, <1>4, RearrangesSame
  <2>2. \A g \in FileIds : IF processed'[g] THEN Rearranges(numbers[g], content[g])
                                            ELSE numbers[g] = <<>>
    BY <1>3, <2>1 DEF NumbersInv
  <2> QED
    BY <1>1, <2>2 DEF NumbersInv
<1>7. \A d \in Coros : /\ CurrSize(d)' = CurrSize(d) /\ LeftStart(d)' = LeftStart(d)
                       /\ InSort(d)' <=> InSort(d)
                       /\ Returned(d)' <=> Returned(d)
  BY <1>1 DEF CurrSize, LeftStart, InSort, Rhs, Returned
<1>8. BlocksInv'
  BY <1>1, <1>7 DEF BlocksInv
<1>9. SortedInv'
  <2>1. Ascending(numbers[f])
    BY <1>4 DEF Ascending
  <2> QED
    BY <1>1, <1>3, <1>7, <2>1 DEF SortedInv
<1> QED
  BY <1>5, <1>6, <1>8, <1>9

(* A return.                                                               *)
LEMMA ReturnData ==
    ASSUME SortInv, DataInv, NEW c \in Coros, Return(c)
    PROVE  DataInv'
<1>1. /\ turn = c /\ ~InSort(c) /\ Finish
      /\ UNCHANGED <<content, processed, numbers, at, file, size, left>>
  BY DEF Return, AtHead, pool
<1>2. \A d \in Coros : Returned(d)' => Returned(d) \/ ~InSort(d)
  BY <1>1, RunnerFacts
<1> QED
  BY <1>1, <1>2, DataKept

(* The steps of main().                                                    *)
LEMMA MainData ==
    ASSUME SortInv, DataInv, Create \/ Scheduler \/ AllReturned \/ WriteNumber \/ Written
    PROVE  DataInv'
<1>1. UNCHANGED <<content, processed, numbers, at, file, size, left>>
  BY DEF Create, Scheduler, AllReturned, WriteNumber, Written, pool, coros
<1>2. \A c \in Coros : Returned(c)' => Returned(c)
  BY DEF Create, Scheduler, AllReturned, WriteNumber, Written, New, Wait, Reap, Dispatch,
     WaitNothing, Returned, vars
<1> QED
  BY <1>1, <1>2, DataKept

(* Every step keeps the invariant.                                         *)
LEMMA DataStep == SortInv /\ DataInv /\ [SortNext]_all => DataInv'
<1> SUFFICES ASSUME SortInv, DataInv, [SortNext]_all PROVE DataInv'
  OBVIOUS
<1>1. CASE SortNext
  BY <1>1, MainData, MergeStepData, PassEndData, ReturnData, TakeFileData, TakeEmptyFileData
  DEF SortNext
<1>2. CASE UNCHANGED all
  <2>1. /\ UNCHANGED <<content, processed, numbers, at, file, size, left>>
        /\ \A c \in Coros : Returned(c)' => Returned(c)
    BY <1>2 DEF all, vars, pool, coros, Returned
  <2> QED
    BY <2>1, DataKept
<1> QED
  BY <1>1, <1>2

(* For any number of coroutines and files, and files of any length: what   *)
(* each call of me_mergesort() finds when it goes on after a coro_yield()  *)
(* is what it left, blocks of curr_size numbers in order, of twice the     *)
(* size left of left_start, and every number as often as in the file.      *)
THEOREM CoroSortBlocksSorted == SortSpec => []BlocksSorted
<1>1. ASSUME DataInv PROVE BlocksSorted
  <2> SUFFICES ASSUME NEW c \in Coros, file[c] # NONE
               PROVE  LET a  == numbers[file[c]]
                          cs == CurrSize(c)
                          SortedBlock(i, n) == Ascending(SubSeq(a, i + 1, Least(i + n, Len(a))))
                      IN  /\ SameNumbers(a, content[file[c]])
                          /\ \A k \in 0..Len(a) : SortedBlock(k * cs, cs)
                          /\ \A k \in 0..Len(a) :
                                2 * k * cs < LeftStart(c) => SortedBlock(2 * k * cs, 2 * cs)
    BY DEF BlocksSorted
  <2> DEFINE a == numbers[file[c]]
             cs == CurrSize(c)
             ls == LeftStart(c)
  <2>1. a \in Seq(Int) /\ Rearranges(a, content[file[c]])
    BY <1>1 DEF DataInv, HolderInv, NumbersInv
  <2>2. cs \in Nat /\ ls \in Nat /\ Blocks(a, cs, ls)
    BY <1>1, LoopTypes DEF DataInv, BlocksInv
  <2>3. SameNumbers(a, content[file[c]])
    BY <2>1, RearrangesSameNumbers
  <2> HIDE DEF a, cs, ls
  <2>4. \A k \in 0..Len(a) : k \in Nat
    OBVIOUS
  <2>5. \A k \in 0..Len(a) :
           /\ Ascending(SubSeq(a, k * cs + 1, Least(k * cs + cs, Len(a))))
           /\ 2 * k * cs < ls =>
                Ascending(SubSeq(a, 2 * k * cs + 1, Least(2 * k * cs + 2 * cs, Len(a))))
    BY <2>1, <2>2, <2>4, BlocksAscend
  <2> QED
    BY <2>3, <2>5 DEF a, cs, ls
<1> QED
  BY <1>1, SortInitInvariant, SortStep, DataInit, DataStep, PTL DEF SortSpec

-----------------------------------------------------------------------------
(* The merge of the arrays in main().                                      *)

(* write_result_to_file(): its positions are in the rows, and `zeros`      *)
(* counts the rows that are not used up at least.                          *)
RowsInv ==
    /\ iters \in [FileIds -> Nat]
    /\ \A f \in FileIds : iters[f] <= Len(numbers[f])
    /\ zeros \in Int /\ Cardinality(Available) <= zeros
    /\ phase \notin {"merge", "done"} =>
           output = <<>> /\ zeros = Files /\ \A f \in FileIds : iters[f] = 0
    /\ phase = "done" => Available = {}

(* What has been written is in order, not greater than what has not, and   *)
(* is what lies before the positions: each number there once.              *)
Before == {q \in FileIds \X Nat : 1 <= q[2] /\ q[2] <= iters[q[1]]}
NumberAt == [q \in FileIds \X Nat |-> numbers[q[1]][q[2]]]
OutputInv ==
    /\ output \in Seq(Int)
    /\ Ascending(output)
    /\ \A p \in DOMAIN output, i \in Available : output[p] <= NextNumber(i)
    /\ \E w : Matches(w, output, DOMAIN output, NumberAt, Before)

MergeInv == RowsInv /\ OutputInv

(* No more rows than files have numbers left.                              *)
LEMMA AvailableFinite == IsFiniteSet(Available) /\ Cardinality(Available) <= Files
<1>1. Files \in Nat
  BY CoroSortAssumption DEF CoroSortAssumption
<1>2. IsFiniteSet(FileIds) /\ Cardinality(FileIds) = Files
  <2>1. IsFiniteSet(1..Files) /\ Cardinality(1..Files) = IF 1 > Files THEN 0 ELSE Files - 1 + 1
    BY <1>1, FS_Interval
  <2>2. (IF 1 > Files THEN 0 ELSE Files - 1 + 1) = Files
    BY <1>1
  <2> QED
    BY <2>1, <2>2 DEF FileIds
<1>3. Available \in SUBSET FileIds
  BY DEF Available
<1> QED
  BY <1>2, <1>3, FS_Subset

(* Nothing is written yet.                                                 *)
LEMMA NothingWritten ==
    ASSUME output = <<>>, \A f \in FileIds : iters[f] = 0
    PROVE  OutputInv
<1>1. output \in Seq(Int) /\ DOMAIN output = {}
  OBVIOUS
<1>2. Before = {}
  <2>1. \A q \in FileIds \X Nat : ~(1 <= q[2] /\ q[2] <= iters[q[1]])
    OBVIOUS
  <2> QED
    BY <2>1 DEF Before
<1>3. Matches(<<>>, output, {}, NumberAt, {})
  <2>1. <<>> \in [{} -> {}]
    OBVIOUS
  <2> QED
    BY <2>1 DEF Matches
<1>4. Ascending(output)
  BY <1>1 DEF Ascending
<1> QED
  BY <1>1, <1>2, <1>3, <1>4 DEF OutputInv

(* main() has not got to its merge.                                        *)
Untouched ==
    /\ output = <<>> /\ zeros = Files
    /\ iters \in [FileIds -> Nat] /\ \A f \in FileIds : iters[f] = 0
    /\ phase # "done"

(* Then nothing is written, and no more rows have numbers than `zeros`     *)
(* counts.                                                                 *)
LEMMA BeforeMerge == DataInv /\ Untouched => MergeInv
<1> SUFFICES ASSUME DataInv, Untouched PROVE MergeInv
  OBVIOUS
<1> USE DEF Untouched
<1>1. \A f \in FileIds : Len(numbers[f]) \in Nat
  <2>1. \A f \in FileIds : numbers[f] \in Seq(Int)
    BY DEF DataInv, NumbersInv
  <2> QED
    BY <2>1
<1>2. zeros \in Int /\ Cardinality(Available) <= zeros
  BY AvailableFinite, CoroSortAssumption DEF CoroSortAssumption
<1>3. \A f \in FileIds : iters[f] <= Len(numbers[f])
  BY <1>1
<1>4. OutputInv
  BY NothingWritten
<1> QED
  BY <1>2, <1>3, <1>4 DEF MergeInv, RowsInv

(* The rows are sorted when main() merges them.                            *)
LEMMA RowsSorted ==
    ASSUME SortInv, DataInv, phase \in {"merge", "done"}, NEW f \in FileIds
    PROVE  Ascending(numbers[f])
<1> USE DEF DataInv
<1>1. CASE ~processed[f]
  <2>1. numbers[f] = <<>>
    BY <1>1 DEF NumbersInv
  <2> QED
    BY <2>1 DEF Ascending
<1>2. CASE processed[f]
  <2>1. \A c \in Coros : ~InSort(c)
    BY DEF SortInv, PhaseInv, Returned, SortedInv
  <2>2. CASE \E c \in Coros : file[c] = f
    <3>1. PICK c \in Coros : file[c] = f
      BY <2>2
    <3>2. file[c] # NONE
      BY <3>1, CoroSortAssumption DEF FileIds, NONE
    <3> QED
      BY <2>1, <3>1, <3>2, ThroughSorted
  <2>3. CASE \A c \in Coros : file[c] # f
    BY <1>2, <2>3 DEF SortedInv
  <2> QED
    BY <2>2, <2>3
<1> QED
  BY <1>1, <1>2

(* A number is written.                                                    *)
LEMMA WriteNumberMerges ==
    ASSUME SortInv, DataInv, MergeInv, WriteNumber
    PROVE  MergeInv'
<1>1. PICK i \in FileIds :
         /\ IsMinIdx(i)
         /\ output' = Append(output, NextNumber(i))
         /\ iters' = [iters EXCEPT ![i] = @ + 1]
         /\ zeros' = IF iters'[i] >= Len(numbers[i]) THEN zeros - 1 ELSE zeros
  BY DEF WriteNumber
<1>2. phase = "merge" /\ UNCHANGED <<phase, numbers>>
  BY DEF WriteNumber, pool
<1>3. i \in Available /\ \A j \in Available : NextNumber(i) <= NextNumber(j)
  BY <1>1 DEF IsMinIdx
<1>4. iters \in [FileIds -> Nat]
  BY DEF MergeInv, RowsInv
<1>5. /\ iters' \in [FileIds -> Nat] /\ iters'[i] = iters[i] + 1
      /\ \A j \in FileIds : j # i => iters'[j] = iters[j]
  BY <1>1, <1>4
<1> DEFINE row == numbers[i]
           t == iters[i]
           x == NextNumber(i)
<1>6. \A j \in FileIds : /\ numbers[j] \in Seq(Int) /\ Len(numbers[j]) \in Nat
                         /\ DOMAIN numbers[j] = 1..Len(numbers[j])
                         /\ numbers[j] \in [1..Len(numbers[j]) -> Int]
  <2>1. \A j \in FileIds : numbers[j] \in Seq(Int)
    BY DEF DataInv, NumbersInv
  <2> QED
    BY <2>1
<1>7. t \in Nat /\ t < Len(row) /\ x = row[t + 1] /\ x \in Int
  <2>1. t \in Nat /\ t < Len(row) /\ x = row[t + 1]
    BY <1>3, <1>4 DEF Available, NextNumber
  <2>2. Len(row) \in Nat /\ row \in [1..Len(row) -> Int]
    BY <1>6
  <2>3. t + 1 \in 1..Len(row)
    BY <2>1, <2>2
  <2> QED
    BY <2>1, <2>2, <2>3
<1>8. Available' = IF t + 1 >= Len(row) THEN Available \ {i} ELSE Available
  <2>1. \A j \in FileIds : j # i => (j \in Available' <=> j \in Available)
    BY <1>2, <1>5 DEF Available
  <2>2. i \in Available' <=> t + 1 < Len(row)
    BY <1>2, <1>5 DEF Available
  <2>3. t + 1 < Len(row) <=> ~(t + 1 >= Len(row))
    BY <1>6, <1>7
  <2>4. Available' \subseteq FileIds /\ Available \subseteq FileIds
    BY DEF Available
  <2>5. CASE t + 1 >= Len(row)
    <3>1. \A j : j \in Available' <=> j \in Available \ {i}
      BY <2>1, <2>2, <2>3, <2>4, <2>5
    <3> QED
      BY <2>5, <3>1
  <2>6. CASE ~(t + 1 >= Len(row))
    <3>1. \A j : j \in Available' <=> j \in Available
      BY <1>3, <2>1, <2>2, <2>3, <2>4, <2>6
    <3> QED
      BY <2>6, <3>1
  <2> QED
    BY <2>5, <2>6
<1>9. RowsInv'
  <2>1. \A j \in FileIds : iters'[j] <= Len(numbers[j])
    <3>1. t + 1 <= Len(row)
      BY <1>6, <1>7
    <3> QED
      BY <1>5, <3>1 DEF MergeInv, RowsInv
  <2>2. zeros' \in Int /\ Cardinality(Available') <= zeros'
    <3>1. IsFiniteSet(Available) /\ zeros \in Int /\ Cardinality(Available) <= zeros
      BY AvailableFinite DEF MergeInv, RowsInv
    <3>2. Cardinality(Available) \in Nat
      BY <3>1, FS_CardinalityType
    <3>3. Cardinality(Available \ {i}) = Cardinality(Available) - 1
      BY <1>3, <3>1, FS_RemoveElement
    <3>4. CASE t + 1 >= Len(row)
      <4>1. zeros' = zeros - 1 /\ Available' = Available \ {i}
        BY <1>1, <1>5, <1>8, <3>4
      <4> QED
        BY <3>1, <3>2, <3>3, <4>1
    <3>5. CASE ~(t + 1 >= Len(row))
      <4>1. zeros' = zeros /\ Available' = Available
        BY <1>1, <1>5, <1>8, <3>5
      <4> QED
        BY <3>1, <4>1
    <3> QED
      BY <3>4, <3>5
  <2> QED
    BY <1>2, <1>5, <2>1, <2>2 DEF RowsInv
<1> HIDE DEF row, t, x
<1>10. PICK len \in Nat : len = Len(output) /\ DOMAIN output = 1..len
  BY DEF MergeInv, OutputInv
<1>11. /\ output' \in Seq(Int) /\ DOMAIN output' = 1..(len + 1)
       /\ output'[len + 1] = x /\ \A p \in 1..len : output'[p] = output[p]
  <2>1. output \in Seq(Int) /\ output' = Append(output, x)
    BY <1>1 DEF MergeInv, OutputInv, x
  <2> QED
    BY <1>7, <1>10, <2>1
<1>12. \A p \in 1..len : output[p] \in Int /\ output[p] <= x
  <2>1. output \in [1..len -> Int]
    BY <1>10 DEF MergeInv, OutputInv
  <2> QED
    BY <1>3, <1>10, <2>1 DEF MergeInv, OutputInv, x
<1>13. Ascending(output')
  <2> SUFFICES ASSUME NEW p \in 1..(len + 1), NEW q \in 1..(len + 1), p < q
               PROVE  output'[p] <= output'[q]
    BY <1>11 DEF Ascending
  <2>1. p \in 1..len
    OBVIOUS
  <2>2. CASE q \in 1..len
    BY <1>10, <1>11, <2>1, <2>2 DEF MergeInv, OutputInv, Ascending
  <2>3. CASE q = len + 1
    BY <1>11, <1>12, <2>1, <2>3
  <2> QED
    BY <2>2, <2>3
(* The number after x in its row is not smaller.                           *)
<1>14. \A j \in Available' :
          /\ j \in Available /\ x <= NextNumber(j)' /\ NextNumber(j) <= NextNumber(j)'
          /\ NextNumber(j) \in Int /\ NextNumber(j)' \in Int
  <2> SUFFICES ASSUME NEW j \in Available'
               PROVE  j \in Available /\ x <= NextNumber(j)' /\ NextNumber(j) <= NextNumber(j)'
                      /\ NextNumber(j) \in Int /\ NextNumber(j)' \in Int
    OBVIOUS
  <2>1. j \in FileIds /\ j \in Available /\ iters'[j] < Len(numbers[j])
    BY <1>2, <1>8 DEF Available
  <2>2. CASE j # i
    <3>1. NextNumber(j)' = NextNumber(j)
      BY <1>2, <1>5, <2>1, <2>2 DEF NextNumber
    <3>2. iters[j] + 1 \in 1..Len(numbers[j])
      BY <1>4, <1>6, <2>1 DEF Available
    <3>3. NextNumber(j) \in Int
      BY <1>6, <2>1, <3>2 DEF NextNumber
    <3> QED
      BY <1>3, <2>1, <3>1, <3>3 DEF x
  <2>3. CASE j = i
    <3>1. NextNumber(j)' = row[t + 1 + 1] /\ NextNumber(j) = row[t + 1] /\ t + 1 < Len(row)
      BY <1>2, <1>5, <2>1, <2>3 DEF NextNumber, row, t
    <3>2. /\ row \in [1..Len(row) -> Int] /\ Len(row) \in Nat /\ Ascending(row)
          /\ DOMAIN row = 1..Len(row)
      BY <1>2, <1>6, RowsSorted DEF row
    <3>3. t + 1 \in 1..Len(row) /\ t + 1 + 1 \in 1..Len(row) /\ t + 1 < t + 1 + 1
      BY <1>7, <3>1, <3>2
    <3>4. row[t + 1] <= row[t + 1 + 1]
      BY <3>2, <3>3 DEF Ascending
    <3>5. row[t + 1] \in Int /\ row[t + 1 + 1] \in Int
      BY <3>2, <3>3
    <3> QED
      BY <1>7, <2>1, <3>1, <3>4, <3>5
  <2> QED
    BY <2>2, <2>3
<1>15. \A p \in DOMAIN output', j \in Available' : output'[p] <= NextNumber(j)'
  <2> SUFFICES ASSUME NEW p \in 1..(len + 1), NEW j \in Available'
               PROVE  output'[p] <= NextNumber(j)'
    BY <1>11
  <2>1. CASE p \in 1..len
    BY <1>7, <1>11, <1>12, <1>14, <2>1
  <2>2. CASE p = len + 1
    BY <1>11, <1>14, <2>2
  <2> QED
    BY <2>1, <2>2
<1>16. \E w : Matches(w, output', DOMAIN output', NumberAt', Before')
  <2>1. PICK w : Matches(w, output, DOMAIN output, NumberAt, Before)
    BY DEF MergeInv, OutputInv
  <2> DEFINE place == <<i, t + 1>>
             v == [p \in 1..(len + 1) |-> IF p = len + 1 THEN place ELSE w[p]]
  <2>2. NumberAt' = NumberAt
    BY <1>2 DEF NumberAt
  <2>3. Before' = Before \cup {place} /\ place \notin Before
    <3>1. place \in FileIds \X Nat /\ place[1] = i /\ place[2] = t + 1
      BY <1>7
    <3>2. place \notin Before /\ place \in Before'
      BY <1>5, <1>7, <3>1 DEF Before, t
    <3>3. ASSUME NEW q \in FileIds \X Nat, q # place PROVE q \in Before' <=> q \in Before
      <4>1. CASE q[1] = i
        <5>1. q[2] # t + 1 /\ q[2] \in Nat
          BY <3>3, <4>1
        <5>2. q[2] <= t + 1 <=> q[2] <= t
          BY <1>7, <5>1
        <5> QED
          BY <1>5, <4>1, <5>2 DEF Before, t
      <4>2. CASE q[1] # i
        <5>1. iters'[q[1]] = iters[q[1]]
          BY <1>5, <4>2
        <5> QED
          BY <5>1 DEF Before
      <4> QED
        BY <4>1, <4>2
    <3>4. Before \subseteq FileIds \X Nat /\ Before' \subseteq FileIds \X Nat
      BY DEF Before
    <3> HIDE DEF place
    <3> QED
      BY <3>2, <3>3, <3>4
  <2>4. NumberAt[place] = x
    BY <1>7 DEF NumberAt, row
  <2>5. /\ w \in [1..len -> Before]
        /\ \A p, q \in 1..len : w[p] = w[q] => p = q
        /\ \A b \in Before : \E p \in 1..len : w[p] = b
        /\ \A p \in 1..len : output[p] = NumberAt[w[p]]
    BY <1>10, <2>1 DEF Matches
  <2> HIDE DEF place
  <2>6. v[len + 1] = place /\ v = [p \in 1..(len + 1) |-> v[p]]
    OBVIOUS
  <2>7. \A p \in 1..len : p \in 1..(len + 1) /\ p # len + 1 /\ v[p] = w[p] /\ v[p] \in Before
    BY <2>5
  <2>8. \A p \in 1..(len + 1) : p \in 1..len \/ p = len + 1
    OBVIOUS
  <2> HIDE DEF v
  <2>9. v \in [1..(len + 1) -> Before']
    <3>1. \A p \in 1..(len + 1) : v[p] \in Before'
      BY <2>3, <2>6, <2>7, <2>8
    <3> QED
      BY <2>6, <3>1
  <2>10. \A p, q \in 1..(len + 1) : v[p] = v[q] => p = q
    BY <2>3, <2>5, <2>6, <2>7, <2>8
  <2>11. \A b \in Before' : \E p \in 1..(len + 1) : v[p] = b
    <3>1. len + 1 \in 1..(len + 1)
      OBVIOUS
    <3> QED
      BY <2>3, <2>5, <2>6, <2>7, <3>1
  <2>12. \A p \in 1..(len + 1) : output'[p] = NumberAt[v[p]]
    BY <1>11, <2>4, <2>5, <2>6, <2>7, <2>8
  <2>13. Matches(v, output', 1..(len + 1), NumberAt, Before')
    BY <2>9, <2>10, <2>11, <2>12 DEF Matches
  <2> QED
    BY <1>11, <2>2, <2>13
<1>17. OutputInv'
  BY <1>11, <1>13, <1>15, <1>16 DEF OutputInv
<1> QED
  BY <1>9, <1>17 DEF MergeInv

(* Every step keeps the invariant.                                         *)
LEMMA MergeInvStep == SortInv /\ DataInv /\ DataInv' /\ MergeInv /\ [SortNext]_all => MergeInv'
<1>0. DataInv' /\ Untouched' => MergeInv'
  BY BeforeMerge, PTL
<1> SUFFICES ASSUME SortInv, DataInv, DataInv', MergeInv, [SortNext]_all PROVE MergeInv'
  OBVIOUS
<1>1. ASSUME phase \notin {"merge", "done"}, phase' # "done", UNCHANGED <<iters, zeros, output>>
      PROVE  MergeInv'
  <2>1. Untouched'
    BY <1>1 DEF MergeInv, RowsInv, Untouched
  <2> QED
    BY <1>0, <2>1
<1>2. ASSUME UNCHANGED <<numbers, iters, zeros, output, phase>>
      PROVE  MergeInv'
  <2>1. UNCHANGED <<Available, Before, NumberAt>> /\ \A i : NextNumber(i)' = NextNumber(i)
    BY <1>2 DEF Available, Before, NumberAt, NextNumber
  <2> QED
    BY <1>2, <2>1 DEF MergeInv, RowsInv, OutputInv
<1>3. CASE Create \/ AllReturned
  BY <1>1, <1>3 DEF Create, AllReturned, merge
<1>4. CASE Scheduler
  BY <1>2, <1>4 DEF Scheduler, merge, pool
<1>5. CASE WriteNumber
  BY <1>5, WriteNumberMerges
<1>6. CASE Written
  <2>1. /\ phase = "merge" /\ phase' = "done"
        /\ UNCHANGED <<numbers, iters, zeros, output>>
    BY <1>6 DEF Written, pool, merge
  <2>2. Available = {}
    <3>1. ASSUME zeros = 0 PROVE Available = {}
      <4>1. IsFiniteSet(Available) /\ Cardinality(Available) <= 0
        BY <3>1, AvailableFinite DEF MergeInv, RowsInv
      <4>2. Cardinality(Available) \in Nat
        BY <4>1, FS_CardinalityType
      <4>3. Cardinality(Available) = 0
        BY <4>1, <4>2
      <4> QED
        BY <4>1, <4>3, FS_EmptySet
    <3> QED
      BY <1>6, <3>1 DEF Written
  <2>3. UNCHANGED <<Available, Before, NumberAt>> /\ \A i : NextNumber(i)' = NextNumber(i)
    BY <2>1 DEF Available, Before, NumberAt, NextNumber
  <2> QED
    BY <2>1, <2>2, <2>3 DEF MergeInv, RowsInv, OutputInv
<1>7. CASE \E c \in Coros : MergeStep(c) \/ PassEnd(c) \/ Return(c)
  BY <1>1, <1>7 DEF MergeStep, PassEnd, Return, AtHead, merge
<1>8. CASE \E c \in Coros, f \in FileIds : TakeFile(c, f) \/ TakeEmptyFile(c, f)
  BY <1>1, <1>8 DEF TakeFile, TakeEmptyFile, AtHead, merge
<1>9. CASE UNCHANGED all
  BY <1>2, <1>9 DEF all, pool, merge
<1> QED
  BY <1>3, <1>4, <1>5, <1>6, <1>7, <1>8, <1>9 DEF SortNext

(* At the end every place of every file has been written from.             *)
LEMMA AllWritten ==
    ASSUME SortInv, DataInv, MergeInv, phase = "done", MaxCoros > 0, NEW v
    PROVE  Count(v, output) = Cardinality({p \in Places : content[p[1]][p[2]] = v})
<1>1. \A f \in FileIds : processed[f]
  <2>1. 1 \in 1..made /\ Returned(1)
    BY MaxCorosAssumption DEF MaxCorosAssumption, SortInv, PhaseInv, Returned
  <2> QED
    BY <2>1 DEF SortInv, ClaimInv
<1>2. \A f \in FileIds : /\ Len(numbers[f]) \in Nat /\ DOMAIN numbers[f] = 1..Len(numbers[f])
                         /\ Rearranges(numbers[f], content[f])
  <2>1. \A f \in FileIds : numbers[f] \in Seq(Int)
    BY DEF DataInv, NumbersInv
  <2>2. \A f \in FileIds : Rearranges(numbers[f], content[f])
    BY <1>1 DEF DataInv, NumbersInv
  <2> QED
    BY <2>1, <2>2
<1>3. \A f \in FileIds : iters[f] = Len(numbers[f])
  <2>1. \A f \in FileIds : iters[f] \in Nat /\ iters[f] <= Len(numbers[f]) /\ f \notin Available
    BY DEF MergeInv, RowsInv
  <2> QED
    BY <1>2, <2>1 DEF Available
<1>4. \A f \in FileIds : /\ DOMAIN content[f] = 1..iters[f]
                         /\ \E p : Matches(p, numbers[f], 1..iters[f], content[f], 1..iters[f])
  BY <1>2, <1>3, RearrangesAll
<1> DEFINE perm == [f \in FileIds |->
                       CHOOSE p : Matches(p, numbers[f], 1..iters[f], content[f], 1..iters[f])]
           h == [q \in Before |-> <<q[1], perm[q[1]][q[2]]>>]
           ContentAt == [q \in Places |-> content[q[1]][q[2]]]
<1>5. \A f \in FileIds : Matches(perm[f], numbers[f], 1..iters[f], content[f], 1..iters[f])
  BY <1>4
<1> HIDE DEF perm
<1>6. \A f \in FileIds :
        /\ perm[f] \in [1..iters[f] -> 1..iters[f]]
        /\ \A j, k \in 1..iters[f] : perm[f][j] = perm[f][k] => j = k
        /\ \A j \in 1..iters[f] : \E k \in 1..iters[f] : perm[f][k] = j
        /\ \A k \in 1..iters[f] : numbers[f][k] = content[f][perm[f][k]]
  BY <1>5 DEF Matches
<1>7. \A f, k : <<f, k>> \in Before <=> f \in FileIds /\ k \in 1..iters[f]
  <2>1. \A f \in FileIds : iters[f] \in Nat
    BY DEF MergeInv, RowsInv
  <2>2. \A f \in FileIds, k \in Nat : k \in 1..iters[f] <=> 1 <= k /\ k <= iters[f]
    BY <2>1
  <2>3. \A f \in FileIds : \A k \in 1..iters[f] : k \in Nat
    BY <2>1
  <2> QED
    BY <2>2, <2>3 DEF Before
<1>8. \A f, k : <<f, k>> \in Places <=> f \in FileIds /\ k \in 1..iters[f]
  <2> SUFFICES ASSUME NEW f, NEW k
               PROVE  <<f, k>> \in Places <=> f \in FileIds /\ k \in 1..iters[f]
    OBVIOUS
  <2>1. <<f, k>> \in Places <=> \E g \in FileIds : <<f, k>> \in {g} \X DOMAIN content[g]
    BY DEF Places
  <2>2. \A g : <<f, k>> \in {g} \X DOMAIN content[g] <=> f = g /\ k \in DOMAIN content[g]
    OBVIOUS
  <2> QED
    BY <1>4, <2>1, <2>2
<1>9. \A q \in Before : \E f \in FileIds, k \in Nat : k \in 1..iters[f] /\ q = <<f, k>>
  <2> TAKE q \in Before
  <2>1. q \in FileIds \X Nat
    BY DEF Before
  <2>2. q = <<q[1], q[2]>>
    BY <2>1
  <2> QED
    BY <1>7, <2>2
<1>10. \A q \in Places : \E f \in FileIds, k \in Nat : k \in 1..iters[f] /\ q = <<f, k>>
  <2> TAKE q \in Places
  <2>1. PICK f \in FileIds : q \in {f} \X DOMAIN content[f]
    BY DEF Places
  <2>2. q = <<f, q[2]>>
    BY <2>1
  <2> QED
    BY <1>8, <2>2
<1>11. \A f \in FileIds : \A k \in 1..iters[f] :
         /\ <<f, k>> \in Before /\ h[<<f, k>>] = <<f, perm[f][k]>>
         /\ <<f, perm[f][k]>> \in Places
         /\ NumberAt[<<f, k>>] = numbers[f][k]
         /\ ContentAt[<<f, perm[f][k]>>] = content[f][perm[f][k]]
  <2> TAKE f \in FileIds
  <2> TAKE k \in 1..iters[f]
  <2>1. <<f, k>> \in Before /\ perm[f][k] \in 1..iters[f]
    BY <1>6, <1>7
  <2>2. <<f, perm[f][k]>> \in Places
    BY <1>8, <2>1
  <2>3. <<f, k>> \in FileIds \X Nat
    BY <2>1 DEF Before
  <2>4. NumberAt[<<f, k>>] = numbers[f][k]
    BY <2>3 DEF NumberAt
  <2> QED
    BY <2>1, <2>2, <2>4
<1> HIDE DEF h, ContentAt
<1>12. Matches(h, NumberAt, Before, ContentAt, Places)
  <2>1. h \in [Before -> Places]
    <3>1. ASSUME NEW q \in Before PROVE h[q] \in Places
      <4>1. PICK f \in FileIds, k \in Nat : k \in 1..iters[f] /\ q = <<f, k>>
        BY <1>9
      <4>2. h[<<f, k>>] \in Places
        BY <1>11, <4>1
      <4> QED
        BY <4>1, <4>2
    <3>2. h = [q \in Before |-> h[q]]
      BY DEF h
    <3> QED
      BY <3>1, <3>2
  <2>2. ASSUME NEW p \in Before, NEW q \in Before, h[p] = h[q] PROVE p = q
    <3>1. PICK f \in FileIds, k \in Nat : k \in 1..iters[f] /\ p = <<f, k>>
      BY <1>9
    <3>2. PICK g \in FileIds, j \in Nat : j \in 1..iters[g] /\ q = <<g, j>>
      BY <1>9
    <3>3. <<f, perm[f][k]>> = <<g, perm[g][j]>>
      <4>1. h[<<f, k>>] = <<f, perm[f][k]>> /\ h[<<g, j>>] = <<g, perm[g][j]>>
        BY <1>11, <3>1, <3>2
      <4> QED
        BY <2>2, <3>1, <3>2, <4>1
    <3>4. f = g /\ perm[f][k] = perm[f][j]
      BY <3>3
    <3>5. k = j
      BY <1>6, <3>1, <3>2, <3>4
    <3> QED
      BY <3>1, <3>2, <3>4, <3>5
  <2>3. ASSUME NEW t \in Places PROVE \E q \in Before : h[q] = t
    <3>1. PICK f \in FileIds, j \in Nat : j \in 1..iters[f] /\ t = <<f, j>>
      BY <1>10
    <3>2. PICK k \in 1..iters[f] : perm[f][k] = j
      BY <1>6, <3>1
    <3> QED
      BY <1>11, <3>1, <3>2
  <2>4. ASSUME NEW q \in Before PROVE NumberAt[q] = ContentAt[h[q]]
    <3>1. PICK f \in FileIds, k \in Nat : k \in 1..iters[f] /\ q = <<f, k>>
      BY <1>9
    <3>2. NumberAt[<<f, k>>] = numbers[f][k] /\ h[<<f, k>>] = <<f, perm[f][k]>>
      BY <1>11, <3>1
    <3>3. ContentAt[<<f, perm[f][k]>>] = content[f][perm[f][k]]
      BY <1>11, <3>1
    <3>4. numbers[f][k] = content[f][perm[f][k]]
      BY <1>6, <3>1
    <3> QED
      BY <3>1, <3>2, <3>3, <3>4
  <2> QED
    BY <2>1, <2>2, <2>3, <2>4 DEF Matches
<1>13. IsFiniteSet(Before) /\ Occurs(v, output, DOMAIN output) = Occurs(v, NumberAt, Before)
  <2>1. PICK w : Matches(w, output, DOMAIN output, NumberAt, Before)
    BY DEF MergeInv, OutputInv
  <2>2. IsFiniteSet(DOMAIN output)
    <3>1. PICK len \in Nat : DOMAIN output = 1..len
      BY DEF MergeInv, OutputInv
    <3> QED
      BY <3>1, FS_Interval
  <2> QED
    BY <2>1, <2>2, OccursAlike
<1>14. Occurs(v, NumberAt, Before) = Occurs(v, ContentAt, Places)
  BY <1>12, <1>13, OccursAlike
<1>15. {p \in Places : ContentAt[p] = v} = {p \in Places : content[p[1]][p[2]] = v}
  BY DEF ContentAt
<1> QED
  BY <1>13, <1>14, <1>15 DEF Count, Occurs

(* For any number of coroutines and files, and files of any length: what   *)
(* write_result_to_file() has written is in order at every moment, and at  *)
(* the end it is each number of each file as often as it is there.         *)
THEOREM CoroSortOutputIsSortedUnion == SortSpec => []OutputIsSortedUnion
<1>1. SortInit => MergeInv
  <2> SUFFICES ASSUME SortInit PROVE MergeInv
    OBVIOUS
  <2>1. Untouched
    BY DEF SortInit, Untouched
  <2> QED
    BY <2>1, DataInit, BeforeMerge
<1>2. ASSUME SortInv, DataInv, MergeInv PROVE OutputIsSortedUnion
  BY <1>2, AllWritten DEF OutputIsSortedUnion, MergeInv, OutputInv
<1>3. SortInv /\ DataInv /\ MergeInv /\ [SortNext]_all => (SortInv /\ DataInv /\ MergeInv)'
  BY SortStep, DataStep, MergeInvStep
<1> QED
  BY <1>1, <1>2, <1>3, SortInitInvariant, DataInit, PTL DEF SortSpec
=============================================================================
