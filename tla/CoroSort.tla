------------------------------ MODULE CoroSort ------------------------------
(***************************************************************************)
(* 1/solution/solution.c: a pool of coroutines reads and sorts files, then *)
(* main merges the sorted arrays.  The coroutines run on the scheduler of  *)
(* CoroSched (which Libcoro implements): a step here is the code between   *)
(* two switches, and it ends with CoroSched's Yield or Finish.             *)
(*                                                                         *)
(* Arrays are sequences; an index of the C code is one less than here.     *)
(***************************************************************************)
EXTENDS CoroSched, FiniteSetsExt, SequencesExt

CONSTANTS Files,        \* bound: the number of files on the command line
          Values,       \* the numbers that can be in a file
          MaxLength,    \* bound: how many numbers a file holds
          MaxTotal      \* bound: how many numbers all the files hold

ASSUME CoroSortAssumption == /\ {Files, MaxLength, MaxTotal} \subseteq Nat
                             /\ Values \subseteq Int

FileIds == 1..Files
NONE == 0

VARIABLES
    content,            \* the numbers in each file
    processed,          \* struct coro_file's claim
    numbers,            \* the array read from each file
    at,                 \* where each coroutine was suspended
    file,               \* intermediate()'s local of each coroutine
    size, left,         \* me_mergesort()'s curr_size and left_start
    yields,             \* coro_switch_count() of each coroutine
    switch_count,       \* struct coro_args: the count it reports,
    t_invoked,          \* the time of the last resumption
    t_summary,          \* and the working time
    now, worked,        \* the clock, and how long each coroutine really ran
    reads,              \* how often each file has been read
    phase,              \* of main: "create", "wait", "merge", "done", "exited"
    iters, zeros,       \* write_result_to_file()'s positions and counter
    output

pool  == <<content, processed, numbers, reads>>
coros == <<at, file, size, left, yields, switch_count, t_invoked, t_summary, worked>>
merge == <<iters, zeros, output>>
all   == <<vars, pool, coros, now, phase, merge>>

Arrays == UNION {[1..n -> Values] : n \in 0..MaxLength}

SortInit ==
    /\ Init
    /\ content \in [FileIds -> Arrays]
    /\ Len(FlattenSeq(content)) <= MaxTotal
    /\ processed = [f \in FileIds |-> FALSE]
    /\ numbers = [f \in FileIds |-> <<>>]
    /\ at = [c \in Coros |-> "start"]
    /\ file = [c \in Coros |-> NONE]
    /\ size = [c \in Coros |-> 1] /\ left = [c \in Coros |-> 0]
    /\ yields = [c \in Coros |-> 0]
    /\ switch_count = [c \in Coros |-> 0]
    /\ t_invoked = [c \in Coros |-> 0] /\ t_summary = [c \in Coros |-> 0]
    /\ now = 0 /\ worked = [c \in Coros |-> 0]
    /\ reads = [f \in FileIds |-> 0]
    /\ phase = "create"
    /\ iters = [f \in FileIds |-> 0] /\ zeros = Files /\ output = <<>>

-----------------------------------------------------------------------------
(* Merging and sorting.                                                    *)

(* me_merge()'s three loops: how many of the first k numbers they take     *)
(* from l.  The right element goes first on a tie.                         *)
FromLeft(l, r) ==
    LET taken[k \in 0..(Len(l) + Len(r))] ==
          IF k = 0 THEN 0
          ELSE LET i == taken[k - 1] + 1
                   j == k - taken[k - 1]
               IN  IF i <= Len(l) /\ (j > Len(r) \/ l[i] < r[j]) THEN i ELSE taken[k - 1]
    IN  taken

Merged(l, r) ==
    LET n == FromLeft(l, r)
    IN  [k \in 1..(Len(l) + Len(r)) |-> IF n[k] = n[k - 1] THEN r[k - n[k]] ELSE l[n[k]]]

(* me_merge(array, lhs, mid, rhs), with C's indices.                       *)
me_merge(array, lhs, mid, rhs) ==
    SubSeq(array, 1, lhs)
      \o Merged(SubSeq(array, lhs + 1, mid + 1), SubSeq(array, mid + 2, rhs + 1))
      \o SubSeq(array, rhs + 2, Len(array))

Least(a, b) == IF a < b THEN a ELSE b

(* One iteration of me_mergesort()'s inner loop.                           *)
MergeAt(array, cs, ls) ==
    LET last == Len(array) - 1
    IN  me_merge(array, ls, Least(ls + cs - 1, last), Least(ls + 2 * cs - 1, last))

(* curr_size and left_start once coroutine c goes on.                      *)
CurrSize(c)  == CASE at[c] = "read"   -> 1
                  [] at[c] = "passed" -> 2 * size[c]
                  [] OTHER            -> size[c]
(* A mutant: left_start moves on by one block, not by two. *)
LeftStart_one_block(c) == IF at[c] = "merged" THEN left[c] + size[c] ELSE 0

LeftStart(c) == IF at[c] = "merged" THEN left[c] + 2 * size[c] ELSE 0

Rhs(c) == Len(numbers[file[c]])
InSort(c) == at[c] # "start" /\ CurrSize(c) <= Rhs(c)

-----------------------------------------------------------------------------
(* The coroutines.                                                         *)

(* The clock is read in five places.  RestartPlaces are those where a      *)
(* coroutine sets t_invoked as it goes on, StopPlaces those where it adds  *)
(* the time since then to t_summary before it gives up control.            *)

(* A mutant: the clock is not read again after the yield at a pass's end. *)
RestartPlaces_not_passed == {"start", "read", "merged"}

RestartPlaces == {"start", "read", "merged", "passed"}
StopPlaces    == {"read", "merged", "passed", "return"}

(* c executes for a while, from where it was suspended to `place`.         *)
Clocked(c, place) ==
    /\ now' = now + 1
    /\ worked' = [worked EXCEPT ![c] = @ + 1]
    /\ t_invoked' = [t_invoked EXCEPT ![c] = IF at[c] \in RestartPlaces THEN now ELSE @]
    /\ t_summary' = [t_summary EXCEPT ![c] =
                        IF place \in StopPlaces THEN @ + (now' - t_invoked'[c]) ELSE @]

(* coro_yield() as the client sees it: the turn moves on, c is suspended   *)
(* at `place` and its switch count grows.                                  *)
coro_yield(c, place) ==
    /\ Yield
    /\ Clocked(c, place)
    /\ at' = [at EXCEPT ![c] = place]
    /\ yields' = [yields EXCEPT ![c] = @ + 1]

(* A merge in me_mergesort(), and the coro_yield() after it.               *)
MergeStep(c) ==
    /\ turn = c /\ phase = "wait"
    /\ InSort(c)
    /\ LeftStart(c) < Rhs(c) - 1
    /\ numbers' = [numbers EXCEPT ![file[c]] = MergeAt(@, CurrSize(c), LeftStart(c))]
    /\ size' = [size EXCEPT ![c] = CurrSize(c)]
    /\ left' = [left EXCEPT ![c] = LeftStart(c)]
    /\ coro_yield(c, "merged")
    /\ UNCHANGED <<content, processed, reads, file, switch_count, phase, merge>>

(* The end of the inner loop, and the coro_yield() after it.               *)
PassEnd(c) ==
    /\ turn = c /\ phase = "wait"
    /\ InSort(c)
    /\ LeftStart(c) >= Rhs(c) - 1
    /\ size' = [size EXCEPT ![c] = CurrSize(c)]
    /\ coro_yield(c, "passed")
    /\ UNCHANGED <<pool, file, left, switch_count, phase, merge>>

(* c is at the head of intermediate()'s loop, having just started or just  *)
(* left me_mergesort(), which reports the switch count last of all.        *)
AtHead(c) == turn = c /\ phase = "wait" /\ ~InSort(c)
Reported(c) == [switch_count EXCEPT ![c] = IF at[c] = "start" THEN @ ELSE yields[c]]

(* get_file(): the first file nobody has claimed.                          *)
get_file(f) == ~processed[f] /\ \A g \in FileIds : g < f => processed[g]

(* A mutant: the file is claimed only when the coroutine comes back to it. *)
TakeFile_late(c, f) ==
    /\ AtHead(c)
    /\ get_file(f)
    /\ content[f] # <<>>
    /\ processed' = [processed EXCEPT ![f] = file[c] = f]
    /\ numbers' = [numbers EXCEPT ![f] = content[f]]
    /\ reads' = [reads EXCEPT ![f] = @ + 1]
    /\ file' = [file EXCEPT ![c] = f]
    /\ switch_count' = Reported(c)
    /\ coro_yield(c, "read")
    /\ UNCHANGED <<content, size, left, phase, merge>>

(* Claim the next file and read it in one go, then yield.                  *)
TakeFile(c, f) ==
    /\ AtHead(c)
    /\ get_file(f)
    /\ content[f] # <<>>
    /\ processed' = [processed EXCEPT ![f] = TRUE]
    /\ numbers' = [numbers EXCEPT ![f] = content[f]]
    /\ reads' = [reads EXCEPT ![f] = @ + 1]
    /\ file' = [file EXCEPT ![c] = f]
    /\ switch_count' = Reported(c)
    /\ coro_yield(c, "read")
    /\ UNCHANGED <<content, size, left, phase, merge>>

(* read_file() of an empty file: realloc(temp, 0) returns NULL (glibc), is *)
(* taken for a lack of memory, and the program exits.                      *)
TakeEmptyFile(c, f) ==
    /\ AtHead(c)
    /\ get_file(f)
    /\ content[f] = <<>>
    /\ processed' = [processed EXCEPT ![f] = TRUE]
    /\ switch_count' = Reported(c)
    /\ phase' = "exited"
    /\ UNCHANGED <<vars, content, numbers, reads, at, file, size, left, yields,
                   t_invoked, t_summary, worked, now, merge>>

(* No file is left: intermediate() returns.                                *)
Return(c) ==
    /\ AtHead(c)
    /\ ~\E f \in FileIds : get_file(f)
    /\ Finish
    /\ Clocked(c, "return")
    /\ switch_count' = Reported(c)
    /\ UNCHANGED <<pool, at, file, size, left, yields, phase, merge>>

-----------------------------------------------------------------------------
(* main.                                                                   *)

(* The pool is created, then coro_sched_wait() is called until it returns  *)
(* NULL.  Reap and coro_delete() of its result go together.                *)
Create ==
    /\ phase = "create"
    /\ New
    /\ phase' = IF made' = MaxCoros THEN "wait" ELSE "create"
    /\ UNCHANGED <<pool, coros, now, merge>>


Scheduler ==
    /\ phase = "wait"
    /\ Wait \/ (\E c \in Coros : Reap(c)) \/ Dispatch
    /\ UNCHANGED <<pool, coros, now, phase, merge>>

AllReturned ==
    /\ phase = "wait"
    /\ WaitNothing
    /\ phase' = "merge"
    /\ UNCHANGED <<pool, coros, now, merge>>

(* write_result_to_file(): the row the next number is taken from.  The     *)
(* first loop leaves the last row that has numbers left, the second moves  *)
(* to an earlier row only for a smaller number.                            *)
Available == {i \in FileIds : iters[i] < Len(numbers[i])}
NextNumber(i) == numbers[i][iters[i] + 1]
IsMinIdx(i) ==
    /\ i \in Available
    /\ \A j \in Available : NextNumber(i) <= NextNumber(j)
    /\ LET last == Max(Available)
       IN  IF NextNumber(last) = NextNumber(i) THEN i = last
           ELSE \A j \in Available : j < i => NextNumber(j) > NextNumber(i)

(* A mutant: a row counts as finished one number too early. *)
WriteNumber_early ==
    /\ phase = "merge"
    /\ zeros > 0
    /\ \E i \in FileIds :
          /\ IsMinIdx(i)
          /\ output' = Append(output, NextNumber(i))
          /\ iters' = [iters EXCEPT ![i] = @ + 1]
          /\ zeros' = IF iters'[i] >= Len(numbers[i]) - 1 THEN zeros - 1 ELSE zeros
    /\ UNCHANGED <<vars, pool, coros, now, phase>>

WriteNumber ==
    /\ phase = "merge"
    /\ zeros > 0
    /\ \E i \in FileIds :
          /\ IsMinIdx(i)
          /\ output' = Append(output, NextNumber(i))
          /\ iters' = [iters EXCEPT ![i] = @ + 1]
          /\ zeros' = IF iters'[i] >= Len(numbers[i]) THEN zeros - 1 ELSE zeros
    /\ UNCHANGED <<vars, pool, coros, now, phase>>

Written ==
    /\ phase = "merge"
    /\ zeros = 0 \/ Available = {}
    /\ phase' = "done"
    /\ UNCHANGED <<vars, pool, coros, now, merge>>

SortNext ==
    \/ Create
    \/ Scheduler
    \/ AllReturned
    \/ WriteNumber
    \/ Written
    \/ \E c \in Coros : MergeStep(c) \/ PassEnd(c) \/ Return(c)
    \/ \E c \in Coros, f \in FileIds : TakeFile(c, f) \/ TakeEmptyFile(c, f)

(* One thread, which runs as long as it can.                               *)
SortSpec == SortInit /\ [][SortNext]_all /\ WF_all(SortNext)
-----------------------------------------------------------------------------
Ascending(s) == \A p, q \in DOMAIN s : p < q => s[p] <= s[q]
Count(v, s) == Cardinality({k \in DOMAIN s : s[k] = v})
SameNumbers(s, t) == \A v \in Values : Count(v, s) = Count(v, t)

(* me_mergesort()'s loop invariant, over interruptions by other coroutines *)
(* at every merge: the blocks of curr_size numbers are sorted, those left  *)
(* of left_start already have twice that size, and no number is lost.      *)
BlocksSorted ==
    \A c \in Coros : file[c] # NONE =>
        LET a  == numbers[file[c]]
            cs == CurrSize(c)
            SortedBlock(i, n) == Ascending(SubSeq(a, i + 1, Least(i + n, Len(a))))
        IN  /\ SameNumbers(a, content[file[c]])
            /\ \A k \in 0..Len(a) : SortedBlock(k * cs, cs)
            /\ \A k \in 0..Len(a) : 2 * k * cs < LeftStart(c) => SortedBlock(2 * k * cs, 2 * cs)

(* The claim in `processed`, tested and set before the first yield over a  *)
(* file, gives every file to one coroutine only, once; and none is left    *)
(* when all coroutines have returned.                                      *)
EveryFileReadOnce ==
    /\ \A f \in FileIds : reads[f] <= 1
    /\ phase \in {"merge", "done"} /\ MaxCoros > 0 => \A f \in FileIds : reads[f] = 1

(* output.txt holds all the numbers of all the files, in order; the loop   *)
(* may neither stop early when rows run out at different times nor read    *)
(* past the end of one (`zeros` is the count of rows that have not).       *)
Places == UNION {{f} \X DOMAIN content[f] : f \in FileIds}
OutputIsSortedUnion ==
    /\ Ascending(output)
    /\ phase = "done" /\ MaxCoros > 0 =>
           \A v \in Values : Count(v, output) = Cardinality({p \in Places : content[p[1]][p[2]] = v})

(* What main() prints of a coroutine is exact: the switch count is the one *)
(* libcoro has, though it is copied at the end of each sort and the        *)
(* coroutine goes on, and the working time excludes the time in which      *)
(* other coroutines ran (task_eng.txt asks for exactly this).              *)
ReportExact ==
    \A c \in Coros : /\ phase \in {"merge", "done"} => switch_count[c] = yields[c]
                     /\ t_summary[c] = worked[c]

=============================================================================
