---------------------------- MODULE SimpleSort ----------------------------
(***************************************************************************)
(* lecture_examples/7_ipc/1_simple_sort.c: the files are sorted one after  *)
(* the other and the sorted arrays are put together.  It is what the       *)
(* programs of ParallelSort compute with a process per file.               *)
(***************************************************************************)
EXTENDS Integers, Sequences, SequencesExt

CONSTANT Inputs         \* the files' numbers: a set of sequences of sequences

VARIABLES
    files, missing,     \* the program's arguments, and which of them fopen() cannot open
    array,              \* the arrays of the workers done so far
    total,              \* total_array
    state               \* "running", "done" or "crashed"

vars == <<files, missing, array, total, state>>

(* qsort() with cmp(), for numbers whose difference is an int.             *)
qsort(numbers) ==
    LET order == CHOOSE p \in Permutations(DOMAIN numbers) :
                     \A k, l \in DOMAIN numbers : k < l => numbers[p[k]] <= numbers[p[l]]
    IN  [k \in DOMAIN numbers |-> numbers[order[k]]]

(* The sorted arrays one after the other.                                  *)
Concatenated(arrays) == FlattenSeq(arrays)

Init ==
    /\ files \in Inputs
    /\ missing \in SUBSET DOMAIN files
    /\ array = <<>> /\ total = <<>>
    /\ state = "running"

(* fscanf() on the NULL that fopen() returned ends the program.            *)
sorter ==
    /\ state = "running" /\ Len(array) < Len(files)
    /\ LET i == Len(array) + 1
       IN  IF i \in missing
           THEN state' = "crashed" /\ UNCHANGED array
           ELSE array' = Append(array, qsort(files[i])) /\ UNCHANGED state
    /\ UNCHANGED <<files, missing, total>>

main ==
    /\ state = "running" /\ Len(array) = Len(files)
    /\ total' = Concatenated(array)
    /\ state' = "done"
    /\ UNCHANGED <<files, missing, array>>

Next == sorter \/ main
Spec == Init /\ [][Next]_vars
=============================================================================
