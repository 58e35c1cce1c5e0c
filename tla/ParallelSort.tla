--------------------------- MODULE ParallelSort ---------------------------
(***************************************************************************)
(* lecture_examples/7_ipc/2_parallel_sort.c and 3_mem_sort.c: a process    *)
(* per file sorts it and sends the array to its parent, through a pipe or  *)
(* through a page of shared memory that two flags hand to and fro.         *)
(*                                                                         *)
(* An int is IntUnits units of data, and the shared page is no multiple of *)
(* it (65534 bytes): numbers are cut in two.  A step is one access to a    *)
(* flag, one copy, or one system call.                                     *)
(***************************************************************************)
EXTENDS Integers, Sequences, SequencesExt, FiniteSetsExt

CONSTANTS Inputs,       \* as in SimpleSort
          IntUnits,     \* units of an int
          MemUnits,     \* units of the shared page after its flags
          PipeUnits,    \* units a pipe holds
          Leftovers     \* arrays that memory from malloc() may show when nothing was read

VARIABLES
    via,                \* the program: "pipe" or "mem"
    files, missing,
    pc, part, src,      \* of a worker: its step, what it sends, the units still to send
    chan,               \* of a worker: the page with its flags, and the pipe
    mpc, what, dst, need,   \* of main(): its step, what it reads, read and missing units
    reaped,             \* children that wait() returned
    array, total

workerVars == <<pc, part, src>>
mainVars == <<mpc, what, dst, need, reaped, array, total>>
vars == <<via, files, missing, workerVars, chan, mainVars>>

Workers == DOMAIN files
Outcome == IF mpc = "done" THEN "done" ELSE "running"
Simple == INSTANCE SimpleSort WITH state <- Outcome

Encode(numbers) ==
    [k \in 1..Len(numbers) * IntUnits |->
        <<numbers[(k - 1) \div IntUnits + 1], (k - 1) % IntUnits>>]
GARBAGE == -1
Decode(units) ==
    [k \in 1..Len(units) \div IntUnits |->
        LET first == (k - 1) * IntUnits + 1
            number == units[first][1]
        IN  IF \A h \in 0..IntUnits - 1 : units[first + h] = <<number, h>>
            THEN number ELSE GARBAGE]

Take(s, n) == SubSeq(s, 1, n)
Drop(s, n) == SubSeq(s, n + 1, Len(s))
(* to_copy of both ends, which compute it each from its own size.          *)
ToCopy(size) == Min({MemUnits, size})

InitWith(v, f, m) ==
    /\ via = v /\ files = f /\ missing = m
    /\ pc = [w \in Workers |-> "unborn"]
    /\ part = [w \in Workers |-> "size"]
    /\ src = [w \in Workers |-> <<>>]
    /\ chan = [w \in Workers |-> [mem |-> <<>>, readable |-> FALSE, writable |-> TRUE,
                                  pipe |-> <<>>]]
    /\ mpc = "fork" /\ what = "size" /\ dst = <<>> /\ need = IntUnits
    /\ reaped = {} /\ array = <<>> /\ total = <<>>
Init == \E v \in {"pipe", "mem"}, f \in Inputs :
            \E m \in SUBSET DOMAIN f : InitWith(v, f, m)

-----------------------------------------------------------------------------
Goto(w, step) == pc' = [pc EXCEPT ![w] = step]
Transfer(w) == Goto(w, IF via = "mem" THEN "wait" ELSE "write")

(* sorter() up to its first write; without its file the process crashes.   *)
sorter(w) ==
    /\ pc[w] = "sorter"
    /\ IF w \in missing
       THEN Goto(w, "exited") /\ UNCHANGED src
       ELSE Transfer(w) /\ src' = [src EXCEPT ![w] = Encode(<<Len(files[w])>>)]
    /\ UNCHANGED <<via, files, missing, part, chan, mainVars>>

(* Mutant: an empty array is not sent.                                     *)
WriteGoesOnUnlessEmpty(w, rest) ==
    IF rest = <<>> /\ part[w] = "size" /\ files[w] # <<>>
    THEN /\ src' = [src EXCEPT ![w] = Encode(Simple!qsort(files[w]))]
         /\ part' = [part EXCEPT ![w] = "array"]
         /\ Transfer(w)
    ELSE /\ src' = [src EXCEPT ![w] = rest]
         /\ IF rest = <<>> THEN Goto(w, "close") ELSE Transfer(w)
         /\ UNCHANGED part

(* The call goes on with the rest; after it comes the array, or the end.   *)
WriteGoesOn(w, rest) ==
    IF rest = <<>> /\ part[w] = "size"
    THEN /\ src' = [src EXCEPT ![w] = Encode(Simple!qsort(files[w]))]
         /\ part' = [part EXCEPT ![w] = "array"]
         /\ Transfer(w)
    ELSE /\ src' = [src EXCEPT ![w] = rest]
         /\ IF rest = <<>> THEN Goto(w, "close") ELSE Transfer(w)
         /\ UNCHANGED part

(* write_to_shared_mem().                                                  *)
write_wait(w) ==
    /\ pc[w] = "wait" /\ chan[w].writable
    /\ Goto(w, "copy")
    /\ UNCHANGED <<via, files, missing, part, src, chan, mainVars>>
write_copy(w) ==
    /\ pc[w] = "copy"
    /\ LET n == ToCopy(Len(src[w]))
       IN  /\ chan' = [chan EXCEPT ![w].mem = Take(src[w], n) \o Drop(@, n)]
           /\ src' = [src EXCEPT ![w] = Drop(@, n)]
    /\ Goto(w, "unset")
    /\ UNCHANGED <<via, files, missing, part, mainVars>>
(* Mutant: the page stays writable.                                        *)
write_unset_not(w) ==
    /\ pc[w] = "unset"
    /\ Goto(w, "set")
    /\ UNCHANGED <<via, files, missing, part, src, chan, mainVars>>
write_unset(w) ==
    /\ pc[w] = "unset"
    /\ chan' = [chan EXCEPT ![w].writable = FALSE]
    /\ Goto(w, "set")
    /\ UNCHANGED <<via, files, missing, part, src, mainVars>>
write_set(w) ==
    /\ pc[w] = "set"
    /\ chan' = [chan EXCEPT ![w].readable = TRUE]
    /\ WriteGoesOn(w, src[w])
    /\ UNCHANGED <<via, files, missing, mainVars>>

(* write() to the pipe: as many units at a time as find room.              *)
write_pipe(w) ==
    /\ pc[w] = "write"
    /\ \E n \in 0..Len(src[w]) :
        /\ n = 0 <=> src[w] = <<>>
        /\ Len(chan[w].pipe) + n <= PipeUnits
        /\ chan' = [chan EXCEPT ![w].pipe = @ \o Take(src[w], n)]
        /\ WriteGoesOn(w, Drop(src[w], n))
    /\ UNCHANGED <<via, files, missing, mainVars>>

worker_close(w) ==
    /\ pc[w] = "close"
    /\ Goto(w, "exited")
    /\ UNCHANGED <<via, files, missing, part, src, chan, mainVars>>

-----------------------------------------------------------------------------
main_fork ==
    /\ mpc = "fork"
    /\ LET unborn == {w \in Workers : pc[w] = "unborn"}
       IN  /\ unborn # {} /\ Goto(Min(unborn), "sorter")
           /\ mpc' = IF Cardinality(unborn) = 1 THEN "read" ELSE "fork"
    /\ UNCHANGED <<via, files, missing, part, src, chan, what, dst, need, reaped, array, total>>

reading == Len(array) + 1       \* the worker main() reads from

(* A read call ends with `units`, of which `left` were not there yet.      *)
ReadGoesOn(units, left) ==
    IF left > 0 THEN mpc' = "read" /\ dst' = units /\ need' = left /\ UNCHANGED <<what, array>>
    ELSE /\ dst' = <<>>
         /\ IF what = "size"
            THEN /\ mpc' = "read" /\ what' = "array"
                 /\ need' = Decode(units)[1] * IntUnits
                 /\ UNCHANGED array
            ELSE /\ mpc' = "reap" /\ what' = "size" /\ need' = IntUnits
                 /\ array' = Append(array, Decode(units))

(* read_from_shared_mem().                                                 *)
read_wait ==
    /\ via = "mem" /\ mpc = "read" /\ chan[reading].readable
    /\ mpc' = "copy"
    /\ UNCHANGED <<via, files, missing, workerVars, chan, what, dst, need, reaped, array, total>>
read_copy ==
    /\ mpc = "copy"
    /\ LET n == ToCopy(need)
       IN  dst' = dst \o Take(chan[reading].mem, n) /\ need' = need - n
    /\ mpc' = "unset"
    /\ UNCHANGED <<via, files, missing, workerVars, chan, what, reaped, array, total>>
ReadFlag(from, flag, value) ==
    /\ mpc = from
    /\ chan' = [chan EXCEPT ![reading][flag] = value]
    /\ UNCHANGED <<via, files, missing, workerVars, reaped, total>>
read_unset ==
    /\ ReadFlag("unset", "readable", FALSE)
    /\ mpc' = "set" /\ UNCHANGED <<what, dst, need, array>>
read_set == ReadFlag("set", "writable", TRUE) /\ ReadGoesOn(dst, need)

(* read_from_pipe(): read() returns what is there, and 0 when the pipe is  *)
(* empty and its only writer has gone.  A worker that has sent its size    *)
(* sends the array too, so this is a worker without its file; both calls   *)
(* return at once, nobody looks at how much they read, and main() goes on  *)
(* with the size and the numbers that were in memory.                      *)
read_from_pipe ==
    /\ via = "pipe" /\ mpc = "read"
    /\ LET there == chan[reading].pipe
           n == Min({Len(there), need})
       IN  \/ /\ n > 0 \/ need = 0
              /\ chan' = [chan EXCEPT ![reading].pipe = Drop(@, n)]
              /\ ReadGoesOn(dst \o Take(there, n), need - n)
           \/ /\ need > 0 /\ there = <<>> /\ pc[reading] = "exited"
              /\ \E leftover \in Leftovers : array' = Append(array, leftover)
              /\ mpc' = "reap" /\ what' = "size" /\ dst' = <<>> /\ need' = IntUnits
              /\ UNCHANGED chan
    /\ UNCHANGED <<via, files, missing, workerVars, reaped, total>>

(* wait(NULL): any child that has ended.                                   *)
main_wait ==
    /\ mpc = "reap"
    /\ \E w \in Workers \ reaped : pc[w] = "exited" /\ reaped' = reaped \cup {w}
    /\ mpc' = IF Len(array) = Len(files) THEN "merge" ELSE "read"
    /\ UNCHANGED <<via, files, missing, workerVars, chan, what, dst, need, array, total>>

main_merge ==
    /\ mpc = "merge"
    /\ total' = Simple!Concatenated(array)
    /\ mpc' = "done"
    /\ UNCHANGED <<via, files, missing, workerVars, chan, what, dst, need, reaped, array>>

Worker(w) == sorter(w) \/ write_wait(w) \/ write_copy(w) \/ write_unset(w) \/ write_set(w)
             \/ write_pipe(w) \/ worker_close(w)
Main == main_fork \/ read_wait \/ read_copy \/ read_unset \/ read_set \/ read_from_pipe
        \/ main_wait \/ main_merge
Next == Main \/ \E w \in Workers : Worker(w)

(* Some process that can go on does; waiting in a loop for a flag is no    *)
(* step.                                                                   *)
Fairness == WF_vars(Next)
Spec == Init /\ [][Next]_vars /\ Fairness
-----------------------------------------------------------------------------
(* What main() puts together is what 1_simple_sort.c does, for any split   *)
(* of the data into chunks and any partial read or write.  Only a file     *)
(* that cannot be opened makes a difference: 1_simple_sort.c crashes,      *)
(* 3_mem_sort.c waits for it forever, and 2_parallel_sort.c goes on as if  *)
(* something had been read (GoesOnWithout): the result has whatever was in *)
(* memory in that file's place, and the other files' numbers in theirs.    *)
GoesOnWithout ==
    /\ via = "pipe" /\ reading \in missing
    /\ \E leftover \in Leftovers : array' = Append(array, leftover)
    /\ UNCHANGED <<files, missing, total, Outcome>>
ImplementsSimpleSort == Simple!Init /\ [][Simple!Next \/ GoesOnWithout]_(Simple!vars)

(* main() ends with no zombie left, whatever its workers could open.  Only *)
(* the program with shared memory can wait forever: for a worker that      *)
(* could not open its file.                                                *)
SortEnds == \/ via = "mem" /\ missing # {}
            \/ <>(mpc = "done" /\ reaped = Workers)
=============================================================================
