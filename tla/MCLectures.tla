---------------------------- MODULE MCLectures ----------------------------
(***************************************************************************)
(* The smaller programs of lecture_examples, checked in one run: a         *)
(* behaviour is a behaviour of one program, chosen at the start, and the   *)
(* variables of the others keep an idle value in which no action that is   *)
(* fair is enabled.                                                        *)
(***************************************************************************)
EXTENDS Integers, Sequences, FiniteSets

CONSTANTS Files, IntUnits, MemUnits, PipeUnits, Leftovers, Clients, MaxNumbers, FdLimit, Ids,
          Consumers, MaxMessages, Spinners, Loops, Codes, Waiters, MaxSignals

VARIABLES
    program,
    (* ParallelSort *)
    via, files, missing, pc_p, part, src, chan, mpc, what, dst, need, reaped, array, total,
    (* Servers *)
    api, srv, table, ready, eof, nfds, i, open, backlog, cli, left_c, unread, fin, rst, reply,
    (* SemEvents *)
    semset, queue, sem, adj, msgs, pc_s, left_s, has, type, valued, lost, ended,
    (* Reordering *)
    fence, pc_r, mem_r, buf_r,
    (* SpinLock *)
    kind, pc_l, turns, mem_l, buf_l,
    (* CThreadEarly *)
    version, returned_code, is_finished, is_detached, freed, pc_t, code, retcode,
    (* Condvar *)
    handshake, hoisted, event_lock, is_event_set, wait_count, pc_w, signals, processed

(* Two files in both orders and with an empty one, and three files.        *)
MCFiles == { << <<2, 1, 3>>, <<>> >>, << <<2, 2>>, <<3, 1>> >>, << <<1>>, <<3, 1>>, <<2>> >> }

(* The size that malloc() leaves may be 0, or not.                         *)
MCLeftovers == { <<>>, <<7>> }

sort_vars == <<via, files, missing, pc_p, part, src, chan, mpc, what, dst, need, reaped,
               array, total>>
aio_vars == <<api, srv, table, ready, eof, nfds, i, open, backlog, cli, left_c, unread, fin,
              rst, reply>>
sem_vars == <<semset, queue, sem, adj, msgs, pc_s, left_s, has, type, valued, lost, ended>>
reorder_vars == <<fence, pc_r, mem_r, buf_r>>
spin_vars == <<kind, pc_l, turns, mem_l, buf_l>>
early_vars == <<version, returned_code, is_finished, is_detached, freed, pc_t, code, retcode>>
cond_vars == <<handshake, hoisted, event_lock, is_event_set, wait_count, pc_w, signals,
               processed>>
vars == <<program, sort_vars, aio_vars, sem_vars, reorder_vars, spin_vars, early_vars,
          cond_vars>>

Sort == INSTANCE ParallelSort WITH pc <- pc_p, Inputs <- Files \cup {<<>>}
Aio == INSTANCE Servers WITH left <- left_c
Sem == INSTANCE SemEvents WITH pc <- pc_s, left <- left_s
Reorder == INSTANCE Reordering WITH pc <- pc_r, mem <- mem_r, buf <- buf_r
Spin == INSTANCE SpinLock WITH Threads <- Spinners, pc <- pc_l, mem <- mem_l, buf <- buf_l
Early == INSTANCE CThreadEarly WITH pc <- pc_t
Cond == INSTANCE Condvar WITH pc <- pc_w

(* The files and the memory hold numbers; an int, the page and a pipe hold *)
(* something.                                                              *)
ASSUME SortAssumption ==
    /\ Files \subseteq Seq(Seq(Int)) /\ Leftovers \subseteq Seq(Int)
    /\ {IntUnits, MemUnits, PipeUnits} \subseteq Nat \ {0}

(* Processes, threads and sockets are told apart, and there are some.      *)
ASSUME LecturesAssumption ==
    /\ IsFiniteSet(Spinners) /\ Spinners # {} /\ Loops \in Nat \ {0}
    /\ Ids \subseteq Nat /\ Ids # {} /\ IsFiniteSet(Consumers)
    /\ Sem!LOCK \notin Ids /\ Ids \cap Consumers = {}
    /\ Aio!Server \notin Clients
    /\ Cond!MAIN \notin Waiters /\ Cond!NOBODY \notin Waiters

IDLE == "idle"
SemIdle ==
    /\ semset = "none" /\ queue = "none" /\ sem = <<>> /\ adj = <<>> /\ msgs = <<>>
    /\ pc_s = [p \in Sem!Processes |-> IDLE] /\ left_s = <<>>
    /\ has = [c \in Consumers |-> {}] /\ type = <<>>
    /\ valued = FALSE /\ lost = {} /\ ended = {}
ReorderIdle ==
    /\ fence = FALSE /\ mem_r = <<>>
    /\ buf_r = [t \in Reorder!Threads |-> <<>>]
    /\ pc_r = [t \in Reorder!Threads |-> IDLE]
CondIdle ==
    /\ handshake = FALSE /\ hoisted = FALSE
    /\ event_lock = Cond!NOBODY /\ is_event_set = FALSE /\ wait_count = 0
    /\ pc_w = [t \in Cond!Threads |-> IDLE] /\ signals = 0 /\ processed = 0

Init ==
    /\ program \in {"sort", "servers", "events", "reorder", "spin", "cthread", "condvar"}
    /\ IF program = "sort"
       THEN \E v \in {"pipe", "mem"}, f \in Files :
                \E m \in SUBSET DOMAIN f : Sort!InitWith(v, f, m)
       ELSE Sort!InitWith(IDLE, <<>>, {})
    /\ IF program = "servers" THEN Aio!Init ELSE Aio!InitWith(IDLE)
    /\ IF program = "events" THEN Sem!Init ELSE SemIdle
    /\ IF program = "reorder" THEN Reorder!Init ELSE ReorderIdle
    /\ IF program = "spin" THEN Spin!Init ELSE Spin!InitWith(IDLE)
    /\ IF program = "cthread" THEN Early!Init ELSE Early!InitWith(IDLE)
    /\ IF program = "condvar" THEN Cond!Init ELSE CondIdle

SortNext == /\ program = "sort" /\ Sort!Next
            /\ UNCHANGED <<program, aio_vars, sem_vars, reorder_vars, spin_vars, early_vars, cond_vars>>
AioNext == /\ program = "servers" /\ Aio!Next
           /\ UNCHANGED <<program, sort_vars, sem_vars, reorder_vars, spin_vars, early_vars, cond_vars>>
SemNext == /\ program = "events" /\ Sem!Next
           /\ UNCHANGED <<program, sort_vars, aio_vars, reorder_vars, spin_vars, early_vars, cond_vars>>
ReorderNext == /\ program = "reorder" /\ Reorder!Next
               /\ UNCHANGED <<program, sort_vars, aio_vars, sem_vars, spin_vars, early_vars, cond_vars>>
SpinNext == /\ program = "spin" /\ Spin!Next
            /\ UNCHANGED <<program, sort_vars, aio_vars, sem_vars, reorder_vars, early_vars, cond_vars>>
EarlyNext == /\ program = "cthread" /\ Early!Next
             /\ UNCHANGED <<program, sort_vars, aio_vars, sem_vars, reorder_vars, spin_vars, cond_vars>>
CondNext == /\ program = "condvar" /\ Cond!Next
            /\ UNCHANGED <<program, sort_vars, aio_vars, sem_vars, reorder_vars, spin_vars, early_vars>>

Next == SortNext \/ AioNext \/ SemNext \/ ReorderNext \/ SpinNext \/ EarlyNext \/ CondNext
Spec == /\ Init /\ [][Next]_vars
        /\ Sort!Fairness /\ Aio!Fairness /\ Sem!Fairness /\ Reorder!Fairness /\ Cond!Fairness
-----------------------------------------------------------------------------
(* 2_parallel_sort.c and 3_mem_sort.c put together what 1_simple_sort.c    *)
(* would, for any split of the data into chunks; of a file that cannot be  *)
(* opened the first one takes what is in memory instead.                   *)
ImplementsSimpleSort == Sort!ImplementsSimpleSort

(* They end, with no zombie left, unless main() of 3_mem_sort.c waits for  *)
(* a worker without its file.                                              *)
SortEnds == program = "sort" => Sort!SortEnds

(* 4_server_*.c: no server reads from a socket that has nothing to read.   *)
NeverBlocks == Aio!NeverBlocks

(* Every number is answered, or the server has ended and the client sees   *)
(* it; and a client that has gone leaves the server's table.               *)
EveryClientServed == Aio!EveryClientServed

(* 9_sem_event_*.c: the lock is neither lost nor doubled, and a count      *)
(* stands for a message, whatever SEM_UNDO takes back.                     *)
LockAndCounts == Sem!LockKept /\ Sem!CountsMatch

(* A consumer that holds the lock never waits for a message.               *)
BatchIsRead == Sem!BatchIsRead

(* 8_5_cpu_reordering.c: with the fence no iteration reads 0 twice.        *)
NoReorderWithFence == Reorder!NoReorderWithFence

(* And no start or end signalled through the flags is lost.                *)
EveryIterationEnds == Reorder!EveryIterationEnds

(* 8_6_spinlock_acq_rel.c, 7_spin_lock.c: what was done under the lock is  *)
(* whole.                                                                  *)
SectionsWhole == Spin!SectionsWhole

(* 10_cthreads_*.c, 11_cthread_bad_detach.c: no stack is freed twice, and  *)
(* a join returns the thread's code.                                       *)
StackFreedOnce == Early!StackFreedOnce

(* 13_simple_condvar.c, 14_condvar.c: one signal lets one waiter return,   *)
(* and a signal of the second one that is over was processed.              *)
EventsMatch == Cond!EventsMatch

(* Its spinning signal ends, in a build that reads the flag every time.    *)
SpinEnds == Cond!SpinEnds
=============================================================================
