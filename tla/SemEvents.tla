----------------------------- MODULE SemEvents -----------------------------
(***************************************************************************)
(* lecture_examples/7_ipc/9_sem_event_source.c and 9_sem_event_cons.c: a   *)
(* source sends a message and counts it on its semaphore; a consumer takes *)
(* one count of every source and the lock in one semop(), and then reads   *)
(* one message of every source.                                            *)
(*                                                                         *)
(* All counts are made with SEM_UNDO: when a process ends, the kernel      *)
(* takes back what it did.  A step is one system call; a process may be    *)
(* killed before any of them.  None is started once source 1 has removed   *)
(* the queue: it would make a new one.                                     *)
(***************************************************************************)
EXTENDS Integers, FiniteSets, FiniteSetsExt

CONSTANTS Ids,          \* the sources' ids; 1, 2 and 3 in the program
          Consumers,
          MaxMessages   \* bound: how many lines a source reads

LOCK == 0               \* the semaphore after those of the sources
Sems == Ids \cup {LOCK}
Processes == Ids \cup Consumers

VARIABLES
    semset, queue,      \* "none", "there" or "removed"
    sem, adj,           \* the values; what the kernel will add at a process's end
    msgs,               \* messages in the queue, by type
    pc, left,           \* the next step of a process, the lines a source has left
    has, type,          \* of a consumer: what it found at its start, the type it reads
    valued, lost,       \* history: SETALL is done; the sources whose counts it threw away
    ended               \* history: the processes that have ended

ids == <<has, type>>
ipc == <<semset, queue, sem, adj, msgs>>
history == <<valued, lost, ended>>
vars == <<ipc, pc, left, ids, history>>

Init ==
    /\ semset = "none" /\ queue = "none"
    /\ sem = [s \in Sems |-> 0]
    /\ adj = [p \in Processes |-> [s \in Sems |-> 0]]
    /\ msgs = [t \in Ids |-> 0]
    /\ pc = [p \in Processes |-> "semget"]
    /\ left = [s \in Ids |-> MaxMessages]
    /\ has = [c \in Consumers |-> {}]
    /\ type = [c \in Consumers |-> Min(Ids)]
    /\ valued = FALSE /\ lost = {} /\ ended = {}

Goto(p, step) == pc' = [pc EXCEPT ![p] = step]

(* semop() with SEM_UNDO; on a set that has gone it fails, unnoticed.      *)
SemOp(p, set, by) ==
    IF semset = "there"
    THEN /\ sem' = [s \in Sems |-> IF s \in set THEN sem[s] + by ELSE sem[s]]
         /\ adj' = [adj EXCEPT ![p] = [s \in Sems |-> IF s \in set THEN @[s] - by ELSE @[s]]]
    ELSE UNCHANGED <<sem, adj>>

-----------------------------------------------------------------------------
sem_get_or_create(i) ==
    /\ pc[i] = "semget" /\ semset # "removed"
    /\ semset' = "there"
    /\ Goto(i, IF semset = "none" THEN "setall" ELSE "msgget")
    /\ UNCHANGED <<queue, sem, adj, msgs, left, ids, history>>

(* SETALL also clears what was to be undone.                               *)
sem_set_all(i) ==
    /\ pc[i] = "setall"
    /\ IF semset = "there"
       THEN /\ sem' = [s \in Sems |-> IF s = LOCK THEN 1 ELSE 0]
            /\ adj' = [p \in Processes |-> [s \in Sems |-> 0]]
            /\ valued' = TRUE /\ lost' = {t \in Ids : sem[t] > 0}
       ELSE UNCHANGED <<sem, adj, valued, lost>>
    /\ Goto(i, "msgget")
    /\ UNCHANGED <<semset, queue, msgs, left, ids, ended>>

msg_queue_get_or_create(i) ==
    /\ pc[i] = "msgget" /\ queue # "removed"
    /\ queue' = "there"
    /\ Goto(i, "loop")
    /\ UNCHANGED <<semset, sem, adj, msgs, left, ids, history>>

send_msg(i) ==
    /\ pc[i] = "loop" /\ left[i] > 0
    /\ left' = [left EXCEPT ![i] = @ - 1]
    /\ msgs' = IF queue = "there" THEN [msgs EXCEPT ![i] = @ + 1] ELSE msgs
    /\ Goto(i, "inc")
    /\ UNCHANGED <<semset, queue, sem, adj, ids, history>>

sem_inc(i) ==
    /\ pc[i] = "inc"
    /\ SemOp(i, {i}, 1)
    /\ Goto(i, "loop")
    /\ UNCHANGED <<semset, queue, msgs, left, ids, history>>

(* The end of the input; source 1 removes queue and semaphores first.      *)
source_end(i) ==
    /\ pc[i] = "loop"
    /\ Goto(i, IF i = 1 THEN "rmqueue" ELSE "exit")
    /\ UNCHANGED <<ipc, left, ids, history>>
source_remove(i) ==
    /\ \/ /\ pc[i] = "rmqueue" /\ Goto(i, "rmsem")
          /\ queue' = "removed" /\ msgs' = [t \in Ids |-> 0]
          /\ UNCHANGED <<semset, sem, adj>>
       \/ /\ pc[i] = "rmsem" /\ Goto(i, "exit")
          /\ semset' = "removed"
          /\ sem' = [s \in Sems |-> 0] /\ adj' = [p \in Processes |-> [s \in Sems |-> 0]]
          /\ UNCHANGED <<queue, msgs>>
    /\ UNCHANGED <<left, ids, history>>

-----------------------------------------------------------------------------
(* The consumer's semget() and msgget() do not create, and are not tested. *)
consumer_get(c) ==
    /\ \/ /\ pc[c] = "semget" /\ Goto(c, "msgget")
          /\ has' = [has EXCEPT ![c] = @ \cup {x \in {"sem"} : semset = "there"}]
       \/ /\ pc[c] = "msgget" /\ Goto(c, "lock")
          /\ has' = [has EXCEPT ![c] = @ \cup {x \in {"queue"} : queue = "there"}]
    /\ {semset, queue} \cap {"removed"} = {}
    /\ UNCHANGED <<ipc, left, type, history>>

Sees(c, what) == what \in has[c] /\ (IF what = "sem" THEN semset ELSE queue) = "there"

(* Mutant: the loop over the sources stops after the first one.            *)
lock_events_one(c) ==
    /\ pc[c] = "lock"
    /\ IF Sees(c, "sem")
       THEN /\ \A s \in {LOCK, Min(Ids)} : sem[s] > 0
            /\ SemOp(c, {LOCK, Min(Ids)}, -1)
       ELSE UNCHANGED <<sem, adj>>
    /\ Goto(c, "read")
    /\ UNCHANGED <<semset, queue, msgs, left, ids, history>>

(* All four semaphores are taken, or the process waits for all of them; if *)
(* the call fails, it goes on as well.                                     *)
lock_events(c) ==
    /\ pc[c] = "lock"
    /\ IF Sees(c, "sem")
       THEN (\A s \in Sems : sem[s] > 0) /\ SemOp(c, Sems, -1)
       ELSE UNCHANGED <<sem, adj>>
    /\ Goto(c, "read")
    /\ UNCHANGED <<semset, queue, msgs, left, ids, history>>

ReadOn(c) ==
    LET more == {t \in Ids : t > type[c]}
    IN  /\ type' = [type EXCEPT ![c] = Min(IF more # {} THEN more ELSE Ids)]
        /\ Goto(c, IF more # {} THEN "read" ELSE "unlock")

(* One turn of read_data(); without a queue it prints what is in `msg`.    *)
recv_msg(c) ==
    /\ pc[c] = "read"
    /\ IF Sees(c, "queue")
       THEN msgs[type[c]] > 0 /\ msgs' = [msgs EXCEPT ![type[c]] = @ - 1]
       ELSE UNCHANGED msgs
    /\ ReadOn(c)
    /\ UNCHANGED <<semset, queue, sem, adj, left, has, history>>

(* Mutant: without SEM_UNDO.                                               *)
unlock_events_no_undo(c) ==
    /\ pc[c] = "unlock"
    /\ sem' = IF Sees(c, "sem") THEN [sem EXCEPT ![LOCK] = @ + 1] ELSE sem
    /\ Goto(c, "lock")
    /\ UNCHANGED <<semset, queue, adj, msgs, left, ids, history>>

unlock_events(c) ==
    /\ pc[c] = "unlock"
    /\ IF Sees(c, "sem") THEN SemOp(c, {LOCK}, 1) ELSE UNCHANGED <<sem, adj>>
    /\ Goto(c, "lock")
    /\ UNCHANGED <<semset, queue, msgs, left, ids, history>>

-----------------------------------------------------------------------------
(* A process ends, by itself or killed: the kernel adds its adjustments,   *)
(* and lets no value become negative.                                      *)
Exit(p) ==
    /\ p \notin ended
    /\ sem' = [s \in Sems |-> Max({0, sem[s] + adj[p][s]})]
    /\ adj' = [adj EXCEPT ![p] = [s \in Sems |-> 0]]
    /\ ended' = ended \cup {p}
    /\ Goto(p, "ended")
    /\ left' = [i \in Ids |-> IF i = p THEN 0 ELSE left[i]]
    /\ has' = [c \in Consumers |-> IF c = p THEN {} ELSE has[c]]
    /\ type' = [c \in Consumers |-> IF c = p THEN Min(Ids) ELSE type[c]]
    /\ UNCHANGED <<semset, queue, msgs, valued, lost>>

Source(i) == \/ sem_get_or_create(i) \/ sem_set_all(i) \/ msg_queue_get_or_create(i)
             \/ send_msg(i) \/ sem_inc(i) \/ source_end(i) \/ source_remove(i)
Consumer(c) == consumer_get(c) \/ lock_events(c) \/ recv_msg(c) \/ unlock_events(c)
Next == \/ \E i \in Ids : Source(i)
        \/ \E c \in Consumers : Consumer(c)
        \/ \E p \in Processes : Exit(p)

Fairness == \A c \in Consumers : WF_vars(Consumer(c))
Spec == Init /\ [][Next]_vars /\ Fairness
-----------------------------------------------------------------------------
(* Consumers that count on the semaphores and are between lock_events()    *)
(* and unlock_events().                                                    *)
Readers == {c \in Consumers : "sem" \in has[c] /\ pc[c] \in {"read", "unlock"}}

(* As long as the semaphores exist, at most one consumer is inside, and    *)
(* the lock is neither lost nor doubled, whoever is killed at any point.   *)
(* Until SETALL is done nobody gets in.                                    *)
LockKept ==
    semset = "there" => sem[LOCK] + Cardinality(Readers) = IF valued THEN 1 ELSE 0

(* No consumer has ended, or was started before queue and semaphores.      *)
ConsumersSound ==
    /\ ended \cap Consumers = {}
    /\ \A c \in Consumers : pc[c] \in {"semget", "msgget"} \/ has[c] = {"sem", "queue"}
Owed(t) == Cardinality({c \in Readers : pc[c] = "read" /\ type[c] <= t})

(* A count stands for a message in the queue, also when sources have ended *)
(* and their counts were taken back; and as long as a source is running    *)
(* and SETALL did not come too late, every message it has sent is counted. *)
CountsMatch ==
    semset = "there" /\ queue = "there" /\ ConsumersSound =>
        \A t \in Ids :
            /\ sem[t] + Owed(t) <= msgs[t]
            /\ t \notin ended \cup lost =>
                sem[t] + Owed(t) + (IF pc[t] = "inc" THEN 1 ELSE 0) = msgs[t]

(* A consumer that holds the lock never waits for a message: again and     *)
(* again nobody is reading.  It needs that no consumer was killed: the     *)
(* kernel gives the counts of the messages it has read back to the         *)
(* semaphores.                                                             *)
BatchIsRead ==
    []<>(semset = "there" /\ ConsumersSound => \A c \in Readers : pc[c] # "read")
=============================================================================
