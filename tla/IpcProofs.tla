----------------------------- MODULE IpcProofs -----------------------------
(***************************************************************************)
(* Proofs about the processes of MCLectures (lecture_examples/7_ipc): for  *)
(* any sources and consumers of events, and for any files, size of an int, *)
(* of the shared page and of the pipe.                                     *)
(***************************************************************************)
EXTENDS MCLectures, FiniteSetTheorems, SequenceTheorems, TLAPS

(* The modules count with the same operator.                               *)
LEMMA SameCardinality ==
    ASSUME NEW S
    PROVE  Sem!Cardinality(S) = Cardinality(S)
  BY DEF Sem!Cardinality, Cardinality

-----------------------------------------------------------------------------
(* Events over semaphores.                                                 *)
ConsumerSteps == {"semget", "msgget", "lock", "read", "unlock", "ended"}
SemSteps == ConsumerSteps \cup {"setall", "loop", "inc", "rmqueue", "rmsem", "exit"}
SemTypes ==
    /\ {semset, queue} \subseteq {"none", "there", "removed"}
    /\ sem \in [Sem!Sems -> Nat]
    /\ adj \in [Sem!Processes -> [Sem!Sems -> Int]]
    /\ msgs \in [Ids -> Nat]
    /\ pc_s \in [Sem!Processes -> SemSteps]
    /\ \A c \in Consumers : pc_s[c] \in ConsumerSteps
    /\ has \in [Consumers -> SUBSET {"sem", "queue"}]
    /\ type \in [Consumers -> Ids]
    /\ valued \in BOOLEAN
    /\ \A p \in Sem!Processes : p \in ended <=> pc_s[p] = "ended"

(* What there is before the set, before its values and before the queue.   *)
NoSetYet ==
    semset = "none" => /\ queue = "none" /\ ~valued
                       /\ \A p \in Ids : pc_s[p] \in {"semget", "ended"}
                       /\ \A c \in Consumers : "sem" \notin has[c]
NoValuesYet ==
    /\ ~valued => lost = {}
    /\ \A p \in Ids : pc_s[p] = "setall" => ~valued
    /\ \A p, q \in Ids : pc_s[p] = "setall" /\ pc_s[q] = "setall" => p = q
NoQueueYet ==
    queue = "none" =>
        /\ \A p \in Ids : pc_s[p] \in {"semget", "setall", "msgget", "ended"}
        /\ \A t \in Ids : msgs[t] = 0 /\ sem[t] = 0
        /\ \A p \in Sem!Processes, t \in Ids : adj[p][t] = 0
        /\ \A c \in Consumers : "queue" \notin has[c]

(* One consumer at most is inside, and the kernel would give its lock back;*)
(* of a source it takes back counts of its own only.                       *)
Undo ==
    /\ \A p \in Ids : /\ adj[p][p] <= 0
                      /\ \A s \in Sem!Sems : s # p => adj[p][s] = 0
    /\ semset # "removed" =>
        \A c \in Consumers : adj[c][Sem!LOCK] = IF c \in Sem!Readers THEN 1 ELSE 0
LockHeld ==
    semset # "removed" =>
        /\ \A c, d \in Sem!Readers : c = d
        /\ sem[Sem!LOCK] + (IF Sem!Readers = {} THEN 0 ELSE 1) = IF valued THEN 1 ELSE 0

(* The message that the consumer inside still has to read of source t.     *)
OwesRead(t) == \E c \in Sem!Readers : pc_s[c] = "read" /\ type[c] <= t
Counted(t) == sem[t] + (IF OwesRead(t) THEN 1 ELSE 0)
Uncounted(t) == IF pc_s[t] = "inc" THEN 1 ELSE 0
CountsHeld ==
    semset = "there" /\ queue = "there" /\ Sem!ConsumersSound =>
        \A t \in Ids :
            /\ Counted(t) + Uncounted(t) <= msgs[t]
            /\ t \notin ended \cup lost => Counted(t) + Uncounted(t) = msgs[t]
FirstType == \A c \in Consumers : pc_s[c] # "read" => type[c] = Sem!Min(Ids)

SemRun == /\ SemTypes /\ NoSetYet /\ NoValuesYet /\ NoQueueYet
          /\ Undo /\ LockHeld /\ CountsHeld /\ FirstType
SemInv == IF program = "events" THEN SemRun ELSE semset = "none"

(* The least number of a set, and a value that is not let below zero.      *)
LEMMA MinFacts ==
    ASSUME NEW S \in SUBSET Nat, S # {}
    PROVE  Sem!Min(S) \in S /\ \A x \in S : Sem!Min(S) <= x
<1>1. \E x \in S : \A y \in S : ~(<<y, x>> \in OpToRel(<, Nat))
  BY NatLessThanWellFounded, WFMin
<1>2. PICK x \in S : \A y \in S : ~(<<y, x>> \in OpToRel(<, Nat))
  BY <1>1
<1>3. \A y \in S : ~(y < x)
  BY <1>2 DEF OpToRel
<1>4. \A y \in S : x <= y
  BY <1>3
<1> QED
  BY <1>4 DEF Sem!Min

(* How the kernel keeps a value from becoming negative.                    *)
LEMMA MaxFacts ==
    ASSUME NEW n \in Int
    PROVE  Sem!Max({0, n}) = IF n >= 0 THEN n ELSE 0
<1>1. \E x \in {0, n} : \A y \in {0, n} : x >= y
  OBVIOUS
<1>2. Sem!Max({0, n}) \in {0, n} /\ \A y \in {0, n} : Sem!Max({0, n}) >= y
  BY <1>1 DEF Sem!Max
<1> QED
  BY <1>2

(* The invariant holds at the start.                                       *)
LEMMA SemInit == Init => SemInv
<1> SUFFICES ASSUME Init, program = "events" PROVE SemRun
  BY DEF Init, SemIdle, SemInv
<1> USE LecturesAssumption DEF LecturesAssumption
<1>1. Sem!Init
  BY DEF Init
<1>2. Sem!Readers = {}
  BY <1>1 DEF Sem!Init, Sem!Readers
<1>3. Sem!Min(Ids) \in Ids
  BY MinFacts
<1>4. SemTypes
  <2>1. /\ sem \in [Sem!Sems -> Nat]
        /\ adj \in [Sem!Processes -> [Sem!Sems -> Int]]
        /\ msgs \in [Ids -> Nat]
    BY <1>1 DEF Sem!Init
  <2>2. /\ pc_s \in [Sem!Processes -> SemSteps]
        /\ \A p \in Sem!Processes : pc_s[p] = "semget"
    BY <1>1 DEF Sem!Init, SemSteps, ConsumerSteps
  <2>3. \A c \in Consumers : pc_s[c] \in ConsumerSteps
    BY <2>2 DEF ConsumerSteps, Sem!Processes
  <2>4. /\ has \in [Consumers -> SUBSET {"sem", "queue"}]
        /\ type \in [Consumers -> Ids]
    BY <1>1, <1>3 DEF Sem!Init
  <2>5. valued \in BOOLEAN /\ \A p \in Sem!Processes : p \in ended <=> pc_s[p] = "ended"
    BY <1>1, <2>2 DEF Sem!Init
  <2> QED
    BY <1>1, <2>1, <2>2, <2>3, <2>4, <2>5 DEF Sem!Init, SemTypes
<1>5. NoSetYet /\ NoValuesYet
  BY <1>1 DEF Sem!Init, NoSetYet, NoValuesYet, Sem!Processes
<1>6. NoQueueYet
  BY <1>1 DEF Sem!Init, NoQueueYet, Sem!Processes, Sem!Sems
<1>7. Undo /\ LockHeld
  BY <1>1, <1>2 DEF Sem!Init, Undo, LockHeld, Sem!Processes, Sem!Sems, Sem!LOCK
<1>8. CountsHeld /\ FirstType
  BY <1>1 DEF Sem!Init, CountsHeld, FirstType
<1> QED
  BY <1>4, <1>5, <1>6, <1>7, <1>8 DEF SemRun

(* A step of a source moves no consumer.                                   *)
SourceMoves(p, step) ==
    /\ pc_s' \in [Sem!Processes -> SemSteps]
    /\ pc_s'[p] = step /\ \A q \in Ids : q # p => pc_s'[q] = pc_s[q]
    /\ \A c \in Consumers : pc_s'[c] = pc_s[c]
    /\ \A c \in Consumers : pc_s'[c] \in ConsumerSteps
    /\ \A q \in Sem!Processes : q \in ended' <=> pc_s'[q] = "ended"
    /\ Sem!Readers' = Sem!Readers
    /\ \A t \in Ids : OwesRead(t)' <=> OwesRead(t)
    /\ Sem!ConsumersSound' <=> Sem!ConsumersSound
    /\ FirstType'

(* Going to another step is such a move.                                   *)
LEMMA SourceFrame ==
    ASSUME SemRun, NEW p \in Ids, NEW step \in SemSteps \ {"ended"}, Sem!Goto(p, step),
           pc_s[p] # "ended", UNCHANGED <<has, type, ended>>
    PROVE  SourceMoves(p, step)
<1> USE LecturesAssumption DEF LecturesAssumption
<1>1. /\ pc_s' \in [Sem!Processes -> SemSteps]
      /\ pc_s'[p] = step /\ \A q \in Sem!Processes : q # p => pc_s'[q] = pc_s[q]
  BY DEF SemRun, SemTypes, Sem!Goto, Sem!Processes
<1>2. \A c \in Consumers : pc_s'[c] = pc_s[c]
  BY <1>1 DEF Sem!Processes
<1>3. Sem!Readers' = Sem!Readers
  BY <1>2 DEF Sem!Readers
<1>4. \A t \in Ids : OwesRead(t)' <=> OwesRead(t)
  BY <1>2, <1>3 DEF OwesRead, Sem!Readers
<1>5. Sem!ConsumersSound' <=> Sem!ConsumersSound
  BY <1>2 DEF Sem!ConsumersSound
<1>6. FirstType'
  BY <1>2 DEF SemRun, FirstType
<1>7. \A q \in Sem!Processes : q \in ended' <=> pc_s'[q] = "ended"
  BY <1>1 DEF SemRun, SemTypes
<1>8. \A q \in Ids : q # p => pc_s'[q] = pc_s[q]
  BY <1>1 DEF Sem!Processes
<1>9. \A c \in Consumers : pc_s'[c] \in ConsumerSteps
  BY <1>2 DEF SemRun, SemTypes
<1> QED
  BY <1>1, <1>2, <1>3, <1>4, <1>5, <1>6, <1>7, <1>8, <1>9 DEF SourceMoves

(* The source makes the set, or finds it.                                  *)
LEMMA sem_get_or_create_Step ==
    ASSUME SemRun, NEW p \in Ids, Sem!sem_get_or_create(p)
    PROVE  SemRun'
<1> USE LecturesAssumption DEF LecturesAssumption, SemRun
<1>1. /\ pc_s[p] = "semget" /\ semset # "removed" /\ semset' = "there"
      /\ Sem!Goto(p, IF semset = "none" THEN "setall" ELSE "msgget")
      /\ UNCHANGED <<queue, sem, adj, msgs, has, type, valued, lost, ended>>
  BY DEF Sem!sem_get_or_create, Sem!ids, Sem!history
<1>2. SourceMoves(p, IF semset = "none" THEN "setall" ELSE "msgget")
  BY <1>1, SourceFrame DEF SemSteps, ConsumerSteps
<1> USE <1>1, <1>2 DEF SourceMoves
<1>3. SemTypes' /\ FirstType'
  BY DEF SemTypes
<1>4. NoSetYet'
  BY DEF NoSetYet
<1>5. NoValuesYet'
  BY DEF NoSetYet, NoValuesYet
<1>6. NoQueueYet'
  BY DEF NoQueueYet
<1>7. Undo' /\ LockHeld'
  BY DEF Undo, LockHeld
<1>8. CountsHeld'
  <2> SUFFICES ASSUME queue = "there", Sem!ConsumersSound, NEW t \in Ids
               PROVE  /\ Counted(t)' + Uncounted(t)' <= msgs[t]
                      /\ t \notin ended \cup lost => Counted(t)' + Uncounted(t)' = msgs[t]
    BY DEF CountsHeld
  <2>1. Counted(t)' = Counted(t) /\ Uncounted(t)' = Uncounted(t)
    BY DEF Counted, Uncounted
  <2> QED
    BY <2>1 DEF CountsHeld, NoSetYet, SemTypes
<1> QED
  BY <1>3, <1>4, <1>5, <1>6, <1>7, <1>8

(* SETALL: nobody is inside yet, and the counts made so far are thrown     *)
(* away.                                                                   *)
LEMMA sem_set_all_Step ==
    ASSUME SemRun, NEW p \in Ids, Sem!sem_set_all(p)
    PROVE  SemRun'
<1> USE LecturesAssumption DEF LecturesAssumption, SemRun
<1>1. /\ pc_s[p] = "setall" /\ Sem!Goto(p, "msgget")
      /\ UNCHANGED <<semset, queue, msgs, has, type, ended>>
  BY DEF Sem!sem_set_all, Sem!ids
<1>2. SourceMoves(p, "msgget")
  BY <1>1, SourceFrame DEF SemSteps, ConsumerSteps
<1> USE <1>1, <1>2 DEF SourceMoves
<1>3. FirstType' /\ ~valued /\ semset # "none"
  BY DEF NoValuesYet, NoSetYet
<1>4. CASE semset = "there"
  <2>1. /\ sem' = [s \in Sem!Sems |-> IF s = Sem!LOCK THEN 1 ELSE 0]
        /\ adj' = [q \in Sem!Processes |-> [s \in Sem!Sems |-> 0]]
        /\ valued' = TRUE /\ lost' = {t \in Ids : sem[t] > 0}
    BY <1>4 DEF Sem!sem_set_all
  <2>2. /\ \A t \in Ids : sem'[t] = 0
        /\ sem'[Sem!LOCK] = 1
        /\ \A q \in Sem!Processes, s \in Sem!Sems : adj'[q][s] = 0
    BY <2>1 DEF Sem!Sems
  <2>3. Sem!Readers = {}
    BY <1>3, <1>4 DEF LockHeld, SemTypes, Sem!Sems
  <2>4. SemTypes'
    <3>1. sem' \in [Sem!Sems -> Nat] /\ adj' \in [Sem!Processes -> [Sem!Sems -> Int]]
      BY <2>1
    <3> QED
      BY <2>1, <3>1 DEF SemTypes
  <2>5. NoSetYet' /\ NoValuesYet'
    BY <1>3, <2>1 DEF NoSetYet, NoValuesYet
  <2>6. NoQueueYet'
    BY <2>2 DEF NoQueueYet, Sem!Sems
  <2>7. Undo' /\ LockHeld'
    BY <2>1, <2>2, <2>3 DEF Undo, LockHeld, Sem!Processes, Sem!Sems
  <2>8. CountsHeld'
    <3> SUFFICES ASSUME queue = "there", Sem!ConsumersSound, NEW t \in Ids
                 PROVE  /\ Counted(t)' + Uncounted(t)' <= msgs[t]
                        /\ t \notin ended \cup lost' => Counted(t)' + Uncounted(t)' = msgs[t]
      BY DEF CountsHeld
    <3>1. Counted(t)' = 0 /\ Counted(t) = sem[t] /\ Uncounted(t)' = Uncounted(t)
      BY <2>2, <2>3 DEF Counted, Uncounted, OwesRead, SemTypes, Sem!Sems
    <3>2. /\ Counted(t) + Uncounted(t) <= msgs[t]
          /\ t \notin ended => Counted(t) + Uncounted(t) = msgs[t]
      BY <1>3, <1>4 DEF CountsHeld, NoValuesYet
    <3>3. sem[t] \in Nat /\ Uncounted(t) \in Nat /\ msgs[t] \in Nat
      BY DEF SemTypes, Sem!Sems, Uncounted
    <3>4. t \notin lost' => sem[t] = 0
      BY <2>1, <3>3
    <3> QED
      BY <3>1, <3>2, <3>3, <3>4
  <2> QED
    BY <1>3, <2>4, <2>5, <2>6, <2>7, <2>8
<1>5. CASE semset = "removed"
  <2>1. UNCHANGED <<sem, adj, valued, lost>>
    BY <1>5 DEF Sem!sem_set_all
  <2>2. SemTypes'
    BY <2>1 DEF SemTypes
  <2>3. NoSetYet' /\ NoValuesYet' /\ NoQueueYet'
    BY <1>5, <2>1 DEF NoSetYet, NoValuesYet, NoQueueYet
  <2>4. Undo' /\ LockHeld' /\ CountsHeld'
    BY <1>5, <2>1 DEF Undo, LockHeld, CountsHeld
  <2> QED
    BY <1>3, <2>2, <2>3, <2>4
<1> QED
  BY <1>3, <1>4, <1>5 DEF SemRun, SemTypes

(* The source makes the queue, or finds it.                                *)
LEMMA msg_queue_get_or_create_Step ==
    ASSUME SemRun, NEW p \in Ids, Sem!msg_queue_get_or_create(p)
    PROVE  SemRun'
<1> USE LecturesAssumption DEF LecturesAssumption, SemRun
<1>1. /\ pc_s[p] = "msgget" /\ queue # "removed" /\ queue' = "there" /\ Sem!Goto(p, "loop")
      /\ UNCHANGED <<semset, sem, adj, msgs, has, type, valued, lost, ended>>
  BY DEF Sem!msg_queue_get_or_create, Sem!ids, Sem!history
<1>2. SourceMoves(p, "loop")
  BY <1>1, SourceFrame DEF SemSteps, ConsumerSteps
<1> USE <1>1, <1>2 DEF SourceMoves
<1>3. SemTypes' /\ FirstType'
  BY DEF SemTypes
<1>4. NoSetYet' /\ NoValuesYet' /\ NoQueueYet'
  BY DEF NoSetYet, NoValuesYet, NoQueueYet
<1>5. Undo' /\ LockHeld'
  BY DEF Undo, LockHeld
<1>6. CountsHeld'
  <2> SUFFICES ASSUME semset = "there", Sem!ConsumersSound, NEW t \in Ids
               PROVE  /\ Counted(t)' + Uncounted(t)' <= msgs[t]
                      /\ t \notin ended \cup lost => Counted(t)' + Uncounted(t)' = msgs[t]
    BY DEF CountsHeld
  <2>1. Counted(t)' = Counted(t) /\ Uncounted(t)' = Uncounted(t)
    BY DEF Counted, Uncounted
  <2>2. CASE queue = "there"
    BY <2>1, <2>2 DEF CountsHeld
  <2>3. CASE queue = "none"
    <3>1. ~OwesRead(t)
      BY <2>3 DEF NoQueueYet, OwesRead, Sem!Readers, Sem!ConsumersSound
    <3> QED
      BY <2>1, <2>3, <3>1 DEF NoQueueYet, Counted, Uncounted
  <2> QED
    BY <2>2, <2>3 DEF SemTypes
<1> QED
  BY <1>3, <1>4, <1>5, <1>6

(* A message is sent, and still to be counted.                             *)
LEMMA send_msg_Step ==
    ASSUME SemRun, NEW p \in Ids, Sem!send_msg(p)
    PROVE  SemRun'
<1> USE LecturesAssumption DEF LecturesAssumption, SemRun
<1>1. /\ pc_s[p] = "loop" /\ Sem!Goto(p, "inc")
      /\ msgs' = IF queue = "there" THEN [msgs EXCEPT ![p] = @ + 1] ELSE msgs
      /\ UNCHANGED <<semset, queue, sem, adj, has, type, valued, lost, ended>>
  BY DEF Sem!send_msg, Sem!ids, Sem!history
<1>2. SourceMoves(p, "inc")
  BY <1>1, SourceFrame DEF SemSteps, ConsumerSteps
<1> USE <1>1, <1>2 DEF SourceMoves
<1>3. msgs' \in [Ids -> Nat]
  BY DEF SemTypes
<1>4. SemTypes' /\ FirstType'
  BY <1>3 DEF SemTypes
<1>5. NoSetYet' /\ NoValuesYet' /\ NoQueueYet'
  BY DEF NoSetYet, NoValuesYet, NoQueueYet
<1>6. Undo' /\ LockHeld'
  BY DEF Undo, LockHeld
<1>7. CountsHeld'
  <2> SUFFICES ASSUME semset = "there", queue = "there", Sem!ConsumersSound, NEW t \in Ids
               PROVE  /\ Counted(t)' + Uncounted(t)' <= msgs'[t]
                      /\ t \notin ended \cup lost => Counted(t)' + Uncounted(t)' = msgs'[t]
    BY DEF CountsHeld
  <2>1. /\ Counted(t)' = Counted(t)
        /\ Uncounted(t)' = Uncounted(t) + IF t = p THEN 1 ELSE 0
    BY DEF Counted, Uncounted
  <2>2. msgs'[t] = msgs[t] + IF t = p THEN 1 ELSE 0
    BY DEF SemTypes
  <2>3. Counted(t) \in Nat /\ Uncounted(t) \in Nat /\ msgs[t] \in Nat
    BY DEF SemTypes, Sem!Sems, Counted, Uncounted
  <2>4. /\ Counted(t) + Uncounted(t) <= msgs[t]
        /\ t \notin ended \cup lost => Counted(t) + Uncounted(t) = msgs[t]
    BY DEF CountsHeld
  <2> QED
    BY <2>1, <2>2, <2>3, <2>4
<1> QED
  BY <1>4, <1>5, <1>6, <1>7

(* What semop() with SEM_UNDO does to the values and the adjustments.      *)
LEMMA SemOpFacts ==
    ASSUME SemTypes, semset = "there", NEW p \in Sem!Processes, NEW set, NEW by \in Int,
           Sem!SemOp(p, set, by), \A s \in Sem!Sems : s \in set => sem[s] + by >= 0
    PROVE  /\ sem' \in [Sem!Sems -> Nat] /\ adj' \in [Sem!Processes -> [Sem!Sems -> Int]]
           /\ \A s \in Sem!Sems : sem'[s] = IF s \in set THEN sem[s] + by ELSE sem[s]
           /\ \A q \in Sem!Processes : q # p => adj'[q] = adj[q]
           /\ \A s \in Sem!Sems :
                adj'[p][s] = IF s \in set THEN adj[p][s] - by ELSE adj[p][s]
<1> DEFINE row == [s \in Sem!Sems |-> IF s \in set THEN adj[p][s] - by ELSE adj[p][s]]
<1>1. /\ sem' = [s \in Sem!Sems |-> IF s \in set THEN sem[s] + by ELSE sem[s]]
      /\ adj' = [adj EXCEPT ![p] = row]
  BY DEF Sem!SemOp
<1>2. adj \in [Sem!Processes -> [Sem!Sems -> Int]] /\ sem \in [Sem!Sems -> Nat]
  BY DEF SemTypes
<1>3. adj[p] \in [Sem!Sems -> Int]
  BY <1>2
<1>4. row \in [Sem!Sems -> Int] /\ \A s \in Sem!Sems :
        row[s] = IF s \in set THEN adj[p][s] - by ELSE adj[p][s]
  BY <1>3
<1> HIDE DEF row
<1>5. adj' \in [Sem!Processes -> [Sem!Sems -> Int]]
  BY <1>1, <1>2, <1>4
<1>6. adj'[p] = row /\ \A q \in Sem!Processes : q # p => adj'[q] = adj[q]
  BY <1>1, <1>2
<1>7. sem' \in [Sem!Sems -> Nat]
      /\ \A s \in Sem!Sems : sem'[s] = IF s \in set THEN sem[s] + by ELSE sem[s]
  BY <1>1, <1>2
<1> QED
  BY <1>4, <1>5, <1>6, <1>7

(* It is counted, and the kernel would take the count back.                *)
LEMMA sem_inc_Step ==
    ASSUME SemRun, NEW p \in Ids, Sem!sem_inc(p)
    PROVE  SemRun'
<1> USE LecturesAssumption DEF LecturesAssumption, SemRun
<1>1. /\ pc_s[p] = "inc" /\ Sem!Goto(p, "loop") /\ Sem!SemOp(p, {p}, 1)
      /\ UNCHANGED <<semset, queue, msgs, has, type, valued, lost, ended>>
  BY DEF Sem!sem_inc, Sem!ids, Sem!history
<1>2. SourceMoves(p, "loop")
  BY <1>1, SourceFrame DEF SemSteps, ConsumerSteps
<1> USE <1>1, <1>2 DEF SourceMoves
<1>3. FirstType' /\ semset # "none" /\ queue # "none"
  BY DEF NoSetYet, NoQueueYet
<1>4. CASE semset = "there"
  <2>1. \A s \in Sem!Sems : s \in {p} => sem[s] + 1 >= 0
    BY DEF SemTypes
  <2>2. p \in Sem!Processes
    BY DEF Sem!Processes
  <2>3. /\ sem' \in [Sem!Sems -> Nat] /\ adj' \in [Sem!Processes -> [Sem!Sems -> Int]]
        /\ \A s \in Sem!Sems : sem'[s] = IF s = p THEN sem[s] + 1 ELSE sem[s]
        /\ \A q \in Sem!Processes : q # p => adj'[q] = adj[q]
        /\ \A s \in Sem!Sems : adj'[p][s] = IF s = p THEN adj[p][s] - 1 ELSE adj[p][s]
    <3> HIDE LecturesAssumption, <1>1, <1>2 DEF LecturesAssumption, SemRun, SourceMoves
    <3>1. SemTypes /\ Sem!SemOp(p, {p}, 1) /\ 1 \in Int
      BY <1>1 DEF SemRun
    <3>2. /\ sem' \in [Sem!Sems -> Nat] /\ adj' \in [Sem!Processes -> [Sem!Sems -> Int]]
          /\ \A s \in Sem!Sems : sem'[s] = IF s \in {p} THEN sem[s] + 1 ELSE sem[s]
          /\ \A q \in Sem!Processes : q # p => adj'[q] = adj[q]
          /\ \A s \in Sem!Sems :
               adj'[p][s] = IF s \in {p} THEN adj[p][s] - 1 ELSE adj[p][s]
      BY <1>4, <2>1, <2>2, <3>1, SemOpFacts
    <3> QED
      BY <3>2
  <2>4. SemTypes'
    BY <2>3 DEF SemTypes
  <2>5. NoSetYet' /\ NoValuesYet' /\ NoQueueYet'
    BY <1>3 DEF NoSetYet, NoValuesYet, NoQueueYet
  <2>6. Undo'
    <3>1. adj[p][p] \in Int
      BY DEF SemTypes, Sem!Processes, Sem!Sems
    <3>2. \A q \in Ids : q # p => adj'[q] = adj[q]
      BY <2>3 DEF Sem!Processes
    <3>3. \A c \in Consumers : adj'[c] = adj[c]
      BY <2>3 DEF Sem!Processes
    <3>4. p \in Sem!Sems
      BY DEF Sem!Sems
    <3>5. \A q \in Ids : adj'[q][q] <= 0 /\ \A s \in Sem!Sems : s # q => adj'[q][s] = 0
      BY <2>3, <3>1, <3>2, <3>4 DEF Undo
    <3> QED
      BY <3>3, <3>5 DEF Undo
  <2>7. LockHeld'
    BY <2>3 DEF LockHeld, Sem!Sems
  <2>8. CountsHeld'
    <3> SUFFICES ASSUME queue = "there", Sem!ConsumersSound, NEW t \in Ids
                 PROVE  /\ Counted(t)' + Uncounted(t)' <= msgs[t]
                        /\ t \notin ended \cup lost => Counted(t)' + Uncounted(t)' = msgs[t]
      BY DEF CountsHeld
    <3>1. sem[t] \in Nat /\ sem'[t] = IF t = p THEN sem[t] + 1 ELSE sem[t]
      BY <2>3 DEF SemTypes, Sem!Sems
    <3>2. Counted(t)' + Uncounted(t)' = Counted(t) + Uncounted(t)
      BY <3>1 DEF Counted, Uncounted
    <3> QED
      BY <1>4, <3>2 DEF CountsHeld
  <2> QED
    BY <1>3, <2>4, <2>5, <2>6, <2>7, <2>8
<1>5. CASE semset = "removed"
  <2>1. UNCHANGED <<sem, adj>>
    BY <1>5 DEF Sem!SemOp
  <2>2. SemTypes' /\ NoSetYet' /\ NoValuesYet' /\ NoQueueYet'
    BY <1>3, <1>5, <2>1 DEF SemTypes, NoSetYet, NoValuesYet, NoQueueYet
  <2>3. Undo' /\ LockHeld' /\ CountsHeld'
    BY <1>5, <2>1 DEF Undo, LockHeld, CountsHeld
  <2> QED
    BY <1>3, <2>2, <2>3
<1> QED
  BY <1>3, <1>4, <1>5 DEF SemTypes

(* The source leaves its loop.                                             *)
LEMMA source_end_Step ==
    ASSUME SemRun, NEW p \in Ids, Sem!source_end(p)
    PROVE  SemRun'
<1> USE LecturesAssumption DEF LecturesAssumption, SemRun
<1> DEFINE step == IF p = 1 THEN "rmqueue" ELSE "exit"
<1>1. /\ pc_s[p] = "loop" /\ Sem!Goto(p, step)
      /\ UNCHANGED <<semset, queue, sem, adj, msgs, has, type, valued, lost, ended>>
  BY DEF Sem!source_end, Sem!ids, Sem!history, Sem!ipc
<1>2. step \in SemSteps \ {"ended"}
  BY DEF SemSteps, ConsumerSteps
<1>3. step \in {"rmqueue", "exit"}
  OBVIOUS
<1> HIDE DEF step
<1>4. SourceMoves(p, step)
  BY <1>1, <1>2, SourceFrame
<1> USE <1>1, <1>3, <1>4 DEF SourceMoves
<1>5. SemTypes' /\ FirstType'
  BY DEF SemTypes
<1>6. NoSetYet' /\ NoValuesYet' /\ NoQueueYet'
  BY DEF NoSetYet, NoValuesYet, NoQueueYet
<1>7. Undo' /\ LockHeld'
  BY DEF Undo, LockHeld
<1>8. CountsHeld'
  <2>1. \A t \in Ids : Counted(t)' = Counted(t) /\ Uncounted(t)' = Uncounted(t)
    BY DEF Counted, Uncounted
  <2> QED
    BY <2>1 DEF CountsHeld
<1> QED
  BY <1>5, <1>6, <1>7, <1>8

(* Source 1 removes the queue, and then the semaphores.                    *)
LEMMA source_remove_Step ==
    ASSUME SemRun, NEW p \in Ids, Sem!source_remove(p)
    PROVE  SemRun'
<1> USE LecturesAssumption DEF LecturesAssumption, SemRun
<1>1. UNCHANGED <<has, type, valued, lost, ended>>
  BY DEF Sem!source_remove, Sem!ids, Sem!history
<1>2. CASE pc_s[p] = "rmqueue"
  <2>1. /\ Sem!Goto(p, "rmsem") /\ queue' = "removed" /\ msgs' = [t \in Ids |-> 0]
        /\ UNCHANGED <<semset, sem, adj>>
    BY <1>2 DEF Sem!source_remove
  <2>2. SourceMoves(p, "rmsem")
    BY <1>1, <1>2, <2>1, SourceFrame DEF SemSteps, ConsumerSteps
  <2> USE <1>1, <1>2, <2>1, <2>2 DEF SourceMoves
  <2>3. SemTypes' /\ FirstType'
    BY DEF SemTypes
  <2>4. NoSetYet' /\ NoValuesYet' /\ NoQueueYet'
    BY DEF NoSetYet, NoValuesYet, NoQueueYet
  <2>5. Undo' /\ LockHeld' /\ CountsHeld'
    BY DEF Undo, LockHeld, CountsHeld
  <2> QED
    BY <2>3, <2>4, <2>5
<1>3. CASE pc_s[p] = "rmsem"
  <2>1. /\ Sem!Goto(p, "exit") /\ semset' = "removed"
        /\ sem' = [s \in Sem!Sems |-> 0] /\ adj' = [q \in Sem!Processes |-> [s \in Sem!Sems |-> 0]]
        /\ UNCHANGED <<queue, msgs>>
    BY <1>3 DEF Sem!source_remove
  <2>2. SourceMoves(p, "exit")
    BY <1>1, <1>3, <2>1, SourceFrame DEF SemSteps, ConsumerSteps
  <2> USE <1>1, <1>3, <2>1, <2>2 DEF SourceMoves
  <2>3. sem' \in [Sem!Sems -> Nat] /\ adj' \in [Sem!Processes -> [Sem!Sems -> Int]]
    OBVIOUS
  <2>4. SemTypes' /\ FirstType'
    BY <2>3 DEF SemTypes
  <2>5. NoSetYet' /\ NoValuesYet' /\ NoQueueYet'
    BY DEF NoSetYet, NoValuesYet, NoQueueYet
  <2>6. Undo'
    BY DEF Undo, Sem!Processes, Sem!Sems
  <2>7. LockHeld' /\ CountsHeld'
    BY DEF LockHeld, CountsHeld
  <2> QED
    BY <2>4, <2>5, <2>6, <2>7
<1> QED
  BY <1>2, <1>3 DEF Sem!source_remove

(* A step of a consumer moves no source and no other consumer.             *)
ConsumerMoves(c, step) ==
    /\ pc_s' \in [Sem!Processes -> SemSteps]
    /\ pc_s'[c] = step /\ \A p \in Ids : pc_s'[p] = pc_s[p]
    /\ \A d \in Consumers : d # c => pc_s'[d] = pc_s[d]
    /\ \A d \in Consumers : pc_s'[d] \in ConsumerSteps
    /\ \A q \in Sem!Processes : q \in ended' <=> pc_s'[q] = "ended"
    /\ \A t \in Ids : Uncounted(t)' = Uncounted(t) /\ Uncounted(t) \in Nat

(* Going to another step is such a move.                                   *)
LEMMA ConsumerFrame ==
    ASSUME SemRun, NEW c \in Consumers, NEW step \in ConsumerSteps \ {"ended"},
           Sem!Goto(c, step), pc_s[c] # "ended", ended' = ended
    PROVE  ConsumerMoves(c, step)
<1> USE LecturesAssumption DEF LecturesAssumption
<1>1. /\ pc_s' \in [Sem!Processes -> SemSteps]
      /\ pc_s'[c] = step /\ \A q \in Sem!Processes : q # c => pc_s'[q] = pc_s[q]
  BY DEF SemRun, SemTypes, Sem!Goto, Sem!Processes, SemSteps
<1>2. \A p \in Ids : pc_s'[p] = pc_s[p]
  BY <1>1 DEF Sem!Processes
<1>3. \A d \in Consumers : d # c => pc_s'[d] = pc_s[d]
  BY <1>1 DEF Sem!Processes
<1>4. \A d \in Consumers : pc_s'[d] \in ConsumerSteps
  BY <1>1, <1>3 DEF SemRun, SemTypes
<1>5. \A q \in Sem!Processes : q \in ended' <=> pc_s'[q] = "ended"
  BY <1>1 DEF SemRun, SemTypes
<1>6. \A t \in Ids : Uncounted(t)' = Uncounted(t) /\ Uncounted(t) \in Nat
  BY <1>2 DEF Uncounted
<1> QED
  BY <1>1, <1>2, <1>3, <1>4, <1>5, <1>6 DEF ConsumerMoves

(* A consumer starts: it finds the set and the queue, or not.              *)
LEMMA consumer_get_Step ==
    ASSUME SemRun, NEW c \in Consumers, Sem!consumer_get(c)
    PROVE  SemRun'
<1> USE LecturesAssumption DEF LecturesAssumption, SemRun
<1>1. PICK step \in {"msgget", "lock"} :
        /\ Sem!Goto(c, step) /\ pc_s[c] \in {"semget", "msgget"}
        /\ \E found \in SUBSET {"sem", "queue"} :
            /\ has' = [has EXCEPT ![c] = @ \cup found]
            /\ "sem" \in found => semset = "there"
            /\ "queue" \in found => queue = "there"
  <2>1. CASE pc_s[c] = "semget"
    <3>1. Sem!Goto(c, "msgget") /\ has' = [has EXCEPT ![c] = @ \cup {x \in {"sem"} : semset = "there"}]
      BY <2>1 DEF Sem!consumer_get
    <3>2. {x \in {"sem"} : semset = "there"} \in SUBSET {"sem", "queue"}
      OBVIOUS
    <3>3. "queue" \notin {x \in {"sem"} : semset = "there"}
      OBVIOUS
    <3> HIDE DEF SemRun
    <3> QED
      BY <2>1, <3>1, <3>2, <3>3
  <2>2. CASE pc_s[c] = "msgget"
    <3>1. Sem!Goto(c, "lock") /\ has' = [has EXCEPT ![c] = @ \cup {x \in {"queue"} : queue = "there"}]
      BY <2>2 DEF Sem!consumer_get
    <3>2. {x \in {"queue"} : queue = "there"} \in SUBSET {"sem", "queue"}
      OBVIOUS
    <3>3. "sem" \notin {x \in {"queue"} : queue = "there"}
      OBVIOUS
    <3> HIDE DEF SemRun
    <3> QED
      BY <2>2, <3>1, <3>2, <3>3
  <2> QED
    BY <2>1, <2>2 DEF Sem!consumer_get
<1>2. PICK found \in SUBSET {"sem", "queue"} :
        /\ has' = [has EXCEPT ![c] = @ \cup found]
        /\ "sem" \in found => semset = "there"
        /\ "queue" \in found => queue = "there"
  BY <1>1
<1>3. UNCHANGED <<semset, queue, sem, adj, msgs, type, valued, lost, ended>>
  BY DEF Sem!consumer_get, Sem!ipc, Sem!history
<1>4. ConsumerMoves(c, step)
  BY <1>1, <1>3, ConsumerFrame DEF ConsumerSteps
<1>5. /\ has' \in [Consumers -> SUBSET {"sem", "queue"}]
      /\ \A d \in Consumers : d # c => has'[d] = has[d]
      /\ has'[c] = has[c] \cup found
  BY <1>2 DEF SemTypes
<1> USE <1>1, <1>3, <1>4, <1>5 DEF ConsumerMoves
<1>6. Sem!Readers' = Sem!Readers
  BY DEF Sem!Readers
<1>7. \A t \in Ids : OwesRead(t)' <=> OwesRead(t)
  BY <1>6 DEF OwesRead, Sem!Readers
<1>8. SemTypes' /\ FirstType'
  BY DEF SemTypes, FirstType
<1>9. NoSetYet' /\ NoValuesYet' /\ NoQueueYet'
  <2>1. NoSetYet'
    BY <1>2 DEF NoSetYet
  <2>2. NoValuesYet'
    BY DEF NoValuesYet
  <2>3. NoQueueYet'
    BY <1>2 DEF NoQueueYet
  <2> QED
    BY <2>1, <2>2, <2>3
<1>10. Undo' /\ LockHeld'
  BY <1>6 DEF Undo, LockHeld
<1>11. CountsHeld'
  <2>1. Sem!ConsumersSound' => Sem!ConsumersSound
    BY DEF Sem!ConsumersSound
  <2>2. \A t \in Ids : Counted(t)' = Counted(t)
    BY <1>7 DEF Counted
  <2> QED
    BY <2>1, <2>2 DEF CountsHeld
<1> QED
  BY <1>8, <1>9, <1>10, <1>11

(* The consumer takes the lock and a count of every source, if it counts   *)
(* on the semaphores.                                                      *)
LEMMA lock_events_Step ==
    ASSUME SemRun, NEW c \in Consumers, Sem!lock_events(c)
    PROVE  SemRun'
<1> USE LecturesAssumption DEF LecturesAssumption, SemRun
<1>1. /\ pc_s[c] = "lock" /\ Sem!Goto(c, "read")
      /\ UNCHANGED <<semset, queue, msgs, has, type, valued, lost, ended>>
  BY DEF Sem!lock_events, Sem!ids, Sem!history
<1>2. ConsumerMoves(c, "read")
  BY <1>1, ConsumerFrame DEF ConsumerSteps
<1> USE <1>1, <1>2 DEF ConsumerMoves
<1>3. FirstType' /\ type[c] = Sem!Min(Ids) /\ c \notin Sem!Readers
  BY DEF FirstType, Sem!Readers
<1>4. Sem!ConsumersSound' => Sem!ConsumersSound /\ "sem" \in has[c]
  BY DEF Sem!ConsumersSound
<1>5. CASE Sem!Sees(c, "sem")
  <2>1. /\ semset = "there" /\ "sem" \in has[c]
        /\ Sem!SemOp(c, Sem!Sems, -1) /\ \A s \in Sem!Sems : sem[s] > 0
    BY <1>5 DEF Sem!Sees, Sem!lock_events
  <2>2. c \in Sem!Processes /\ \A s \in Sem!Sems : sem[s] \in Nat
    BY DEF Sem!Processes, SemTypes
  <2>3. \A s \in Sem!Sems : s \in Sem!Sems => sem[s] + (-1) >= 0
    BY <2>1, <2>2
  <2>4. /\ sem' \in [Sem!Sems -> Nat] /\ adj' \in [Sem!Processes -> [Sem!Sems -> Int]]
        /\ \A s \in Sem!Sems : sem'[s] = sem[s] + (-1)
        /\ \A q \in Sem!Processes : q # c => adj'[q] = adj[q]
        /\ \A s \in Sem!Sems : adj'[c][s] = adj[c][s] - (-1)
    BY <2>1, <2>2, <2>3, SemOpFacts
  <2>5. Sem!Readers = {} /\ sem[Sem!LOCK] = 1 /\ valued
    <3>1. Sem!LOCK \in Sem!Sems /\ valued \in BOOLEAN
      BY DEF Sem!Sems, SemTypes
    <3>2. sem[Sem!LOCK] \in Nat /\ sem[Sem!LOCK] > 0
      BY <2>1, <2>2, <3>1
    <3>3. sem[Sem!LOCK] + (IF Sem!Readers = {} THEN 0 ELSE 1) = IF valued THEN 1 ELSE 0
      BY <2>1 DEF LockHeld
    <3> HIDE DEF SemRun
    <3> QED
      BY <3>1, <3>2, <3>3
  <2>6. Sem!Readers' = {c}
    BY <2>1, <2>5 DEF Sem!Readers
  <2>7. SemTypes'
    BY <2>4 DEF SemTypes
  <2>8. NoSetYet' /\ NoValuesYet'
    BY DEF NoSetYet, NoValuesYet
  <2>9. NoQueueYet'
    BY <2>1 DEF NoQueueYet, Sem!Sems
  <2>10. Undo'
    <3>1. \A p \in Ids : adj'[p] = adj[p]
      BY <2>4 DEF Sem!Processes
    <3>2. \A d \in Consumers : d # c => adj'[d] = adj[d]
      BY <2>4 DEF Sem!Processes
    <3>3. adj[c][Sem!LOCK] = 0 /\ adj'[c][Sem!LOCK] = 1
      <4>1. Sem!LOCK \in Sem!Sems
        BY DEF Sem!Sems
      <4>2. adj[c][Sem!LOCK] = 0
        BY <1>3, <2>1 DEF Undo
      <4> QED
        BY <2>4, <4>1, <4>2
    <3>4. \A d \in Consumers : d # c => adj'[d][Sem!LOCK] = 0
      BY <2>1, <2>5, <3>2 DEF Undo
    <3> QED
      BY <2>6, <3>1, <3>3, <3>4 DEF Undo
  <2>11. LockHeld'
    <3>1. Sem!LOCK \in Sem!Sems /\ valued' = valued
      BY DEF Sem!Sems
    <3>2. sem'[Sem!LOCK] = 0
      BY <2>4, <2>5, <3>1
    <3> HIDE LecturesAssumption DEF LecturesAssumption, SemRun
    <3> QED
      BY <2>5, <2>6, <3>1, <3>2 DEF LockHeld
  <2>12. CountsHeld'
    <3> SUFFICES ASSUME queue = "there", Sem!ConsumersSound', NEW t \in Ids
                 PROVE  /\ Counted(t)' + Uncounted(t)' <= msgs[t]
                        /\ t \notin ended \cup lost => Counted(t)' + Uncounted(t)' = msgs[t]
      BY DEF CountsHeld
    <3>1. Sem!Min(Ids) <= t
      BY MinFacts
    <3>2. OwesRead(t)' /\ ~OwesRead(t)
      BY <1>3, <2>5, <2>6, <3>1 DEF OwesRead
    <3>3. sem[t] \in Nat /\ sem'[t] = sem[t] + (-1)
      BY <2>2, <2>4 DEF Sem!Sems
    <3>4. Counted(t)' = Counted(t)
      BY <3>2, <3>3 DEF Counted
    <3> QED
      BY <1>4, <2>1, <3>4 DEF CountsHeld
  <2> QED
    BY <1>3, <2>7, <2>8, <2>9, <2>10, <2>11, <2>12
<1>6. CASE ~Sem!Sees(c, "sem")
  <2>1. UNCHANGED <<sem, adj>>
    BY <1>6 DEF Sem!lock_events
  <2>2. semset = "there" => "sem" \notin has[c]
    BY <1>6 DEF Sem!Sees
  <2>3. SemTypes' /\ NoSetYet' /\ NoValuesYet' /\ NoQueueYet'
    BY <2>1 DEF SemTypes, NoSetYet, NoValuesYet, NoQueueYet
  <2>4. semset # "removed" => Sem!Readers' = Sem!Readers
    BY <2>2 DEF Sem!Readers, NoSetYet, SemTypes
  <2>5. Undo' /\ LockHeld'
    BY <2>1, <2>4 DEF Undo, LockHeld
  <2>6. CountsHeld'
    BY <1>4, <2>2 DEF CountsHeld
  <2> QED
    BY <1>3, <2>3, <2>5, <2>6
<1> QED
  BY <1>5, <1>6

(* One message is read, and the consumer turns to the next source.         *)
LEMMA recv_msg_Step ==
    ASSUME SemRun, NEW c \in Consumers, Sem!recv_msg(c)
    PROVE  SemRun'
<1> USE LecturesAssumption DEF LecturesAssumption
<1> DEFINE more == {t \in Ids : t > type[c]}
           step == IF more # {} THEN "read" ELSE "unlock"
<1>1. /\ pc_s[c] = "read" /\ Sem!Goto(c, step)
      /\ type' = [type EXCEPT ![c] = Sem!Min(IF more # {} THEN more ELSE Ids)]
      /\ UNCHANGED <<semset, queue, sem, adj, has, valued, lost, ended>>
  BY DEF Sem!recv_msg, Sem!ReadOn, Sem!history
<1>2. step \in ConsumerSteps \ {"ended"}
  BY DEF ConsumerSteps
<1>3. ConsumerMoves(c, step)
  BY <1>1, <1>2, ConsumerFrame
<1>4. type \in [Consumers -> Ids] /\ type[c] \in Ids /\ more \subseteq Ids
  BY DEF SemRun, SemTypes
<1>5. /\ type' \in [Consumers -> Ids]
      /\ \A d \in Consumers : d # c => type'[d] = type[d]
      /\ more # {} => type'[c] \in more /\ \A t \in more : type'[c] <= t
      /\ more = {} => type'[c] = Sem!Min(Ids)
  <2>1. more # {} => Sem!Min(more) \in more /\ \A t \in more : Sem!Min(more) <= t
    BY MinFacts
  <2>2. Sem!Min(Ids) \in Ids
    BY MinFacts
  <2> HIDE DEF more
  <2>3. Sem!Min(IF more # {} THEN more ELSE Ids) \in Ids
    BY <1>4, <2>1, <2>2
  <2>4. type' \in [Consumers -> Ids]
    BY <1>1, <1>4, <2>3
  <2>5. /\ type'[c] = Sem!Min(IF more # {} THEN more ELSE Ids)
        /\ \A d \in Consumers : d # c => type'[d] = type[d]
    BY <1>1, <1>4
  <2> QED
    BY <2>1, <2>4, <2>5
<1>6. msgs \in [Ids -> Nat] /\ msgs' \in [Ids -> Nat]
  BY <1>4 DEF Sem!recv_msg, SemRun, SemTypes
<1>7. step \in {"read", "unlock"} /\ (step = "read" <=> more # {})
  OBVIOUS
<1> HIDE DEF step
<1> USE <1>1, <1>3, <1>7 DEF ConsumerMoves, SemRun
<1>8. Sem!Readers' = Sem!Readers
  BY DEF Sem!Readers
<1>9. SemTypes' /\ FirstType'
  BY <1>5, <1>6 DEF SemTypes, FirstType
<1>10. NoSetYet' /\ NoValuesYet'
  BY DEF NoSetYet, NoValuesYet
<1>11. NoQueueYet'
  BY DEF NoQueueYet, Sem!recv_msg, Sem!Sees
<1>12. Undo' /\ LockHeld'
  BY <1>8 DEF Undo, LockHeld
<1>13. CountsHeld'
  <2> SUFFICES ASSUME semset = "there", queue = "there", Sem!ConsumersSound', NEW t \in Ids
               PROVE  /\ Counted(t)' + Uncounted(t)' <= msgs'[t]
                      /\ t \notin ended \cup lost => Counted(t)' + Uncounted(t)' = msgs'[t]
    BY DEF CountsHeld
  <2>1. has[c] = {"sem", "queue"} /\ Sem!ConsumersSound
    BY DEF Sem!ConsumersSound
  <2>2. Sem!Readers = {c}
    BY <2>1 DEF LockHeld, Sem!Readers
  <2>3. msgs[type[c]] > 0 /\ msgs' = [msgs EXCEPT ![type[c]] = @ - 1]
    BY <2>1 DEF Sem!recv_msg, Sem!Sees
  <2>4. msgs'[t] = msgs[t] - (IF t = type[c] THEN 1 ELSE 0) /\ msgs[t] \in Nat
    BY <1>6, <2>3
  <2>5. OwesRead(t) <=> type[c] <= t
    BY <2>2 DEF OwesRead
  <2>6. OwesRead(t)' <=> more # {} /\ type'[c] <= t
    BY <1>8, <2>2 DEF OwesRead
  <2>7. t \in Nat /\ type[c] \in Nat
    BY <1>4
  <2>8. OwesRead(t)' <=> type[c] < t
    <3>1. type[c] < t => t \in more
      BY <2>7
    <3>2. \A x \in more : x \in Nat /\ type[c] < x
      BY <2>7
    <3> HIDE DEF more
    <3> QED
      BY <1>5, <2>6, <2>7, <3>1, <3>2
  <2>9. sem[t] \in Nat /\ sem'[t] = sem[t]
    BY DEF SemTypes, Sem!Sems
  <2>10. Counted(t)' = Counted(t) - (IF t = type[c] THEN 1 ELSE 0) /\ Counted(t) \in Nat
    BY <2>5, <2>7, <2>8, <2>9 DEF Counted
  <2>11. /\ Counted(t) + Uncounted(t) <= msgs[t]
         /\ t \notin ended \cup lost => Counted(t) + Uncounted(t) = msgs[t]
    BY <2>1 DEF CountsHeld
  <2>12. Uncounted(t)' = Uncounted(t) /\ Uncounted(t) \in Nat
    OBVIOUS
  <2> HIDE DEF SemRun, ConsumerMoves
  <2> QED
    BY <2>4, <2>10, <2>11, <2>12
<1> QED
  BY <1>9, <1>10, <1>11, <1>12, <1>13

(* The consumer gives the lock back.                                       *)
LEMMA unlock_events_Step ==
    ASSUME SemRun, NEW c \in Consumers, Sem!unlock_events(c)
    PROVE  SemRun'
<1> USE LecturesAssumption DEF LecturesAssumption, SemRun
<1>1. /\ pc_s[c] = "unlock" /\ Sem!Goto(c, "lock")
      /\ UNCHANGED <<semset, queue, msgs, has, type, valued, lost, ended>>
  BY DEF Sem!unlock_events, Sem!ids, Sem!history
<1>2. ConsumerMoves(c, "lock")
  BY <1>1, ConsumerFrame DEF ConsumerSteps
<1> USE <1>1, <1>2 DEF ConsumerMoves
<1>3. FirstType'
  BY DEF FirstType
<1>4. Sem!ConsumersSound' => Sem!ConsumersSound /\ "sem" \in has[c]
  BY DEF Sem!ConsumersSound
<1>5. Sem!Readers' = Sem!Readers \ {c}
  BY DEF Sem!Readers
<1>6. CASE Sem!Sees(c, "sem")
  <2>1. semset = "there" /\ "sem" \in has[c] /\ Sem!SemOp(c, {Sem!LOCK}, 1)
    BY <1>6 DEF Sem!Sees, Sem!unlock_events
  <2>2. c \in Sem!Processes /\ Sem!LOCK \in Sem!Sems /\ \A s \in Sem!Sems : sem[s] \in Nat
    BY DEF Sem!Processes, SemTypes, Sem!Sems
  <2>3. \A s \in Sem!Sems : s \in {Sem!LOCK} => sem[s] + 1 >= 0
    BY <2>2
  <2>4. /\ sem' \in [Sem!Sems -> Nat] /\ adj' \in [Sem!Processes -> [Sem!Sems -> Int]]
        /\ \A s \in Sem!Sems : sem'[s] = IF s = Sem!LOCK THEN sem[s] + 1 ELSE sem[s]
        /\ \A q \in Sem!Processes : q # c => adj'[q] = adj[q]
        /\ \A s \in Sem!Sems : adj'[c][s] = IF s = Sem!LOCK THEN adj[c][s] - 1 ELSE adj[c][s]
    BY <2>1, <2>2, <2>3, SemOpFacts
  <2>5. Sem!Readers = {c} /\ Sem!Readers' = {}
    BY <1>5, <2>1 DEF LockHeld, Sem!Readers
  <2>6. SemTypes'
    BY <2>4 DEF SemTypes
  <2>7. NoSetYet' /\ NoValuesYet'
    BY DEF NoSetYet, NoValuesYet
  <2>8. \A t \in Ids : t # Sem!LOCK /\ t \in Sem!Sems
    BY DEF Sem!Sems
  <2>9. \A t \in Ids : sem'[t] = sem[t] /\ \A q \in Sem!Processes : adj'[q][t] = adj[q][t]
    BY <2>4, <2>8
  <2>10. NoQueueYet'
    BY <2>9 DEF NoQueueYet
  <2>11. Undo'
    <3>1. \A p \in Ids : adj'[p] = adj[p]
      BY <2>4 DEF Sem!Processes
    <3>2. \A d \in Consumers : d # c => adj'[d] = adj[d]
      BY <2>4 DEF Sem!Processes
    <3>3. adj[c][Sem!LOCK] = 1
      BY <2>1, <2>5 DEF Undo
    <3>4. adj'[c][Sem!LOCK] = 0
      BY <2>2, <2>4, <3>3
    <3>5. \A d \in Consumers : d # c => adj'[d][Sem!LOCK] = 0
      BY <2>1, <2>5, <3>2 DEF Undo
    <3> QED
      BY <2>5, <3>1, <3>4, <3>5 DEF Undo
  <2>12. LockHeld'
    <3>1. sem[Sem!LOCK] + 1 = IF valued THEN 1 ELSE 0
      BY <2>1, <2>5 DEF LockHeld
    <3>2. sem'[Sem!LOCK] = sem[Sem!LOCK] + 1
      BY <2>2, <2>4
    <3>3. sem'[Sem!LOCK] \in Nat
      BY <2>2, <2>4
    <3> QED
      BY <2>5, <3>1, <3>2, <3>3 DEF LockHeld
  <2>13. CountsHeld'
    <3>1. \A t \in Ids : ~OwesRead(t)' /\ ~OwesRead(t)
      BY <2>5 DEF OwesRead
    <3>2. \A t \in Ids : Counted(t)' = Counted(t)
      BY <2>9, <3>1 DEF Counted
    <3> QED
      BY <1>4, <3>2 DEF CountsHeld
  <2> QED
    BY <1>3, <2>6, <2>7, <2>10, <2>11, <2>12, <2>13
<1>7. CASE ~Sem!Sees(c, "sem")
  <2>1. UNCHANGED <<sem, adj>>
    BY <1>7 DEF Sem!unlock_events
  <2>2. semset = "there" => "sem" \notin has[c]
    BY <1>7 DEF Sem!Sees
  <2>3. SemTypes' /\ NoSetYet' /\ NoValuesYet' /\ NoQueueYet'
    BY <2>1 DEF SemTypes, NoSetYet, NoValuesYet, NoQueueYet
  <2>4. semset # "removed" => Sem!Readers' = Sem!Readers
    BY <1>5, <2>2 DEF Sem!Readers, NoSetYet, SemTypes
  <2>5. Undo' /\ LockHeld'
    BY <2>1, <2>4 DEF Undo, LockHeld
  <2>6. CountsHeld'
    BY <1>4, <2>2 DEF CountsHeld
  <2> QED
    BY <1>3, <2>3, <2>5, <2>6
<1> QED
  BY <1>6, <1>7

(* The end of a source: the kernel takes back counts of its own only.      *)
LEMMA SourceExitStep ==
    ASSUME SemRun, NEW p \in Ids, Sem!Exit(p)
    PROVE  SemRun'
<1> USE LecturesAssumption DEF LecturesAssumption, SemRun
<1>1. p \in Sem!Processes /\ p \notin Consumers /\ p \in Sem!Sems
  BY DEF Sem!Processes, Sem!Sems
<1>2. /\ p \notin ended /\ ended' = ended \cup {p} /\ Sem!Goto(p, "ended")
      /\ sem' = [s \in Sem!Sems |-> Sem!Max({0, sem[s] + adj[p][s]})]
      /\ adj' = [adj EXCEPT ![p] = [s \in Sem!Sems |-> 0]]
      /\ UNCHANGED <<semset, queue, msgs, valued, lost>>
  BY DEF Sem!Exit
<1>3. has' = has /\ type' = type
  BY <1>1 DEF Sem!Exit, SemTypes
<1>4. /\ pc_s' \in [Sem!Processes -> SemSteps]
      /\ pc_s'[p] = "ended" /\ \A q \in Sem!Processes : q # p => pc_s'[q] = pc_s[q]
  BY <1>1, <1>2 DEF SemTypes, Sem!Goto, SemSteps, ConsumerSteps
<1>5. /\ \A q \in Ids : q # p => pc_s'[q] = pc_s[q]
      /\ \A c \in Consumers : pc_s'[c] = pc_s[c]
  BY <1>1, <1>4 DEF Sem!Processes
<1>6. /\ adj' \in [Sem!Processes -> [Sem!Sems -> Int]]
      /\ \A s \in Sem!Sems : adj'[p][s] = 0
      /\ \A q \in Sem!Processes : q # p => adj'[q] = adj[q]
  <2>1. [s \in Sem!Sems |-> 0] \in [Sem!Sems -> Int]
    OBVIOUS
  <2>2. adj \in [Sem!Processes -> [Sem!Sems -> Int]]
    BY DEF SemTypes
  <2> QED
    BY <1>1, <1>2, <2>1, <2>2
<1>7. ASSUME NEW s \in Sem!Sems
      PROVE  sem'[s] \in Nat /\ sem'[s] <= sem[s] /\ (s # p => sem'[s] = sem[s])
  <2>1. sem[s] \in Nat /\ adj[p][s] \in Int /\ adj[p][s] <= 0 /\ (s # p => adj[p][s] = 0)
    BY <1>1 DEF SemTypes, Undo
  <2>2. sem'[s] = IF sem[s] + adj[p][s] >= 0 THEN sem[s] + adj[p][s] ELSE 0
    BY <1>2, <2>1, MaxFacts
  <2> QED
    BY <2>1, <2>2
<1>8. sem' \in [Sem!Sems -> Nat]
  BY <1>2, <1>7
<1>9. Sem!Readers' = Sem!Readers
  BY <1>3, <1>5 DEF Sem!Readers
<1>10. SemTypes' /\ FirstType'
  <2>1. \A q \in Sem!Processes : q \in ended' <=> pc_s'[q] = "ended"
    BY <1>2, <1>4 DEF SemTypes
  <2>2. \A c \in Consumers : pc_s'[c] \in ConsumerSteps
    BY <1>5 DEF SemTypes
  <2> QED
    BY <1>2, <1>3, <1>4, <1>5, <1>6, <1>8, <2>1, <2>2 DEF SemTypes, FirstType
<1>11. NoSetYet' /\ NoValuesYet'
  BY <1>2, <1>3, <1>4, <1>5 DEF NoSetYet, NoValuesYet
<1>12. NoQueueYet'
  <2> SUFFICES ASSUME queue = "none" PROVE NoQueueYet'
    BY <1>2 DEF NoQueueYet
  <2>1. \A t \in Ids : sem'[t] = 0
    BY <1>7 DEF NoQueueYet, Sem!Sems
  <2>2. \A q \in Sem!Processes, t \in Ids : adj'[q][t] = 0
    BY <1>6 DEF NoQueueYet, Sem!Sems
  <2> QED
    BY <1>2, <1>3, <1>4, <1>5, <2>1, <2>2 DEF NoQueueYet
<1>13. Undo'
  <2>1. \A c \in Consumers : adj'[c] = adj[c]
    BY <1>1, <1>6 DEF Sem!Processes
  <2>2. \A q \in Ids : q # p => adj'[q] = adj[q]
    BY <1>6 DEF Sem!Processes
  <2> QED
    BY <1>1, <1>2, <1>6, <1>9, <2>1, <2>2 DEF Undo
<1>14. LockHeld'
  <2>1. sem'[Sem!LOCK] = sem[Sem!LOCK]
    BY <1>7 DEF Sem!Sems
  <2> QED
    BY <1>2, <1>9, <2>1 DEF LockHeld
<1>15. CountsHeld'
  <2> SUFFICES ASSUME semset = "there", queue = "there", Sem!ConsumersSound', NEW t \in Ids
               PROVE  /\ Counted(t)' + Uncounted(t)' <= msgs[t]
                      /\ t \notin ended' \cup lost => Counted(t)' + Uncounted(t)' = msgs[t]
    BY <1>2 DEF CountsHeld
  <2>1. Sem!ConsumersSound
    BY <1>2, <1>3, <1>5 DEF Sem!ConsumersSound
  <2>2. OwesRead(t)' <=> OwesRead(t)
    BY <1>3, <1>5, <1>9 DEF OwesRead, Sem!Readers
  <2>3. sem[t] \in Nat /\ sem'[t] \in Nat /\ sem'[t] <= sem[t] /\ (t # p => sem'[t] = sem[t])
    BY <1>7 DEF SemTypes, Sem!Sems
  <2>4. /\ Counted(t) \in Nat /\ Counted(t)' \in Nat /\ Counted(t)' <= Counted(t)
        /\ t # p => Counted(t)' = Counted(t)
    BY <2>2, <2>3 DEF Counted
  <2>5. /\ Uncounted(t) \in Nat /\ Uncounted(t)' \in Nat /\ Uncounted(t)' <= Uncounted(t)
        /\ t # p => Uncounted(t)' = Uncounted(t)
    BY <1>4, <1>5 DEF Uncounted
  <2>6. /\ Counted(t) + Uncounted(t) <= msgs[t]
        /\ t \notin ended \cup lost => Counted(t) + Uncounted(t) = msgs[t]
    BY <2>1 DEF CountsHeld
  <2>7. msgs[t] \in Nat /\ (t \notin ended' \cup lost => t # p /\ t \notin ended \cup lost)
    BY <1>2 DEF SemTypes
  <2> HIDE DEF SemRun
  <2> QED
    BY <2>4, <2>5, <2>6, <2>7
<1> QED
  BY <1>10, <1>11, <1>12, <1>13, <1>14, <1>15

(* The end of a consumer: the kernel gives the lock back if it was inside. *)
LEMMA ConsumerExitStep ==
    ASSUME SemRun, NEW c \in Consumers, Sem!Exit(c)
    PROVE  SemRun'
<1> USE LecturesAssumption DEF LecturesAssumption, SemRun
<1>1. c \in Sem!Processes /\ c \notin Ids /\ Sem!LOCK \in Sem!Sems
  BY DEF Sem!Processes, Sem!Sems
<1>2. /\ c \notin ended /\ ended' = ended \cup {c} /\ Sem!Goto(c, "ended")
      /\ sem' = [s \in Sem!Sems |-> Sem!Max({0, sem[s] + adj[c][s]})]
      /\ adj' = [adj EXCEPT ![c] = [s \in Sem!Sems |-> 0]]
      /\ has' = [d \in Consumers |-> IF d = c THEN {} ELSE has[d]]
      /\ type' = [d \in Consumers |-> IF d = c THEN Sem!Min(Ids) ELSE type[d]]
      /\ UNCHANGED <<semset, queue, msgs, valued, lost>>
  BY DEF Sem!Exit
<1>3. /\ pc_s' \in [Sem!Processes -> SemSteps]
      /\ pc_s'[c] = "ended" /\ \A q \in Sem!Processes : q # c => pc_s'[q] = pc_s[q]
  BY <1>1, <1>2 DEF SemTypes, Sem!Goto, SemSteps, ConsumerSteps
<1>4. /\ \A p \in Ids : pc_s'[p] = pc_s[p]
      /\ \A d \in Consumers : d # c => pc_s'[d] = pc_s[d]
  BY <1>1, <1>3 DEF Sem!Processes
<1>5. /\ adj' \in [Sem!Processes -> [Sem!Sems -> Int]]
      /\ \A s \in Sem!Sems : adj'[c][s] = 0
      /\ \A q \in Sem!Processes : q # c => adj'[q] = adj[q]
  <2>1. [s \in Sem!Sems |-> 0] \in [Sem!Sems -> Int]
    OBVIOUS
  <2>2. adj \in [Sem!Processes -> [Sem!Sems -> Int]]
    BY DEF SemTypes
  <2> QED
    BY <1>1, <1>2, <2>1, <2>2
<1>6. ASSUME NEW s \in Sem!Sems
      PROVE  /\ sem'[s] \in Nat /\ sem[s] \in Nat
             /\ adj[c][s] >= 0 => sem'[s] = sem[s] + adj[c][s]
  <2>1. sem[s] \in Nat /\ adj[c][s] \in Int
    BY <1>1 DEF SemTypes
  <2>2. sem'[s] = IF sem[s] + adj[c][s] >= 0 THEN sem[s] + adj[c][s] ELSE 0
    BY <1>2, <2>1, MaxFacts
  <2> QED
    BY <2>1, <2>2
<1>7. sem' \in [Sem!Sems -> Nat]
  BY <1>2, <1>6
<1>8. Sem!Readers' = Sem!Readers \ {c}
  BY <1>2, <1>4 DEF Sem!Readers
<1>9. SemTypes' /\ FirstType'
  <2>1. \A q \in Sem!Processes : q \in ended' <=> pc_s'[q] = "ended"
    BY <1>2, <1>3 DEF SemTypes
  <2>2. \A d \in Consumers : pc_s'[d] \in ConsumerSteps
    BY <1>3, <1>4 DEF SemTypes, ConsumerSteps
  <2>3. has' \in [Consumers -> SUBSET {"sem", "queue"}]
    BY <1>2 DEF SemTypes
  <2>4. Sem!Min(Ids) \in Ids
    BY MinFacts
  <2>5. type' \in [Consumers -> Ids]
    BY <1>2, <2>4 DEF SemTypes
  <2>6. FirstType'
    BY <1>2, <1>4 DEF FirstType
  <2> QED
    BY <1>2, <1>3, <1>5, <1>7, <2>1, <2>2, <2>3, <2>5, <2>6 DEF SemTypes
<1>10. NoSetYet' /\ NoValuesYet'
  BY <1>2, <1>4 DEF NoSetYet, NoValuesYet
<1>11. NoQueueYet'
  <2> SUFFICES ASSUME queue = "none" PROVE NoQueueYet'
    BY <1>2 DEF NoQueueYet
  <2>1. \A t \in Ids : t \in Sem!Sems /\ sem[t] = 0 /\ adj[c][t] = 0
    BY <1>1 DEF NoQueueYet, Sem!Sems
  <2>2. \A t \in Ids : sem'[t] = 0
    BY <1>6, <2>1
  <2>3. \A q \in Sem!Processes, t \in Ids : adj'[q][t] = 0
    BY <1>5, <2>1 DEF NoQueueYet
  <2>4. \A d \in Consumers : "queue" \notin has'[d]
    BY <1>2 DEF NoQueueYet
  <2> QED
    BY <1>2, <1>4, <2>2, <2>3, <2>4 DEF NoQueueYet
<1>12. Undo'
  <2>1. \A p \in Ids : adj'[p] = adj[p]
    BY <1>1, <1>5 DEF Sem!Processes
  <2>2. \A d \in Consumers : d # c => adj'[d] = adj[d]
    BY <1>5 DEF Sem!Processes
  <2>3. adj'[c][Sem!LOCK] = 0
    BY <1>1, <1>5
  <2> QED
    BY <1>2, <1>8, <2>1, <2>2, <2>3 DEF Undo
<1>13. LockHeld'
  <2> SUFFICES ASSUME semset # "removed" PROVE LockHeld'
    BY <1>2 DEF LockHeld
  <2>1. /\ \A d, e \in Sem!Readers : d = e
        /\ sem[Sem!LOCK] + (IF Sem!Readers = {} THEN 0 ELSE 1) = IF valued THEN 1 ELSE 0
        /\ adj[c][Sem!LOCK] = IF c \in Sem!Readers THEN 1 ELSE 0
    BY DEF LockHeld, Undo
  <2>2. /\ sem[Sem!LOCK] \in Nat
        /\ sem'[Sem!LOCK] = sem[Sem!LOCK] + IF c \in Sem!Readers THEN 1 ELSE 0
    BY <1>1, <1>6, <2>1
  <2>3. CASE c \in Sem!Readers
    <3>1. Sem!Readers' = {} /\ Sem!Readers # {}
      BY <1>8, <2>1, <2>3
    <3> QED
      BY <1>2, <2>1, <2>2, <2>3, <3>1 DEF LockHeld
  <2>4. CASE c \notin Sem!Readers
    <3>1. Sem!Readers' = Sem!Readers
      BY <1>8, <2>4
    <3> QED
      BY <1>2, <2>1, <2>2, <2>4, <3>1 DEF LockHeld
  <2> QED
    BY <2>3, <2>4
<1>14. CountsHeld'
  <2>1. ~Sem!ConsumersSound'
    BY <1>2 DEF Sem!ConsumersSound
  <2> QED
    BY <2>1 DEF CountsHeld
<1> QED
  BY <1>9, <1>10, <1>11, <1>12, <1>13, <1>14

(* Every step keeps the invariant.                                         *)
LEMMA SemStep == SemInv /\ [Next]_vars => SemInv'
<1> SUFFICES ASSUME SemInv, [Next]_vars PROVE SemInv'
  OBVIOUS
<1>1. CASE SemNext
  <2>1. program = "events" /\ program' = program /\ Sem!Next /\ SemRun
    BY <1>1 DEF SemNext, SemInv
  <2>2. ASSUME NEW p \in Ids, Sem!Source(p) PROVE SemRun'
    BY <2>1, <2>2, sem_get_or_create_Step, sem_set_all_Step, msg_queue_get_or_create_Step,
       send_msg_Step, sem_inc_Step, source_end_Step, source_remove_Step DEF Sem!Source
  <2>3. ASSUME NEW c \in Consumers, Sem!Consumer(c) PROVE SemRun'
    BY <2>1, <2>3, consumer_get_Step, lock_events_Step, recv_msg_Step, unlock_events_Step
       DEF Sem!Consumer
  <2>4. ASSUME NEW p \in Sem!Processes, Sem!Exit(p) PROVE SemRun'
    BY <2>1, <2>4, SourceExitStep, ConsumerExitStep DEF Sem!Processes
  <2> QED
    BY <2>1, <2>2, <2>3, <2>4 DEF Sem!Next, SemInv
<1>2. CASE UNCHANGED <<program, sem_vars>>
  <2>1. SemRun => SemRun'
    <3> USE <1>2 DEF sem_vars
    <3>1. Sem!Readers' = Sem!Readers
      BY DEF Sem!Readers
    <3>2. SemTypes => SemTypes'
      BY DEF SemTypes
    <3>3. NoSetYet /\ NoValuesYet /\ NoQueueYet => NoSetYet' /\ NoValuesYet' /\ NoQueueYet'
      BY DEF NoSetYet, NoValuesYet, NoQueueYet
    <3>4. Undo /\ LockHeld /\ FirstType => Undo' /\ LockHeld' /\ FirstType'
      BY <3>1 DEF Undo, LockHeld, FirstType
    <3>5. CountsHeld => CountsHeld'
      BY <3>1 DEF CountsHeld, Counted, Uncounted, OwesRead, Sem!ConsumersSound
    <3> QED
      BY <3>2, <3>3, <3>4, <3>5 DEF SemRun
  <2> QED
    BY <1>2, <2>1 DEF SemInv, sem_vars
<1> QED
  BY <1>1, <1>2 DEF Next, vars, SortNext, AioNext, ReorderNext, SpinNext, EarlyNext, CondNext

(* With any number of sources and consumers, whoever ends or is killed at  *)
(* any point: the lock over the semaphores is neither lost nor doubled,    *)
(* and a count on a semaphore stands for a message in the queue.           *)
THEOREM LecturesLockAndCounts == Spec => []LockAndCounts
<1> USE LecturesAssumption DEF LecturesAssumption
<1>1. ASSUME SemRun PROVE LockAndCounts
  <2> USE <1>1 DEF SemRun
  <2>1. ASSUME semset = "there"
        PROVE  Sem!Cardinality(Sem!Readers) = IF Sem!Readers = {} THEN 0 ELSE 1
    <3>1. CASE Sem!Readers = {}
      BY <3>1, FS_EmptySet, SameCardinality
    <3>2. CASE Sem!Readers # {}
      <4>1. PICK c \in Sem!Readers : Sem!Readers = {c}
        BY <2>1, <3>2 DEF LockHeld
      <4>2. Cardinality({c}) = 1
        BY FS_Singleton
      <4> QED
        BY <3>2, <4>1, <4>2, SameCardinality
    <3> QED
      BY <3>1, <3>2
  <2>2. Sem!LockKept
    BY <2>1 DEF Sem!LockKept, LockHeld
  <2>3. ASSUME semset = "there", NEW t \in Ids
        PROVE  Sem!Owed(t) = IF OwesRead(t) THEN 1 ELSE 0
    <3> DEFINE owing == {c \in Sem!Readers : pc_s[c] = "read" /\ type[c] <= t}
    <3>1. CASE OwesRead(t)
      <4>1. PICK c \in Sem!Readers : owing = {c}
        BY <2>3, <3>1 DEF OwesRead, LockHeld
      <4>2. Cardinality({c}) = 1
        BY FS_Singleton
      <4> QED
        BY <3>1, <4>1, <4>2, SameCardinality DEF Sem!Owed
    <3>2. CASE ~OwesRead(t)
      <4>1. owing = {}
        BY <3>2 DEF OwesRead
      <4> QED
        BY <3>2, <4>1, FS_EmptySet, SameCardinality DEF Sem!Owed
    <3> QED
      BY <3>1, <3>2
  <2>4. Sem!CountsMatch
    <3> SUFFICES ASSUME semset = "there", queue = "there", Sem!ConsumersSound, NEW t \in Ids
                 PROVE  /\ sem[t] + Sem!Owed(t) <= msgs[t]
                        /\ t \notin ended \cup lost =>
                            sem[t] + Sem!Owed(t) + (IF pc_s[t] = "inc" THEN 1 ELSE 0) = msgs[t]
      BY DEF Sem!CountsMatch
    <3>1. Counted(t) = sem[t] + Sem!Owed(t)
      BY <2>3 DEF Counted
    <3>2. /\ Counted(t) + Uncounted(t) <= msgs[t]
          /\ t \notin ended \cup lost => Counted(t) + Uncounted(t) = msgs[t]
      BY DEF CountsHeld
    <3>3. Counted(t) \in Nat /\ Uncounted(t) \in Nat /\ msgs[t] \in Nat
      BY DEF SemTypes, Sem!Sems, Counted, Uncounted
    <3>4. Counted(t) <= msgs[t]
      BY <3>2, <3>3
    <3> QED
      BY <3>1, <3>2, <3>4 DEF Uncounted
  <2> QED
    BY <2>2, <2>4 DEF LockAndCounts
<1>2. SemInv => LockAndCounts
  BY <1>1 DEF SemInv, LockAndCounts, Sem!LockKept, Sem!CountsMatch
<1> QED
  BY <1>2, SemInit, SemStep, PTL DEF Spec

-----------------------------------------------------------------------------
(* The sorting programs.  What a worker sends, cut out of the whole of it. *)
Slice(s, a, b) == [k \in 1..(b - a) |-> s[a + k]]
SizeUnits(w) == Sort!Encode(<<Len(files[w])>>)
ArrayUnits(w) == Sort!Encode(Sort!Simple!qsort(files[w]))
Units(w) == [k \in 1..(IntUnits + Len(files[w]) * IntUnits) |->
                IF k <= IntUnits THEN SizeUnits(w)[k] ELSE ArrayUnits(w)[k - IntUnits]]
UnitsOf(w) == {Units(w)[k] : k \in DOMAIN Units(w)}
Begin(p) == IF p = "size" THEN 0 ELSE IntUnits
End(w, p) == IF p = "size" THEN IntUnits ELSE Len(Units(w))

(* How much of it the worker has sent, and how much main() has got.        *)
Started(w) == pc_p[w] \notin {"unborn", "sorter"}
Sent(w) == IF Started(w) THEN End(w, part[w]) - Len(src[w]) ELSE 0
What(w) == IF w = Sort!reading THEN what ELSE "size"
Got(w) == IF w = Sort!reading THEN Begin(what) + Len(dst) ELSE 0
MainAt(w, steps) == w = Sort!reading /\ mpc \in steps

(* The page holds a chunk from its copy by the worker to that by main().   *)
Full(w) == pc_p[w] \in {"unset", "set"} \/ (chan[w].readable /\ ~MainAt(w, {"unset"}))
Chunk(w) ==
    /\ Sent(w) - Got(w) = Sort!ToCopy(End(w, What(w)) - Got(w))
    /\ Sort!Take(chan[w].mem, Sent(w) - Got(w)) = Slice(Units(w), Got(w), Sent(w))
(* Where a worker is that has handed over a chunk.                         *)
Ahead(w) ==
    IF Sent(w) < End(w, What(w)) THEN part[w] = What(w) /\ pc_p[w] = "wait"
    ELSE part[w] = "array" /\ IF What(w) = "size" THEN pc_p[w] = "wait"
                              ELSE pc_p[w] \in {"close", "exited"}
Page(w) ==
    IF ~Full(w) /\ ~MainAt(w, {"unset", "set"})
    THEN /\ chan[w].writable /\ ~chan[w].readable /\ ~MainAt(w, {"copy"})
         /\ pc_p[w] \in {"wait", "copy"}
         /\ part[w] = What(w) /\ Sent(w) = Got(w)
    ELSE IF pc_p[w] \in {"unset", "set"}
    THEN /\ chan[w].writable = (pc_p[w] = "unset") /\ ~chan[w].readable
         /\ ~MainAt(w, {"copy", "unset", "set"}) /\ part[w] = What(w) /\ Chunk(w)
    ELSE /\ Ahead(w) /\ ~chan[w].writable
         /\ chan[w].readable = ~MainAt(w, {"set"})
         /\ IF Full(w) THEN Chunk(w) ELSE Sent(w) = Got(w)

NotStarted(w) ==
    /\ part[w] = "size" /\ src[w] = <<>>
    /\ chan[w].pipe = <<>> /\ ~chan[w].readable /\ chan[w].writable
    /\ What(w) = "size" /\ Got(w) = 0 /\ ~MainAt(w, {"copy", "unset", "set"})
Sending(w) ==
    /\ 0 <= Got(w) /\ Got(w) <= Sent(w)
    /\ src[w] = Slice(Units(w), Sent(w), End(w, part[w]))
    /\ pc_p[w] \in {"close", "exited"} => part[w] = "array" /\ src[w] = <<>>
    /\ IF via = "pipe"
       THEN /\ pc_p[w] \in {"write", "close", "exited"}
            /\ chan[w].pipe = Slice(Units(w), Got(w), Sent(w))
       ELSE Page(w)
WorkerInv(w) ==
    IF w \in missing THEN pc_p[w] \in {"unborn", "sorter", "exited"} /\ NotStarted(w)
    ELSE IF Started(w) THEN Sending(w) ELSE NotStarted(w)

MainInv ==
    /\ Len(array) <= Len(files)
    /\ mpc \in {"read", "copy", "unset", "set"} => Len(array) < Len(files)
    /\ mpc = "fork" => array = <<>>
    /\ mpc = "merge" => Len(array) = Len(files)
    /\ mpc \in {"fork", "reap", "merge"} => what = "size" /\ dst = <<>>
    /\ mpc \in {"copy", "unset", "set"} => via = "mem"
    /\ Sort!reading \in DOMAIN files =>
           /\ Got(Sort!reading) <= End(Sort!reading, what)
           /\ need = End(Sort!reading, what) - Got(Sort!reading)
           /\ dst = Slice(Units(Sort!reading), Begin(what), Got(Sort!reading))
WorkerSteps == {"unborn", "sorter", "wait", "copy", "unset", "set", "write", "close", "exited"}
Channel(w) == [mem : Seq(UnitsOf(w)), readable : BOOLEAN, writable : BOOLEAN,
               pipe : Seq(UnitsOf(w))]
(* What may be in array: sorted files, and memory in the place of others.  *)
ArraysRead == {Sort!Simple!qsort(files[w]) : w \in DOMAIN files} \cup Leftovers
SortTypes ==
    /\ via \in {"pipe", "mem"} /\ files \in Files /\ missing \subseteq DOMAIN files
    /\ pc_p \in [DOMAIN files -> WorkerSteps]
    /\ part \in [DOMAIN files -> {"size", "array"}]
    /\ DOMAIN src = DOMAIN files /\ DOMAIN chan = DOMAIN files
    /\ \A w \in DOMAIN files :
           src[w] \in Seq(UnitsOf(w)) /\ chan[w] \in Channel(w)
    /\ mpc \in {"fork", "read", "copy", "unset", "set", "reap", "merge", "done"}
    /\ what \in {"size", "array"} /\ need \in Nat /\ Len(dst) \in Nat
    /\ array \in Seq(ArraysRead)
SendingInv ==
    /\ SortTypes /\ MainInv
    /\ \A w \in DOMAIN files : w >= Sort!reading => WorkerInv(w)
SortInv == program = "sort" => SendingInv

(* What main() has after a step of its reading: as many arrays as before,  *)
(* one more that is sorted, or memory in the place of a missing file's.    *)
ReadOutcome ==
    \/ mpc' = "read" /\ array' = array
    \/ /\ mpc' = "reap" /\ Sort!reading \notin missing
       /\ array' = Append(array, Sort!Simple!qsort(files[Sort!reading]))
    \/ /\ mpc' = "reap" /\ via = "pipe" /\ Sort!reading \in missing
       /\ \E leftover \in Leftovers : array' = Append(array, leftover)

(* A slice is a sequence of the elements it is cut from.                   *)
LEMMA SliceIsSeq ==
  ASSUME NEW S, NEW s \in Seq(S), NEW a \in Nat, NEW b \in Nat, a <= b, b <= Len(s)
  PROVE  /\ Slice(s, a, b) \in Seq(S) /\ Len(Slice(s, a, b)) = b - a
         /\ \A k \in 1..(b - a) : Slice(s, a, b)[k] = s[a + k]
<1>1. b - a \in Nat
  OBVIOUS
<1>2. \A k \in 1..(b - a) : s[a + k] \in S
  <2> SUFFICES ASSUME NEW k \in 1..(b - a) PROVE s[a + k] \in S
    OBVIOUS
  <2>1. a + k \in 1..Len(s)
    OBVIOUS
  <2> QED
    BY <2>1
<1>3. Slice(s, a, b) \in [1..(b - a) -> S]
  BY <1>2 DEF Slice
<1> QED
  BY <1>1, <1>3, SeqDef DEF Slice

(* Two sequences with the same elements are the same.                      *)
LEMMA SameSeq ==
  ASSUME NEW S, NEW s \in Seq(S), NEW t \in Seq(S), Len(s) = Len(t),
         \A k \in 1..Len(s) : s[k] = t[k]
  PROVE  s = t
BY SeqEqual

(* The first n elements of a slice are one.                                *)
LEMMA TakeOfSlice ==
  ASSUME NEW S, NEW s \in Seq(S), NEW a \in Nat, NEW b \in Nat, a <= b, b <= Len(s),
         NEW n \in Nat, n <= b - a
  PROVE  Sort!Take(Slice(s, a, b), n) = Slice(s, a, a + n)
<1> DEFINE c == Slice(s, a, b)
<1>1. c \in Seq(S) /\ Len(c) = b - a /\ \A k \in 1..(b - a) : c[k] = s[a + k]
  BY SliceIsSeq
<1>2. /\ a + n \in Nat /\ a <= a + n /\ a + n <= Len(s) /\ (a + n) - a = n
      /\ n <= Len(c)
  BY <1>1
<1>3. /\ Slice(s, a, a + n) \in Seq(S) /\ Len(Slice(s, a, a + n)) = n
      /\ \A k \in 1..n : Slice(s, a, a + n)[k] = s[a + k]
  <2>1. PICK m \in Nat : m = a + n
    BY <1>2
  <2>3. a <= m /\ m <= Len(s)
    BY <1>2, <2>1
  <2>2. /\ Slice(s, a, m) \in Seq(S) /\ Len(Slice(s, a, m)) = m - a
        /\ \A k \in 1..(m - a) : Slice(s, a, m)[k] = s[a + k]
    BY <2>3, SliceIsSeq
  <2> QED
    BY <1>2, <2>1, <2>2
<1> HIDE DEF c
<1>4. /\ SubSeq(c, 1, n) \in Seq(S) /\ Len(SubSeq(c, 1, n)) = n
      /\ \A k \in 1..n : SubSeq(c, 1, n)[k] = c[k]
  BY <1>1, <1>2
<1>5. \A k \in 1..n : c[k] = s[a + k]
  BY <1>1
<1>6. SubSeq(c, 1, n) = Slice(s, a, a + n)
  BY <1>3, <1>4, <1>5, SameSeq
<1> QED
  BY <1>6 DEF Sort!Take, c

(* And so are the others.                                                  *)
LEMMA DropOfSlice ==
  ASSUME NEW S, NEW s \in Seq(S), NEW a \in Nat, NEW b \in Nat, a <= b, b <= Len(s),
         NEW n \in Nat, n <= b - a
  PROVE  Sort!Drop(Slice(s, a, b), n) = Slice(s, a + n, b)
<1> DEFINE c == Slice(s, a, b)
           d == SubSeq(c, n + 1, Len(c))
<1>1. c \in Seq(S) /\ Len(c) = b - a /\ \A k \in 1..(b - a) : c[k] = s[a + k]
  BY SliceIsSeq
<1>2. a + n \in Nat /\ a + n <= b /\ n <= Len(c)
  BY <1>1
<1>3. /\ Slice(s, a + n, b) \in Seq(S) /\ Len(Slice(s, a + n, b)) = b - (a + n)
      /\ \A k \in 1..(b - (a + n)) : Slice(s, a + n, b)[k] = s[(a + n) + k]
  BY <1>2, SliceIsSeq
<1> HIDE DEF c
<1>4. /\ d \in Seq(S) /\ Len(d) = Len(c) - n
      /\ \A k \in 1..(Len(c) - n) : d[k] = c[n + k]
  BY <1>1, <1>2
<1> HIDE DEF d
<1>5. Len(c) - n = b - (a + n)
  BY <1>1
<1>6. \A k \in 1..(b - (a + n)) : c[n + k] = s[(a + n) + k]
  <2> SUFFICES ASSUME NEW k \in 1..(b - (a + n)) PROVE c[n + k] = s[(a + n) + k]
    OBVIOUS
  <2>1. n + k \in 1..(b - a) /\ a + (n + k) = (a + n) + k
    OBVIOUS
  <2> QED
    BY <1>1, <2>1
<1>7. d = Slice(s, a + n, b)
  BY <1>3, <1>4, <1>5, <1>6, SameSeq
<1> QED
  BY <1>7 DEF Sort!Drop, c, d

(* Two slices that touch are one.                                          *)
LEMMA SlicesTouch ==
  ASSUME NEW S, NEW s \in Seq(S), NEW a \in Nat, NEW b \in Nat, NEW c \in Nat,
         a <= b, b <= c, c <= Len(s)
  PROVE  Slice(s, a, b) \o Slice(s, b, c) = Slice(s, a, c)
<1> DEFINE p == Slice(s, a, b)
           q == Slice(s, b, c)
           r == Slice(s, a, c)
<1>0. b <= Len(s) /\ a <= c
  OBVIOUS
<1>1. p \in Seq(S) /\ Len(p) = b - a /\ \A k \in 1..(b - a) : p[k] = s[a + k]
  BY <1>0, SliceIsSeq
<1>2. q \in Seq(S) /\ Len(q) = c - b /\ \A k \in 1..(c - b) : q[k] = s[b + k]
  BY SliceIsSeq
<1>3. r \in Seq(S) /\ Len(r) = c - a /\ \A k \in 1..(c - a) : r[k] = s[a + k]
  BY <1>0, SliceIsSeq
<1> HIDE DEF p, q, r
<1>4. /\ p \o q \in Seq(S) /\ Len(p \o q) = c - a
      /\ \A k \in 1..(c - a) : (p \o q)[k] = IF k <= b - a THEN p[k] ELSE q[k - (b - a)]
  <2>1. /\ p \o q \in Seq(S) /\ Len(p \o q) = Len(p) + Len(q)
        /\ \A k \in 1..(Len(p) + Len(q)) :
             (p \o q)[k] = IF k <= Len(p) THEN p[k] ELSE q[k - Len(p)]
    BY <1>1, <1>2, ConcatProperties
  <2>2. Len(p) = b - a /\ Len(p) + Len(q) = c - a
    BY <1>1, <1>2
  <2> QED
    BY <2>1, <2>2
<1>5. ASSUME NEW k \in 1..(c - a) PROVE (p \o q)[k] = s[a + k]
  <2>1. CASE k <= b - a
    <3>1. k \in 1..(b - a)
      BY <2>1
    <3> QED
      BY <1>1, <1>4, <2>1, <3>1
  <2>2. CASE ~(k <= b - a)
    <3>1. k - (b - a) \in 1..(c - b) /\ b + (k - (b - a)) = a + k
      BY <2>2
    <3> QED
      BY <2>2, <3>1, <1>2, <1>4
  <2> QED
    BY <2>1, <2>2
<1>6. p \o q = r
  BY <1>3, <1>4, <1>5, SameSeq
<1> QED
  BY <1>6 DEF p, q, r

(* What is put in front of a page is what is taken from it.                *)
LEMMA TakeOfConcat ==
  ASSUME NEW S, NEW s \in Seq(S), NEW t \in Seq(S)
  PROVE  Sort!Take(s \o t, Len(s)) = s
<1>1. /\ s \o t \in Seq(S) /\ Len(s \o t) = Len(s) + Len(t)
      /\ \A k \in 1..(Len(s) + Len(t)) : (s \o t)[k] = IF k <= Len(s) THEN s[k] ELSE t[k - Len(s)]
  BY ConcatProperties
<1> DEFINE c == s \o t
<1>2. Len(s) \in Nat /\ Len(s) <= Len(c)
  BY <1>1
<1>3. \A k \in 1..Len(s) : c[k] = s[k]
  BY <1>1
<1>4. c \in Seq(S)
  BY <1>1
<1> HIDE DEF c
<1>5. /\ SubSeq(c, 1, Len(s)) \in Seq(S) /\ Len(SubSeq(c, 1, Len(s))) = Len(s)
      /\ \A k \in 1..Len(s) : SubSeq(c, 1, Len(s))[k] = c[k]
  BY <1>2, <1>4
<1>6. SubSeq(c, 1, Len(s)) = s
  BY <1>3, <1>5, SameSeq
<1> QED
  BY <1>6 DEF Sort!Take, c

(* Cutting keeps the type.                                                 *)
LEMMA CutsAreSeqs ==
  ASSUME NEW S, NEW s \in Seq(S), NEW n \in Nat
  PROVE  Sort!Drop(s, n) \in Seq(S) /\ (n <= Len(s) => Sort!Take(s, n) \in Seq(S))
<1>1. SubSeq(s, n + 1, Len(s)) \in Seq(S)
  OBVIOUS
<1>2. n <= Len(s) => SubSeq(s, 1, n) \in Seq(S)
  OBVIOUS
<1> QED
  BY <1>1, <1>2 DEF Sort!Take, Sort!Drop

(* The units of an int are found by dividing.                              *)
LEMMA DivisionOfInt ==
  ASSUME NEW u \in Nat \ {0}, NEW q \in Nat, NEW h \in Nat, h < u
  PROVE  (q * u + h) \div u = q /\ (q * u + h) % u = h
<1>1. (q * u + h) \div u = q
  OBVIOUS
<1>2. (q * u + h) % u = h
  OBVIOUS
<1> QED
  BY <1>1, <1>2

(* They end before the next int begins.                                    *)
LEMMA IntsDoNotMeet ==
  ASSUME NEW u \in Nat \ {0}, NEW p \in Nat, NEW q \in Nat, NEW h \in Nat, h < u, q < p
  PROVE  q * u + h < p * u
OBVIOUS

(* What was encoded is decoded.                                            *)
LEMMA EncodedIsDecoded ==
  ASSUME NEW n \in Nat, NEW s, DOMAIN s = 1..n, s = [k \in 1..n |-> s[k]], Len(s) = n
  PROVE  /\ n * IntUnits \in Nat
         /\ Sort!Encode(s) = [k \in 1..(n * IntUnits) |->
                <<s[(k - 1) \div IntUnits + 1], (k - 1) % IntUnits>>]
         /\ Len(Sort!Encode(s)) = n * IntUnits
         /\ Sort!Decode(Sort!Encode(s)) = s
<1> DEFINE e == Sort!Encode(s)
<1>0. IntUnits \in Nat \ {0}
  BY SortAssumption
<1>1. n * IntUnits \in Nat
  BY <1>0
<1>2. e = [k \in 1..(n * IntUnits) |-> <<s[(k - 1) \div IntUnits + 1], (k - 1) % IntUnits>>]
  BY DEF Sort!Encode
<1>3. Len(e) = n * IntUnits
  BY <1>1, <1>2
<1>4. Len(e) \div IntUnits = n
  <2>1. (n * IntUnits + 0) \div IntUnits = n
    BY <1>0
  <2>2. n * IntUnits + 0 = n * IntUnits
    BY <1>1
  <2> QED
    BY <1>3, <2>1, <2>2
<1>5. ASSUME NEW k \in 1..n, NEW h \in 0..(IntUnits - 1)
      PROVE  e[(k - 1) * IntUnits + 1 + h] = <<s[k], h>>
  <2>1. PICK q \in Nat : q = k - 1 /\ q < n
    OBVIOUS
  <2>2. h \in Nat /\ h < IntUnits /\ q * IntUnits \in Nat
    BY <1>0, <2>1
  <2>3. (q * IntUnits + h) \div IntUnits = q /\ (q * IntUnits + h) % IntUnits = h
    BY <1>0, <2>2, DivisionOfInt
  <2>4. q * IntUnits + h < n * IntUnits
    BY <1>0, <2>1, <2>2, IntsDoNotMeet
  <2>5. PICK j \in Nat : j = q * IntUnits + h
    BY <2>2
  <2>6. j + 1 \in 1..(n * IntUnits) /\ (j + 1) - 1 = j
    BY <1>1, <2>4, <2>5
  <2>7. e[j + 1] = <<s[q + 1], h>>
    BY <1>2, <2>3, <2>5, <2>6
  <2>8. (k - 1) * IntUnits + 1 + h = j + 1 /\ q + 1 = k
    BY <1>0, <2>1, <2>2, <2>5
  <2> QED
    BY <2>7, <2>8
<1>6. ASSUME NEW k \in 1..n
      PROVE  LET first == (k - 1) * IntUnits + 1
                 number == e[first][1]
             IN  number = s[k] /\ \A h \in 0..IntUnits - 1 : e[first + h] = <<number, h>>
  <2> DEFINE first == (k - 1) * IntUnits + 1
  <2>1. first + 0 = first /\ 0 \in 0..(IntUnits - 1)
    BY <1>0
  <2>2. e[first] = <<s[k], 0>>
    <3>1. e[first + 0] = <<s[k], 0>>
      BY <1>5, <2>1
    <3> QED
      BY <2>1, <3>1
  <2> QED
    BY <1>5, <2>2
<1> HIDE DEF e
<1>7. Sort!Decode(e) = [k \in 1..n |-> s[k]]
  <2>1. Sort!Decode(e) =
          [k \in 1..n |->
             LET first == (k - 1) * IntUnits + 1
                 number == e[first][1]
             IN  IF \A h \in 0..IntUnits - 1 : e[first + h] = <<number, h>>
                 THEN number ELSE Sort!GARBAGE]
    BY <1>4 DEF Sort!Decode
  <2> QED
    BY <1>6, <2>1
<1> QED
  BY <1>1, <1>2, <1>3, <1>7 DEF e

(* What a worker sends is its size and its sorted array.                   *)
LEMMA UnitsFacts ==
  ASSUME files \in Files, NEW w \in DOMAIN files
  PROVE  /\ IntUnits \in Nat \ {0} /\ Len(files[w]) \in Nat /\ Len(files[w]) * IntUnits \in Nat
         /\ Units(w) \in Seq(UnitsOf(w))
         /\ Len(Units(w)) \in Nat /\ Len(Units(w)) = IntUnits + Len(files[w]) * IntUnits
         /\ IntUnits <= Len(Units(w))
         /\ Slice(Units(w), 0, IntUnits) = SizeUnits(w)
         /\ Slice(Units(w), IntUnits, Len(Units(w))) = ArrayUnits(w)
         /\ Sort!Decode(SizeUnits(w))[1] = Len(files[w])
         /\ Sort!Decode(ArrayUnits(w)) = Sort!Simple!qsort(files[w])
         /\ SizeUnits(w) \in Seq(UnitsOf(w)) /\ ArrayUnits(w) \in Seq(UnitsOf(w))
<1> DEFINE f == files[w]
           n == Len(f)
           q == Sort!Simple!qsort(f)
           L == IntUnits + n * IntUnits
<1>1. IntUnits \in Nat \ {0} /\ files \in Seq(Seq(Int))
  BY SortAssumption
<1>2. f \in Seq(Int) /\ n \in Nat /\ DOMAIN f = 1..n
  BY <1>1
<1>3. q = [k \in 1..n |-> q[k]] /\ DOMAIN q = 1..n
  BY <1>2 DEF Sort!Simple!qsort
<1>4. Len(q) = n
  BY <1>2, <1>3
<1>5. /\ n * IntUnits \in Nat
      /\ ArrayUnits(w) = [k \in 1..(n * IntUnits) |->
             <<q[(k - 1) \div IntUnits + 1], (k - 1) % IntUnits>>]
      /\ Sort!Decode(ArrayUnits(w)) = q
  <2> HIDE DEF q, n
  <2> QED
    BY <1>2, <1>3, <1>4, EncodedIsDecoded DEF ArrayUnits, q, f
<1>6. /\ 1 * IntUnits \in Nat
      /\ SizeUnits(w) = [k \in 1..(1 * IntUnits) |->
             << <<n>>[(k - 1) \div IntUnits + 1], (k - 1) % IntUnits>>]
      /\ Sort!Decode(SizeUnits(w)) = <<n>>
  <2>1. DOMAIN <<n>> = 1..1 /\ <<n>> = [k \in 1..1 |-> <<n>>[k]] /\ Len(<<n>>) = 1
    OBVIOUS
  <2> HIDE DEF n
  <2>2. 1 \in Nat
    OBVIOUS
  <2> QED
    BY <2>1, <2>2, EncodedIsDecoded DEF SizeUnits, n, f
<1>7. 1 * IntUnits = IntUnits
  BY <1>1
<1>8. L \in Nat /\ IntUnits <= L /\ L - IntUnits = n * IntUnits /\ IntUnits - 0 = IntUnits
  BY <1>1, <1>5
<1>9. Units(w) = [k \in 1..L |-> IF k <= IntUnits THEN SizeUnits(w)[k]
                                 ELSE ArrayUnits(w)[k - IntUnits]]
  BY DEF Units
<1>10. Units(w) \in Seq(UnitsOf(w)) /\ Len(Units(w)) = L
  <2> HIDE DEF L
  <2>1. Units(w) \in [1..L -> UnitsOf(w)]
    BY <1>9 DEF UnitsOf
  <2> QED
    BY <1>8, <2>1, SeqDef
<1>11. Slice(Units(w), 0, IntUnits) = SizeUnits(w)
  <2>1. \A k \in 1..IntUnits : Units(w)[0 + k] = SizeUnits(w)[k]
    <3> SUFFICES ASSUME NEW k \in 1..IntUnits PROVE Units(w)[0 + k] = SizeUnits(w)[k]
      OBVIOUS
    <3> HIDE DEF L
    <3>1. 0 + k = k /\ k \in 1..L /\ k <= IntUnits
      BY <1>1, <1>8
    <3> QED
      BY <3>1, <1>9
  <2>2. SizeUnits(w) = [k \in 1..IntUnits |-> SizeUnits(w)[k]]
    BY <1>6, <1>7
  <2>3. Slice(Units(w), 0, IntUnits) = [k \in 1..IntUnits |-> Units(w)[0 + k]]
    BY <1>8 DEF Slice
  <2> QED
    BY <2>1, <2>2, <2>3
<1>12. Slice(Units(w), IntUnits, Len(Units(w))) = ArrayUnits(w)
  <2>1. \A k \in 1..(L - IntUnits) : Units(w)[IntUnits + k] = ArrayUnits(w)[k]
    <3> SUFFICES ASSUME NEW k \in 1..(L - IntUnits) PROVE Units(w)[IntUnits + k] = ArrayUnits(w)[k]
      OBVIOUS
    <3> HIDE DEF L
    <3>1. IntUnits + k \in 1..L /\ ~(IntUnits + k <= IntUnits) /\ (IntUnits + k) - IntUnits = k
      BY <1>1, <1>8
    <3> QED
      BY <3>1, <1>9
  <2> HIDE DEF L
  <2>2. ArrayUnits(w) = [k \in 1..(L - IntUnits) |-> ArrayUnits(w)[k]]
    BY <1>5, <1>8
  <2>3. Slice(Units(w), IntUnits, L) = [k \in 1..(L - IntUnits) |-> Units(w)[IntUnits + k]]
    BY DEF Slice
  <2> QED
    BY <2>1, <2>2, <2>3, <1>10
<1>13. Sort!Decode(SizeUnits(w))[1] = n
  BY <1>6
<1>14. SizeUnits(w) \in Seq(UnitsOf(w)) /\ ArrayUnits(w) \in Seq(UnitsOf(w))
  <2> HIDE DEF L
  <2>1. Slice(Units(w), 0, IntUnits) \in Seq(UnitsOf(w))
    BY <1>1, <1>8, <1>10, SliceIsSeq
  <2>2. Slice(Units(w), IntUnits, L) \in Seq(UnitsOf(w))
    BY <1>1, <1>8, <1>10, SliceIsSeq
  <2> QED
    BY <1>10, <1>11, <1>12, <2>1, <2>2
<1> QED
  BY <1>1, <1>2, <1>5, <1>8, <1>10, <1>11, <1>12, <1>13, <1>14

(* It stays the same while the files do.                                   *)
LEMMA UnitsKept ==
  ASSUME files' = files
  PROVE  \A w : /\ Units(w)' = Units(w) /\ UnitsOf(w)' = UnitsOf(w)
                /\ Channel(w)' = Channel(w)
                /\ \A p : End(w, p)' = End(w, p)
<1> SUFFICES ASSUME NEW w
             PROVE  /\ Units(w)' = Units(w) /\ UnitsOf(w)' = UnitsOf(w)
                    /\ Channel(w)' = Channel(w)
                    /\ \A p : End(w, p)' = End(w, p)
  OBVIOUS
<1>1. SizeUnits(w)' = SizeUnits(w) /\ ArrayUnits(w)' = ArrayUnits(w)
  BY DEF SizeUnits, ArrayUnits
<1>2. Units(w)' = Units(w)
  BY <1>1 DEF Units
<1>3. UnitsOf(w)' = UnitsOf(w)
  BY <1>2 DEF UnitsOf
<1> QED
  BY <1>2, <1>3 DEF End, Channel

(* So does what a worker promises, while a step touches neither it nor     *)
(* what main() has of it.                                                  *)
LEMMA WorkerKept ==
  ASSUME UNCHANGED <<via, files, missing>>, NEW w,
         pc_p'[w] = pc_p[w], part'[w] = part[w], src'[w] = src[w], chan'[w] = chan[w],
         What(w)' = What(w), Got(w)' = Got(w),
         \A s \in SUBSET {"copy", "unset", "set"} : MainAt(w, s)' = MainAt(w, s),
         WorkerInv(w)
  PROVE  WorkerInv(w)'
<1>1. Units(w)' = Units(w) /\ \A p : End(w, p)' = End(w, p)
  BY UnitsKept
<1>2. Started(w)' = Started(w)
  BY DEF Started
<1>3. Sent(w)' = Sent(w)
  BY <1>1, <1>2 DEF Sent
<1>4. Full(w)' = Full(w)
  BY DEF Full
<1>5. Chunk(w)' = Chunk(w)
  BY <1>1, <1>3 DEF Chunk
<1>6. Ahead(w)' = Ahead(w)
  BY <1>1, <1>3 DEF Ahead
<1>7. Page(w)' = Page(w)
  BY <1>3, <1>4, <1>5, <1>6 DEF Page
<1>8. NotStarted(w)' = NotStarted(w)
  BY DEF NotStarted
<1>9. Sending(w)' = Sending(w)
  BY <1>1, <1>3, <1>7 DEF Sending
<1> QED
  BY <1>2, <1>8, <1>9 DEF WorkerInv

(* A step of a worker has to keep what this one promises.                  *)
LEMMA OnlyOneWorker ==
  ASSUME SendingInv, UNCHANGED <<via, files, missing, mpc, what, dst, need, array>>,
         NEW w \in DOMAIN files,
         pc_p' \in [DOMAIN files -> WorkerSteps], part' \in [DOMAIN files -> {"size", "array"}],
         DOMAIN src' = DOMAIN files, DOMAIN chan' = DOMAIN files,
         src'[w] \in Seq(UnitsOf(w)), chan'[w] \in Channel(w),
         \A x \in DOMAIN files \ {w} : /\ pc_p'[x] = pc_p[x] /\ part'[x] = part[x]
                                       /\ src'[x] = src[x] /\ chan'[x] = chan[x],
         w >= Sort!reading => WorkerInv(w)'
  PROVE  SendingInv'
<1>1. Sort!reading' = Sort!reading
  BY DEF Sort!reading
<1>2. \A x : /\ What(x)' = What(x) /\ Got(x)' = Got(x) /\ \A s : MainAt(x, s)' = MainAt(x, s)
  BY <1>1 DEF What, Got, MainAt, Begin
<1>3. \A x : /\ Units(x)' = Units(x) /\ UnitsOf(x)' = UnitsOf(x) /\ Channel(x)' = Channel(x)
             /\ \A p : End(x, p)' = End(x, p)
  BY UnitsKept
<1>4. SortTypes'
  <2>1. ASSUME NEW x \in DOMAIN files PROVE src'[x] \in Seq(UnitsOf(x)) /\ chan'[x] \in Channel(x)
    BY DEF SendingInv, SortTypes
  <2> QED
    BY <1>3, <2>1 DEF SendingInv, SortTypes, ArraysRead
<1>5. MainInv'
  <2>1. Got(Sort!reading)' = Got(Sort!reading)
    BY <1>1, <1>2
  <2>2. End(Sort!reading, what)' = End(Sort!reading, what)
    BY <1>1, <1>3
  <2>3. Units(Sort!reading)' = Units(Sort!reading)
    BY <1>1, <1>3
  <2> QED
    BY <1>1, <2>1, <2>2, <2>3 DEF SendingInv, MainInv, Begin
<1>6. ASSUME NEW x \in DOMAIN files, x >= Sort!reading, x # w PROVE WorkerInv(x)'
  BY <1>2, <1>6, WorkerKept DEF SendingInv
<1> QED
  BY <1>1, <1>4, <1>5, <1>6 DEF SendingInv

(* The numbers of a worker that sends.                                     *)
LEMMA SendingFacts ==
  ASSUME SendingInv, NEW w \in DOMAIN files, w >= Sort!reading, w \notin missing, Started(w)
  PROVE  /\ Sending(w)
         /\ Got(w) \in Nat /\ Sent(w) \in Nat /\ Got(w) <= Sent(w)
         /\ End(w, part[w]) \in Nat /\ Sent(w) <= End(w, part[w])
         /\ End(w, part[w]) <= Len(Units(w)) /\ Len(src[w]) = End(w, part[w]) - Sent(w)
         /\ Len(src[w]) \in Nat
<1>1. Sending(w)
  BY DEF SendingInv, WorkerInv
<1>2. files \in Files /\ src[w] \in Seq(UnitsOf(w)) /\ what \in {"size", "array"}
  BY DEF SendingInv, SortTypes
<1>3. IntUnits \in Nat /\ Len(Units(w)) \in Nat /\ IntUnits <= Len(Units(w))
  BY <1>2, UnitsFacts
<1>4. End(w, part[w]) \in Nat /\ End(w, part[w]) <= Len(Units(w))
  BY <1>3 DEF End
<1>5. Len(src[w]) \in Nat
  BY <1>2
<1>6. Sent(w) = End(w, part[w]) - Len(src[w])
  BY DEF Sent
<1>7. Got(w) \in Int
  <2>1. CASE w = Sort!reading
    <3>1. dst = Slice(Units(w), Begin(what), Got(w)) /\ Got(w) <= End(w, what) /\ need \in Nat
          /\ need = End(w, what) - Got(w)
      BY <2>1 DEF SendingInv, MainInv, SortTypes
    <3>2. Got(w) = Begin(what) + Len(dst)
      BY <2>1 DEF Got
    <3>3. Len(dst) \in Nat
      BY DEF SendingInv, SortTypes
    <3> QED
      BY <1>3, <3>2, <3>3 DEF Begin
  <2>2. CASE w # Sort!reading
    BY <2>2 DEF Got
  <2> QED
    BY <2>1, <2>2
<1>8. 0 <= Got(w) /\ Got(w) <= Sent(w)
  BY <1>1 DEF Sending
<1> QED
  BY <1>1, <1>4, <1>5, <1>6, <1>7, <1>8

(* The end of a write call keeps the types.                                *)
LEMMA WriteGoesOnTypes ==
  ASSUME SortTypes, NEW w \in DOMAIN files, NEW rest \in Seq(UnitsOf(w)), Sort!WriteGoesOn(w, rest)
  PROVE  /\ pc_p' \in [DOMAIN files -> WorkerSteps] /\ part' \in [DOMAIN files -> {"size", "array"}]
         /\ DOMAIN src' = DOMAIN files /\ src'[w] \in Seq(UnitsOf(w))
         /\ \A x \in DOMAIN files \ {w} :
                pc_p'[x] = pc_p[x] /\ part'[x] = part[x] /\ src'[x] = src[x]
<1> DEFINE T == IF via = "mem" THEN "wait" ELSE "write"
<1>1. /\ pc_p \in [DOMAIN files -> WorkerSteps] /\ part \in [DOMAIN files -> {"size", "array"}]
      /\ DOMAIN src = DOMAIN files /\ files \in Files
  BY DEF SortTypes
<1>2. CASE rest = <<>> /\ part[w] = "size"
  <2>1. /\ src' = [src EXCEPT ![w] = ArrayUnits(w)] /\ part' = [part EXCEPT ![w] = "array"]
        /\ pc_p' = [pc_p EXCEPT ![w] = T]
    BY <1>2 DEF Sort!WriteGoesOn, Sort!Transfer, Sort!Goto, ArrayUnits
  <2>2. ArrayUnits(w) \in Seq(UnitsOf(w))
    BY <1>1, UnitsFacts
  <2> QED
    BY <1>1, <2>1, <2>2 DEF WorkerSteps
<1>3. CASE ~(rest = <<>> /\ part[w] = "size")
  <2>1. /\ src' = [src EXCEPT ![w] = rest] /\ part' = part
        /\ pc_p' = [pc_p EXCEPT ![w] = IF rest = <<>> THEN "close" ELSE T]
    BY <1>3 DEF Sort!WriteGoesOn, Sort!Transfer, Sort!Goto
  <2> QED
    BY <1>1, <2>1 DEF WorkerSteps
<1> QED
  BY <1>2, <1>3

(* And it goes on with the rest, with the array or to its end.             *)
LEMMA WriteGoesOnFacts ==
  ASSUME SortTypes, NEW w \in DOMAIN files, NEW m \in Nat, m <= End(w, part[w]), files' = files,
         Sort!WriteGoesOn(w, Slice(Units(w), m, End(w, part[w])))
  PROVE  /\ src'[w] = Slice(Units(w), m, End(w, part'[w]))
         /\ pc_p'[w] \in {IF via = "mem" THEN "wait" ELSE "write", "close"}
         /\ pc_p'[w] = "close" => part'[w] = "array" /\ src'[w] = <<>>
         /\ Sent(w)' = m
         /\ IF m < End(w, part[w]) THEN part'[w] = part[w] /\ pc_p'[w] # "close"
            ELSE part'[w] = "array" /\ (pc_p'[w] = "close" <=> part[w] = "array")
<1> DEFINE T == IF via = "mem" THEN "wait" ELSE "write"
           e == End(w, part[w])
           rest == Slice(Units(w), m, e)
<1>1. /\ pc_p \in [DOMAIN files -> WorkerSteps] /\ part \in [DOMAIN files -> {"size", "array"}]
      /\ DOMAIN src = DOMAIN files /\ files \in Files
  BY DEF SortTypes
<1>2. /\ IntUnits \in Nat \ {0} /\ Units(w) \in Seq(UnitsOf(w))
      /\ Len(Units(w)) \in Nat /\ IntUnits <= Len(Units(w))
      /\ Slice(Units(w), IntUnits, Len(Units(w))) = ArrayUnits(w)
  BY <1>1, UnitsFacts
<1>3. e \in Nat /\ e <= Len(Units(w))
  BY <1>2 DEF End
<1>4. rest \in Seq(UnitsOf(w)) /\ Len(rest) = e - m
  BY <1>2, <1>3, SliceIsSeq
<1>5. rest = <<>> <=> m = e
  BY <1>3, <1>4
<1>6. End(w, "array") = Len(Units(w)) /\ End(w, "size") = IntUnits
  BY DEF End
<1>7. \A p : End(w, p)' = End(w, p)
  BY UnitsKept
<1>8. ASSUME pc_p'[w] \in {T, "close"}, src'[w] = Slice(Units(w), m, End(w, part'[w])),
             End(w, part'[w]) \in Nat, m <= End(w, part'[w]), End(w, part'[w]) <= Len(Units(w))
      PROVE  Sent(w)' = m
  <2>1. Sent(w)' = End(w, part'[w]) - Len(src'[w])
    BY <1>7, <1>8 DEF Sent, Started
  <2>2. PICK x \in Nat : x = End(w, part'[w])
    BY <1>8
  <2>4. m <= x /\ x <= Len(Units(w))
    BY <1>8, <2>2
  <2>3. Len(Slice(Units(w), m, x)) = x - m
    BY <1>2, <2>4, SliceIsSeq
  <2> QED
    BY <1>8, <2>1, <2>2, <2>3
<1>9. CASE m = e /\ part[w] = "size"
  <2>1. /\ src' = [src EXCEPT ![w] = ArrayUnits(w)] /\ part' = [part EXCEPT ![w] = "array"]
        /\ pc_p' = [pc_p EXCEPT ![w] = T]
    BY <1>5, <1>9 DEF Sort!WriteGoesOn, Sort!Transfer, Sort!Goto, ArrayUnits
  <2>2. src'[w] = ArrayUnits(w) /\ part'[w] = "array" /\ pc_p'[w] = T
    BY <1>1, <2>1
  <2>3. m = IntUnits
    BY <1>6, <1>9
  <2>4. Sent(w)' = m
    BY <1>2, <1>6, <1>8, <2>2, <2>3
  <2> QED
    BY <1>2, <1>6, <1>9, <2>2, <2>3, <2>4
<1>10. CASE ~(m = e /\ part[w] = "size")
  <2>1. /\ src' = [src EXCEPT ![w] = rest] /\ part' = part
        /\ pc_p' = [pc_p EXCEPT ![w] = IF rest = <<>> THEN "close" ELSE T]
    BY <1>5, <1>10 DEF Sort!WriteGoesOn, Sort!Transfer, Sort!Goto
  <2>2. src'[w] = rest /\ part'[w] = part[w] /\ pc_p'[w] = IF rest = <<>> THEN "close" ELSE T
    BY <1>1, <2>1
  <2>3. Sent(w)' = m
    BY <1>3, <1>8, <2>2
  <2> HIDE DEF rest
  <2>4. src'[w] = Slice(Units(w), m, End(w, part'[w]))
    BY <2>2 DEF rest
  <2>5. part[w] \in {"size", "array"}
    BY <1>1
  <2>6. pc_p'[w] = "close" <=> m = e
    BY <1>5, <2>2
  <2>7. m < e \/ m = e
    BY <1>3
  <2> QED
    BY <1>3, <1>5, <1>10, <2>2, <2>3, <2>4, <2>5, <2>6, <2>7
<1> QED
  BY <1>9, <1>10

(* sorter(): the size of the file is the first thing to send.              *)
LEMMA SorterKeeps ==
  ASSUME SendingInv, NEW w \in DOMAIN files, Sort!sorter(w)
  PROVE  SendingInv'
<1>1. /\ UNCHANGED <<via, files, missing, part, chan, mpc, what, dst, need, array>>
      /\ pc_p[w] = "sorter"
  BY DEF Sort!sorter, Sort!mainVars
<1>2. /\ pc_p \in [DOMAIN files -> WorkerSteps] /\ part \in [DOMAIN files -> {"size", "array"}]
      /\ DOMAIN src = DOMAIN files /\ DOMAIN chan = DOMAIN files /\ files \in Files
      /\ src[w] \in Seq(UnitsOf(w)) /\ chan[w] \in Channel(w) /\ via \in {"pipe", "mem"}
  BY DEF SendingInv, SortTypes
<1>3. Sort!reading' = Sort!reading
  BY <1>1 DEF Sort!reading
<1>4. What(w)' = What(w) /\ Got(w)' = Got(w) /\ \A s : MainAt(w, s)' = MainAt(w, s)
  BY <1>1, <1>3 DEF What, Got, MainAt, Begin
<1>5. w >= Sort!reading => NotStarted(w)
  BY <1>1 DEF SendingInv, WorkerInv, Started
<1>6. CASE w \in missing
  <2>1. pc_p' = [pc_p EXCEPT ![w] = "exited"] /\ src' = src
    BY <1>6 DEF Sort!sorter, Sort!Goto
  <2>2. w >= Sort!reading => WorkerInv(w)'
    BY <1>1, <1>2, <1>4, <1>5, <1>6, <2>1 DEF WorkerInv, NotStarted
  <2> QED
    BY <1>1, <1>2, <2>1, <2>2, OnlyOneWorker DEF WorkerSteps
<1>7. CASE w \notin missing
  <2> DEFINE T == IF via = "mem" THEN "wait" ELSE "write"
  <2>1. pc_p' = [pc_p EXCEPT ![w] = T] /\ src' = [src EXCEPT ![w] = SizeUnits(w)]
    BY <1>7 DEF Sort!sorter, Sort!Goto, Sort!Transfer, SizeUnits
  <2>2. /\ IntUnits \in Nat /\ Slice(Units(w), 0, IntUnits) = SizeUnits(w)
        /\ SizeUnits(w) \in Seq(UnitsOf(w))
        /\ Units(w) \in Seq(UnitsOf(w)) /\ IntUnits <= Len(Units(w))
    BY <1>2, UnitsFacts
  <2>3. Len(SizeUnits(w)) = IntUnits
    <3>1. Len(Slice(Units(w), 0, IntUnits)) = IntUnits - 0
      BY <2>2, SliceIsSeq
    <3> QED
      BY <2>2, <3>1
  <2>4. ASSUME w >= Sort!reading PROVE WorkerInv(w)'
    <3>1. NotStarted(w)
      BY <1>5, <2>4
    <3>2. pc_p'[w] = T /\ src'[w] = SizeUnits(w) /\ part'[w] = "size" /\ chan'[w] = chan[w]
      BY <1>1, <1>2, <2>1, <3>1 DEF NotStarted
    <3>3. Units(w)' = Units(w) /\ End(w, "size")' = IntUnits
      BY <1>1, UnitsKept DEF End
    <3>4. Started(w)' /\ Sent(w)' = 0
      BY <2>2, <2>3, <3>2, <3>3 DEF Started, Sent, End
    <3>5. Got(w)' = 0 /\ What(w)' = "size" /\ ~MainAt(w, {"copy"})' /\ ~MainAt(w, {"unset"})'
          /\ ~MainAt(w, {"unset", "set"})'
      BY <1>4, <3>1 DEF NotStarted, MainAt
    <3>6. src'[w] = Slice(Units(w), 0, IntUnits)
      BY <2>2, <3>2
    <3>7. via = "pipe" => chan'[w].pipe = Slice(Units(w), 0, 0)
      <4>0. Units(w) \in Seq(UnitsOf(w)) /\ 0 <= Len(Units(w))
        BY <2>2
      <4>1. Slice(Units(w), 0, 0) \in Seq(UnitsOf(w)) /\ Len(Slice(Units(w), 0, 0)) = 0 - 0
        BY <4>0, SliceIsSeq
      <4>2. Slice(Units(w), 0, 0) = <<>>
        BY <4>1
      <4> QED
        BY <3>1, <3>2, <4>2 DEF NotStarted
    <3>8. via = "mem" => Page(w)'
      BY <3>1, <3>2, <3>4, <3>5 DEF Page, Full, NotStarted
    <3>9. Sending(w)'
      BY <1>1, <1>2, <3>2, <3>3, <3>4, <3>5, <3>6, <3>7, <3>8 DEF Sending, End
    <3> QED
      BY <1>1, <1>7, <3>4, <3>9 DEF WorkerInv
  <2>5. /\ pc_p' \in [DOMAIN files -> WorkerSteps] /\ DOMAIN src' = DOMAIN files
        /\ src'[w] \in Seq(UnitsOf(w))
        /\ \A x \in DOMAIN files \ {w} : pc_p'[x] = pc_p[x] /\ src'[x] = src[x]
    BY <1>2, <2>1, <2>2 DEF WorkerSteps
  <2> QED
    BY <1>1, <1>2, <2>4, <2>5, OnlyOneWorker
<1> QED
  BY <1>6, <1>7

(* write_to_shared_mem() waits until the page is its own.                  *)
LEMMA WriteWaitKeeps ==
  ASSUME SendingInv, NEW w \in DOMAIN files, Sort!write_wait(w)
  PROVE  SendingInv'
<1>1. /\ UNCHANGED <<via, files, missing, part, src, chan, mpc, what, dst, need, array>>
      /\ pc_p[w] = "wait" /\ chan[w].writable /\ pc_p' = [pc_p EXCEPT ![w] = "copy"]
  BY DEF Sort!write_wait, Sort!mainVars, Sort!Goto
<1>2. /\ pc_p \in [DOMAIN files -> WorkerSteps] /\ part \in [DOMAIN files -> {"size", "array"}]
      /\ DOMAIN src = DOMAIN files /\ DOMAIN chan = DOMAIN files /\ files \in Files
      /\ src[w] \in Seq(UnitsOf(w)) /\ chan[w] \in Channel(w) /\ via \in {"pipe", "mem"}
  BY DEF SendingInv, SortTypes
<1>3. Sort!reading' = Sort!reading
  BY <1>1 DEF Sort!reading
<1>4. What(w)' = What(w) /\ Got(w)' = Got(w) /\ \A s : MainAt(w, s)' = MainAt(w, s)
  BY <1>1, <1>3 DEF What, Got, MainAt, Begin
<1>5. ASSUME w >= Sort!reading PROVE WorkerInv(w)'
  <2>1. w \notin missing /\ Started(w) /\ Sending(w)
    BY <1>1, <1>5 DEF SendingInv, WorkerInv, Started
  <2>2. via = "mem" /\ Page(w)
    BY <1>1, <1>2, <2>1 DEF Sending
  <2>3. pc_p'[w] = "copy"
    BY <1>1, <1>2
  <2>4. Units(w)' = Units(w) /\ \A p : End(w, p)' = End(w, p)
    BY <1>1, UnitsKept
  <2>5. Started(w)' /\ Sent(w)' = Sent(w)
    BY <1>1, <2>1, <2>3, <2>4 DEF Started, Sent
  <2>6. Page(w)'
    BY <1>1, <1>4, <2>2, <2>3, <2>5 DEF Page, Full
  <2>7. Sending(w)'
    BY <1>1, <1>4, <2>1, <2>2, <2>3, <2>4, <2>5, <2>6 DEF Sending
  <2> QED
    BY <1>1, <2>1, <2>5, <2>7 DEF WorkerInv
<1> QED
  BY <1>1, <1>2, <1>5, OnlyOneWorker DEF WorkerSteps

(* It marks its chunk as no longer writable.                               *)
LEMMA WriteUnsetKeeps ==
  ASSUME SendingInv, NEW w \in DOMAIN files, Sort!write_unset(w)
  PROVE  SendingInv'
<1>1. /\ UNCHANGED <<via, files, missing, part, src, mpc, what, dst, need, array>>
      /\ pc_p[w] = "unset" /\ pc_p' = [pc_p EXCEPT ![w] = "set"]
      /\ chan' = [chan EXCEPT ![w].writable = FALSE]
  BY DEF Sort!write_unset, Sort!mainVars, Sort!Goto
<1>2. /\ pc_p \in [DOMAIN files -> WorkerSteps] /\ part \in [DOMAIN files -> {"size", "array"}]
      /\ DOMAIN src = DOMAIN files /\ DOMAIN chan = DOMAIN files /\ files \in Files
      /\ src[w] \in Seq(UnitsOf(w)) /\ chan[w] \in Channel(w) /\ via \in {"pipe", "mem"}
  BY DEF SendingInv, SortTypes
<1>3. Sort!reading' = Sort!reading
  BY <1>1 DEF Sort!reading
<1>4. What(w)' = What(w) /\ Got(w)' = Got(w) /\ \A s : MainAt(w, s)' = MainAt(w, s)
  BY <1>1, <1>3 DEF What, Got, MainAt, Begin
<1>5. /\ chan'[w] = [chan[w] EXCEPT !.writable = FALSE] /\ DOMAIN chan' = DOMAIN files
      /\ \A x \in DOMAIN files \ {w} : chan'[x] = chan[x]
  BY <1>1, <1>2
<1>6. /\ chan'[w] \in Channel(w) /\ chan'[w].writable = FALSE
      /\ chan'[w].readable = chan[w].readable /\ chan'[w].mem = chan[w].mem
      /\ chan'[w].pipe = chan[w].pipe
  BY <1>2, <1>5 DEF Channel
<1>7. ASSUME w >= Sort!reading PROVE WorkerInv(w)'
  <2>1. w \notin missing /\ Started(w) /\ Sending(w)
    BY <1>1, <1>7 DEF SendingInv, WorkerInv, Started
  <2>2. via = "mem" /\ Page(w)
    BY <1>1, <1>2, <2>1 DEF Sending
  <2>3. pc_p'[w] = "set"
    BY <1>1, <1>2
  <2>4. Units(w)' = Units(w) /\ \A p : End(w, p)' = End(w, p)
    BY <1>1, UnitsKept
  <2>5. Started(w)' /\ Sent(w)' = Sent(w)
    BY <1>1, <2>1, <2>3, <2>4 DEF Started, Sent
  <2>6. ~chan[w].readable /\ ~MainAt(w, {"copy", "unset", "set"}) /\ part[w] = What(w) /\ Chunk(w)
    BY <1>1, <2>2 DEF Page, Full
  <2>7. Chunk(w)'
    BY <1>4, <1>6, <2>4, <2>5, <2>6 DEF Chunk
  <2>8. Page(w)'
    BY <1>1, <1>4, <1>6, <2>3, <2>6, <2>7 DEF Page, Full
  <2>9. Sending(w)'
    BY <1>1, <1>4, <2>1, <2>2, <2>3, <2>4, <2>5, <2>8 DEF Sending
  <2> QED
    BY <1>1, <2>1, <2>5, <2>9 DEF WorkerInv
<1> QED
  BY <1>1, <1>2, <1>5, <1>6, <1>7, OnlyOneWorker DEF WorkerSteps

(* A worker that has sent everything closes its end and ends.              *)
LEMMA CloseKeeps ==
  ASSUME SendingInv, NEW w \in DOMAIN files, Sort!worker_close(w)
  PROVE  SendingInv'
<1>1. /\ UNCHANGED <<via, files, missing, part, src, chan, mpc, what, dst, need, array>>
      /\ pc_p[w] = "close" /\ pc_p' = [pc_p EXCEPT ![w] = "exited"]
  BY DEF Sort!worker_close, Sort!mainVars, Sort!Goto
<1>2. /\ pc_p \in [DOMAIN files -> WorkerSteps] /\ part \in [DOMAIN files -> {"size", "array"}]
      /\ DOMAIN src = DOMAIN files /\ DOMAIN chan = DOMAIN files /\ files \in Files
      /\ src[w] \in Seq(UnitsOf(w)) /\ chan[w] \in Channel(w) /\ via \in {"pipe", "mem"}
  BY DEF SendingInv, SortTypes
<1>3. Sort!reading' = Sort!reading
  BY <1>1 DEF Sort!reading
<1>4. What(w)' = What(w) /\ Got(w)' = Got(w) /\ \A s : MainAt(w, s)' = MainAt(w, s)
  BY <1>1, <1>3 DEF What, Got, MainAt, Begin
<1>5. ASSUME w >= Sort!reading PROVE WorkerInv(w)'
  <2>1. w \notin missing /\ Started(w) /\ Sending(w)
    BY <1>1, <1>5 DEF SendingInv, WorkerInv, Started
  <2>3. pc_p'[w] = "exited"
    BY <1>1, <1>2
  <2>4. Units(w)' = Units(w) /\ \A p : End(w, p)' = End(w, p)
    BY <1>1, UnitsKept
  <2>5. Started(w)' /\ Sent(w)' = Sent(w)
    BY <1>1, <2>1, <2>3, <2>4 DEF Started, Sent
  <2>6. Chunk(w)' = Chunk(w) /\ Full(w)' = Full(w)
    BY <1>1, <1>4, <2>3, <2>4, <2>5 DEF Chunk, Full
  <2>7. Ahead(w) => Ahead(w)'
    BY <1>1, <1>4, <2>3, <2>4, <2>5 DEF Ahead
  <2>8. via = "mem" => Page(w)'
    <3> SUFFICES ASSUME Page(w) PROVE Page(w)'
      BY <2>1 DEF Sending
    <3> QED
      BY <1>1, <1>4, <2>3, <2>5, <2>6, <2>7 DEF Page
  <2>9. Sending(w)'
    BY <1>1, <1>2, <1>4, <2>1, <2>3, <2>4, <2>5, <2>8 DEF Sending
  <2> QED
    BY <1>1, <2>1, <2>5, <2>9 DEF WorkerInv
<1> QED
  BY <1>1, <1>2, <1>5, OnlyOneWorker DEF WorkerSteps

(* Both ends copy at most a page, and at most what is left.                *)
LEMMA ToCopyFacts ==
  ASSUME NEW n \in Nat
  PROVE  /\ Sort!ToCopy(n) \in Nat /\ Sort!ToCopy(n) <= n
         /\ Sort!ToCopy(n) = IF n <= MemUnits THEN n ELSE MemUnits
<1>1. MemUnits \in Nat
  BY SortAssumption
<1> DEFINE m == IF n <= MemUnits THEN n ELSE MemUnits
<1>2. m \in {MemUnits, n} /\ \A y \in {MemUnits, n} : m <= y
  BY <1>1
<1>3. \A x \in {MemUnits, n} : (\A y \in {MemUnits, n} : x <= y) => x = m
  BY <1>1
<1> HIDE DEF m
<1>4. (CHOOSE x \in {MemUnits, n} : \A y \in {MemUnits, n} : x <= y) = m
  BY <1>2, <1>3
<1>5. Sort!ToCopy(n) = m
  BY <1>4 DEF Sort!ToCopy, Sort!Min
<1> QED
  BY <1>1, <1>5 DEF m

(* write_to_shared_mem() copies the next chunk into the page.              *)
LEMMA WriteCopyKeeps ==
  ASSUME SendingInv, NEW w \in DOMAIN files, Sort!write_copy(w)
  PROVE  SendingInv'
<1> DEFINE n == Sort!ToCopy(Len(src[w]))
<1>1. /\ UNCHANGED <<via, files, missing, part, mpc, what, dst, need, array>>
      /\ pc_p[w] = "copy" /\ pc_p' = [pc_p EXCEPT ![w] = "unset"]
      /\ chan' = [chan EXCEPT ![w].mem = Sort!Take(src[w], n) \o Sort!Drop(@, n)]
      /\ src' = [src EXCEPT ![w] = Sort!Drop(@, n)]
  BY DEF Sort!write_copy, Sort!mainVars, Sort!Goto
<1>2. /\ pc_p \in [DOMAIN files -> WorkerSteps] /\ part \in [DOMAIN files -> {"size", "array"}]
      /\ DOMAIN src = DOMAIN files /\ DOMAIN chan = DOMAIN files /\ files \in Files
      /\ src[w] \in Seq(UnitsOf(w)) /\ chan[w] \in Channel(w) /\ via \in {"pipe", "mem"}
  BY DEF SendingInv, SortTypes
<1>3. Sort!reading' = Sort!reading
  BY <1>1 DEF Sort!reading
<1>4. What(w)' = What(w) /\ Got(w)' = Got(w) /\ \A s : MainAt(w, s)' = MainAt(w, s)
  BY <1>1, <1>3 DEF What, Got, MainAt, Begin
<1>5. Len(src[w]) \in Nat /\ n \in Nat /\ n <= Len(src[w])
  BY <1>2, ToCopyFacts
<1> HIDE DEF n
<1>6. chan[w].mem \in Seq(UnitsOf(w))
  BY <1>2 DEF Channel
<1>7. /\ Sort!Take(src[w], n) \in Seq(UnitsOf(w)) /\ Sort!Drop(src[w], n) \in Seq(UnitsOf(w))
      /\ Sort!Drop(chan[w].mem, n) \in Seq(UnitsOf(w))
  BY <1>2, <1>5, <1>6, CutsAreSeqs
<1> DEFINE page == Sort!Take(src[w], n) \o Sort!Drop(chan[w].mem, n)
<1>8. page \in Seq(UnitsOf(w))
  BY <1>7, ConcatProperties
<1>9. /\ chan'[w] = [chan[w] EXCEPT !.mem = page] /\ DOMAIN chan' = DOMAIN files
      /\ src'[w] = Sort!Drop(src[w], n) /\ DOMAIN src' = DOMAIN files /\ pc_p'[w] = "unset"
      /\ \A x \in DOMAIN files \ {w} : chan'[x] = chan[x] /\ src'[x] = src[x]
  BY <1>1, <1>2
<1>10. /\ chan'[w] \in Channel(w) /\ chan'[w].writable = chan[w].writable
       /\ chan'[w].readable = chan[w].readable /\ chan'[w].mem = page
       /\ chan'[w].pipe = chan[w].pipe
  <2> HIDE DEF page
  <2> QED
    BY <1>2, <1>8, <1>9 DEF Channel
<1>11. ASSUME w >= Sort!reading PROVE WorkerInv(w)'
  <2>1. w \notin missing /\ Started(w)
    BY <1>1, <1>11 DEF SendingInv, WorkerInv, Started
  <2> DEFINE e == End(w, part[w])
             m == Sent(w)
  <2>2. /\ Sending(w) /\ Got(w) \in Nat /\ m \in Nat /\ e \in Nat /\ m <= e
        /\ e <= Len(Units(w)) /\ Len(src[w]) = e - m
    BY <1>11, <2>1, SendingFacts
  <2>3. via = "mem" /\ Page(w)
    BY <1>1, <1>2, <2>2 DEF Sending
  <2>4. /\ chan[w].writable /\ ~chan[w].readable /\ ~MainAt(w, {"copy"}) /\ ~MainAt(w, {"unset"})
        /\ ~MainAt(w, {"unset", "set"}) /\ part[w] = What(w) /\ m = Got(w)
    BY <1>1, <2>3 DEF Page, Full, Ahead, MainAt
  <2>5. Units(w)' = Units(w) /\ \A p : End(w, p)' = End(w, p)
    BY <1>1, UnitsKept
  <2>6. Units(w) \in Seq(UnitsOf(w))
    BY <1>2, UnitsFacts
  <2>7. src[w] = Slice(Units(w), m, e)
    BY <2>2 DEF Sending
  <2> HIDE DEF m, e
  <2>8. /\ Sort!Take(src[w], n) = Slice(Units(w), m, m + n)
        /\ Sort!Drop(src[w], n) = Slice(Units(w), m + n, e)
    <3>1. n <= e - m
      BY <1>5, <2>2
    <3> QED
      BY <1>5, <2>2, <2>6, <2>7, <3>1, TakeOfSlice, DropOfSlice
  <2>9. m + n \in Nat /\ m <= m + n /\ m + n <= e /\ m + n <= Len(Units(w))
    BY <1>5, <2>2, <2>6
  <2>10. /\ Len(Slice(Units(w), m, m + n)) = n /\ Len(Slice(Units(w), m + n, e)) = e - (m + n)
    <3>1. PICK k \in Nat : k = m + n
      BY <2>9
    <3>2. m <= k /\ k <= e /\ k <= Len(Units(w)) /\ k - m = n
      BY <1>5, <2>2, <2>9, <3>1
    <3>3. Len(Slice(Units(w), m, k)) = k - m /\ Len(Slice(Units(w), k, e)) = e - k
      BY <2>2, <2>6, <3>2, SliceIsSeq
    <3> QED
      BY <3>1, <3>2, <3>3
  <2>11. Started(w)' /\ Sent(w)' = m + n
    <3>1. Started(w)'
      BY <1>9 DEF Started
    <3>2. Sent(w)' = e - Len(src'[w])
      BY <1>1, <2>5, <3>1 DEF Sent, e
    <3>3. Len(src'[w]) = e - (m + n)
      BY <1>9, <2>8, <2>10
    <3> QED
      BY <2>2, <2>9, <3>1, <3>2, <3>3
  <2>12. Sort!Take(page, n) = Slice(Units(w), m, m + n)
    <3>1. Sort!Take(page, Len(Sort!Take(src[w], n))) = Sort!Take(src[w], n)
      BY <1>7, TakeOfConcat
    <3> HIDE DEF page
    <3> QED
      BY <2>8, <2>10, <3>1
  <2>13. Chunk(w)'
    <3>1. (m + n) - m = n /\ n = Sort!ToCopy(e - m)
      BY <1>5, <2>2 DEF n
    <3>2. End(w, What(w))' = e
      BY <1>4, <2>4, <2>5 DEF e
    <3>3. Sent(w)' = m + n /\ Got(w)' = m
      BY <1>4, <2>4, <2>11
    <3>4. chan'[w].mem = page
      BY <1>10
    <3> HIDE DEF page
    <3> QED
      BY <2>5, <2>12, <3>1, <3>2, <3>3, <3>4 DEF Chunk
  <2>14. Page(w)'
    BY <1>1, <1>4, <1>9, <1>10, <2>4, <2>13 DEF Page, Full, MainAt
  <2>15. src'[w] = Slice(Units(w), m + n, e)
    BY <1>9, <2>8
  <2>16. Got(w) <= m + n /\ 0 <= Got(w)
    BY <2>2, <2>4, <2>9
  <2>17. Sending(w)'
    BY <1>1, <1>4, <1>9, <2>3, <2>5, <2>11, <2>14, <2>15, <2>16 DEF Sending, e
  <2> QED
    BY <1>1, <2>1, <2>11, <2>17 DEF WorkerInv
<1>12. pc_p' \in [DOMAIN files -> WorkerSteps] /\ \A x \in DOMAIN files \ {w} : pc_p'[x] = pc_p[x]
  BY <1>1, <1>2 DEF WorkerSteps
<1>13. src'[w] \in Seq(UnitsOf(w))
  BY <1>7, <1>9
<1> HIDE DEF page
<1> QED
  BY <1>1, <1>2, <1>9, <1>10, <1>11, <1>12, <1>13, OnlyOneWorker

(* And hands it over.                                                      *)
LEMMA WriteSetKeeps ==
  ASSUME SendingInv, NEW w \in DOMAIN files, Sort!write_set(w)
  PROVE  SendingInv'
<1>1. /\ UNCHANGED <<via, files, missing, mpc, what, dst, need, array>>
      /\ pc_p[w] = "set" /\ chan' = [chan EXCEPT ![w].readable = TRUE]
      /\ Sort!WriteGoesOn(w, src[w])
  BY DEF Sort!write_set, Sort!mainVars
<1>2. /\ pc_p \in [DOMAIN files -> WorkerSteps] /\ part \in [DOMAIN files -> {"size", "array"}]
      /\ DOMAIN src = DOMAIN files /\ DOMAIN chan = DOMAIN files /\ files \in Files
      /\ src[w] \in Seq(UnitsOf(w)) /\ chan[w] \in Channel(w) /\ via \in {"pipe", "mem"}
  BY DEF SendingInv, SortTypes
<1>3. Sort!reading' = Sort!reading
  BY <1>1 DEF Sort!reading
<1>4. What(w)' = What(w) /\ Got(w)' = Got(w) /\ \A s : MainAt(w, s)' = MainAt(w, s)
  BY <1>1, <1>3 DEF What, Got, MainAt, Begin
<1>5. /\ chan'[w] = [chan[w] EXCEPT !.readable = TRUE] /\ DOMAIN chan' = DOMAIN files
      /\ \A x \in DOMAIN files \ {w} : chan'[x] = chan[x]
  BY <1>1, <1>2
<1>6. /\ chan'[w] \in Channel(w) /\ chan'[w].writable = chan[w].writable
      /\ chan'[w].readable = TRUE /\ chan'[w].mem = chan[w].mem
      /\ chan'[w].pipe = chan[w].pipe
  BY <1>2, <1>5 DEF Channel
<1>7. /\ pc_p' \in [DOMAIN files -> WorkerSteps] /\ part' \in [DOMAIN files -> {"size", "array"}]
      /\ DOMAIN src' = DOMAIN files /\ src'[w] \in Seq(UnitsOf(w))
      /\ \A x \in DOMAIN files \ {w} :
             pc_p'[x] = pc_p[x] /\ part'[x] = part[x] /\ src'[x] = src[x]
  BY <1>1, <1>2, WriteGoesOnTypes DEF SendingInv
<1>8. ASSUME w >= Sort!reading PROVE WorkerInv(w)'
  <2>1. w \notin missing /\ Started(w)
    BY <1>1, <1>8 DEF SendingInv, WorkerInv, Started
  <2> DEFINE e == End(w, part[w])
             m == Sent(w)
  <2>2. /\ Sending(w) /\ Got(w) \in Nat /\ m \in Nat /\ e \in Nat /\ m <= e /\ Got(w) <= m
    BY <1>8, <2>1, SendingFacts
  <2>3. via = "mem" /\ Page(w)
    BY <1>1, <1>2, <2>2 DEF Sending
  <2>4. /\ ~chan[w].writable /\ ~chan[w].readable /\ ~MainAt(w, {"copy", "unset", "set"})
        /\ part[w] = What(w) /\ Chunk(w)
    BY <1>1, <2>3 DEF Page, Full
  <2>5. Units(w)' = Units(w) /\ \A p : End(w, p)' = End(w, p)
    BY <1>1, UnitsKept
  <2>6. src[w] = Slice(Units(w), m, e)
    BY <2>2 DEF Sending
  <2>7. /\ src'[w] = Slice(Units(w), m, End(w, part'[w]))
        /\ pc_p'[w] \in {"wait", "close"}
        /\ pc_p'[w] = "close" => part'[w] = "array" /\ src'[w] = <<>>
        /\ Sent(w)' = m
        /\ IF m < e THEN part'[w] = part[w] /\ pc_p'[w] # "close"
           ELSE part'[w] = "array" /\ (pc_p'[w] = "close" <=> part[w] = "array")
    <3>1. Sort!WriteGoesOn(w, Slice(Units(w), m, e))
      BY <1>1, <2>6
    <3> HIDE DEF m
    <3> QED
      BY <1>1, <2>2, <2>3, <3>1, WriteGoesOnFacts DEF SendingInv
  <2>8. Started(w)'
    BY <2>7 DEF Started
  <2>9. Chunk(w)'
    BY <1>4, <1>6, <2>4, <2>5, <2>7 DEF Chunk
  <2>10. part[w] \in {"size", "array"}
    BY <1>2
  <2>11. Ahead(w)'
    BY <1>4, <2>4, <2>5, <2>7, <2>10 DEF Ahead
  <2>12. Page(w)'
    BY <1>4, <1>6, <2>4, <2>7, <2>9, <2>11 DEF Page, Full, MainAt
  <2>13. src'[w] = Slice(Units(w)', Sent(w)', End(w, part[w])')
    BY <2>5, <2>7
  <2> HIDE DEF m, e
  <2>14. Sending(w)'
    BY <1>1, <1>4, <2>2, <2>3, <2>7, <2>12, <2>13 DEF Sending
  <2> QED
    BY <1>1, <2>1, <2>8, <2>14 DEF WorkerInv
<1> QED
  BY <1>1, <1>2, <1>5, <1>6, <1>7, <1>8, OnlyOneWorker

(* write() puts as much into the pipe as there is room for.                *)
LEMMA WritePipeKeeps ==
  ASSUME SendingInv, NEW w \in DOMAIN files, Sort!write_pipe(w)
  PROVE  SendingInv'
<1>0. PICK n \in 0..Len(src[w]) :
        /\ chan' = [chan EXCEPT ![w].pipe = @ \o Sort!Take(src[w], n)]
        /\ Sort!WriteGoesOn(w, Sort!Drop(src[w], n))
  BY DEF Sort!write_pipe
<1>1. UNCHANGED <<via, files, missing, mpc, what, dst, need, array>> /\ pc_p[w] = "write"
  BY DEF Sort!write_pipe, Sort!mainVars
<1>2. /\ pc_p \in [DOMAIN files -> WorkerSteps] /\ part \in [DOMAIN files -> {"size", "array"}]
      /\ DOMAIN src = DOMAIN files /\ DOMAIN chan = DOMAIN files /\ files \in Files
      /\ src[w] \in Seq(UnitsOf(w)) /\ chan[w] \in Channel(w) /\ via \in {"pipe", "mem"}
  BY DEF SendingInv, SortTypes
<1>3. Sort!reading' = Sort!reading
  BY <1>1 DEF Sort!reading
<1>4. What(w)' = What(w) /\ Got(w)' = Got(w) /\ \A s : MainAt(w, s)' = MainAt(w, s)
  BY <1>1, <1>3 DEF What, Got, MainAt, Begin
<1>5. Len(src[w]) \in Nat /\ n \in Nat /\ n <= Len(src[w])
  BY <1>2
<1>6. chan[w].pipe \in Seq(UnitsOf(w))
  BY <1>2 DEF Channel
<1>7. Sort!Take(src[w], n) \in Seq(UnitsOf(w)) /\ Sort!Drop(src[w], n) \in Seq(UnitsOf(w))
  BY <1>2, <1>5, CutsAreSeqs
<1> DEFINE pipe == chan[w].pipe \o Sort!Take(src[w], n)
<1>8. pipe \in Seq(UnitsOf(w))
  BY <1>6, <1>7, ConcatProperties
<1>9. /\ chan'[w] = [chan[w] EXCEPT !.pipe = pipe] /\ DOMAIN chan' = DOMAIN files
      /\ \A x \in DOMAIN files \ {w} : chan'[x] = chan[x]
  BY <1>0, <1>2
<1>10. /\ chan'[w] \in Channel(w) /\ chan'[w].pipe = pipe
  <2> HIDE DEF pipe
  <2> QED
    BY <1>2, <1>8, <1>9 DEF Channel
<1>11. /\ pc_p' \in [DOMAIN files -> WorkerSteps] /\ part' \in [DOMAIN files -> {"size", "array"}]
       /\ DOMAIN src' = DOMAIN files /\ src'[w] \in Seq(UnitsOf(w))
       /\ \A x \in DOMAIN files \ {w} :
              pc_p'[x] = pc_p[x] /\ part'[x] = part[x] /\ src'[x] = src[x]
  BY <1>0, <1>7, WriteGoesOnTypes DEF SendingInv
<1>12. ASSUME w >= Sort!reading PROVE WorkerInv(w)'
  <2>1. w \notin missing /\ Started(w)
    BY <1>1, <1>12 DEF SendingInv, WorkerInv, Started
  <2> DEFINE e == End(w, part[w])
             m == Sent(w)
             g == Got(w)
  <2>2. /\ Sending(w) /\ g \in Nat /\ m \in Nat /\ e \in Nat /\ m <= e /\ g <= m
        /\ e <= Len(Units(w)) /\ Len(src[w]) = e - m
    BY <1>12, <2>1, SendingFacts
  <2>3. via = "pipe"
    BY <1>1, <1>2, <2>2 DEF Sending, Page, Ahead
  <2>4. chan[w].pipe = Slice(Units(w), g, m)
    BY <2>2, <2>3 DEF Sending
  <2>5. Units(w)' = Units(w) /\ \A p : End(w, p)' = End(w, p)
    BY <1>1, UnitsKept
  <2>6. Units(w) \in Seq(UnitsOf(w))
    BY <1>2, UnitsFacts
  <2>7. src[w] = Slice(Units(w), m, e)
    BY <2>2 DEF Sending
  <2> HIDE DEF m, e, g
  <2>8. /\ Sort!Take(src[w], n) = Slice(Units(w), m, m + n)
        /\ Sort!Drop(src[w], n) = Slice(Units(w), m + n, e)
    <3>1. n <= e - m
      BY <1>5, <2>2
    <3> QED
      BY <1>5, <2>2, <2>6, <2>7, <3>1, TakeOfSlice, DropOfSlice
  <2>9. PICK k \in Nat : k = m + n
    BY <1>5, <2>2
  <2>10. m <= k /\ k <= e /\ k <= Len(Units(w)) /\ g <= k
    BY <1>5, <2>2, <2>6, <2>9
  <2>11. pipe = Slice(Units(w), g, k)
    <3>1. Slice(Units(w), g, m) \o Slice(Units(w), m, k) = Slice(Units(w), g, k)
      BY <2>2, <2>6, <2>10, SlicesTouch
    <3>2. Sort!Take(src[w], n) = Slice(Units(w), m, k)
      BY <2>8, <2>9
    <3> QED
      BY <2>4, <3>1, <3>2
  <2>12. /\ src'[w] = Slice(Units(w), k, End(w, part'[w]))
         /\ pc_p'[w] \in {"write", "close"}
         /\ pc_p'[w] = "close" => part'[w] = "array" /\ src'[w] = <<>>
         /\ Sent(w)' = k
    <3>1. Sort!WriteGoesOn(w, Slice(Units(w), k, End(w, part[w])))
      BY <1>0, <2>8, <2>9 DEF e
    <3>2. k <= End(w, part[w])
      BY <2>10 DEF e
    <3> QED
      BY <1>1, <2>3, <3>1, <3>2, WriteGoesOnFacts DEF SendingInv
  <2>13. Started(w)'
    BY <2>12 DEF Started
  <2>14. src'[w] = Slice(Units(w)', Sent(w)', End(w, part[w])')
    BY <2>5, <2>12
  <2>15. 0 <= g /\ g <= k /\ Got(w)' = g
    BY <1>4, <2>2, <2>10 DEF g
  <2> HIDE DEF pipe
  <2>16. Sending(w)'
    BY <1>1, <1>10, <2>3, <2>5, <2>11, <2>12, <2>14, <2>15 DEF Sending
  <2> QED
    BY <1>1, <2>1, <2>13, <2>16 DEF WorkerInv
<1> HIDE DEF pipe
<1> QED
  BY <1>1, <1>9, <1>10, <1>11, <1>12, OnlyOneWorker

(* A step of main() leaves alone the workers that it does not read from.   *)
LEMMA OtherWorkersKept ==
  ASSUME SendingInv, UNCHANGED <<via, files, missing, pc_p, part, src>>,
         array' = array \/ (Len(array') = Len(array) + 1 /\ what' = "size" /\ dst' = <<>>
                            /\ mpc' \notin {"copy", "unset", "set"}),
         NEW x \in DOMAIN files, x > Sort!reading, chan'[x] = chan[x]
  PROVE  WorkerInv(x)'
<1>1. Sort!reading = Len(array) + 1 /\ Len(array) \in Nat /\ x \in Nat
  <2>1. array \in Seq(ArraysRead) /\ files \in Seq(Seq(Int))
    BY SortAssumption DEF SendingInv, SortTypes
  <2> QED
    BY <2>1 DEF Sort!reading
<1>2. Sort!reading' = Len(array') + 1
  BY DEF Sort!reading
<1>3. What(x) = "size" /\ Got(x) = 0 /\ \A s : MainAt(x, s) = FALSE
  BY <1>1 DEF What, Got, MainAt
<1>4. /\ What(x)' = "size" /\ Got(x)' = 0
      /\ \A s \in SUBSET {"copy", "unset", "set"} : MainAt(x, s)' = FALSE
  <2>1. CASE array' = array
    BY <1>1, <1>2, <2>1 DEF What, Got, MainAt
  <2>2. CASE what' = "size" /\ dst' = <<>> /\ mpc' \notin {"copy", "unset", "set"}
    <3>1. What(x)' = "size"
      BY <2>2 DEF What
    <3>2. Got(x)' = 0
      BY <2>2 DEF Got, Begin
    <3>3. \A s \in SUBSET {"copy", "unset", "set"} : MainAt(x, s)' = FALSE
      BY <2>2 DEF MainAt
    <3> QED
      BY <3>1, <3>2, <3>3
  <2> QED
    BY <2>1, <2>2
<1>5. WorkerInv(x)
  BY <1>1 DEF SendingInv
<1> QED
  BY <1>3, <1>4, <1>5, WorkerKept

(* What main() knows of the worker it reads from.                          *)
LEMMA ReadingFacts ==
  ASSUME SendingInv, mpc \in {"read", "copy", "unset", "set"}
  PROVE  LET r == Sort!reading
         IN  /\ r \in DOMAIN files /\ WorkerInv(r) /\ Len(array) \in Nat /\ r = Len(array) + 1
             /\ IntUnits \in Nat \ {0} /\ Units(r) \in Seq(UnitsOf(r)) /\ Len(Units(r)) \in Nat
             /\ IntUnits <= Len(Units(r)) /\ End(r, what) \in Nat /\ End(r, what) <= Len(Units(r))
             /\ What(r) = what /\ Got(r) = Begin(what) + Len(dst)
             /\ Begin(what) \in Nat /\ Got(r) \in Nat /\ Begin(what) <= Got(r)
             /\ Got(r) <= End(r, what) /\ need = End(r, what) - Got(r)
             /\ dst = Slice(Units(r), Begin(what), Got(r))
             /\ need \in Nat /\ what \in {"size", "array"} /\ chan[r] \in Channel(r)
<1> DEFINE r == Sort!reading
<1>1. /\ array \in Seq(ArraysRead) /\ files \in Files
      /\ files \in Seq(Seq(Int)) /\ Len(array) < Len(files) /\ Len(dst) \in Nat
      /\ need \in Nat /\ what \in {"size", "array"}
  BY SortAssumption DEF SendingInv, SortTypes, MainInv
<1>2. r = Len(array) + 1 /\ Len(array) \in Nat /\ r \in DOMAIN files /\ r >= r
  BY <1>1 DEF Sort!reading
<1>3. WorkerInv(r) /\ chan[r] \in Channel(r)
  BY <1>2 DEF SendingInv, SortTypes
<1>4. /\ IntUnits \in Nat \ {0} /\ Units(r) \in Seq(UnitsOf(r)) /\ Len(Units(r)) \in Nat
      /\ IntUnits <= Len(Units(r))
  BY <1>1, <1>2, UnitsFacts
<1>5. End(r, what) \in Nat /\ End(r, what) <= Len(Units(r)) /\ Begin(what) \in Nat
  BY <1>1, <1>4 DEF End, Begin
<1>6. What(r) = what /\ Got(r) = Begin(what) + Len(dst)
  BY DEF What, Got
<1>7. /\ Got(r) <= End(r, what) /\ need = End(r, what) - Got(r)
      /\ dst = Slice(Units(r), Begin(what), Got(r))
  BY <1>2 DEF SendingInv, MainInv
<1>8. Got(r) \in Nat /\ Begin(what) <= Got(r)
  BY <1>1, <1>5, <1>6
<1> HIDE DEF r
<1>9. /\ r \in DOMAIN files /\ WorkerInv(r) /\ Len(array) \in Nat /\ r = Len(array) + 1
      /\ IntUnits \in Nat \ {0} /\ Units(r) \in Seq(UnitsOf(r)) /\ Len(Units(r)) \in Nat
      /\ IntUnits <= Len(Units(r)) /\ End(r, what) \in Nat /\ End(r, what) <= Len(Units(r))
      /\ What(r) = what /\ Got(r) = Begin(what) + Len(dst)
      /\ Begin(what) \in Nat /\ Got(r) \in Nat /\ Begin(what) <= Got(r)
      /\ Got(r) <= End(r, what) /\ need = End(r, what) - Got(r)
      /\ dst = Slice(Units(r), Begin(what), Got(r))
      /\ need \in Nat /\ what \in {"size", "array"} /\ chan[r] \in Channel(r)
  BY <1>1, <1>2, <1>3, <1>4, <1>5, <1>6, <1>7, <1>8
<1> QED
  BY <1>9 DEF r

(* The end of a read call: main() goes on with the rest, with the array,   *)
(* or has the array of the worker.                                         *)
LEMMA ReadGoesOnFacts ==
  ASSUME SendingInv, mpc \in {"read", "set"}, NEW g \in Nat,
         Begin(what) <= g, g <= End(Sort!reading, what),
         Sort!ReadGoesOn(Slice(Units(Sort!reading), Begin(what), g), End(Sort!reading, what) - g)
  PROVE  LET r == Sort!reading
         IN  \/ /\ g < End(r, what)
                /\ mpc' = "read" /\ what' = what /\ array' = array
                /\ dst' = Slice(Units(r), Begin(what), g) /\ need' = End(r, what) - g
             \/ /\ g = End(r, what) /\ what = "size"
                /\ mpc' = "read" /\ what' = "array" /\ array' = array
                /\ dst' = <<>> /\ need' = End(r, "array") - IntUnits
             \/ /\ g = End(r, what) /\ what = "array"
                /\ mpc' = "reap" /\ what' = "size" /\ need' = IntUnits
                /\ dst' = <<>> /\ array' = Append(array, Sort!Simple!qsort(files[r]))
<1> DEFINE r == Sort!reading
<1>1. /\ r \in DOMAIN files /\ End(r, what) \in Nat /\ what \in {"size", "array"}
  BY ReadingFacts
<1>2. /\ IntUnits \in Nat \ {0} /\ Len(files[r]) * IntUnits \in Nat
      /\ Len(Units(r)) = IntUnits + Len(files[r]) * IntUnits
      /\ Slice(Units(r), 0, IntUnits) = SizeUnits(r)
      /\ Slice(Units(r), IntUnits, Len(Units(r))) = ArrayUnits(r)
      /\ Sort!Decode(SizeUnits(r))[1] = Len(files[r])
      /\ Sort!Decode(ArrayUnits(r)) = Sort!Simple!qsort(files[r])
  <2>1. files \in Files
    BY DEF SendingInv, SortTypes
  <2> QED
    BY <1>1, <2>1, UnitsFacts
<1> HIDE DEF r
<1>3. Sort!ReadGoesOn(Slice(Units(r), Begin(what), g), End(r, what) - g) /\ g <= End(r, what)
  BY DEF r
<1>4. CASE g < End(r, what)
  <2>1. End(r, what) - g > 0
    BY <1>1, <1>4
  <2> QED
    BY <1>3, <1>4, <2>1 DEF Sort!ReadGoesOn, r
<1>5. CASE g = End(r, what) /\ what = "size"
  <2>1. ~(End(r, what) - g > 0)
    BY <1>1, <1>5
  <2>2. Slice(Units(r), Begin(what), g) = SizeUnits(r)
    BY <1>2, <1>5 DEF Begin, End
  <2>3. need' = Len(files[r]) * IntUnits
    BY <1>2, <1>3, <1>5, <2>1, <2>2 DEF Sort!ReadGoesOn
  <2>4. Len(files[r]) * IntUnits = End(r, "array") - IntUnits
    BY <1>2 DEF End
  <2> QED
    BY <1>3, <1>5, <2>1, <2>3, <2>4 DEF Sort!ReadGoesOn, r
<1>6. CASE g = End(r, what) /\ what = "array"
  <2>1. ~(End(r, what) - g > 0)
    BY <1>1, <1>6
  <2>2. Slice(Units(r), Begin(what), g) = ArrayUnits(r)
    BY <1>2, <1>6 DEF Begin, End
  <2> QED
    BY <1>2, <1>3, <1>6, <2>1, <2>2 DEF Sort!ReadGoesOn, r
<1>7. g < End(r, what) \/ g = End(r, what)
  BY <1>1, <1>3
<1> QED
  BY <1>1, <1>4, <1>5, <1>6, <1>7

(* main() has an array, or what it takes for one: it turns to the next     *)
(* worker, of which it has nothing.                                        *)
LEMMA ArrayReadKeeps ==
  ASSUME SendingInv, mpc \in {"read", "set"}, NEW a \in ArraysRead, NEW r, r = Sort!reading,
         UNCHANGED <<via, files, missing, pc_p, part, src>>,
         DOMAIN chan' = DOMAIN files, chan'[r] \in Channel(r),
         \A x \in DOMAIN files \ {r} : chan'[x] = chan[x],
         mpc' = "reap", what' = "size", need' = IntUnits, dst' = <<>>, array' = Append(array, a)
  PROVE  SendingInv'
<1>1. /\ r \in DOMAIN files /\ Len(array) \in Nat /\ r = Len(array) + 1 /\ IntUnits \in Nat \ {0}
  BY ReadingFacts
<1>2. SortTypes /\ Len(array) < Len(files)
  BY DEF SendingInv, MainInv
<1>3. array \in Seq(ArraysRead) /\ files \in Seq(Seq(Int)) /\ Len(files) \in Nat
  BY <1>2, SortAssumption DEF SortTypes
<1>u. \A x : /\ Units(x)' = Units(x) /\ UnitsOf(x)' = UnitsOf(x) /\ Channel(x)' = Channel(x)
             /\ \A p : End(x, p)' = End(x, p)
  BY UnitsKept
<1>4. array' \in Seq(ArraysRead) /\ ArraysRead' = ArraysRead
  BY <1>3 DEF ArraysRead
<1>5. SortTypes'
  <2>1. ASSUME NEW x \in DOMAIN files PROVE src'[x] \in Seq(UnitsOf(x)) /\ chan'[x] \in Channel(x)
    BY <1>2 DEF SortTypes
  <2>2. Len(dst') \in Nat /\ need' \in Nat
    BY <1>1
  <2> QED
    BY <1>2, <1>4, <1>u, <2>1, <2>2 DEF SortTypes
<1>6. Len(array') = Len(array) + 1 /\ Sort!reading' = r + 1
  BY <1>1, <1>3 DEF Sort!reading
<1>7. MainInv'
  <2>1. Got(Sort!reading)' = 0 /\ End(Sort!reading, what)' = IntUnits /\ Begin(what)' = 0
    BY DEF Got, Begin, End
  <2>2. Sort!reading' \in DOMAIN files => Slice(Units(Sort!reading)', 0, 0) = <<>>
    <3> SUFFICES ASSUME NEW y \in DOMAIN files PROVE Slice(Units(y), 0, 0) = <<>>
      BY <1>u
    <3>1. Units(y) \in Seq(UnitsOf(y)) /\ Len(Units(y)) \in Nat
      BY <1>2, <1>3, UnitsFacts DEF SortTypes
    <3>2. Slice(Units(y), 0, 0) \in Seq(UnitsOf(y)) /\ Len(Slice(Units(y), 0, 0)) = 0 - 0
      BY <3>1, SliceIsSeq
    <3> QED
      BY <3>2
  <2>3. Len(array') <= Len(files)
    BY <1>1, <1>2, <1>3, <1>6
  <2> QED
    BY <1>1, <2>1, <2>2, <2>3 DEF MainInv
<1>8. ASSUME NEW x \in DOMAIN files, x >= Sort!reading' PROVE WorkerInv(x)'
  <2>1. x > Sort!reading /\ x # r
    <3>1. Sort!reading = Len(array) + 1 /\ Sort!reading' = Len(array') + 1
      BY DEF Sort!reading
    <3>2. x \in Nat
      BY <1>3
    <3> QED
      BY <1>1, <1>6, <1>8, <3>1, <3>2
  <2>2. chan'[x] = chan[x]
    BY <2>1
  <2> QED
    BY <1>6, <2>1, <2>2, OtherWorkersKept
<1> QED
  BY <1>5, <1>7, <1>8 DEF SendingInv

(* After a read call the invariant holds again, if it does of the worker   *)
(* that main() still reads from.                                           *)
LEMMA ReadGoesOnKeeps ==
  ASSUME SendingInv, mpc \in {"read", "set"}, NEW g \in Nat, NEW r, r = Sort!reading,
         Begin(what) <= g, g <= End(r, what),
         Sort!ReadGoesOn(Slice(Units(r), Begin(what), g), End(r, what) - g),
         UNCHANGED <<via, files, missing, pc_p, part, src>>,
         DOMAIN chan' = DOMAIN files, chan'[r] \in Channel(r),
         \A x \in DOMAIN files \ {r} : chan'[x] = chan[x],
         array' = array => WorkerInv(r)'
  PROVE  SendingInv'
<1>1. /\ r \in DOMAIN files /\ End(r, what) \in Nat /\ what \in {"size", "array"}
      /\ Len(array) \in Nat /\ r = Len(array) + 1 /\ IntUnits \in Nat \ {0}
      /\ Units(r) \in Seq(UnitsOf(r)) /\ Len(Units(r)) \in Nat /\ IntUnits <= Len(Units(r))
      /\ Begin(what) \in Nat /\ End(r, what) <= Len(Units(r))
  BY ReadingFacts
<1>2. \/ /\ g < End(r, what)
         /\ mpc' = "read" /\ what' = what /\ array' = array
         /\ dst' = Slice(Units(r), Begin(what), g) /\ need' = End(r, what) - g
      \/ /\ g = End(r, what) /\ what = "size"
         /\ mpc' = "read" /\ what' = "array" /\ array' = array
         /\ dst' = <<>> /\ need' = End(r, "array") - IntUnits
      \/ /\ g = End(r, what) /\ what = "array"
         /\ mpc' = "reap" /\ what' = "size" /\ need' = IntUnits
         /\ dst' = <<>> /\ array' = Append(array, Sort!Simple!qsort(files[r]))
  BY ReadGoesOnFacts
<1>3. SortTypes /\ Len(array) < Len(files)
  BY DEF SendingInv, MainInv
<1>f. /\ Len(files) \in Nat /\ array \in Seq(ArraysRead) /\ files \in Seq(Seq(Int))
  BY <1>3, SortAssumption DEF SortTypes
<1>u. \A x : /\ Units(x)' = Units(x) /\ UnitsOf(x)' = UnitsOf(x) /\ Channel(x)' = Channel(x)
             /\ \A p : End(x, p)' = End(x, p)
  BY UnitsKept
<1>4. Len(dst') \in Nat /\ (g < End(r, what) => Len(dst') = g - Begin(what))
  <2>1. CASE g < End(r, what)
    <3>1. g <= Len(Units(r))
      BY <1>1
    <3>3. PICK b \in Nat : b = Begin(what) /\ b <= g
      BY <1>1
    <3>5. Units(r) \in Seq(UnitsOf(r)) /\ b <= g
      BY <1>1, <3>3
    <3>4. Len(Slice(Units(r), b, g)) = g - b
      BY <3>1, <3>5, SliceIsSeq
    <3>2. Len(Slice(Units(r), Begin(what), g)) = g - Begin(what)
      BY <3>3, <3>4
    <3> QED
      BY <1>1, <1>2, <2>1, <3>2
  <2>2. CASE ~(g < End(r, what))
    BY <1>2, <2>2
  <2> QED
    BY <2>1, <2>2
<1>5. need' \in Nat
  BY <1>1, <1>2 DEF End
<1>7. ASSUME array' = array PROVE SortTypes'
  <2>1. ASSUME NEW x \in DOMAIN files PROVE src'[x] \in Seq(UnitsOf(x)) /\ chan'[x] \in Channel(x)
    BY <1>3 DEF SortTypes
  <2>2. what' \in {"size", "array"} /\ mpc' \in {"read", "reap"}
    BY <1>1, <1>2
  <2> QED
    BY <1>3, <1>4, <1>5, <1>7, <1>u, <2>1, <2>2 DEF SortTypes, ArraysRead
<1>8. CASE array' = array
  <2>1. Sort!reading' = r /\ mpc' = "read"
    <3>1. Append(array, Sort!Simple!qsort(files[r])) # array
      BY <1>f
    <3> QED
      BY <1>2, <1>8, <3>1 DEF Sort!reading
  <2>2. Got(r)' = g /\ what' \in {"size", "array"}
    <3>1. Got(r)' = Begin(what') + Len(dst')
      BY <2>1 DEF Got, Begin
    <3>2. CASE g < End(r, what)
      BY <1>1, <1>2, <1>4, <3>1, <3>2
    <3>3. CASE ~(g < End(r, what))
      <4>1. g = IntUnits /\ what' = "array" /\ dst' = <<>>
        BY <1>2, <1>8, <3>3, <2>1 DEF End
      <4> QED
        BY <1>1, <3>1, <4>1 DEF Begin
    <3> QED
      BY <3>2, <3>3
  <2>3. /\ g <= End(r, what') /\ need' = End(r, what') - g
        /\ dst' = Slice(Units(r), Begin(what'), g)
    <3>1. CASE g < End(r, what)
      BY <1>1, <1>2, <3>1
    <3>2. CASE ~(g < End(r, what))
      <4>1. g = IntUnits /\ what' = "array" /\ dst' = <<>> /\ need' = End(r, "array") - IntUnits
        BY <1>2, <1>8, <3>2, <2>1 DEF End
      <4>2. Slice(Units(r), IntUnits, IntUnits) = <<>>
        <5>1. /\ Slice(Units(r), IntUnits, IntUnits) \in Seq(UnitsOf(r))
              /\ Len(Slice(Units(r), IntUnits, IntUnits)) = IntUnits - IntUnits
          BY <1>1, SliceIsSeq
        <5> QED
          BY <1>1, <5>1
      <4>3. Begin("array") = IntUnits /\ End(r, "array") = Len(Units(r))
        BY DEF Begin, End
      <4> QED
        BY <1>1, <4>1, <4>2, <4>3
    <3> QED
      BY <3>1, <3>2
  <2>4. MainInv'
    <3>1. Got(Sort!reading)' = g /\ End(Sort!reading, what)' = End(r, what')
          /\ Units(Sort!reading)' = Units(r)
      BY <1>u, <2>1, <2>2
    <3>2. Begin(what)' = Begin(what')
      BY DEF Begin
    <3> QED
      BY <1>3, <1>f, <1>8, <2>1, <2>3, <3>1, <3>2 DEF MainInv
  <2>5. ASSUME NEW x \in DOMAIN files, x >= Sort!reading' PROVE WorkerInv(x)'
    <3>1. x \in Nat /\ r \in Nat
      BY <1>1, <1>f
    <3>2. CASE x = r
      BY <1>8, <3>2
    <3>3. CASE x # r
      <4>1. x > Sort!reading /\ chan'[x] = chan[x]
        BY <2>1, <2>5, <3>1, <3>3
      <4> QED
        BY <1>8, <4>1, OtherWorkersKept
    <3> QED
      BY <3>2, <3>3
  <2> QED
    BY <1>7, <1>8, <2>4, <2>5 DEF SendingInv
<1>9. CASE array' # array
  <2>1. /\ mpc' = "reap" /\ what' = "size" /\ need' = IntUnits
        /\ dst' = <<>> /\ array' = Append(array, Sort!Simple!qsort(files[r]))
    BY <1>2, <1>9
  <2>2. Sort!Simple!qsort(files[r]) \in ArraysRead
    BY <1>1 DEF ArraysRead
  <2> QED
    BY <2>1, <2>2, ArrayReadKeeps
<1> QED
  BY <1>8, <1>9

(* A step within a read call keeps the invariant, if it does that of the   *)
(* worker and what main() has got of it.                                   *)
LEMMA ReadStepKeeps ==
  ASSUME SendingInv, mpc \in {"read", "copy", "unset", "set"}, NEW r, r = Sort!reading,
         mpc' \in {"read", "copy", "unset", "set"},
         mpc' \in {"copy", "unset", "set"} => via = "mem",
         UNCHANGED <<via, files, missing, pc_p, part, src, what, array>>,
         DOMAIN chan' = DOMAIN files, chan'[r] \in Channel(r),
         \A x \in DOMAIN files \ {r} : chan'[x] = chan[x],
         Len(dst') \in Nat, need' \in Nat, Got(r)' <= End(r, what),
         need' = End(r, what) - Got(r)', dst' = Slice(Units(r), Begin(what), Got(r)'),
         WorkerInv(r)'
  PROVE  SendingInv'
<1>1. SortTypes /\ r \in DOMAIN files /\ r = Len(array) + 1 /\ Len(array) \in Nat
  BY ReadingFacts DEF SendingInv
<1>u. \A x : /\ Units(x)' = Units(x) /\ UnitsOf(x)' = UnitsOf(x) /\ Channel(x)' = Channel(x)
             /\ \A p : End(x, p)' = End(x, p)
  BY UnitsKept
<1>2. Sort!reading' = r
  BY DEF Sort!reading
<1>3. SortTypes'
  <2>1. ASSUME NEW x \in DOMAIN files PROVE src'[x] \in Seq(UnitsOf(x)) /\ chan'[x] \in Channel(x)
    BY <1>1 DEF SortTypes
  <2> QED
    BY <1>1, <1>u, <2>1 DEF SortTypes, ArraysRead
<1>4. MainInv'
  <2>1. /\ Got(Sort!reading)' = Got(r)' /\ End(Sort!reading, what)' = End(r, what)
        /\ Units(Sort!reading)' = Units(r) /\ Begin(what)' = Begin(what)
    BY <1>u, <1>2 DEF Got, Begin
  <2>2. Len(array) < Len(files) /\ Len(array) <= Len(files)
    BY DEF SendingInv, MainInv
  <2> QED
    BY <2>1, <2>2 DEF MainInv
<1>5. ASSUME NEW x \in DOMAIN files, x >= Sort!reading' PROVE WorkerInv(x)'
  <2>1. x \in Nat
    <3>1. files \in Seq(Seq(Int))
      BY <1>1, SortAssumption DEF SortTypes
    <3> QED
      BY <3>1
  <2>2. CASE x = r
    BY <2>2
  <2>3. CASE x # r
    <3>1. x > Sort!reading /\ chan'[x] = chan[x]
      BY <1>1, <1>2, <1>5, <2>1, <2>3
    <3> QED
      BY <3>1, OtherWorkersKept
  <2> QED
    BY <2>2, <2>3
<1> QED
  BY <1>3, <1>4, <1>5 DEF SendingInv

(* read_from_shared_mem() waits for a chunk.                               *)
LEMMA ReadWaitKeeps ==
  ASSUME SendingInv, Sort!read_wait
  PROVE  SendingInv'
<1>1. /\ via = "mem" /\ mpc = "read" /\ chan[Sort!reading].readable /\ mpc' = "copy"
      /\ UNCHANGED <<via, files, missing, pc_p, part, src, chan, what, dst, need, array>>
  BY DEF Sort!read_wait, Sort!workerVars
<1>0. PICK r : r = Sort!reading
  OBVIOUS
<1>r. /\ r \in DOMAIN files /\ WorkerInv(r) /\ Units(r) \in Seq(UnitsOf(r))
      /\ Len(Units(r)) \in Nat /\ End(r, what) \in Nat /\ End(r, what) <= Len(Units(r))
      /\ What(r) = what /\ Got(r) = Begin(what) + Len(dst)
      /\ Begin(what) \in Nat /\ Got(r) \in Nat /\ Begin(what) <= Got(r)
      /\ Got(r) <= End(r, what) /\ need = End(r, what) - Got(r)
      /\ dst = Slice(Units(r), Begin(what), Got(r))
      /\ need \in Nat /\ what \in {"size", "array"} /\ chan[r] \in Channel(r)
  BY <1>0, <1>1, ReadingFacts
<1>t. /\ via \in {"pipe", "mem"} /\ DOMAIN chan = DOMAIN files /\ Len(dst) \in Nat
  BY DEF SendingInv, SortTypes
<1>v. Sort!reading' = Len(array') + 1 /\ Sort!reading = Len(array) + 1
  BY DEF Sort!reading
<1>u. Units(r)' = Units(r) /\ \A p : End(r, p)' = End(r, p)
  BY <1>1, UnitsKept
<1>2. /\ MainAt(r, {"copy"})' /\ ~MainAt(r, {"unset"})' /\ ~MainAt(r, {"set"})'
      /\ ~MainAt(r, {"unset", "set"})' /\ What(r)' = What(r) /\ Got(r)' = Got(r)
      /\ ~MainAt(r, {"unset"}) /\ ~MainAt(r, {"set"}) /\ ~MainAt(r, {"unset", "set"})
  BY <1>0, <1>1, <1>v DEF MainAt, What, Got, Begin
<1>3. chan[r].readable
  BY <1>0, <1>1
<1>4. r \notin missing /\ Started(r) /\ Sending(r)
  BY <1>r, <1>3 DEF WorkerInv, NotStarted
<1>5. Page(r)
  BY <1>1, <1>4 DEF Sending
<1>6. Started(r)' /\ Sent(r)' = Sent(r) /\ Full(r)' = Full(r)
  BY <1>1, <1>2, <1>4, <1>u DEF Started, Sent, Full
<1>7. Chunk(r)' = Chunk(r) /\ Ahead(r)' = Ahead(r)
  BY <1>1, <1>2, <1>6, <1>u DEF Chunk, Ahead
<1>8. Page(r)'
  BY <1>1, <1>2, <1>3, <1>5, <1>6, <1>7 DEF Page
<1>9. Sending(r)'
  BY <1>1, <1>2, <1>4, <1>6, <1>8, <1>u DEF Sending
<1>10. WorkerInv(r)'
  BY <1>1, <1>4, <1>6, <1>9 DEF WorkerInv
<1> QED
  BY <1>0, <1>1, <1>2, <1>10, <1>r, <1>t, ReadStepKeeps

(* It copies the chunk, of the size that the worker gave it.               *)
LEMMA ReadCopyKeeps ==
  ASSUME SendingInv, Sort!read_copy
  PROVE  SendingInv'
<1> DEFINE n == Sort!ToCopy(need)
<1>1. /\ mpc = "copy" /\ mpc' = "unset"
      /\ dst' = dst \o Sort!Take(chan[Sort!reading].mem, n) /\ need' = need - n
      /\ UNCHANGED <<via, files, missing, pc_p, part, src, chan, what, array>>
  BY DEF Sort!read_copy, Sort!workerVars
<1>0. PICK r : r = Sort!reading
  OBVIOUS
<1>r. /\ r \in DOMAIN files /\ WorkerInv(r) /\ Units(r) \in Seq(UnitsOf(r))
      /\ Len(Units(r)) \in Nat /\ End(r, what) \in Nat /\ End(r, what) <= Len(Units(r))
      /\ What(r) = what /\ Got(r) = Begin(what) + Len(dst)
      /\ Begin(what) \in Nat /\ Got(r) \in Nat /\ Begin(what) <= Got(r)
      /\ Got(r) <= End(r, what) /\ need = End(r, what) - Got(r)
      /\ dst = Slice(Units(r), Begin(what), Got(r))
      /\ need \in Nat /\ what \in {"size", "array"} /\ chan[r] \in Channel(r)
  BY <1>0, <1>1, ReadingFacts
<1>t. /\ via \in {"pipe", "mem"} /\ DOMAIN chan = DOMAIN files /\ Len(dst) \in Nat
  BY DEF SendingInv, SortTypes
<1>v. Sort!reading' = Len(array') + 1 /\ Sort!reading = Len(array) + 1
  BY DEF Sort!reading
<1>u. Units(r)' = Units(r) /\ \A p : End(r, p)' = End(r, p)
  BY <1>1, UnitsKept
<1>m. via = "mem"
  BY <1>1 DEF SendingInv, MainInv
<1>2. /\ MainAt(r, {"copy"}) /\ ~MainAt(r, {"unset"}) /\ ~MainAt(r, {"set"})
      /\ ~MainAt(r, {"unset", "set"}) /\ MainAt(r, {"copy", "unset", "set"})
      /\ MainAt(r, {"unset"})' /\ ~MainAt(r, {"set"})' /\ MainAt(r, {"unset", "set"})'
      /\ What(r)' = What(r) /\ Got(r)' = Begin(what) + Len(dst')
  BY <1>0, <1>1, <1>v DEF MainAt, What, Got, Begin
<1>3. r \notin missing /\ Started(r) /\ Sending(r)
  BY <1>r, <1>2 DEF WorkerInv, NotStarted
<1>4. Page(r) /\ Got(r) <= Sent(r)
  BY <1>m, <1>3 DEF Sending
<1>5. /\ pc_p[r] \notin {"unset", "set"} /\ Full(r) /\ Chunk(r) /\ Ahead(r) /\ ~chan[r].writable
      /\ chan[r].readable
  BY <1>2, <1>4 DEF Page, Full
<1>6. n \in Nat /\ n <= need
  BY <1>r, ToCopyFacts
<1>7. Sent(r) - Got(r) = n /\ Sort!Take(chan[r].mem, n) = Slice(Units(r), Got(r), Sent(r))
  BY <1>r, <1>5 DEF Chunk
<1> HIDE DEF n
<1>8. PICK k \in Nat : k = Sent(r)
  <2>1. r >= Sort!reading
    BY <1>0, <1>v, <1>r DEF SendingInv, SortTypes
  <2> QED
    BY <1>3, <1>r, <2>1, SendingFacts
<1>9. k = Got(r) + n /\ Got(r) <= k /\ k <= End(r, what) /\ k <= Len(Units(r))
  <2>1. k - Got(r) = n /\ Got(r) \in Int /\ n \in Nat
    BY <1>6, <1>7, <1>8, <1>r
  <2>2. k = Got(r) + n /\ Got(r) <= k
    BY <2>1
  <2>3. k <= End(r, what) /\ k <= Len(Units(r))
    BY <1>6, <2>2, <1>8, <1>r
  <2> QED
    BY <2>2, <2>3
<1>10. dst' = Slice(Units(r), Begin(what), k)
  <2>1. Slice(Units(r), Begin(what), Got(r)) \o Slice(Units(r), Got(r), k)
          = Slice(Units(r), Begin(what), k)
    <3>1. /\ Units(r) \in Seq(UnitsOf(r)) /\ Begin(what) \in Nat /\ Got(r) \in Nat
          /\ Begin(what) <= Got(r) /\ Got(r) <= k /\ k <= Len(Units(r))
      BY <1>9, <1>r
    <3> QED
      BY <3>1, SlicesTouch
  <2> QED
    BY <1>0, <1>1, <1>7, <1>8, <1>r, <2>1
<1>11. Len(dst') = k - Begin(what) /\ Len(dst') \in Nat
  <2>1. Begin(what) <= k
    BY <1>9, <1>r
  <2>2. Len(Slice(Units(r), Begin(what), k)) = k - Begin(what)
    <3>1. /\ Units(r) \in Seq(UnitsOf(r)) /\ Begin(what) \in Nat
          /\ Begin(what) <= k /\ k <= Len(Units(r))
      BY <1>9, <1>r, <2>1
    <3> QED
      BY <3>1, SliceIsSeq
  <2>3. Begin(what) \in Nat
    BY <1>r
  <2> QED
    BY <1>10, <2>1, <2>2, <2>3
<1>12. Got(r)' = k
  <2>1. Begin(what) \in Nat
    BY <1>r
  <2> QED
    BY <1>2, <1>11, <2>1
<1>13. need' = End(r, what) - k /\ need' \in Nat
  <2>1. /\ End(r, what) \in Nat /\ Got(r) \in Nat /\ need = End(r, what) - Got(r)
        /\ need' = need - n /\ k = Got(r) + n /\ k <= End(r, what)
    BY <1>1, <1>9, <1>r
  <2> QED
    BY <1>6, <2>1
<1>14. Started(r)' /\ Sent(r)' = Sent(r)
  BY <1>1, <1>3, <1>u DEF Started, Sent
<1>15. Ahead(r)' /\ ~Full(r)'
  BY <1>1, <1>2, <1>5, <1>14, <1>u DEF Ahead, Full
<1>16. Page(r)'
  BY <1>1, <1>2, <1>5, <1>8, <1>12, <1>14, <1>15 DEF Page
<1>17. 0 <= k /\ k <= k
  OBVIOUS
<1>18. Sending(r)'
  BY <1>1, <1>m, <1>3, <1>8, <1>12, <1>14, <1>16, <1>17, <1>u DEF Sending
<1>19. WorkerInv(r)'
  BY <1>1, <1>3, <1>14, <1>18 DEF WorkerInv
<1> QED
  BY <1>0, <1>1, <1>m, <1>9, <1>10, <1>11, <1>12, <1>13, <1>19, <1>r, <1>t, ReadStepKeeps

(* It marks the page as no longer readable.                                *)
LEMMA ReadUnsetKeeps ==
  ASSUME SendingInv, Sort!read_unset
  PROVE  SendingInv'
<1>1. /\ mpc = "unset" /\ mpc' = "set"
      /\ chan' = [chan EXCEPT ![Sort!reading]["readable"] = FALSE]
      /\ UNCHANGED <<via, files, missing, pc_p, part, src, what, dst, need, array>>
  BY DEF Sort!read_unset, Sort!ReadFlag, Sort!workerVars
<1>0. PICK r : r = Sort!reading
  OBVIOUS
<1>r. /\ r \in DOMAIN files /\ WorkerInv(r) /\ Units(r) \in Seq(UnitsOf(r))
      /\ Len(Units(r)) \in Nat /\ End(r, what) \in Nat /\ End(r, what) <= Len(Units(r))
      /\ What(r) = what /\ Got(r) = Begin(what) + Len(dst)
      /\ Begin(what) \in Nat /\ Got(r) \in Nat /\ Begin(what) <= Got(r)
      /\ Got(r) <= End(r, what) /\ need = End(r, what) - Got(r)
      /\ dst = Slice(Units(r), Begin(what), Got(r))
      /\ need \in Nat /\ what \in {"size", "array"} /\ chan[r] \in Channel(r)
  BY <1>0, <1>1, ReadingFacts
<1>t. /\ via \in {"pipe", "mem"} /\ DOMAIN chan = DOMAIN files /\ Len(dst) \in Nat
  BY DEF SendingInv, SortTypes
<1>v. Sort!reading' = Len(array') + 1 /\ Sort!reading = Len(array) + 1
  BY DEF Sort!reading
<1>u. Units(r)' = Units(r) /\ \A p : End(r, p)' = End(r, p)
  BY <1>1, UnitsKept
<1>m. via = "mem"
  BY <1>1 DEF SendingInv, MainInv
<1>2. /\ MainAt(r, {"unset"}) /\ ~MainAt(r, {"set"})
      /\ MainAt(r, {"unset", "set"}) /\ MainAt(r, {"copy", "unset", "set"})
      /\ ~MainAt(r, {"unset"})' /\ MainAt(r, {"set"})' /\ MainAt(r, {"unset", "set"})'
      /\ What(r)' = What(r) /\ Got(r)' = Got(r)
  BY <1>0, <1>1, <1>v DEF MainAt, What, Got, Begin
<1>3. r \notin missing /\ Started(r) /\ Sending(r)
  BY <1>r, <1>2 DEF WorkerInv, NotStarted
<1>4. Page(r) /\ Got(r) <= Sent(r)
  BY <1>m, <1>3 DEF Sending
<1>5. /\ pc_p[r] \notin {"unset", "set"} /\ ~Full(r) /\ Ahead(r) /\ ~chan[r].writable
      /\ chan[r].readable /\ Sent(r) = Got(r)
  BY <1>2, <1>4 DEF Page, Full
<1>6. /\ chan'[r] = [chan[r] EXCEPT !["readable"] = FALSE] /\ DOMAIN chan' = DOMAIN files
      /\ \A x \in DOMAIN files \ {r} : chan'[x] = chan[x]
  BY <1>0, <1>1, <1>r, <1>t
<1>7. /\ chan'[r] \in Channel(r) /\ chan'[r].writable = chan[r].writable
      /\ chan'[r].readable = FALSE /\ chan'[r].mem = chan[r].mem
      /\ chan'[r].pipe = chan[r].pipe
  BY <1>6, <1>r DEF Channel
<1>14. Started(r)' /\ Sent(r)' = Sent(r)
  BY <1>1, <1>3, <1>u DEF Started, Sent
<1>15. Ahead(r)' /\ ~Full(r)'
  BY <1>1, <1>2, <1>5, <1>7, <1>14, <1>u DEF Ahead, Full
<1>16. Page(r)'
  <2>1. /\ ~chan'[r].writable /\ chan'[r].readable = ~MainAt(r, {"set"})'
        /\ Sent(r)' = Got(r)' /\ pc_p'[r] \notin {"unset", "set"}
    BY <1>1, <1>2, <1>5, <1>7, <1>14
  <2> QED
    BY <1>2, <1>15, <2>1 DEF Page
<1>18. Sending(r)'
  BY <1>1, <1>2, <1>m, <1>3, <1>14, <1>16, <1>u DEF Sending
<1>19. WorkerInv(r)'
  BY <1>1, <1>3, <1>14, <1>18 DEF WorkerInv
<1> QED
  BY <1>0, <1>1, <1>2, <1>m, <1>6, <1>7, <1>19, <1>r, <1>t, ReadStepKeeps

(* And gives it back to the worker.                                        *)
LEMMA ReadSetKeeps ==
  ASSUME SendingInv, Sort!read_set
  PROVE  SendingInv' /\ ReadOutcome
<1>1. /\ mpc = "set" /\ chan' = [chan EXCEPT ![Sort!reading]["writable"] = TRUE]
      /\ UNCHANGED <<via, files, missing, pc_p, part, src>> /\ Sort!ReadGoesOn(dst, need)
  BY DEF Sort!read_set, Sort!ReadFlag, Sort!workerVars
<1>0. PICK r : r = Sort!reading
  OBVIOUS
<1>r. /\ r \in DOMAIN files /\ WorkerInv(r) /\ Units(r) \in Seq(UnitsOf(r))
      /\ Len(Units(r)) \in Nat /\ End(r, what) \in Nat /\ End(r, what) <= Len(Units(r))
      /\ What(r) = what /\ Got(r) = Begin(what) + Len(dst)
      /\ Begin(what) \in Nat /\ Got(r) \in Nat /\ Begin(what) <= Got(r)
      /\ Got(r) <= End(r, what) /\ need = End(r, what) - Got(r)
      /\ dst = Slice(Units(r), Begin(what), Got(r))
      /\ need \in Nat /\ what \in {"size", "array"} /\ chan[r] \in Channel(r)
  BY <1>0, <1>1, ReadingFacts
<1>t. /\ via \in {"pipe", "mem"} /\ DOMAIN chan = DOMAIN files /\ Len(dst) \in Nat
  BY DEF SendingInv, SortTypes
<1>v. Sort!reading' = Len(array') + 1 /\ Sort!reading = Len(array) + 1
  BY DEF Sort!reading
<1>u. Units(r)' = Units(r) /\ \A p : End(r, p)' = End(r, p)
  BY <1>1, UnitsKept
<1>m. via = "mem"
  BY <1>1 DEF SendingInv, MainInv
<1>2. /\ ~MainAt(r, {"unset"}) /\ MainAt(r, {"set"})
      /\ MainAt(r, {"unset", "set"}) /\ MainAt(r, {"copy", "unset", "set"})
  BY <1>0, <1>1 DEF MainAt
<1>3. r \notin missing /\ Started(r) /\ Sending(r)
  BY <1>r, <1>2 DEF WorkerInv, NotStarted
<1>4. Page(r) /\ Got(r) <= Sent(r)
  BY <1>m, <1>3 DEF Sending
<1>5. /\ pc_p[r] \notin {"unset", "set"} /\ Ahead(r) /\ ~chan[r].readable /\ Sent(r) = Got(r)
  BY <1>2, <1>4 DEF Page, Full
<1>6. /\ chan'[r] = [chan[r] EXCEPT !["writable"] = TRUE] /\ DOMAIN chan' = DOMAIN files
      /\ \A x \in DOMAIN files \ {r} : chan'[x] = chan[x]
  BY <1>0, <1>1, <1>r, <1>t
<1>7. /\ chan'[r] \in Channel(r) /\ chan'[r].writable = TRUE
      /\ chan'[r].readable = chan[r].readable /\ chan'[r].mem = chan[r].mem
      /\ chan'[r].pipe = chan[r].pipe
  BY <1>6, <1>r DEF Channel
<1>8. PICK g \in Nat : g = Got(r)
  BY <1>r
<1>9. Begin(what) <= g /\ g <= End(r, what)
      /\ Sort!ReadGoesOn(Slice(Units(r), Begin(what), g), End(r, what) - g)
  BY <1>1, <1>8, <1>r
<1>10. Started(r)' /\ Sent(r)' = g
  BY <1>1, <1>3, <1>5, <1>8, <1>u DEF Started, Sent
<1>11. ASSUME array' = array PROVE WorkerInv(r)'
  <2>1. \/ /\ g < End(r, what) /\ mpc' = "read" /\ what' = what
           /\ dst' = Slice(Units(r), Begin(what), g)
        \/ /\ g = End(r, what) /\ what = "size" /\ mpc' = "read" /\ what' = "array"
           /\ dst' = <<>>
    <3>1. \/ /\ g < End(r, what)
             /\ mpc' = "read" /\ what' = what /\ array' = array
             /\ dst' = Slice(Units(r), Begin(what), g) /\ need' = End(r, what) - g
          \/ /\ g = End(r, what) /\ what = "size"
             /\ mpc' = "read" /\ what' = "array" /\ array' = array
             /\ dst' = <<>> /\ need' = End(r, "array") - IntUnits
          \/ /\ g = End(r, what) /\ what = "array"
             /\ mpc' = "reap" /\ what' = "size" /\ need' = IntUnits
             /\ dst' = <<>> /\ array' = Append(array, Sort!Simple!qsort(files[r]))
      BY <1>0, <1>1, <1>9, ReadGoesOnFacts
    <3>2. Append(array, Sort!Simple!qsort(files[r])) # array
      <4>1. array \in Seq(ArraysRead)
        BY DEF SendingInv, SortTypes
      <4> QED
        BY <4>1
    <3> QED
      BY <1>11, <3>1, <3>2
  <2>2. /\ ~MainAt(r, {"unset"})' /\ ~MainAt(r, {"copy"})' /\ ~MainAt(r, {"unset", "set"})'
        /\ What(r)' = what' /\ Got(r)' = Begin(what') + Len(dst')
    BY <1>0, <1>11, <1>v, <2>1 DEF MainAt, What, Got, Begin
  <2>3. Got(r)' = g
    <3>1. CASE g < End(r, what)
      <4>1. what' = what /\ dst' = dst
        BY <1>8, <1>r, <2>1, <3>1
      <4> QED
        BY <1>8, <1>r, <2>2, <4>1
    <3>2. CASE g = End(r, what) /\ what = "size" /\ what' = "array" /\ dst' = <<>>
      <4>1. g = IntUnits /\ Begin(what') = IntUnits
        BY <3>2 DEF End, Begin
      <4> QED
        BY <2>2, <3>2, <4>1
    <3> QED
      BY <2>1, <3>1, <3>2
  <2>4. part[r] = what' /\ pc_p[r] = "wait"
    BY <1>5, <1>8, <1>r, <2>1 DEF Ahead
  <2>5. ~Full(r)'
    BY <1>1, <1>5, <1>7 DEF Full
  <2>6. Page(r)'
    <3>1. chan'[r].writable /\ ~chan'[r].readable /\ pc_p'[r] \in {"wait", "copy"}
          /\ part'[r] = What(r)' /\ Sent(r)' = Got(r)'
      BY <1>1, <1>5, <1>7, <1>10, <2>2, <2>3, <2>4
    <3> QED
      BY <2>2, <2>5, <3>1 DEF Page
  <2>7. 0 <= g /\ g <= g
    OBVIOUS
  <2>8. Sending(r)'
    <3>1. src'[r] = Slice(Units(r)', Sent(r)', End(r, part[r])')
      BY <1>1, <1>3, <1>5, <1>8, <1>10, <1>u DEF Sending
    <3> QED
      BY <1>1, <1>m, <1>10, <2>3, <2>4, <2>6, <2>7, <3>1 DEF Sending
  <2> QED
    BY <1>1, <1>3, <1>10, <2>8 DEF WorkerInv
<1>12. ReadOutcome
  <2>1. \/ mpc' = "read" /\ array' = array
        \/ mpc' = "reap" /\ array' = Append(array, Sort!Simple!qsort(files[r]))
    BY <1>0, <1>1, <1>9, ReadGoesOnFacts
  <2> QED
    BY <1>0, <1>3, <2>1 DEF ReadOutcome
<1>13. SendingInv'
  BY <1>0, <1>1, <1>6, <1>7, <1>9, <1>11, ReadGoesOnKeeps
<1> QED
  BY <1>12, <1>13

(* read_from_pipe() takes what is there; without a writer there is nothing *)
(* only if the worker had no file.                                         *)
LEMMA ReadPipeKeeps ==
  ASSUME SendingInv, Sort!read_from_pipe
  PROVE  SendingInv' /\ ReadOutcome
<1> DEFINE there == chan[Sort!reading].pipe
           n == Sort!Min({Len(there), need})
<1>1. /\ mpc = "read" /\ via = "pipe"
      /\ UNCHANGED <<via, files, missing, pc_p, part, src>>
      /\ \/ /\ n > 0 \/ need = 0
            /\ chan' = [chan EXCEPT ![Sort!reading].pipe = Sort!Drop(@, n)]
            /\ Sort!ReadGoesOn(dst \o Sort!Take(there, n), need - n)
         \/ /\ need > 0 /\ there = <<>> /\ pc_p[Sort!reading] = "exited"
            /\ \E leftover \in Leftovers : array' = Append(array, leftover)
            /\ mpc' = "reap" /\ what' = "size" /\ dst' = <<>> /\ need' = IntUnits
            /\ UNCHANGED chan
  BY DEF Sort!read_from_pipe, Sort!workerVars
<1>0. PICK r : r = Sort!reading
  OBVIOUS
<1>r. /\ r \in DOMAIN files /\ WorkerInv(r) /\ Units(r) \in Seq(UnitsOf(r))
      /\ Len(Units(r)) \in Nat /\ End(r, what) \in Nat /\ End(r, what) <= Len(Units(r))
      /\ What(r) = what /\ Got(r) = Begin(what) + Len(dst)
      /\ Begin(what) \in Nat /\ Got(r) \in Nat /\ Begin(what) <= Got(r)
      /\ Got(r) <= End(r, what) /\ need = End(r, what) - Got(r)
      /\ dst = Slice(Units(r), Begin(what), Got(r))
      /\ need \in Nat /\ what \in {"size", "array"} /\ chan[r] \in Channel(r)
  <2>1. mpc \in {"read", "copy", "unset", "set"}
    BY <1>1
  <2> QED
    BY <1>0, <2>1, ReadingFacts
<1>t. /\ via \in {"pipe", "mem"} /\ DOMAIN chan = DOMAIN files /\ Len(dst) \in Nat
  BY DEF SendingInv, SortTypes
<1>v. Sort!reading' = Len(array') + 1 /\ Sort!reading = Len(array) + 1
  BY DEF Sort!reading
<1>u. Units(r)' = Units(r) /\ \A p : End(r, p)' = End(r, p)
  BY <1>1, UnitsKept
<1>s. r >= Sort!reading
  BY <1>0, <1>v, <1>r DEF SendingInv, SortTypes
<1>p. chan[r].pipe \in Seq(UnitsOf(r)) /\ Len(chan[r].pipe) \in Nat
  BY <1>r DEF Channel
<1>2. CASE /\ need > 0 /\ there = <<>> /\ pc_p[Sort!reading] = "exited"
           /\ \E leftover \in Leftovers : array' = Append(array, leftover)
           /\ mpc' = "reap" /\ what' = "size" /\ dst' = <<>> /\ need' = IntUnits
           /\ UNCHANGED chan
  <2>1. r \in missing
    <3> SUFFICES ASSUME r \notin missing PROVE FALSE
      OBVIOUS
    <3>1. Started(r)
      BY <1>0, <1>2 DEF Started
    <3>2. /\ Sending(r) /\ Sent(r) \in Nat /\ End(r, part[r]) \in Nat
          /\ Len(src[r]) = End(r, part[r]) - Sent(r)
      BY <1>r, <1>s, <3>1, SendingFacts
    <3>3. part[r] = "array" /\ src[r] = <<>> /\ chan[r].pipe = Slice(Units(r), Got(r), Sent(r))
      BY <1>0, <1>1, <1>2, <3>2 DEF Sending
    <3>4. Sent(r) = Len(Units(r))
      BY <3>2, <3>3 DEF End
    <3>5. Len(Slice(Units(r), Got(r), Len(Units(r)))) = Len(Units(r)) - Got(r)
      <4>1. /\ Units(r) \in Seq(UnitsOf(r)) /\ Got(r) \in Nat /\ Len(Units(r)) \in Nat
            /\ Got(r) <= Len(Units(r)) /\ Len(Units(r)) <= Len(Units(r))
        BY <1>r
      <4> QED
        BY <4>1, SliceIsSeq
    <3>6. Len(Units(r)) - Got(r) = 0
      BY <1>0, <1>2, <3>3, <3>4, <3>5
    <3> QED
      BY <1>2, <1>r, <3>6
  <2>2. PICK leftover \in Leftovers : array' = Append(array, leftover)
    BY <1>2
  <2>3. leftover \in ArraysRead
    BY DEF ArraysRead
  <2>4. SendingInv'
    <3>1. /\ DOMAIN chan' = DOMAIN files /\ chan'[r] \in Channel(r)
          /\ \A x \in DOMAIN files \ {r} : chan'[x] = chan[x]
      BY <1>2, <1>r, <1>t
    <3> QED
      BY <1>0, <1>1, <1>2, <2>2, <2>3, <3>1, ArrayReadKeeps
  <2> QED
    BY <1>0, <1>1, <1>2, <2>1, <2>4 DEF ReadOutcome
<1>3. CASE /\ n > 0 \/ need = 0
           /\ chan' = [chan EXCEPT ![Sort!reading].pipe = Sort!Drop(@, n)]
           /\ Sort!ReadGoesOn(dst \o Sort!Take(there, n), need - n)
  <2>1. n \in Nat /\ n <= need /\ n <= Len(chan[r].pipe)
    <3>1. /\ Len(there) \in Nat /\ there = chan[r].pipe
      BY <1>0, <1>p
    <3>0. need \in Nat
      BY <1>r
    <3> DEFINE m == IF Len(there) <= need THEN Len(there) ELSE need
    <3> HIDE DEF there
    <3>2. m \in {Len(there), need} /\ \A y \in {Len(there), need} : m <= y
      BY <3>0, <3>1
    <3>3. \A x \in {Len(there), need} : (\A y \in {Len(there), need} : x <= y) => x = m
      BY <3>0, <3>1
    <3>4. m \in Nat /\ m <= need /\ m <= Len(there)
      BY <3>0, <3>1
    <3> HIDE DEF m
    <3>5. (CHOOSE x \in {Len(there), need} : \A y \in {Len(there), need} : x <= y) = m
      BY <3>2, <3>3
    <3>6. n = m
      BY <3>5 DEF Sort!Min
    <3> QED
      BY <3>1, <3>4, <3>6
  <2>2. r \notin missing /\ Started(r) /\ need = End(r, what) - Got(r)
    <3> SUFFICES ASSUME r \in missing \/ ~Started(r) PROVE FALSE
      BY <1>r
    <3>1. NotStarted(r)
      BY <1>r DEF WorkerInv
    <3>2. chan[r].pipe = <<>> /\ what = "size" /\ Got(r) = 0
      BY <1>r, <3>1 DEF NotStarted
    <3>3. Len(chan[r].pipe) = 0
      BY <3>2
    <3>4. n = 0
      BY <2>1, <3>3
    <3>5. IntUnits \in Nat \ {0} /\ need = IntUnits
      BY <1>r, <3>2, SortAssumption DEF End
    <3> HIDE DEF n
    <3> QED
      BY <1>3, <3>4, <3>5
  <2> HIDE DEF n
  <2>3. PICK m \in Nat : /\ m = Sent(r) /\ Got(r) <= m /\ m <= Len(Units(r))
                         /\ chan[r].pipe = Slice(Units(r), Got(r), m) /\ Sending(r)
    <3>1. /\ Sending(r) /\ Sent(r) \in Nat /\ End(r, part[r]) \in Nat /\ Got(r) <= Sent(r)
          /\ Sent(r) <= End(r, part[r]) /\ End(r, part[r]) <= Len(Units(r))
      BY <1>r, <1>s, <2>2, SendingFacts
    <3>2. Sent(r) <= Len(Units(r))
      BY <1>r, <3>1
    <3> QED
      BY <1>1, <3>1, <3>2 DEF Sending
  <2>4. Len(chan[r].pipe) = m - Got(r)
    <3>1. /\ Units(r) \in Seq(UnitsOf(r)) /\ Got(r) \in Nat /\ Got(r) <= m
          /\ m <= Len(Units(r))
      BY <1>r, <2>3
    <3>2. Len(Slice(Units(r), Got(r), m)) = m - Got(r)
      BY <3>1, SliceIsSeq
    <3> QED
      BY <2>3, <3>2
  <2>5. PICK g \in Nat : g = Got(r) + n
    BY <1>r, <2>1
  <2>6. Got(r) <= g /\ g <= m /\ g <= End(r, what) /\ Begin(what) <= g /\ g <= Len(Units(r))
        /\ n <= m - Got(r) /\ need - n = End(r, what) - g
    <3>1. /\ Got(r) \in Nat /\ End(r, what) \in Nat /\ Begin(what) \in Nat
          /\ Begin(what) <= Got(r) /\ Got(r) <= End(r, what) /\ need = End(r, what) - Got(r)
      BY <1>r
    <3>2. Len(Units(r)) \in Nat /\ End(r, what) <= Len(Units(r))
      BY <1>r
    <3>3. n \in Nat /\ n <= need /\ n <= m - Got(r) /\ Got(r) <= m
      BY <2>1, <2>3, <2>4
    <3>4. Got(r) <= g /\ g <= m
      BY <2>5, <3>1, <3>3
    <3>5. g <= End(r, what) /\ Begin(what) <= g /\ need - n = End(r, what) - g
      BY <2>5, <3>1, <3>3
    <3>6. g <= Len(Units(r))
      BY <3>1, <3>2, <3>5
    <3> QED
      BY <3>3, <3>4, <3>5, <3>6
  <2>7. /\ Sort!Take(chan[r].pipe, n) = Slice(Units(r), Got(r), g)
        /\ Sort!Drop(chan[r].pipe, n) = Slice(Units(r), g, m)
    <3>1. /\ Units(r) \in Seq(UnitsOf(r)) /\ Got(r) \in Nat /\ n \in Nat /\ Got(r) <= m
          /\ m <= Len(Units(r)) /\ n <= m - Got(r)
      BY <1>r, <2>1, <2>3, <2>6
    <3>2. /\ Sort!Take(Slice(Units(r), Got(r), m), n) = Slice(Units(r), Got(r), Got(r) + n)
          /\ Sort!Drop(Slice(Units(r), Got(r), m), n) = Slice(Units(r), Got(r) + n, m)
      BY <3>1, TakeOfSlice, DropOfSlice
    <3> QED
      BY <2>3, <2>5, <3>2
  <2>8. dst \o Sort!Take(there, n) = Slice(Units(r), Begin(what), g)
    <3>1. /\ Units(r) \in Seq(UnitsOf(r)) /\ Begin(what) \in Nat /\ Got(r) \in Nat
          /\ Begin(what) <= Got(r) /\ Got(r) <= g /\ g <= Len(Units(r))
      BY <1>r, <2>6
    <3>2. Slice(Units(r), Begin(what), Got(r)) \o Slice(Units(r), Got(r), g)
            = Slice(Units(r), Begin(what), g)
      BY <3>1, SlicesTouch
    <3> QED
      BY <1>0, <1>r, <2>7, <3>2
  <2>9. Sort!ReadGoesOn(Slice(Units(r), Begin(what), g), End(r, what) - g)
    BY <1>3, <2>6, <2>8
  <2>10. /\ chan'[r] = [chan[r] EXCEPT !.pipe = Slice(Units(r), g, m)]
         /\ DOMAIN chan' = DOMAIN files
         /\ \A x \in DOMAIN files \ {r} : chan'[x] = chan[x]
    BY <1>0, <1>3, <1>r, <1>t, <2>7
  <2>11. chan'[r] \in Channel(r) /\ chan'[r].pipe = Slice(Units(r), g, m)
    <3>1. Slice(Units(r), g, m) \in Seq(UnitsOf(r))
      BY <1>r, <2>3, <2>6, SliceIsSeq
    <3> QED
      BY <1>r, <2>10, <3>1 DEF Channel
  <2>12. Started(r)' /\ Sent(r)' = m
    BY <1>1, <1>u, <2>2, <2>3 DEF Started, Sent
  <2>13. \/ /\ g < End(r, what)
            /\ mpc' = "read" /\ what' = what /\ array' = array
            /\ dst' = Slice(Units(r), Begin(what), g) /\ need' = End(r, what) - g
         \/ /\ g = End(r, what) /\ what = "size"
            /\ mpc' = "read" /\ what' = "array" /\ array' = array
            /\ dst' = <<>> /\ need' = End(r, "array") - IntUnits
         \/ /\ g = End(r, what) /\ what = "array"
            /\ mpc' = "reap" /\ what' = "size" /\ need' = IntUnits
            /\ dst' = <<>> /\ array' = Append(array, Sort!Simple!qsort(files[r]))
    <3>1. mpc \in {"read", "set"} /\ Begin(what) <= g /\ g <= End(r, what)
      BY <1>1, <2>6
    <3> QED
      BY <1>0, <2>9, <3>1, ReadGoesOnFacts
  <2>14. ASSUME array' = array PROVE WorkerInv(r)'
    <3>1. \/ /\ g < End(r, what) /\ what' = what
             /\ dst' = Slice(Units(r), Begin(what), g)
          \/ g = End(r, what) /\ what = "size" /\ what' = "array" /\ dst' = <<>>
      <4>1. Append(array, Sort!Simple!qsort(files[r])) # array
        <5>1. array \in Seq(ArraysRead)
          BY DEF SendingInv, SortTypes
        <5> QED
          BY <5>1
      <4> QED
        BY <2>13, <2>14, <4>1
    <3>2. Got(r)' = Begin(what') + Len(dst')
      BY <1>0, <1>v, <2>14 DEF Got, Begin
    <3>3. Got(r)' = g
      <4>1. CASE g < End(r, what)
        <5>1. Len(Slice(Units(r), Begin(what), g)) = g - Begin(what)
          <6>1. /\ Units(r) \in Seq(UnitsOf(r)) /\ Begin(what) \in Nat
                /\ Begin(what) <= g /\ g <= Len(Units(r))
            BY <1>r, <2>6
          <6> QED
            BY <6>1, SliceIsSeq
        <5>2. Begin(what) \in Nat /\ what' = what /\ dst' = Slice(Units(r), Begin(what), g)
          BY <1>r, <3>1, <4>1
        <5> QED
          BY <3>2, <5>1, <5>2
      <4>2. CASE g = End(r, what) /\ what = "size" /\ what' = "array" /\ dst' = <<>>
        <5>1. g = IntUnits /\ Begin(what') = IntUnits
          BY <4>2 DEF End, Begin
        <5> QED
          BY <3>2, <4>2, <5>1
      <4> QED
        BY <3>1, <4>1, <4>2
    <3>4. src'[r] = Slice(Units(r)', Sent(r)', End(r, part[r])')
      BY <1>1, <1>u, <2>3, <2>12 DEF Sending
    <3>5. chan'[r].pipe = Slice(Units(r)', Got(r)', Sent(r)') /\ 0 <= g /\ g <= m
      BY <1>u, <2>6, <2>11, <2>12, <3>3
    <3>6. Sending(r)'
      BY <1>1, <2>3, <2>12, <3>3, <3>4, <3>5 DEF Sending
    <3> QED
      BY <1>1, <2>2, <2>12, <3>6 DEF WorkerInv
  <2>15. SendingInv'
    <3>1. mpc \in {"read", "set"} /\ Begin(what) <= g /\ g <= End(r, what)
      BY <1>1, <2>6
    <3> QED
      BY <1>0, <1>1, <2>9, <2>10, <2>11, <2>14, <3>1, ReadGoesOnKeeps
  <2>16. ReadOutcome
    BY <1>0, <2>2, <2>13 DEF ReadOutcome
  <2> QED
    BY <2>15, <2>16
<1> QED
  BY <1>1, <1>2, <1>3

(* Steps of main() that neither read nor write the data.                   *)
LEMMA MainMovesOn ==
  ASSUME SendingInv,
         UNCHANGED <<via, files, missing, part, src, chan, what, dst, need, array>>,
         mpc \in {"fork", "reap", "merge"}, mpc' \in {"fork", "read", "merge", "done"},
         mpc' = "read" => Len(array) < Len(files), mpc' = "fork" => array = <<>>,
         mpc' = "merge" => Len(array) = Len(files),
         pc_p' \in [DOMAIN files -> WorkerSteps],
         \A x \in DOMAIN files : \/ pc_p'[x] = pc_p[x]
                                 \/ pc_p[x] = "unborn" /\ pc_p'[x] = "sorter"
  PROVE  SendingInv'
<1>1. Sort!reading' = Sort!reading
  BY DEF Sort!reading
<1>u. \A x : /\ Units(x)' = Units(x) /\ UnitsOf(x)' = UnitsOf(x) /\ Channel(x)' = Channel(x)
             /\ \A p : End(x, p)' = End(x, p)
  BY UnitsKept
<1>2. SortTypes'
  BY <1>u DEF SendingInv, SortTypes, ArraysRead
<1>3. MainInv'
  <2>1. /\ Got(Sort!reading)' = Got(Sort!reading)
        /\ End(Sort!reading, what)' = End(Sort!reading, what)
        /\ Units(Sort!reading)' = Units(Sort!reading) /\ Begin(what)' = Begin(what)
    BY <1>1, <1>u DEF Got, Begin
  <2> QED
    BY <1>1, <2>1 DEF SendingInv, MainInv
<1>4. ASSUME NEW x \in DOMAIN files, x >= Sort!reading PROVE WorkerInv(x)'
  <2>1. /\ What(x)' = What(x) /\ Got(x)' = Got(x)
        /\ \A s \in SUBSET {"copy", "unset", "set"} : MainAt(x, s) = FALSE /\ MainAt(x, s)' = FALSE
    BY <1>1 DEF What, Got, Begin, MainAt
  <2>2. WorkerInv(x)
    BY <1>4 DEF SendingInv
  <2>3. CASE pc_p'[x] = pc_p[x]
    BY <2>1, <2>2, <2>3, WorkerKept
  <2>4. CASE pc_p[x] = "unborn" /\ pc_p'[x] = "sorter"
    <3>1. NotStarted(x)
      BY <2>2, <2>4 DEF WorkerInv, Started
    <3>2. NotStarted(x)'
      BY <2>1, <3>1 DEF NotStarted
    <3> QED
      BY <2>4, <3>2 DEF WorkerInv, Started
  <2> QED
    BY <2>3, <2>4
<1> QED
  BY <1>1, <1>2, <1>3, <1>4 DEF SendingInv

(* fork() starts the next worker; after the last main() reads.             *)
LEMMA MainForkKeeps ==
  ASSUME SendingInv, Sort!main_fork
  PROVE  SendingInv' /\ mpc' \in {"fork", "read"}
<1> DEFINE unborn == {w \in DOMAIN files : pc_p[w] = "unborn"}
           w == Sort!Min(unborn)
<1>1. /\ mpc = "fork" /\ unborn # {} /\ pc_p' = [pc_p EXCEPT ![w] = "sorter"]
      /\ mpc' \in {"fork", "read"}
      /\ UNCHANGED <<via, files, missing, part, src, chan, what, dst, need, array>>
  BY DEF Sort!main_fork, Sort!Goto, Sort!Workers
<1>2. /\ files \in Seq(Seq(Int)) /\ pc_p \in [DOMAIN files -> WorkerSteps]
      /\ array = <<>>
  BY <1>1, SortAssumption DEF SendingInv, SortTypes, MainInv
<1>3. w \in unborn
  <2>1. unborn \in SUBSET Nat
    BY <1>2
  <2> HIDE DEF unborn
  <2> QED
    BY <1>1, <2>1, MinFacts DEF Sem!Min, Sort!Min
<1> HIDE DEF w
<1>4. /\ pc_p' \in [DOMAIN files -> WorkerSteps] /\ w \in DOMAIN files /\ pc_p[w] = "unborn"
      /\ \A x \in DOMAIN files : \/ pc_p'[x] = pc_p[x]
                                 \/ pc_p[x] = "unborn" /\ pc_p'[x] = "sorter"
  BY <1>1, <1>2, <1>3 DEF WorkerSteps
<1>5. Len(array) < Len(files)
  BY <1>2, <1>4
<1> HIDE DEF unborn
<1> QED
  BY <1>1, <1>2, <1>4, <1>5, MainMovesOn

(* wait() ends the reading of a worker's array.                            *)
LEMMA MainWaitKeeps ==
  ASSUME SendingInv, Sort!main_wait
  PROVE  SendingInv' /\ mpc' \in {"merge", "read"}
<1>1. /\ mpc = "reap" /\ mpc' = IF Len(array) = Len(files) THEN "merge" ELSE "read"
      /\ UNCHANGED <<via, files, missing, pc_p, part, src, chan, what, dst, need, array>>
  BY DEF Sort!main_wait, Sort!workerVars
<1>2. /\ files \in Seq(Seq(Int)) /\ pc_p \in [DOMAIN files -> WorkerSteps]
      /\ array \in Seq(ArraysRead)
      /\ Len(array) <= Len(files)
  BY SortAssumption DEF SendingInv, SortTypes, MainInv
<1>3. Len(array) \in Nat /\ Len(files) \in Nat
  BY <1>2
<1>4. mpc' = "read" => Len(array) < Len(files)
  BY <1>1, <1>2, <1>3
<1> QED
  BY <1>1, <1>2, <1>4, MainMovesOn

(* main() puts the arrays together once it has them all.                   *)
LEMMA MainMergeKeeps ==
  ASSUME SendingInv, Sort!main_merge
  PROVE  SendingInv'
<1>1. /\ mpc = "merge" /\ mpc' = "done"
      /\ UNCHANGED <<via, files, missing, pc_p, part, src, chan, what, dst, need, array>>
  BY DEF Sort!main_merge, Sort!workerVars
<1>2. pc_p \in [DOMAIN files -> WorkerSteps]
  BY DEF SendingInv, SortTypes
<1> QED
  BY <1>1, <1>2, MainMovesOn

(* At the start nothing has been sent.                                     *)
LEMMA SortStart == Init => SortInv
<1> SUFFICES ASSUME Init, program = "sort" PROVE SendingInv
  BY DEF SortInv
<1>1. PICK v \in {"pipe", "mem"}, f \in Files : \E m \in SUBSET DOMAIN f : Sort!InitWith(v, f, m)
  BY DEF Init
<1>2. PICK m \in SUBSET DOMAIN f : Sort!InitWith(v, f, m)
  BY <1>1
<1>3. /\ via \in {"pipe", "mem"} /\ files \in Files /\ missing \subseteq DOMAIN files
      /\ pc_p = [w \in DOMAIN files |-> "unborn"]
      /\ part = [w \in DOMAIN files |-> "size"]
      /\ src = [w \in DOMAIN files |-> <<>>]
      /\ chan = [w \in DOMAIN files |-> [mem |-> <<>>, readable |-> FALSE, writable |-> TRUE,
                                         pipe |-> <<>>]]
      /\ mpc = "fork" /\ what = "size" /\ dst = <<>> /\ need = IntUnits /\ array = <<>>
  BY <1>1, <1>2 DEF Sort!InitWith, Sort!Workers
<1>4. files \in Seq(Seq(Int)) /\ IntUnits \in Nat
  BY <1>3, SortAssumption
<1>5. Sort!reading = 1 /\ \A w : What(w) = "size" /\ Got(w) = 0
  BY <1>3 DEF Sort!reading, What, Got, Begin
<1>6. SortTypes
  <2>1. \A w \in DOMAIN files : src[w] \in Seq(UnitsOf(w)) /\ chan[w] \in Channel(w)
    <3> SUFFICES ASSUME NEW w \in DOMAIN files
                 PROVE  src[w] \in Seq(UnitsOf(w)) /\ chan[w] \in Channel(w)
      OBVIOUS
    <3>1. <<>> \in Seq(UnitsOf(w))
      OBVIOUS
    <3>2. src[w] = <<>> /\ chan[w] = [mem |-> <<>>, readable |-> FALSE, writable |-> TRUE,
                                     pipe |-> <<>>]
      BY <1>3
    <3> QED
      BY <3>1, <3>2 DEF Channel
  <2>2. pc_p \in [DOMAIN files -> WorkerSteps] /\ part \in [DOMAIN files -> {"size", "array"}]
    BY <1>3 DEF WorkerSteps
  <2>3. array \in Seq(ArraysRead) /\ Len(dst) \in Nat
    BY <1>3
  <2> QED
    BY <1>3, <1>4, <2>1, <2>2, <2>3 DEF SortTypes
<1>7. MainInv
  <2>1. Len(array) <= Len(files)
    BY <1>3, <1>4
  <2>2. End(Sort!reading, what) = IntUnits /\ Begin(what) = 0
    BY <1>3 DEF End, Begin
  <2>3. ASSUME Sort!reading \in DOMAIN files PROVE Slice(Units(Sort!reading), 0, 0) = <<>>
    <3>1. Units(Sort!reading) \in Seq(UnitsOf(Sort!reading)) /\ 0 <= Len(Units(Sort!reading))
      BY <1>3, <2>3, UnitsFacts
    <3>2. /\ Slice(Units(Sort!reading), 0, 0) \in Seq(UnitsOf(Sort!reading))
          /\ Len(Slice(Units(Sort!reading), 0, 0)) = 0 - 0
      BY <3>1, SliceIsSeq
    <3> QED
      BY <3>2
  <2> QED
    BY <1>3, <1>4, <1>5, <2>1, <2>2, <2>3 DEF MainInv
<1>8. ASSUME NEW w \in DOMAIN files PROVE WorkerInv(w)
  <2>1. /\ pc_p[w] = "unborn" /\ part[w] = "size" /\ src[w] = <<>>
        /\ chan[w].pipe = <<>> /\ chan[w].readable = FALSE /\ chan[w].writable = TRUE
    BY <1>3
  <2>2. ~MainAt(w, {"copy", "unset", "set"})
    BY <1>3 DEF MainAt
  <2>3. NotStarted(w)
    BY <1>5, <2>1, <2>2 DEF NotStarted
  <2> QED
    BY <2>1, <2>3 DEF WorkerInv, Started
<1> QED
  BY <1>6, <1>7, <1>8 DEF SendingInv

(* And every step of the two programs keeps it.                            *)
LEMMA SortStepKeeps ==
  ASSUME SendingInv, Sort!Next
  PROVE  SendingInv'
<1>1. ASSUME NEW w \in DOMAIN files, Sort!Worker(w) PROVE SendingInv'
  BY <1>1, SorterKeeps, WriteWaitKeeps, WriteCopyKeeps, WriteUnsetKeeps, WriteSetKeeps,
     WritePipeKeeps, CloseKeeps DEF Sort!Worker
<1>2. ASSUME Sort!Main PROVE SendingInv'
  BY <1>2, MainForkKeeps, ReadWaitKeeps, ReadCopyKeeps, ReadUnsetKeeps, ReadSetKeeps,
     ReadPipeKeeps, MainWaitKeeps, MainMergeKeeps DEF Sort!Main
<1> QED
  BY <1>1, <1>2 DEF Sort!Next, Sort!Workers

(* While another program runs, or none takes a step, nothing changes.      *)
LEMMA SortUnchanged ==
  ASSUME UNCHANGED sort_vars, SendingInv
  PROVE  SendingInv'
<1>1. UNCHANGED <<via, files, missing, pc_p, part, src, chan, mpc, what, dst, need, array>>
  BY DEF sort_vars
<1>2. Sort!reading' = Sort!reading
  BY <1>1 DEF Sort!reading
<1>u. \A x : /\ Units(x)' = Units(x) /\ UnitsOf(x)' = UnitsOf(x) /\ Channel(x)' = Channel(x)
             /\ \A p : End(x, p)' = End(x, p)
  BY <1>1, UnitsKept
<1>3. SortTypes'
  BY <1>1, <1>u DEF SendingInv, SortTypes, ArraysRead
<1>4. MainInv'
  <2>1. /\ Got(Sort!reading)' = Got(Sort!reading)
        /\ End(Sort!reading, what)' = End(Sort!reading, what)
        /\ Units(Sort!reading)' = Units(Sort!reading) /\ Begin(what)' = Begin(what)
    BY <1>1, <1>2, <1>u DEF Got, Begin
  <2> QED
    BY <1>1, <1>2, <2>1 DEF SendingInv, MainInv
<1>5. ASSUME NEW x \in DOMAIN files, x >= Sort!reading PROVE WorkerInv(x)'
  <2>1. /\ What(x)' = What(x) /\ Got(x)' = Got(x)
        /\ \A s \in SUBSET {"copy", "unset", "set"} : MainAt(x, s)' = MainAt(x, s)
    BY <1>1, <1>2 DEF What, Got, Begin, MainAt
  <2>2. WorkerInv(x)
    BY <1>5 DEF SendingInv
  <2> QED
    BY <1>1, <2>1, <2>2, WorkerKept
<1> QED
  BY <1>1, <1>2, <1>3, <1>4, <1>5 DEF SendingInv

(* What is on its way is always what main() still has to read.             *)
LEMMA SortKept == Spec => []SortInv
<1>1. SortInv /\ [Next]_vars => SortInv'
  <2> SUFFICES ASSUME SortInv, [Next]_vars, program' = "sort" PROVE SendingInv'
    BY DEF SortInv
  <2>1. program' = program
    BY DEF Next, SortNext, AioNext, SemNext, ReorderNext, SpinNext, EarlyNext, CondNext, vars
  <2>2. SendingInv
    BY <2>1 DEF SortInv
  <2>3. Sort!Next \/ UNCHANGED sort_vars
    BY DEF Next, SortNext, AioNext, SemNext, ReorderNext, SpinNext, EarlyNext, CondNext, vars
  <2> QED
    BY <2>2, <2>3, SortStepKeeps, SortUnchanged
<1> QED
  BY <1>1, SortStart, PTL DEF Spec

(* A worker's step is none of 1_simple_sort.c.                             *)
LEMMA WorkerStutters ==
  ASSUME NEW w, Sort!Worker(w)
  PROVE  UNCHANGED Sort!Simple!vars
<1>1. UNCHANGED <<files, missing, mpc, array, total>>
  BY DEF Sort!Worker, Sort!sorter, Sort!write_wait, Sort!write_copy, Sort!write_unset,
     Sort!write_set, Sort!write_pipe, Sort!worker_close, Sort!mainVars
<1> QED
  BY <1>1 DEF Sort!Simple!vars, Sort!Outcome

(* A read that ends with the array is that of sorter(), and one that ends  *)
(* with what was in memory has met a missing file.                         *)
LEMMA ReadIsSorter ==
  ASSUME SendingInv, ReadOutcome, mpc \in {"read", "set"}, UNCHANGED <<files, missing, total>>
  PROVE  [Sort!Simple!Next \/ Sort!GoesOnWithout]_(Sort!Simple!vars)
<1>1. Sort!reading = Len(array) + 1 /\ Len(array) < Len(files) /\ Sort!Outcome = "running"
  BY DEF SendingInv, MainInv, Sort!reading, Sort!Outcome
<1>2. CASE mpc' = "read" /\ array' = array
  BY <1>1, <1>2 DEF Sort!Simple!vars, Sort!Outcome
<1>3. CASE /\ mpc' = "reap" /\ Sort!reading \notin missing
           /\ array' = Append(array, Sort!Simple!qsort(files[Sort!reading]))
  <2>1. Sort!Outcome' = "running"
    BY <1>3 DEF Sort!Outcome
  <2>2. Sort!Simple!sorter
    BY <1>1, <1>3, <2>1 DEF Sort!Simple!sorter
  <2> QED
    BY <2>2 DEF Sort!Simple!Next
<1>4. CASE /\ mpc' = "reap" /\ via = "pipe" /\ Sort!reading \in missing
           /\ \E leftover \in Leftovers : array' = Append(array, leftover)
  <2>1. Sort!Outcome' = "running"
    BY <1>4 DEF Sort!Outcome
  <2>2. Sort!GoesOnWithout
    BY <1>1, <1>4, <2>1 DEF Sort!GoesOnWithout
  <2> QED
    BY <2>2
<1> QED
  BY <1>2, <1>3, <1>4 DEF ReadOutcome

(* The steps of main() are those of 1_simple_sort.c, or none of them.      *)
LEMMA MainIsSimple ==
  ASSUME SendingInv, Sort!Main
  PROVE  [Sort!Simple!Next \/ Sort!GoesOnWithout]_(Sort!Simple!vars)
<1>1. CASE Sort!main_fork
  <2>1. UNCHANGED <<files, missing, array, total>> /\ mpc = "fork" /\ mpc' \in {"fork", "read"}
    BY <1>1, MainForkKeeps DEF Sort!main_fork
  <2> QED
    BY <2>1 DEF Sort!Simple!vars, Sort!Outcome
<1>2. CASE Sort!read_wait \/ Sort!read_copy \/ Sort!read_unset
  <2>1. /\ UNCHANGED <<files, missing, array, total>> /\ mpc \in {"read", "copy", "unset"}
        /\ mpc' \in {"copy", "unset", "set"}
    BY <1>2 DEF Sort!read_wait, Sort!read_copy, Sort!read_unset, Sort!ReadFlag
  <2> QED
    BY <2>1 DEF Sort!Simple!vars, Sort!Outcome
<1>3. CASE Sort!read_set
  <2>1. mpc = "set" /\ UNCHANGED <<files, missing, total>>
    BY <1>3 DEF Sort!read_set, Sort!ReadFlag
  <2> QED
    BY <1>3, <2>1, ReadSetKeeps, ReadIsSorter
<1>4. CASE Sort!read_from_pipe
  <2>1. mpc = "read" /\ UNCHANGED <<files, missing, total>>
    BY <1>4 DEF Sort!read_from_pipe
  <2> QED
    BY <1>4, <2>1, ReadPipeKeeps, ReadIsSorter
<1>5. CASE Sort!main_wait
  <2>1. /\ UNCHANGED <<files, missing, array, total>> /\ mpc = "reap"
        /\ mpc' \in {"merge", "read"}
    BY <1>5, MainWaitKeeps DEF Sort!main_wait
  <2> QED
    BY <2>1 DEF Sort!Simple!vars, Sort!Outcome
<1>6. CASE Sort!main_merge
  <2>1. /\ UNCHANGED <<files, missing, array>> /\ mpc = "merge" /\ mpc' = "done"
        /\ total' = Sort!Simple!Concatenated(array) /\ Len(array) = Len(files)
    BY <1>6 DEF Sort!main_merge, SendingInv, MainInv
  <2>2. Sort!Outcome = "running" /\ Sort!Outcome' = "done"
    BY <2>1 DEF Sort!Outcome
  <2>3. Sort!Simple!main
    BY <2>1, <2>2 DEF Sort!Simple!main
  <2> QED
    BY <2>3 DEF Sort!Simple!Next
<1> QED
  BY <1>1, <1>2, <1>3, <1>4, <1>5, <1>6 DEF Sort!Main

(* For any files, any of them missing, and any sizes of an int, a page and *)
(* a pipe: main() of 2_parallel_sort.c and 3_mem_sort.c appends, in the    *)
(* order of the files, exactly the arrays of 1_simple_sort.c, however the  *)
(* data is split, and puts them together as it does.  The only other step  *)
(* is that of 2_parallel_sort.c for a file that cannot be opened, which    *)
(* takes memory for an array, where 1_simple_sort.c crashes.               *)
THEOREM LecturesImplementsSimpleSort == Spec => ImplementsSimpleSort
<1>1. Init => Sort!Simple!Init
  <2> SUFFICES ASSUME Init PROVE Sort!Simple!Init
    OBVIOUS
  <2>1. \E v, f, m : /\ Sort!InitWith(v, f, m) /\ f \in Files \cup {<<>>}
                    /\ m \in SUBSET DOMAIN f
    <3>1. CASE program = "sort"
      BY <3>1 DEF Init
    <3>2. CASE program # "sort"
      BY <3>2 DEF Init
    <3> QED
      BY <3>1, <3>2
  <2> QED
    BY <2>1 DEF Sort!InitWith, Sort!Simple!Init, Sort!Outcome
<1>2. SortInv /\ [Next]_vars => [Sort!Simple!Next \/ Sort!GoesOnWithout]_(Sort!Simple!vars)
  <2> SUFFICES ASSUME SortInv, [Next]_vars PROVE [Sort!Simple!Next \/ Sort!GoesOnWithout]_(Sort!Simple!vars)
    OBVIOUS
  <2>1. (program = "sort" /\ Sort!Next) \/ UNCHANGED sort_vars
    BY DEF Next, SortNext, AioNext, SemNext, ReorderNext, SpinNext, EarlyNext, CondNext, vars
  <2>2. CASE UNCHANGED sort_vars
    BY <2>2 DEF sort_vars, Sort!Simple!vars, Sort!Outcome
  <2>3. CASE program = "sort" /\ Sort!Next
    BY <2>3, MainIsSimple, WorkerStutters DEF SortInv, Sort!Next
  <2> QED
    BY <2>1, <2>2, <2>3
<1>3. Init /\ []SortInv /\ [][Next]_vars
      => Sort!Simple!Init /\ [][Sort!Simple!Next \/ Sort!GoesOnWithout]_(Sort!Simple!vars)
  BY <1>1, <1>2, PTL
<1> QED
  BY <1>3, SortKept, PTL DEF Spec, ImplementsSimpleSort, Sort!ImplementsSimpleSort
=============================================================================
