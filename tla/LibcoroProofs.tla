--------------------------- MODULE LibcoroProofs ---------------------------
(***************************************************************************)
(* Libcoro's safety properties for any number of coroutines and yields.    *)
(***************************************************************************)
EXTENDS Libcoro, TLAPS

(* The names of the structures are integers, and so are the links.         *)
LEMMA LinksAreNames ==
    ASSUME TypeOK, ListWellFormed
    PROVE  /\ \A d \in Listed : d \in Int /\ d > 0 /\ d \in Coros /\ d \in Stacks
           /\ \A d \in Listed : next[d] \in Int /\ prev[d] \in Int
           /\ coro_list \in Int
           /\ NULL \notin Listed
  BY LibcoroAssumption DEF TypeOK, ListWellFormed, Listed, Coros, Stacks, NULL

(* The neighbour relations are inverse to each other.                      *)
LEMMA LinksInverse ==
    ASSUME TypeOK, ListWellFormed, NEW c \in Listed, NEW d \in Listed
    PROVE  next[d] = c <=> prev[c] = d
<1>1. ASSUME next[d] = c PROVE prev[c] = d
  <2>1. d > c
    BY <1>1, LinksAreNames DEF ListWellFormed
  <2>2. prev[c] \in Listed /\ prev[c] <= d /\ prev[c] > c
    BY <2>1 DEF ListWellFormed
  <2>3. prev[c] < d => prev[c] <= next[d]
    BY <2>2 DEF ListWellFormed
  <2> QED
    BY <1>1, <2>1, <2>2, <2>3, LinksAreNames
<1>2. ASSUME prev[c] = d PROVE next[d] = c
  <2>1. d > c
    BY <1>2, LinksAreNames DEF ListWellFormed, NULL
  <2>2. next[d] \in Listed \cup {NULL} /\ next[d] < d /\ c <= next[d]
    BY <2>1 DEF ListWellFormed
  <2>3. next[d] \in Listed
    BY <2>2, LinksAreNames DEF NULL
  <2>4. next[d] > c => prev[c] <= next[d]
    BY <2>3 DEF ListWellFormed
  <2> QED
    BY <1>2, <2>1, <2>2, <2>3, <2>4, LinksAreNames
<1> QED
  BY <1>1, <1>2

(* coro_list_add() puts the newest coroutine in front of a well-formed     *)
(* list.                                                                   *)
LEMMA AddKeepsList ==
    ASSUME TypeOK, FreshInv, ListWellFormed,
           made + 1 \in Coros,
           life' = [life EXCEPT ![made + 1] = "listed"],
           coro_list_add(made + 1)
    PROVE  ListWellFormed' /\ Listed' = Listed \cup {made + 1}
<1> DEFINE c == made + 1
<1>1. Listed' = Listed \cup {c}
  BY DEF TypeOK, Listed
<1>2. c \in Int /\ c > 0 /\ c \in Stacks /\ \A d \in Listed : d < c
  BY LibcoroAssumption DEF TypeOK, FreshInv, Listed, Coros, Stacks
<1>3. /\ next'[c] = coro_list
      /\ prev'[c] = NULL
      /\ coro_list' = c
      /\ \A d \in Listed : next'[d] = next[d]
      /\ \A d \in Listed : prev'[d] = IF d = coro_list THEN c ELSE prev[d]
  BY <1>2, LinksAreNames DEF TypeOK, coro_list_add
<1>4. coro_list \in Listed \cup {NULL} /\ coro_list \in Int /\ coro_list < c
      /\ \A d \in Listed : d <= coro_list
  BY <1>2, LinksAreNames DEF ListWellFormed, NULL
<1> HIDE DEF c
<1>5. ASSUME NEW d \in Listed'
      PROVE  /\ next'[d] \in Listed' \cup {NULL}
             /\ next'[d] < d
             /\ \A e \in Listed' : e < d => e <= next'[d]
  <2>1. CASE d = c
    BY <2>1, <1>1, <1>2, <1>3, <1>4
  <2>2. CASE d \in Listed
    <3>1. next'[d] = next[d]
      BY <2>2, <1>3
    <3>2. ~ (c < d)
      BY <2>2, <1>2, LinksAreNames
    <3> QED
      BY <2>2, <3>1, <3>2, <1>1 DEF ListWellFormed
  <2> QED
    BY <1>1, <2>1, <2>2
<1>6. ASSUME NEW d \in Listed'
      PROVE  /\ prev'[d] \in Listed' \cup {NULL}
             /\ prev'[d] # NULL => prev'[d] > d
             /\ \A e \in Listed' : e > d => prev'[d] # NULL /\ prev'[d] <= e
  <2>1. CASE d = c
    <3>1. \A e \in Listed' : ~ (e > d)
      BY <2>1, <1>1, <1>2, LinksAreNames
    <3> QED
      BY <2>1, <1>3, <3>1
  <2>2. CASE d \in Listed /\ d = coro_list
    <3>1. \A e \in Listed' : e > d => e = c
      BY <2>2, <1>1, <1>4, LinksAreNames
    <3>2. prev'[d] = c
      BY <2>2, <1>3
    <3> QED
      BY <2>2, <3>1, <3>2, <1>1, <1>2 DEF NULL
  <2>3. CASE d \in Listed /\ d # coro_list
    <3>1. prev'[d] = prev[d]
      BY <2>3, <1>3
    <3>2. d < coro_list /\ coro_list \in Listed
      BY <2>3, <1>4, LinksAreNames DEF NULL
    <3>3. prev[d] # NULL /\ prev[d] <= coro_list
      BY <2>3, <3>2 DEF ListWellFormed
    <3>4. prev[d] <= c
      BY <2>3, <3>3, <1>2, <1>4, LinksAreNames
    <3> QED
      BY <2>3, <3>1, <3>3, <3>4, <1>1 DEF ListWellFormed
  <2> QED
    BY <1>1, <2>1, <2>2, <2>3
<1>7. coro_list' \in Listed' \cup {NULL} /\ \A d \in Listed' : d <= coro_list'
  BY <1>1, <1>2, <1>3, LinksAreNames
<1>8. ListWellFormed'
  BY <1>5, <1>6, <1>7 DEF ListWellFormed
<1> QED
  BY <1>1, <1>8 DEF c

(* coro_list_delete() closes the gap, at the head, in the middle and at    *)
(* the end.                                                                *)
LEMMA DeleteKeepsList ==
    ASSUME TypeOK, ListWellFormed,
           NEW c \in Listed,
           life' = [life EXCEPT ![c] = "returned"],
           coro_list_delete(c)
    PROVE  ListWellFormed' /\ Listed' = Listed \ {c}
<1>1. Listed' = Listed \ {c}
  BY DEF TypeOK, Listed
<1>2. /\ \A d \in Listed : next'[d] = IF d = prev[c] THEN next[c] ELSE next[d]
      /\ \A d \in Listed : prev'[d] = IF d = next[c] THEN prev[c] ELSE prev[d]
      /\ coro_list' = IF prev[c] = NULL THEN next[c] ELSE coro_list
  BY LinksAreNames DEF coro_list_delete
<1>3. ASSUME NEW d \in Listed'
      PROVE  /\ next'[d] \in Listed' \cup {NULL}
             /\ next'[d] < d
             /\ \A e \in Listed' : e < d => e <= next'[d]
  <2>0. d \in Listed /\ d # c
    BY <1>1
  <2>1. CASE d = prev[c]
    <3>1. next[d] = c /\ next'[d] = next[c]
      BY <2>0, <2>1, <1>2, LinksInverse
    <3>2. c < d /\ next[c] < c /\ next[c] \in Listed \cup {NULL}
      BY <2>0, <3>1 DEF ListWellFormed
    <3>3. \A e \in Listed' : e < d => e < c
      <4>1. \A e \in Listed : e < d => e <= next[d]
        BY <2>0 DEF ListWellFormed
      <4> QED
        BY <1>1, <3>1, <4>1, LinksAreNames
    <3>4. \A e \in Listed' : e < c => e <= next[c]
      BY <1>1 DEF ListWellFormed
    <3> QED
      BY <1>1, <2>0, <3>1, <3>2, <3>3, <3>4, LinksAreNames
  <2>2. CASE d # prev[c]
    <3>1. next[d] # c /\ next'[d] = next[d]
      BY <2>0, <2>2, <1>2, LinksInverse
    <3> QED
      BY <1>1, <2>0, <3>1 DEF ListWellFormed
  <2> QED
    BY <2>1, <2>2
<1>4. ASSUME NEW d \in Listed'
      PROVE  /\ prev'[d] \in Listed' \cup {NULL}
             /\ prev'[d] # NULL => prev'[d] > d
             /\ \A e \in Listed' : e > d => prev'[d] # NULL /\ prev'[d] <= e
  <2>0. d \in Listed /\ d # c
    BY <1>1
  <2>1. CASE d = next[c]
    <3>1. prev[d] = c /\ prev'[d] = prev[c]
      BY <2>0, <2>1, <1>2, LinksInverse
    <3>2. d < c /\ prev[c] \in Listed \cup {NULL} /\ (prev[c] # NULL => prev[c] > c)
      BY <2>0, <2>1 DEF ListWellFormed
    <3>3. \A e \in Listed' : e > d => e > c
      <4>1. \A e \in Listed : e > d => prev[d] <= e
        BY <2>0 DEF ListWellFormed
      <4> QED
        BY <1>1, <3>1, <4>1, LinksAreNames
    <3>4. \A e \in Listed' : e > c => prev[c] # NULL /\ prev[c] <= e
      BY <1>1 DEF ListWellFormed
    <3> QED
      BY <1>1, <2>0, <3>1, <3>2, <3>3, <3>4, LinksAreNames DEF NULL
  <2>2. CASE d # next[c]
    <3>1. prev[d] # c /\ prev'[d] = prev[d]
      BY <2>0, <2>2, <1>2, LinksInverse
    <3> QED
      BY <1>1, <2>0, <3>1 DEF ListWellFormed
  <2> QED
    BY <2>1, <2>2
<1>5. coro_list' \in Listed' \cup {NULL} /\ \A d \in Listed' : d <= coro_list'
  <2>1. CASE prev[c] = NULL
    <3>1. coro_list' = next[c] /\ next[c] \in Listed \cup {NULL} /\ next[c] < c
      BY <2>1, <1>2 DEF ListWellFormed
    <3>2. \A d \in Listed' : d < c
      <4>1. \A d \in Listed : ~ (d > c)
        BY <2>1 DEF ListWellFormed
      <4> QED
        BY <1>1, <4>1, LinksAreNames
    <3>3. \A d \in Listed' : d <= next[c]
      BY <1>1, <3>2 DEF ListWellFormed
    <3> QED
      BY <1>1, <3>1, <3>3, LinksAreNames
  <2>2. CASE prev[c] # NULL
    <3>1. coro_list' = coro_list /\ coro_list # c
      <4>1. prev[c] \in Listed /\ prev[c] > c
        BY <2>2 DEF ListWellFormed
      <4> QED
        BY <1>2, <2>2, <4>1, LinksAreNames DEF ListWellFormed
    <3> QED
      BY <1>1, <3>1 DEF ListWellFormed
  <2> QED
    BY <2>1, <2>2
<1> QED
  BY <1>1, <1>3, <1>4, <1>5 DEF ListWellFormed

(* The list is well formed as long as neither links nor members change.    *)
LEMMA SameList ==
    ASSUME ListWellFormed, UNCHANGED <<next, prev, coro_list>>, Listed' = Listed
    PROVE  ListWellFormed'
  BY DEF ListWellFormed

(* What the place the thread has reached says about the stack it is on.    *)
LEMMA WhoRuns ==
    ASSUME Inv
    PROVE  /\ running \in Stacks /\ ~halted
           /\ SCHED \in Stacks /\ SCHED \notin Coros /\ NULL \notin Stacks
           /\ running # SCHED => running \in Listed /\ running \in Coros
           /\ pc[running] = "start" => running # SCHED /\ body[running] = running
           /\ pc[running] = "yielded" => from[running] = running
           /\ pc[running] = "waiting" => from[running] = SCHED
           /\ pc[running] \in {"loop", "scan", "waiting"} => running = SCHED
           /\ pc[running] \in {"user", "loop", "scan"} => coro_this_ptr = running
<1>1. CASE running = SCHED
  BY <1>1 DEF Inv, TypeOK, MainStackInv, ThisInv, NoCriticalError,
              SCHED, Stacks, Coros, NULL
<1>2. CASE running # SCHED
  <2>1. running \in Listed /\ running \in Coros
    BY <1>2 DEF Inv, CoroStacksInv, Listed
  <2>2. /\ body[running] = running
        /\ pc[running] \in {"start", "user", "yielded", "done"}
        /\ pc[running] = "yielded" => from[running] = running
    BY <2>1 DEF Inv, CoroStacksInv
  <2> QED
    BY <1>2, <2>1, <2>2 DEF Inv, ThisInv, NoCriticalError, SCHED, Stacks, Coros, NULL
<1> QED
  BY <1>1, <1>2

(* The invariant holds after coro_sched_init().                            *)
LEMMA InitInv == Init => Inv
<1> SUFFICES ASSUME Init PROVE Inv
  OBVIOUS
<1> USE LibcoroAssumption DEF Init, coro_sched_init, NULL, SCHED, Coros, Stacks
<1>0. NoContext \in Contexts
  BY DEF NoContext, Contexts, Pointers, Places
<1>1. TypeOK
  <2>1. ctx \in [Stacks -> Contexts]
    BY <1>0
  <2>2. pc \in [Stacks -> Places]
    BY DEF Places
  <2>3. is_finished \in [Stacks -> BOOLEAN] /\ halted \in BOOLEAN
        /\ is_sched_waiting \in BOOLEAN
    BY Zenon
  <2>4. /\ next \in [Stacks -> Coros \cup {NULL}]
        /\ prev \in [Stacks -> Coros \cup {NULL}]
        /\ switch_count \in [Stacks -> Nat]
        /\ life \in [Coros -> {"fresh", "listed", "returned", "freed"}]
        /\ from \in [Stacks -> Pointers]
        /\ body \in [Stacks -> Pointers]
    BY DEF Pointers
  <2>5. /\ made \in 0..MaxCoros
        /\ coro_list \in Coros \cup {NULL} /\ it \in Coros \cup {NULL}
        /\ coro_this_ptr \in Stacks /\ running \in Stacks
    OBVIOUS
  <2> HIDE DEF Init, coro_sched_init
  <2> QED
    BY <2>1, <2>2, <2>3, <2>4, <2>5 DEF TypeOK
<1>2. Listed = {}
  BY DEF Listed
<1>3. FreshInv
  BY DEF FreshInv
<1>4. ListWellFormed
  BY <1>2 DEF ListWellFormed
<1>5. MainStackInv
  BY <1>2 DEF MainStackInv
<1>6. CoroStacksInv
  BY <1>2 DEF CoroStacksInv
<1>7. ThisInv /\ FinishedInv /\ NoCriticalError
  BY <1>2 DEF ThisInv, FinishedInv, NoCriticalError
<1> QED
  BY <1>1, <1>3, <1>4, <1>5, <1>6, <1>7 DEF Inv

(* Back from a jump, coro_this_ptr is the stack again.                     *)
LEMMA coro_yield_return_Inv == Inv /\ coro_yield_return => Inv'
<1> SUFFICES ASSUME Inv, coro_yield_return PROVE Inv'
  OBVIOUS
<1> USE LibcoroAssumption DEF Inv, coro_yield_return, structs, NULL, SCHED, Coros, Stacks
<1>1. TypeOK'
  BY WhoRuns DEF TypeOK, Places
<1>2. Listed' = Listed
  BY DEF Listed
<1>3. FreshInv' /\ ListWellFormed'
  BY <1>2, SameList DEF FreshInv
<1>4. MainStackInv'
  BY <1>2, WhoRuns DEF TypeOK, MainStackInv
<1>5. CoroStacksInv'
  BY <1>2, WhoRuns DEF TypeOK, CoroStacksInv, Listed
<1>6. ThisInv'
  BY WhoRuns DEF TypeOK, ThisInv
<1>7. FinishedInv'
  BY <1>2, WhoRuns DEF TypeOK, FinishedInv
<1>8. NoCriticalError'
  BY DEF NoCriticalError
<1> QED
  BY <1>1, <1>3, <1>4, <1>5, <1>6, <1>7, <1>8

(* The first start.                                                        *)
LEMMA coro_body_start_Inv == Inv /\ coro_body_start => Inv'
<1> SUFFICES ASSUME Inv, coro_body_start PROVE Inv'
  OBVIOUS
<1> USE LibcoroAssumption DEF Inv, coro_body_start, structs, NULL, SCHED, Coros, Stacks
<1>1. TypeOK'
  BY WhoRuns DEF TypeOK, Places
<1>2. Listed' = Listed
  BY DEF Listed
<1>3. FreshInv' /\ ListWellFormed'
  BY <1>2, SameList DEF FreshInv
<1>4. MainStackInv'
  BY <1>2, WhoRuns DEF TypeOK, MainStackInv
<1>5. CoroStacksInv'
  BY <1>2, WhoRuns DEF TypeOK, CoroStacksInv, Listed
<1>6. ThisInv'
  BY WhoRuns DEF TypeOK, ThisInv
<1>7. FinishedInv'
  BY <1>2, WhoRuns DEF TypeOK, FinishedInv
<1>8. NoCriticalError'
  BY DEF NoCriticalError
<1> QED
  BY <1>1, <1>3, <1>4, <1>5, <1>6, <1>7, <1>8

(* Entering coro_sched_wait().                                             *)
LEMMA coro_sched_wait_call_Inv == Inv /\ coro_sched_wait_call => Inv'
<1> SUFFICES ASSUME Inv, coro_sched_wait_call PROVE Inv'
  OBVIOUS
<1> USE LibcoroAssumption DEF Inv, coro_sched_wait_call, structs, globals, InUser, NULL, SCHED, Coros, Stacks
<1>1. TypeOK'
  BY WhoRuns DEF TypeOK, Places
<1>2. Listed' = Listed
  BY DEF Listed
<1>3. FreshInv' /\ ListWellFormed'
  BY <1>2, SameList DEF FreshInv
<1>4. MainStackInv'
  BY <1>2, WhoRuns DEF TypeOK, MainStackInv
<1>5. CoroStacksInv'
  BY <1>2, WhoRuns DEF TypeOK, CoroStacksInv, Listed
<1>6. ThisInv'
  BY WhoRuns DEF TypeOK, ThisInv
<1>7. FinishedInv'
  BY <1>2, WhoRuns DEF TypeOK, FinishedInv
<1>8. NoCriticalError'
  BY DEF NoCriticalError
<1> QED
  BY <1>1, <1>3, <1>4, <1>5, <1>6, <1>7, <1>8

(* The scan starts with nothing checked.                                   *)
LEMMA coro_sched_wait_loop_Inv == Inv /\ coro_sched_wait_loop => Inv'
<1> SUFFICES ASSUME Inv, coro_sched_wait_loop PROVE Inv'
  OBVIOUS
<1> USE LibcoroAssumption DEF Inv, coro_sched_wait_loop, structs, globals, NULL, SCHED, Coros, Stacks
<1>1. TypeOK'
  BY WhoRuns DEF TypeOK, Places
<1>2. Listed' = Listed
  BY DEF Listed
<1>3. FreshInv' /\ ListWellFormed'
  BY <1>2, SameList DEF FreshInv
<1>4. MainStackInv'
  <2>1. running = SCHED /\ pc[SCHED] = "loop"
    BY WhoRuns
  <2>2. \A c \in Listed : ~ (c > coro_list)
    BY LinksAreNames DEF ListWellFormed
  <2>3. coro_list \in Listed \cup {NULL}
    BY DEF ListWellFormed
  <2> QED
    BY <1>2, <2>1, <2>2, <2>3 DEF TypeOK, MainStackInv
<1>5. CoroStacksInv'
  BY <1>2, WhoRuns DEF TypeOK, CoroStacksInv, Listed
<1>6. ThisInv'
  BY WhoRuns DEF TypeOK, ThisInv
<1>7. FinishedInv'
  <2>1. running = SCHED /\ pc[SCHED] = "loop"
    BY WhoRuns
  <2>2. coro_list = NULL => Listed = {}
    BY LinksAreNames DEF ListWellFormed
  <2> QED
    BY <1>2, <2>1, <2>2 DEF TypeOK, FinishedInv
<1>8. NoCriticalError'
  BY DEF NoCriticalError
<1> QED
  BY <1>1, <1>3, <1>4, <1>5, <1>6, <1>7, <1>8

(* One more coroutine of the scan is known to be unfinished.               *)
LEMMA coro_sched_wait_skip_Inv == Inv /\ coro_sched_wait_skip => Inv'
<1> SUFFICES ASSUME Inv, coro_sched_wait_skip PROVE Inv'
  OBVIOUS
<1> USE LibcoroAssumption DEF Inv, coro_sched_wait_skip, structs, globals, NULL, SCHED, Coros, Stacks
<1>1. TypeOK'
  BY WhoRuns DEF TypeOK, Places
<1>2. Listed' = Listed
  BY DEF Listed
<1>3. FreshInv' /\ ListWellFormed'
  BY <1>2, SameList DEF FreshInv
<1>4. MainStackInv'
  <2>1. running = SCHED /\ pc[SCHED] = "scan" /\ it \in Listed
    BY WhoRuns DEF MainStackInv
  <2>2. next[it] \in Listed \cup {NULL} /\ \A c \in Listed : c < it => c <= next[it]
    BY <2>1 DEF ListWellFormed
  <2>3. \A c \in Listed : c > next[it] => c >= it
    BY <2>1, <2>2, LinksAreNames
  <2>4. \A c \in Listed : c > next[it] => ~is_finished[c]
    BY <2>1, <2>3, LinksAreNames DEF MainStackInv
  <2> QED
    BY <1>2, <2>1, <2>2, <2>4 DEF TypeOK, MainStackInv
<1>5. CoroStacksInv'
  BY <1>2, WhoRuns DEF TypeOK, CoroStacksInv, Listed
<1>6. ThisInv'
  BY WhoRuns DEF TypeOK, ThisInv
<1>7. FinishedInv'
  BY <1>2, WhoRuns DEF TypeOK, FinishedInv
<1>8. NoCriticalError'
  BY DEF NoCriticalError
<1> QED
  BY <1>1, <1>3, <1>4, <1>5, <1>6, <1>7, <1>8

(* Control is back in the scheduler.                                       *)
LEMMA coro_sched_wait_resume_Inv == Inv /\ coro_sched_wait_resume => Inv'
<1> SUFFICES ASSUME Inv, coro_sched_wait_resume PROVE Inv'
  OBVIOUS
<1> USE LibcoroAssumption DEF Inv, coro_sched_wait_resume, structs, NULL, SCHED, Coros, Stacks
<1>1. TypeOK'
  BY WhoRuns DEF TypeOK, Places
<1>2. Listed' = Listed
  BY DEF Listed
<1>3. FreshInv' /\ ListWellFormed'
  BY <1>2, SameList DEF FreshInv
<1>4. MainStackInv'
  BY <1>2, WhoRuns DEF TypeOK, MainStackInv
<1>5. CoroStacksInv'
  BY <1>2, WhoRuns DEF TypeOK, CoroStacksInv, Listed
<1>6. ThisInv'
  BY WhoRuns DEF TypeOK, ThisInv
<1>7. FinishedInv'
  BY <1>2, WhoRuns DEF TypeOK, FinishedInv
<1>8. NoCriticalError'
  BY DEF NoCriticalError
<1> QED
  BY <1>1, <1>3, <1>4, <1>5, <1>6, <1>7, <1>8

(* A switch: the stack that yields is suspended in its own structure, the  *)
(* one that gets control is where its context says.                        *)
LEMMA coro_yield_Inv == Inv /\ coro_yield => Inv'
<1> SUFFICES ASSUME Inv, coro_yield PROVE Inv'
  OBVIOUS
<1> DEFINE to == IF next[running] = NULL THEN SCHED ELSE next[running]
<1>1. coro_this_ptr = running /\ running \in Stacks /\ pc[running] = "user"
  BY WhoRuns DEF coro_yield, InUser
<1>2. to = SCHED \/ (to \in Listed /\ to \in Coros /\ to # running /\ ~is_finished[to])
  <2>1. CASE running = SCHED
    BY <2>1 DEF Inv, MainStackInv, SCHED, NULL
  <2>2. CASE running # SCHED
    <3>1. running \in Listed /\ \A c \in Listed : ~is_finished[c]
      BY <2>2, WhoRuns DEF Inv, FinishedInv
    <3>2. next[running] \in Listed \cup {NULL} /\ next[running] < running
      BY <3>1 DEF Inv, ListWellFormed
    <3> QED
      BY <3>1, <3>2, LinksAreNames DEF Inv
  <2> QED
    BY <2>1, <2>2
<1> DEFINE saved == [ctx EXCEPT ![running] = [stack |-> running, at |-> "yielded"]]
<1>3. /\ saved[to] = [stack |-> to, at |-> saved[to].at]
      /\ saved[to].at \in {"start", "yielded", "waiting"}
      /\ to # SCHED => to # running /\ saved[to].at = pc[to] /\ pc[to] \in {"start", "yielded"}
      /\ to = SCHED => saved[to].at = IF running = SCHED THEN "yielded" ELSE "waiting"
  <2>1. CASE to = running
    BY <1>1, <1>2, <2>1 DEF Inv, TypeOK
  <2>2. CASE to # running /\ to = SCHED
    BY <1>1, <2>2 DEF Inv, TypeOK, MainStackInv
  <2>3. CASE to \in Listed /\ to \in Coros /\ to # running /\ ~is_finished[to]
    <3>1. pc[to] \in {"start", "yielded"} /\ ctx[to] = [stack |-> to, at |-> pc[to]]
      BY <2>3 DEF Inv, CoroStacksInv
    <3>2. saved[to] = ctx[to] /\ to # SCHED
      BY <2>3, <1>1, WhoRuns DEF Inv, TypeOK, Stacks
    <3> QED
      BY <3>1, <3>2, <2>3
  <2> QED
    BY <1>2, <2>1, <2>2, <2>3
<1>4. /\ switch_count' = [switch_count EXCEPT ![running] = @ + 1]
      /\ ctx' = saved
      /\ from' = [from EXCEPT ![running] = running]
      /\ running' = to
      /\ pc' = [pc EXCEPT ![running] = "yielded", ![to] = saved[to].at]
      /\ UNCHANGED <<next, prev, is_finished, life, made, coro_list, coro_this_ptr,
                     is_sched_waiting, body, it, halted>>
  <2>1. coro_yield_to(to, "yielded")
    BY <1>1 DEF coro_yield
  <2>2. /\ switch_count' = [switch_count EXCEPT ![running] = @ + 1]
        /\ ctx' = saved
        /\ from' = [from EXCEPT ![running] = running]
        /\ siglongjmp(saved[to], "yielded")
    BY <2>1, <1>1 DEF coro_yield_to
  <2>3. saved[to].stack = to
    BY <1>3
  <2>4. running' = to /\ pc' = [pc EXCEPT ![running] = "yielded", ![to] = saved[to].at]
    BY <2>2, <2>3 DEF siglongjmp
  <2> QED
    BY <2>2, <2>4 DEF coro_yield, globals
<1>5. to \in Stacks /\ to \in Coros \cup {SCHED}
  BY <1>2 DEF Stacks
<1> HIDE DEF to, saved
<1>6. Listed' = Listed
  BY <1>4 DEF Listed
<1>7. TypeOK'
  <2>1. ctx' \in [Stacks -> Contexts]
    BY <1>1, <1>4 DEF Inv, TypeOK, saved, Contexts, Pointers, Places, Stacks
  <2>2. pc' \in [Stacks -> Places]
    BY <1>1, <1>3, <1>4, <1>5 DEF Inv, TypeOK, Places
  <2>3. from' \in [Stacks -> Pointers]
    BY <1>1, <1>4 DEF Inv, TypeOK, Pointers, Stacks
  <2> QED
    BY <1>1, <1>4, <1>5, <2>1, <2>2, <2>3 DEF Inv, TypeOK
<1>8. FreshInv' /\ ListWellFormed' /\ NoCriticalError'
  BY <1>4, <1>6, SameList DEF Inv, FreshInv, NoCriticalError
<1>9. MainStackInv'
  <2>1. CASE running = SCHED
    <3>1. to = SCHED
      BY <2>1 DEF Inv, MainStackInv, to, SCHED, NULL
    <3> QED
      BY <2>1, <3>1, <1>1, <1>3, <1>4, <1>6, WhoRuns DEF Inv, TypeOK, MainStackInv
  <2>2. CASE running # SCHED
    <3>1. pc'[SCHED] = "waiting" /\ pc[SCHED] = "waiting"
      BY <2>2, <1>1, <1>3, <1>4, WhoRuns DEF Inv, TypeOK, MainStackInv
    <3>2. ctx'[SCHED] = ctx[SCHED] /\ from'[SCHED] = from[SCHED]
      BY <2>2, <1>1, <1>4, WhoRuns DEF Inv, TypeOK, saved
    <3> QED
      BY <2>2, <3>1, <3>2, <1>4, <1>6 DEF Inv, MainStackInv
  <2> QED
    BY <2>1, <2>2
<1>10. CoroStacksInv'
  <2>1. ASSUME NEW c \in Listed
        PROVE  /\ body'[c] = c
               /\ pc'[c] \in {"start", "user", "yielded", "done"}
               /\ is_finished'[c] <=> pc'[c] = "done"
               /\ pc'[c] = "user" => running' = c
               /\ pc'[c] = "yielded" => from'[c] = c
               /\ pc'[c] \in {"start", "yielded"} => ctx'[c] = [stack |-> c, at |-> pc'[c]]
    <3>0. c \in Stacks /\ c # SCHED
      BY WhoRuns DEF Listed, Stacks
    <3>1. CASE c = running
      <4>1. pc'[c] = "yielded" /\ from'[c] = c /\ ctx'[c] = [stack |-> c, at |-> "yielded"]
        BY <3>0, <3>1, <1>1, <1>3, <1>4 DEF Inv, TypeOK, saved
      <4> QED
        BY <3>1, <4>1, <1>1, <1>4 DEF Inv, CoroStacksInv
    <3>2. CASE c # running
      <4>1. pc'[c] = pc[c] /\ from'[c] = from[c] /\ ctx'[c] = ctx[c]
        BY <3>0, <3>2, <1>1, <1>3, <1>4, <1>5 DEF Inv, TypeOK, saved
      <4> QED
        BY <3>2, <4>1, <1>4 DEF Inv, CoroStacksInv
    <3> QED
      BY <3>1, <3>2
  <2>2. \A c \in Coros : life'[c] \in {"returned", "freed"} =>
          is_finished'[c] /\ pc'[c] = "done"
    <3> SUFFICES ASSUME NEW c \in Coros, life[c] \in {"returned", "freed"}
                 PROVE  is_finished[c] /\ pc'[c] = "done"
      BY <1>4
    <3>1. is_finished[c] /\ pc[c] = "done" /\ c \notin Listed /\ c # SCHED
      BY WhoRuns DEF Inv, CoroStacksInv, Listed
    <3>2. c # running /\ c # to
      BY <3>1, <1>2, WhoRuns
    <3> QED
      BY <3>1, <3>2, <1>4, <1>1, <1>5 DEF Inv, TypeOK, Stacks
  <2>3. running' # SCHED => running' \in Listed' /\ ~is_finished'[running']
    BY <1>2, <1>4, <1>6
  <2> QED
    BY <2>1, <2>2, <2>3, <1>6 DEF CoroStacksInv
<1>11. ThisInv'
  <2>1. pc'[running'] \in {"start", "yielded", "waiting"}
    BY <1>1, <1>3, <1>4, <1>5 DEF Inv, TypeOK
  <2> QED
    BY <2>1 DEF ThisInv
<1>12. FinishedInv'
  <2>1. \A c \in Listed : ~is_finished[c]
    BY <1>1 DEF Inv, FinishedInv
  <2> QED
    BY <2>1, <1>4, <1>6 DEF FinishedInv
<1> QED
  BY <1>7, <1>8, <1>9, <1>10, <1>11, <1>12 DEF Inv

(* The scheduler's own switch, to the head of the list: the scan has shown *)
(* that nobody in it has finished.                                         *)
LEMMA coro_sched_wait_switch_Inv == Inv /\ coro_sched_wait_switch => Inv'
<1> SUFFICES ASSUME Inv, coro_sched_wait_switch PROVE Inv'
  OBVIOUS
<1> DEFINE to == coro_list
<1> DEFINE saved == [ctx EXCEPT ![SCHED] = [stack |-> SCHED, at |-> "waiting"]]
<1>1. coro_this_ptr = SCHED /\ running = SCHED /\ pc[SCHED] = "scan" /\ it = NULL
  BY WhoRuns DEF coro_sched_wait_switch
<1>2. \A c \in Listed : ~is_finished[c]
  BY <1>1, LinksAreNames DEF Inv, MainStackInv, NULL
<1>3. to \in Listed /\ to \in Coros /\ to \in Stacks /\ to # SCHED
  BY <1>1, LinksAreNames, WhoRuns DEF Inv, MainStackInv, ListWellFormed
<1>4. /\ pc[to] \in {"start", "yielded"}
      /\ saved[to] = [stack |-> to, at |-> pc[to]]
  <2>1. pc[to] \in {"start", "yielded"} /\ ctx[to] = [stack |-> to, at |-> pc[to]]
    BY <1>1, <1>2, <1>3 DEF Inv, CoroStacksInv
  <2>2. saved[to] = ctx[to]
    BY <1>3 DEF Inv, TypeOK
  <2> QED
    BY <2>1, <2>2
<1>5. /\ switch_count' = [switch_count EXCEPT ![SCHED] = @ + 1]
      /\ ctx' = saved
      /\ from' = [from EXCEPT ![SCHED] = SCHED]
      /\ running' = to
      /\ pc' = [pc EXCEPT ![SCHED] = "waiting", ![to] = pc[to]]
      /\ is_sched_waiting' = TRUE
      /\ UNCHANGED <<next, prev, is_finished, life, made, coro_list, coro_this_ptr,
                     body, it, halted>>
  <2>1. /\ switch_count' = [switch_count EXCEPT ![SCHED] = @ + 1]
        /\ ctx' = saved
        /\ from' = [from EXCEPT ![SCHED] = SCHED]
        /\ siglongjmp(saved[to], "waiting")
    BY <1>1 DEF coro_sched_wait_switch, coro_yield_to
  <2>2. running' = to /\ pc' = [pc EXCEPT ![SCHED] = "waiting", ![to] = pc[to]]
    <3>1. saved[to].stack = to /\ saved[to].at = pc[to]
      BY <1>4
    <3> QED
      BY <2>1, <3>1, <1>1 DEF siglongjmp
  <2> QED
    BY <2>1, <2>2 DEF coro_sched_wait_switch
<1> HIDE DEF to
<1>6. Listed' = Listed
  BY <1>5 DEF Listed
<1>7. /\ pc'[SCHED] = "waiting" /\ from'[SCHED] = SCHED
      /\ ctx'[SCHED] = [stack |-> SCHED, at |-> "waiting"]
      /\ \A c \in Coros : pc'[c] = pc[c] /\ ctx'[c] = ctx[c] /\ from'[c] = from[c]
  BY <1>3, <1>5, WhoRuns DEF Inv, TypeOK, Stacks
<1>8. TypeOK'
  <2>1. ctx' \in [Stacks -> Contexts]
    BY <1>5 DEF Inv, TypeOK, Contexts, Pointers, Places, Stacks
  <2>2. pc' \in [Stacks -> Places]
    BY <1>3, <1>4, <1>5 DEF Inv, TypeOK, Places
  <2>3. from' \in [Stacks -> Pointers]
    BY <1>5 DEF Inv, TypeOK, Pointers
  <2>4. switch_count' \in [Stacks -> Nat]
    BY <1>5, WhoRuns DEF Inv, TypeOK
  <2> QED
    BY <1>3, <1>5, <2>1, <2>2, <2>3, <2>4 DEF Inv, TypeOK
<1>9. FreshInv' /\ ListWellFormed' /\ NoCriticalError'
  BY <1>5, <1>6, SameList DEF Inv, FreshInv, NoCriticalError
<1>10. MainStackInv'
  BY <1>5, <1>7 DEF Inv, MainStackInv
<1>11. CoroStacksInv'
  <2>1. ASSUME NEW c \in Listed
        PROVE  /\ body'[c] = c
               /\ pc'[c] \in {"start", "user", "yielded", "done"}
               /\ is_finished'[c] <=> pc'[c] = "done"
               /\ pc'[c] = "user" => running' = c
               /\ pc'[c] = "yielded" => from'[c] = c
               /\ pc'[c] \in {"start", "yielded"} => ctx'[c] = [stack |-> c, at |-> pc'[c]]
    <3>1. c \in Coros /\ c # running
      BY <1>1, WhoRuns DEF Listed
    <3>2. /\ body[c] = c
          /\ pc[c] \in {"start", "yielded", "done"}
          /\ is_finished[c] <=> pc[c] = "done"
          /\ pc[c] = "yielded" => from[c] = c
          /\ pc[c] \in {"start", "yielded"} => ctx[c] = [stack |-> c, at |-> pc[c]]
      BY <3>1 DEF Inv, CoroStacksInv
    <3> QED
      BY <3>1, <3>2, <1>5, <1>7
  <2>2. \A c \in Coros : life'[c] \in {"returned", "freed"} =>
            is_finished'[c] /\ pc'[c] = "done"
    <3> SUFFICES ASSUME NEW c \in Coros, life[c] \in {"returned", "freed"}
                 PROVE  is_finished[c] /\ pc'[c] = "done"
      BY <1>5
    <3>1. is_finished[c] /\ pc[c] = "done"
      BY DEF Inv, CoroStacksInv
    <3> QED
      BY <3>1, <1>7
  <2>3. running' \in Listed' /\ ~is_finished'[running']
    BY <1>2, <1>3, <1>5, <1>6
  <2> QED
    BY <1>6, <2>1, <2>2, <2>3 DEF CoroStacksInv
<1>12. ThisInv' /\ FinishedInv'
  BY <1>2, <1>3, <1>4, <1>5, <1>6, <1>7 DEF ThisInv, FinishedInv
<1> QED
  BY <1>8, <1>9, <1>10, <1>11, <1>12 DEF Inv

(* A function returns while the scheduler waits: control goes back to it.  *)
LEMMA coro_body_finish_Inv == Inv /\ coro_body_finish => Inv'
<1> SUFFICES ASSUME Inv, coro_body_finish PROVE Inv'
  OBVIOUS
<1>1. /\ running \in Listed /\ running \in Coros /\ running \in Stacks
      /\ running # SCHED /\ SCHED \in Stacks
      /\ body[running] = running /\ coro_this_ptr = running /\ pc[running] = "user"
  BY WhoRuns DEF coro_body_finish, InUser, Inv, CoroStacksInv
<1>2. /\ pc[SCHED] = "waiting" /\ is_sched_waiting
      /\ ctx[SCHED] = [stack |-> SCHED, at |-> "waiting"]
  BY <1>1 DEF Inv, MainStackInv
<1>3. /\ is_finished' = [is_finished EXCEPT ![running] = TRUE]
      /\ running' = SCHED
      /\ pc' = [pc EXCEPT ![running] = "done", ![SCHED] = "waiting"]
      /\ UNCHANGED <<next, prev, switch_count, ctx, life, made, coro_list,
                     coro_this_ptr, is_sched_waiting, from, body, it, halted>>
  BY <1>1, <1>2 DEF coro_body_finish, siglongjmp, globals
<1>4. Listed' = Listed
  BY <1>3 DEF Listed
<1>5. /\ pc'[SCHED] = "waiting" /\ pc'[running] = "done"
      /\ is_finished'[running] = TRUE
      /\ \A c \in Coros : c # running => pc'[c] = pc[c] /\ is_finished'[c] = is_finished[c]
  BY <1>1, <1>3, WhoRuns DEF Inv, TypeOK, Stacks
<1>6. TypeOK'
  <2>1. pc' \in [Stacks -> Places]
    BY <1>1, <1>3 DEF Inv, TypeOK, Places
  <2>2. is_finished' \in [Stacks -> BOOLEAN]
    BY <1>1, <1>3 DEF Inv, TypeOK
  <2> QED
    BY <1>1, <1>3, <2>1, <2>2 DEF Inv, TypeOK
<1>7. FreshInv' /\ ListWellFormed' /\ NoCriticalError'
  BY <1>3, <1>4, SameList DEF Inv, FreshInv, NoCriticalError
<1>8. MainStackInv'
  BY <1>2, <1>3, <1>5 DEF Inv, MainStackInv
<1>9. CoroStacksInv'
  <2>1. ASSUME NEW c \in Listed
        PROVE  /\ body'[c] = c
               /\ pc'[c] \in {"start", "user", "yielded", "done"}
               /\ is_finished'[c] <=> pc'[c] = "done"
               /\ pc'[c] = "user" => running' = c
               /\ pc'[c] = "yielded" => from'[c] = c
               /\ pc'[c] \in {"start", "yielded"} => ctx'[c] = [stack |-> c, at |-> pc'[c]]
    <3>1. CASE c = running
      BY <3>1, <1>1, <1>3, <1>5
    <3>2. CASE c # running
      <4>1. /\ body[c] = c
            /\ pc[c] \in {"start", "yielded", "done"}
            /\ is_finished[c] <=> pc[c] = "done"
            /\ pc[c] = "yielded" => from[c] = c
            /\ pc[c] \in {"start", "yielded"} => ctx[c] = [stack |-> c, at |-> pc[c]]
        BY <3>2 DEF Inv, CoroStacksInv
      <4>2. pc'[c] = pc[c] /\ is_finished'[c] = is_finished[c]
        BY <3>2, <1>5 DEF Listed
      <4> QED
        BY <4>1, <4>2, <1>3
    <3> QED
      BY <3>1, <3>2
  <2>2. \A c \in Coros : life'[c] \in {"returned", "freed"} =>
            is_finished'[c] /\ pc'[c] = "done"
    <3> SUFFICES ASSUME NEW c \in Coros, life[c] \in {"returned", "freed"}
                 PROVE  is_finished'[c] /\ pc'[c] = "done"
      BY <1>3
    <3>1. is_finished[c] /\ pc[c] = "done" /\ c # running
      BY <1>1 DEF Inv, CoroStacksInv, Listed
    <3> QED
      BY <3>1, <1>5
  <2> QED
    BY <1>3, <1>4, <2>1, <2>2 DEF CoroStacksInv
<1>10. ThisInv'
  BY <1>3, <1>5 DEF ThisInv
<1>11. FinishedInv'
  <2>1. \A c \in Listed : ~is_finished[c]
    BY <1>1 DEF Inv, FinishedInv
  <2> QED
    BY <2>1, <1>3, <1>4, <1>5 DEF FinishedInv, Listed
<1> QED
  BY <1>6, <1>7, <1>8, <1>9, <1>10, <1>11 DEF Inv

(* The finished coroutine leaves the list.                                 *)
LEMMA coro_sched_wait_found_Inv == Inv /\ coro_sched_wait_found => Inv'
<1> SUFFICES ASSUME Inv, coro_sched_wait_found PROVE Inv'
  OBVIOUS
<1>1. running = SCHED /\ coro_this_ptr = SCHED /\ pc[SCHED] = "scan"
  BY WhoRuns DEF coro_sched_wait_found
<1>2. it \in Listed /\ it \in Coros /\ is_finished[it]
  BY <1>1 DEF coro_sched_wait_found, Inv, MainStackInv, Listed
<1>3. ListWellFormed' /\ Listed' = Listed \ {it}
  BY <1>2, DeleteKeepsList DEF coro_sched_wait_found, Inv
<1>4. pc[it] = "done"
  BY <1>2 DEF Inv, CoroStacksInv
<1>5. /\ pc'[SCHED] = "user"
      /\ \A c \in Coros : pc'[c] = pc[c]
      /\ life'[it] = "returned"
      /\ \A c \in Coros : c # it => life'[c] = life[c]
  BY <1>1, <1>2, WhoRuns DEF coro_sched_wait_found, Inv, TypeOK, Stacks
<1>6. next[it] \in Coros \cup {NULL} /\ prev[it] \in Coros \cup {NULL}
  BY <1>2 DEF Inv, TypeOK, Stacks
<1>7. TypeOK'
  <2>1. pc' \in [Stacks -> Places]
    BY <1>1 DEF coro_sched_wait_found, Inv, TypeOK, Places
  <2>2. next' \in [Stacks -> Coros \cup {NULL}] /\ prev' \in [Stacks -> Coros \cup {NULL}]
        /\ coro_list' \in Coros \cup {NULL}
    BY <1>6 DEF coro_sched_wait_found, coro_list_delete, Inv, TypeOK
  <2>3. life' \in [Coros -> {"fresh", "listed", "returned", "freed"}]
    BY <1>2 DEF coro_sched_wait_found, Inv, TypeOK
  <2> QED
    BY <2>1, <2>2, <2>3 DEF coro_sched_wait_found, Inv, TypeOK
<1>8. FreshInv' /\ NoCriticalError'
  BY <1>2, <1>5 DEF coro_sched_wait_found, Inv, FreshInv, NoCriticalError, Listed
<1>9. next'[SCHED] = NULL
  <2>1. SCHED # prev[it]
    BY <1>6, WhoRuns DEF Stacks
  <2> QED
    BY <2>1, WhoRuns DEF coro_sched_wait_found, coro_list_delete, Inv, TypeOK, MainStackInv
<1>10. MainStackInv'
  BY <1>1, <1>5, <1>9 DEF coro_sched_wait_found, Inv, MainStackInv
<1>11. CoroStacksInv'
  BY <1>1, <1>2, <1>3, <1>4, <1>5 DEF coro_sched_wait_found, Inv, CoroStacksInv, Listed
<1>12. ThisInv' /\ FinishedInv'
  BY <1>1, <1>2, <1>3, <1>5 DEF coro_sched_wait_found, Inv, ThisInv, FinishedInv
<1> QED
  BY <1>3, <1>7, <1>8, <1>10, <1>11, <1>12 DEF Inv

(* Construction: the new coroutine is suspended at its start.              *)
LEMMA coro_new_Inv == Inv /\ coro_new => Inv'
<1> SUFFICES ASSUME Inv, coro_new PROVE Inv'
  OBVIOUS
<1> DEFINE c == made + 1
<1>1. /\ c \in Coros /\ c \in Stacks /\ c # SCHED /\ c # NULL
      /\ pc[running] = "user" /\ coro_this_ptr = running /\ running \in Stacks
  BY WhoRuns DEF coro_new, InUser, Stacks
<1>2. ListWellFormed' /\ Listed' = Listed \cup {c}
  BY AddKeepsList DEF coro_new, Inv
<1>3. c \notin Listed /\ c # running /\ life[c] = "fresh"
  <2>1. c > made
    BY DEF Inv, TypeOK
  <2> QED
    BY <1>1, <2>1, WhoRuns DEF Inv, FreshInv, Listed
<1>4. /\ made' = c
      /\ life' = [life EXCEPT ![c] = "listed"]
      /\ is_finished' = [is_finished EXCEPT ![c] = FALSE]
      /\ switch_count' = [switch_count EXCEPT ![c] = 0]
      /\ ctx' = [ctx EXCEPT ![c] = [stack |-> c, at |-> "start"]]
      /\ body' = [body EXCEPT ![c] = c]
      /\ pc' = [pc EXCEPT ![c] = "start"]
      /\ next' = [next EXCEPT ![c] = coro_list]
      /\ prev' = [s \in Stacks |-> IF s = c THEN NULL
                                   ELSE IF s = coro_list THEN c ELSE prev[s]]
      /\ coro_list' = c
      /\ UNCHANGED <<coro_this_ptr, is_sched_waiting, running, from, it, halted>>
  BY DEF coro_new, coro_list_add
<1>5. c \in Int /\ made \in Int /\ c = made + 1
  BY DEF Inv, TypeOK
<1> HIDE DEF c
<1>6. /\ life'[c] = "listed" /\ is_finished'[c] = FALSE /\ body'[c] = c
      /\ pc'[c] = "start" /\ ctx'[c] = [stack |-> c, at |-> "start"]
      /\ \A s \in Stacks : s # c => /\ is_finished'[s] = is_finished[s]
                                    /\ body'[s] = body[s]
                                    /\ pc'[s] = pc[s]
                                    /\ ctx'[s] = ctx[s]
                                    /\ next'[s] = next[s]
      /\ \A d \in Coros : d # c => life'[d] = life[d]
  BY <1>1, <1>4 DEF Inv, TypeOK
<1>7. TypeOK'
  <2>1. next' \in [Stacks -> Coros \cup {NULL}]
    BY <1>1, <1>4 DEF Inv, TypeOK
  <2>2. prev' \in [Stacks -> Coros \cup {NULL}]
    BY <1>1, <1>4 DEF Inv, TypeOK
  <2>3. is_finished' \in [Stacks -> BOOLEAN]
    BY <1>1, <1>4 DEF Inv, TypeOK
  <2>4. switch_count' \in [Stacks -> Nat]
    BY <1>1, <1>4 DEF Inv, TypeOK
  <2>5. ctx' \in [Stacks -> Contexts]
    BY <1>1, <1>4 DEF Inv, TypeOK, Contexts, Pointers, Places
  <2>6. life' \in [Coros -> {"fresh", "listed", "returned", "freed"}]
    BY <1>1, <1>4 DEF Inv, TypeOK
  <2>7. made' \in 0..MaxCoros
    BY <1>1, <1>4, <1>5, LibcoroAssumption DEF Coros
  <2>8. pc' \in [Stacks -> Places]
    BY <1>1, <1>4 DEF Inv, TypeOK, Places
  <2>9. body' \in [Stacks -> Pointers]
    BY <1>1, <1>4 DEF Inv, TypeOK, Pointers
  <2>10. coro_list' \in Coros \cup {NULL}
    BY <1>1, <1>4
  <2> QED
    BY <1>4, <2>1, <2>2, <2>3, <2>4, <2>5, <2>6, <2>7, <2>8, <2>9, <2>10
       DEF Inv, TypeOK
<1>8. FreshInv'
  BY <1>3, <1>4, <1>5, <1>6, LibcoroAssumption DEF Inv, FreshInv, Coros
<1>9. pc[SCHED] # "scan" /\ (pc[SCHED] = "waiting" \/ running = SCHED)
  BY <1>1 DEF Inv, MainStackInv
<1>10. MainStackInv'
  BY <1>1, <1>4, <1>6, <1>9, WhoRuns DEF Inv, MainStackInv
<1>11. CoroStacksInv'
  <2>1. ASSUME NEW d \in Listed'
        PROVE  /\ body'[d] = d
               /\ pc'[d] \in {"start", "user", "yielded", "done"}
               /\ is_finished'[d] <=> pc'[d] = "done"
               /\ pc'[d] = "user" => running' = d
               /\ pc'[d] = "yielded" => from'[d] = d
               /\ pc'[d] \in {"start", "yielded"} => ctx'[d] = [stack |-> d, at |-> pc'[d]]
    <3>1. CASE d = c
      BY <3>1, <1>6
    <3>2. CASE d # c
      <4>1. d \in Listed /\ d \in Stacks
        BY <3>2, <1>2 DEF Listed, Stacks
      <4> QED
        BY <3>2, <4>1, <1>4, <1>6 DEF Inv, CoroStacksInv
    <3> QED
      BY <3>1, <3>2
  <2>2. \A d \in Coros : life'[d] \in {"returned", "freed"} =>
            is_finished'[d] /\ pc'[d] = "done"
    BY <1>1, <1>6 DEF Inv, CoroStacksInv, Stacks
  <2>3. running' # SCHED => running' \in Listed' /\ ~is_finished'[running']
    BY <1>1, <1>2, <1>3, <1>4, <1>6 DEF Inv, CoroStacksInv
  <2> QED
    BY <2>1, <2>2, <2>3 DEF CoroStacksInv
<1>12. ThisInv' /\ NoCriticalError'
  BY <1>1, <1>3, <1>4, <1>6 DEF Inv, ThisInv, NoCriticalError
<1>13. FinishedInv'
  <2>1. \A d \in Listed : ~is_finished[d]
    BY <1>1 DEF Inv, FinishedInv
  <2>2. \A d \in Listed' : ~is_finished'[d]
    BY <2>1, <1>2, <1>3, <1>6 DEF Listed, Stacks
  <2> QED
    BY <2>2 DEF FinishedInv
<1> QED
  BY <1>2, <1>7, <1>8, <1>10, <1>11, <1>12, <1>13 DEF Inv

(* Destruction of what the list no longer holds.                           *)
LEMMA coro_delete_Inv == ASSUME NEW c \in Coros, Inv, coro_delete(c) PROVE Inv'
<1>1. /\ life[c] = "returned" /\ life' = [life EXCEPT ![c] = "freed"]
      /\ UNCHANGED <<next, prev, is_finished, switch_count, ctx, made, coro_list,
                     coro_this_ptr, is_sched_waiting, running, pc, from, body, it,
                     halted>>
  BY DEF coro_delete, globals, thread
<1>2. Listed' = Listed
  BY <1>1 DEF Inv, TypeOK, Listed
<1>3. TypeOK'
  BY <1>1 DEF Inv, TypeOK
<1>4. FreshInv' /\ ListWellFormed' /\ NoCriticalError'
  BY <1>1, <1>2, SameList DEF Inv, TypeOK, FreshInv, NoCriticalError
<1>5. MainStackInv' /\ CoroStacksInv'
  BY <1>1, <1>2 DEF Inv, TypeOK, MainStackInv, CoroStacksInv
<1>6. ThisInv' /\ FinishedInv'
  BY <1>1, <1>2 DEF Inv, ThisInv, FinishedInv
<1> QED
  BY <1>3, <1>4, <1>5, <1>6 DEF Inv

(* A step that changes nothing keeps the invariant.                        *)
LEMMA StutterInv == Inv /\ UNCHANGED vars => Inv'
<1> SUFFICES ASSUME Inv, UNCHANGED vars PROVE Inv'
  OBVIOUS
<1> USE DEF vars, structs, globals, thread
<1>1. Listed' = Listed
  BY DEF Listed
<1>2. ListWellFormed'
  BY <1>1, SameList DEF Inv
<1>3. TypeOK' /\ FreshInv' /\ ThisInv' /\ NoCriticalError'
  BY DEF Inv, TypeOK, FreshInv, ThisInv, NoCriticalError
<1>4. MainStackInv' /\ CoroStacksInv' /\ FinishedInv'
  BY <1>1 DEF Inv, MainStackInv, CoroStacksInv, FinishedInv
<1> QED
  BY <1>2, <1>3, <1>4 DEF Inv

(* Every step keeps the invariant.                                         *)
LEMMA NextInv == Inv /\ [Next]_vars => Inv'
  BY coro_new_Inv, coro_delete_Inv, coro_yield_Inv, coro_yield_return_Inv,
     coro_body_start_Inv, coro_body_finish_Inv, coro_sched_wait_call_Inv,
     coro_sched_wait_loop_Inv, coro_sched_wait_found_Inv,
     coro_sched_wait_skip_Inv, coro_sched_wait_switch_Inv,
     coro_sched_wait_resume_Inv, StutterInv DEF Next

(* Every reachable state of libcoro satisfies the inductive invariant,     *)
(* for any number of coroutines and of yields.                             *)
THEOREM LibcoroInductive == Spec => []Inv
  BY InitInv, NextInv, PTL DEF Spec

(* The structures, globals and locals of libcoro keep their types.         *)
THEOREM LibcoroTypeCorrect == Spec => []TypeOK
<1>1. Inv => TypeOK
  BY DEF Inv
<1> QED
  BY <1>1, LibcoroInductive, PTL

(* The coroutine list is exactly the coroutines not yet returned, newest   *)
(* first, linked consistently in both directions.                          *)
THEOREM LibcoroListWellFormed == Spec => []ListWellFormed
<1>1. Inv => ListWellFormed
  BY DEF Inv
<1> QED
  BY <1>1, LibcoroInductive, PTL

(* No jump lands in a frame that has returned.                             *)
THEOREM LibcoroContextsAlive == Spec => []ContextsAlive
<1>1. Inv => ContextsAlive
  <2> SUFFICES ASSUME Inv PROVE ContextsAlive
    OBVIOUS
  <2>1. ASSUME NEW c \in Listed, c # running, ~is_finished[c]
        PROVE  pc[c] \in Suspended /\ ctx[c] = [stack |-> c, at |-> pc[c]]
    BY <2>1 DEF Inv, CoroStacksInv, Suspended
  <2> QED
    BY <2>1 DEF ContextsAlive, Inv, MainStackInv
<1> QED
  BY <1>1, LibcoroInductive, PTL

(* Client code always finds itself in coro_this().                         *)
THEOREM LibcoroThisIsRunning == Spec => []ThisIsRunning
<1>1. Inv => ThisIsRunning
  BY DEF Inv, ThisInv, ThisIsRunning, InUser
<1> QED
  BY <1>1, LibcoroInductive, PTL

(* coro_body() never gets to "Critical error - no place to return!".       *)
THEOREM LibcoroNoCriticalError == Spec => []NoCriticalError
<1>1. Inv => NoCriticalError
  BY DEF Inv
<1> QED
  BY <1>1, LibcoroInductive, PTL

(* Control passes only to the scheduler or to an unfinished coroutine.     *)
THEOREM LibcoroSwitchOnlyToUnfinished == Spec => SwitchOnlyToUnfinished
<1> DEFINE Good(s) == s = SCHED \/ (s \in Listed /\ ~is_finished[s])
<1>1. Inv' /\ Inv /\ [Next]_vars => (running' # running => Good(running'))
  <2> SUFFICES ASSUME Inv, Inv', Next, running' # running PROVE Good(running')
    BY DEF vars, thread
  <2>1. running' # SCHED => running' \in Listed' /\ ~is_finished'[running']
    BY DEF Inv, CoroStacksInv
  <2>2. running' # SCHED => Listed' = Listed /\ is_finished' = is_finished
    <3>1. CASE coro_yield \/ coro_sched_wait_switch
      BY <3>1 DEF coro_yield, coro_sched_wait_switch, Listed
    <3>2. CASE coro_body_finish
      <4>1. running # SCHED
        BY <3>2 DEF coro_body_finish
      <4>2. is_sched_waiting /\ ctx[SCHED].stack = SCHED
        BY <4>1 DEF Inv, MainStackInv
      <4> QED
        BY <3>2, <4>2 DEF coro_body_finish, siglongjmp
    <3> QED
      BY <3>1, <3>2 DEF Next, coro_new, coro_delete, coro_yield_return,
         coro_body_start, coro_sched_wait_call, coro_sched_wait_loop,
         coro_sched_wait_found, coro_sched_wait_skip, coro_sched_wait_resume, thread
  <2> QED
    BY <2>1, <2>2
<1> QED
  BY <1>1, LibcoroInductive, PTL DEF Spec, SwitchOnlyToUnfinished

(* What coro_delete() frees is never again executed on.                    *)
THEOREM LibcoroFreedStacksAreDead == Spec => []FreedStacksAreDead
<1>1. Inv => FreedStacksAreDead
  <2> SUFFICES ASSUME Inv, NEW c \in Coros, life[c] \in {"returned", "freed"}
               PROVE  is_finished[c] /\ pc[c] = "done" /\ running # c
    BY DEF FreedStacksAreDead
  <2>1. c \notin Listed /\ c # SCHED
    BY WhoRuns DEF Listed
  <2> QED
    BY <2>1 DEF Inv, CoroStacksInv
<1> QED
  BY <1>1, LibcoroInductive, PTL
-----------------------------------------------------------------------------
(* Libcoro implements CoroSched.  The refinement mapping, by name.         *)
Finished == {c \in Listed : is_finished[c]}
Turn == IF running # SCHED THEN running
        ELSE IF pc[SCHED] \in {"user", "yielded"} THEN 0 ELSE -1

(* A step that changes neither the round nor whose turn it is, is          *)
(* invisible to a client.                                                  *)
LEMMA Invisible ==
    ASSUME UNCHANGED made, Listed' = Listed, Finished' = Finished, Turn' = Turn
    PROVE  UNCHANGED Abstract!vars
  BY DEF Abstract!vars, Finished, Turn

(* After coro_sched_init() there is nobody to run, and main has the turn.  *)
LEMMA RefineInit == Init => Abstract!Init
<1> SUFFICES ASSUME Init PROVE Abstract!Init
  OBVIOUS
<1>1. Listed = {}
  BY DEF Init, coro_sched_init, Listed
<1>2. pc[SCHED] = "user" /\ running = SCHED
  BY DEF Init, coro_sched_init, Stacks
<1> QED
  BY <1>1, <1>2 DEF Init, coro_sched_init, Abstract!Init, Abstract!User

(* coro_yield() goes to the next older coroutine, or to the scheduler from *)
(* the oldest one; called by main it comes back at once.                   *)
LEMMA coro_yield_Refines == Inv /\ coro_yield => [Abstract!Next]_Abstract!vars
<1> SUFFICES ASSUME Inv, coro_yield PROVE [Abstract!Next]_Abstract!vars
  OBVIOUS
<1> DEFINE to == IF next[running] = NULL THEN SCHED ELSE next[running]
<1> DEFINE saved == [ctx EXCEPT ![running] = [stack |-> running, at |-> "yielded"]]
<1>1. coro_this_ptr = running /\ running \in Stacks /\ pc[running] = "user"
  BY WhoRuns DEF coro_yield, InUser
<1>2. /\ siglongjmp(saved[to], "yielded")
      /\ UNCHANGED <<is_finished, life, made, is_sched_waiting>>
  BY <1>1 DEF coro_yield, coro_yield_to, globals
<1>3. Listed' = Listed /\ Finished' = Finished
  BY <1>2 DEF Listed, Finished
<1>4. MainStackInv'
  BY coro_yield_Inv DEF Inv
<1>5. CASE running = SCHED
  <2>1. to = SCHED
    BY <1>5 DEF Inv, MainStackInv, SCHED, NULL
  <2>2. saved[to] = [stack |-> SCHED, at |-> "yielded"]
    BY <1>1, <1>5, <2>1 DEF Inv, TypeOK
  <2>3. running' = SCHED /\ pc'[SCHED] = "yielded"
    BY <1>1, <1>2, <1>5, <2>1, <2>2 DEF siglongjmp, Inv, TypeOK
  <2>4. Turn' = Turn
    BY <1>1, <1>5, <2>3 DEF Turn
  <2> QED
    BY <1>2, <1>3, <2>4, Invisible
<1>6. CASE running # SCHED
  <2>1. running \in Listed /\ running \in Int /\ running > 0
    BY <1>6, WhoRuns, LinksAreNames DEF Inv
  <2>2. next[running] \in Listed \cup {NULL} /\ next[running] < running
    BY <2>1 DEF Inv, ListWellFormed
  <2>3. \A d \in Listed : d < running => d <= next[running]
    BY <2>1 DEF Inv, ListWellFormed
  <2>4. is_sched_waiting /\ pc'[SCHED] = "waiting"
    BY <1>2, <1>4, <1>6 DEF Inv, MainStackInv
  <2>5. saved[to].stack = to
    <3>1. to # running /\ to \in Stacks
      BY <1>6, <2>1, <2>2, LinksAreNames, WhoRuns DEF Inv
    <3>2. saved[to] = ctx[to]
      BY <3>1, <1>1 DEF Inv, TypeOK
    <3>3. CASE to = SCHED
      BY <3>2, <3>3, <1>6 DEF Inv, MainStackInv
    <3>4. CASE to # SCHED
      <4>1. to \in Listed /\ ~is_finished[to]
        BY <3>4, <2>2, <1>6 DEF Inv, FinishedInv
      <4>2. pc[to] \in {"start", "yielded"}
        BY <4>1, <3>1 DEF Inv, CoroStacksInv
      <4>3. ctx[to] = [stack |-> to, at |-> pc[to]]
        BY <4>1, <4>2 DEF Inv, CoroStacksInv
      <4> QED
        BY <3>2, <4>3
    <3> QED
      BY <3>3, <3>4
  <2>6. running' = to
    BY <1>2, <2>5 DEF siglongjmp
  <2>7. Turn = running /\ Turn' = IF next[running] = NULL THEN -1 ELSE next[running]
    <3>1. next[running] # NULL => next[running] # SCHED
      BY <2>2, WhoRuns DEF Listed
    <3> QED
      BY <1>6, <2>4, <2>6, <3>1 DEF Turn, SCHED
  <2> HIDE DEF to, saved
  <2>8. Abstract!IsSuccessor(Turn', Turn) /\ Turn' \in Listed \cup {-1}
    <3>1. CASE next[running] = NULL
      <4>1. \A d \in Listed : ~(d < running)
        BY <3>1, <2>3, LinksAreNames DEF Inv, NULL
      <4>2. Abstract!Older(Turn) = {}
        BY <4>1, <2>7 DEF Abstract!Older
      <4> QED
        BY <3>1, <2>7, <4>2 DEF Abstract!IsSuccessor, Abstract!Sched
    <3>2. CASE next[running] # NULL
      <4>1. next[running] \in Abstract!Older(Turn)
        BY <3>2, <2>2, <2>7 DEF Abstract!Older
      <4>2. \A d \in Abstract!Older(Turn) : d <= next[running]
        BY <2>3, <2>7 DEF Abstract!Older
      <4> QED
        BY <3>2, <2>2, <2>7, <4>1, <4>2 DEF Abstract!IsSuccessor, Abstract!IsNewest
    <3> QED
      BY <3>1, <3>2
  <2>9. Abstract!Yield
    BY <1>2, <1>3, <2>1, <2>7, <2>8 DEF Abstract!Yield, Abstract!Sched, Turn, Finished
  <2> QED
    BY <2>9 DEF Abstract!Next
<1> QED
  BY <1>5, <1>6

(* coro_new() adds the newest coroutine, and whoever called it goes on.    *)
LEMMA coro_new_Refines == Inv /\ coro_new => [Abstract!Next]_Abstract!vars
<1> SUFFICES ASSUME Inv, coro_new PROVE Abstract!New
  BY DEF Abstract!Next
<1>1. /\ pc[running] = "user" /\ UNCHANGED running
      /\ made' = made + 1 /\ made + 1 \in Coros
      /\ is_finished' = [is_finished EXCEPT ![made + 1] = FALSE]
      /\ pc' = [pc EXCEPT ![made + 1] = "start"]
  BY DEF coro_new, InUser
<1>2. Listed' = Listed \cup {made + 1}
  BY AddKeepsList DEF coro_new, Inv
<1>3. made < MaxCoros /\ made + 1 \in Stacks /\ made + 1 # SCHED
  BY <1>1, LibcoroAssumption DEF Coros, Stacks, SCHED, Inv, TypeOK
<1>4. made + 1 \notin Listed
  BY <1>1, LibcoroAssumption DEF Inv, TypeOK, FreshInv, Listed, Coros
<1>5. Finished' = Finished
  <2>1. \A c \in Listed : is_finished'[c] = is_finished[c]
    BY <1>1, <1>4, LinksAreNames DEF Inv, TypeOK
  <2>2. ~is_finished'[made + 1]
    BY <1>1, <1>3 DEF Inv, TypeOK
  <2> QED
    BY <1>2, <2>1, <2>2 DEF Finished
<1>6. Turn' = Turn /\ Turn # -1
  <2>1. pc'[SCHED] = pc[SCHED]
    BY <1>1, <1>3 DEF Inv, TypeOK
  <2> QED
    BY <1>1, <2>1 DEF Turn, SCHED
<1> QED
  BY <1>1, <1>2, <1>3, <1>5, <1>6 DEF Abstract!New, Abstract!Sched, Turn, Finished

(* A coroutine's function returns, and the scheduler goes on.              *)
LEMMA coro_body_finish_Refines == Inv /\ coro_body_finish => [Abstract!Next]_Abstract!vars
<1> SUFFICES ASSUME Inv, coro_body_finish PROVE Abstract!Finish
  BY DEF Abstract!Next
<1>1. running # SCHED /\ running \in Listed /\ running \in Stacks /\ body[running] = running
  BY WhoRuns DEF coro_body_finish, Inv, CoroStacksInv
<1>2. is_sched_waiting /\ ctx[SCHED] = [stack |-> SCHED, at |-> "waiting"]
  BY <1>1 DEF Inv, MainStackInv
<1>3. running' = SCHED /\ pc'[SCHED] = "waiting"
  BY <1>2, WhoRuns DEF coro_body_finish, siglongjmp, Inv, TypeOK
<1>4. /\ is_finished' = [is_finished EXCEPT ![running] = TRUE]
      /\ Listed' = Listed /\ UNCHANGED made
  BY <1>1 DEF coro_body_finish, Listed
<1>5. Finished' = Finished \cup {running}
  BY <1>1, <1>4 DEF Finished, Listed, Stacks, Inv, TypeOK
<1>6. Turn = running /\ Turn' = -1
  BY <1>1, <1>3 DEF Turn
<1> QED
  BY <1>1, <1>4, <1>5, <1>6 DEF Abstract!Finish, Abstract!Sched, Turn, Finished

(* coro_sched_wait() starts a round with the newest coroutine.             *)
LEMMA coro_sched_wait_switch_Refines ==
    Inv /\ coro_sched_wait_switch => [Abstract!Next]_Abstract!vars
<1> SUFFICES ASSUME Inv, coro_sched_wait_switch PROVE Abstract!Dispatch
  BY DEF Abstract!Next
<1>1. coro_this_ptr = SCHED /\ running = SCHED /\ pc[SCHED] = "scan" /\ it = NULL
  BY WhoRuns DEF coro_sched_wait_switch
<1>2. \A c \in Listed : ~is_finished[c]
  BY <1>1, LinksAreNames DEF Inv, MainStackInv, NULL
<1>3. coro_list \in Listed /\ \A d \in Listed : d <= coro_list
  BY <1>1 DEF Inv, MainStackInv, ListWellFormed
<1>4. coro_list # SCHED /\ coro_list \in Stacks
  BY <1>3, WhoRuns, LinksAreNames DEF Inv, Listed
<1> DEFINE saved == [ctx EXCEPT ![SCHED] = [stack |-> SCHED, at |-> "waiting"]]
<1>5. saved[coro_list].stack = coro_list
  <2>1. pc[coro_list] \in {"start", "yielded"}
    BY <1>1, <1>2, <1>3, <1>4 DEF Inv, CoroStacksInv
  <2>2. ctx[coro_list] = [stack |-> coro_list, at |-> pc[coro_list]]
    BY <1>3, <2>1 DEF Inv, CoroStacksInv
  <2> QED
    BY <1>4, <2>2 DEF Inv, TypeOK
<1>6. running' = coro_list /\ UNCHANGED <<is_finished, life, made>>
  BY <1>1, <1>5 DEF coro_sched_wait_switch, coro_yield_to, siglongjmp
<1>7. Listed' = Listed /\ Finished = {} /\ Finished' = {}
  BY <1>2, <1>6 DEF Listed, Finished
<1>8. Turn = -1 /\ Turn' = coro_list
  BY <1>1, <1>4, <1>6 DEF Turn
<1> QED
  BY <1>3, <1>6, <1>7, <1>8
     DEF Abstract!Dispatch, Abstract!IsNewest, Abstract!Sched, Turn, Finished

(* coro_sched_wait() returns what it has found.                            *)
LEMMA coro_sched_wait_found_Refines ==
    Inv /\ coro_sched_wait_found => [Abstract!Next]_Abstract!vars
<1> SUFFICES ASSUME Inv, coro_sched_wait_found
             PROVE  \E c \in Abstract!Coros : Abstract!Reap(c)
  BY DEF Abstract!Next
<1>1. running = SCHED /\ running' = SCHED /\ pc[SCHED] = "scan" /\ is_finished[it]
  BY WhoRuns DEF coro_sched_wait_found
<1>2. it \in Listed /\ it \in Coros
  BY <1>1 DEF coro_sched_wait_found, Inv, MainStackInv, Listed
<1>3. pc'[SCHED] = "user" /\ UNCHANGED <<made, is_finished>>
  BY <1>1, WhoRuns DEF coro_sched_wait_found, Inv, TypeOK
<1>4. Listed' = Listed \ {it}
  BY <1>2 DEF coro_sched_wait_found, Listed, Inv, TypeOK
<1>5. Finished' = Finished \ {it} /\ it \in Finished
  BY <1>1, <1>2, <1>3, <1>4 DEF Finished
<1>6. Turn = -1 /\ Turn' = 0
  BY <1>1, <1>3 DEF Turn
<1> QED
  BY <1>2, <1>3, <1>4, <1>5, <1>6
     DEF Abstract!Reap, Abstract!Sched, Abstract!User, Abstract!Coros, Coros, Turn, Finished

(* coro_sched_wait() begins, looks at the list, and returns NULL if there  *)
(* is nobody.                                                              *)
LEMMA coro_sched_wait_loop_Refines ==
    Inv /\ (coro_sched_wait_call \/ coro_sched_wait_loop) => [Abstract!Next]_Abstract!vars
<1> SUFFICES ASSUME Inv, coro_sched_wait_call \/ coro_sched_wait_loop
             PROVE  [Abstract!Next]_Abstract!vars
  OBVIOUS
<1>1. UNCHANGED <<made, life, is_finished, running>> /\ running = SCHED
  BY WhoRuns DEF coro_sched_wait_call, coro_sched_wait_loop, structs
<1>2. Listed' = Listed /\ Finished' = Finished
  BY <1>1 DEF Listed, Finished
<1>3. CASE coro_sched_wait_call
  <2>1. pc[SCHED] = "user" /\ pc'[SCHED] = "loop"
    BY <1>1, <1>3, WhoRuns DEF coro_sched_wait_call, InUser, Inv, TypeOK
  <2>2. Turn = 0 /\ Turn' = -1
    BY <1>1, <2>1 DEF Turn
  <2>3. Abstract!Wait
    BY <1>1, <1>2, <2>2 DEF Abstract!Wait, Abstract!User, Abstract!Sched, Turn, Finished
  <2> QED
    BY <2>3 DEF Abstract!Next
<1>4. CASE coro_sched_wait_loop /\ coro_list = NULL
  <2>1. pc[SCHED] = "loop" /\ pc'[SCHED] = "user"
    BY <1>1, <1>4, WhoRuns DEF coro_sched_wait_loop, Inv, TypeOK
  <2>2. Turn = -1 /\ Turn' = 0
    BY <1>1, <2>1 DEF Turn
  <2>3. Listed = {}
    BY <1>4, LinksAreNames DEF Inv, ListWellFormed, NULL
  <2>4. Abstract!WaitNothing
    BY <1>1, <1>2, <2>2, <2>3
       DEF Abstract!WaitNothing, Abstract!User, Abstract!Sched, Turn, Finished
  <2> QED
    BY <2>4 DEF Abstract!Next
<1>5. CASE coro_sched_wait_loop /\ coro_list # NULL
  <2>1. pc[SCHED] = "loop" /\ pc'[SCHED] = "scan"
    BY <1>1, <1>5, WhoRuns DEF coro_sched_wait_loop, Inv, TypeOK
  <2>2. Turn' = Turn
    BY <1>1, <2>1 DEF Turn
  <2> QED
    BY <1>1, <1>2, <2>2, Invisible
<1> QED
  BY <1>3, <1>4, <1>5

(* The remaining steps are the library's own affair.                       *)
LEMMA InnerStepsInvisible ==
    Inv /\ (\/ coro_yield_return \/ coro_body_start
            \/ coro_sched_wait_skip \/ coro_sched_wait_resume)
      => UNCHANGED Abstract!vars
<1> SUFFICES ASSUME Inv,
                    \/ coro_yield_return \/ coro_body_start
                    \/ coro_sched_wait_skip \/ coro_sched_wait_resume
             PROVE  UNCHANGED Abstract!vars
  OBVIOUS
<1>1. UNCHANGED <<made, life, is_finished, running>>
  BY DEF coro_yield_return, coro_body_start, coro_sched_wait_skip, coro_sched_wait_resume,
         structs
<1>2. Listed' = Listed /\ Finished' = Finished
  BY <1>1 DEF Listed, Finished
<1>3. Turn' = Turn
  <2>1. CASE running # SCHED
    BY <1>1, <2>1 DEF Turn
  <2>2. CASE running = SCHED
    <3>1. \/ (pc[SCHED] = "yielded" /\ pc'[SCHED] = "user")
          \/ (pc[SCHED] = "scan" /\ pc'[SCHED] = "scan")
          \/ (pc[SCHED] = "waiting" /\ pc'[SCHED] = "loop")
      BY <2>2, WhoRuns DEF coro_yield_return, coro_body_start, coro_sched_wait_skip,
                           coro_sched_wait_resume, Inv, TypeOK
    <3> QED
      BY <1>1, <2>2, <3>1 DEF Turn
  <2> QED
    BY <2>1, <2>2
<1> QED
  BY <1>1, <1>2, <1>3, Invisible

(* coro_delete() is invisible, too: the coroutine had left the round.      *)
LEMMA coro_delete_Invisible ==
    ASSUME NEW c \in Coros, Inv, coro_delete(c) PROVE UNCHANGED Abstract!vars
<1>1. UNCHANGED <<made, is_finished, running, pc>>
  BY DEF coro_delete, thread
<1>2. Listed' = Listed
  BY DEF coro_delete, Listed, Inv, TypeOK
<1> QED
  BY <1>1, <1>2, Invisible DEF Finished, Turn

(* Every step of libcoro is a step of the abstract scheduler or invisible. *)
LEMMA RefineStep == Inv /\ [Next]_vars => [Abstract!Next]_Abstract!vars
<1>1. Inv /\ UNCHANGED vars => UNCHANGED Abstract!vars
  BY DEF vars, structs, thread, Listed, Abstract!vars
<1> QED
  BY <1>1, coro_new_Refines, coro_delete_Invisible, coro_yield_Refines, InnerStepsInvisible,
     coro_body_finish_Refines, coro_sched_wait_loop_Refines, coro_sched_wait_found_Refines,
     coro_sched_wait_switch_Refines DEF Next

(* What libcoro does with links, contexts and jumps is, to its clients,    *)
(* the round of CoroSched: every step is one of its steps, or invisible    *)
(* (the safety part of ImplementsCoroSched).                               *)
THEOREM LibcoroRefinesCoroSched == Spec => Abstract!Init /\ [][Abstract!Next]_Abstract!vars
  BY RefineInit, RefineStep, LibcoroInductive, PTL DEF Spec
=============================================================================
