----------------------------- MODULE CoroSched -----------------------------
(***************************************************************************)
(* What libcoro promises to its clients, without pointers and contexts:    *)
(* a cooperative round over the live coroutines, newest first, that is     *)
(* broken off when one of them finishes so that coro_sched_wait can return *)
(* it.  Libcoro implements this module; CoroSort is a client of it.        *)
(*                                                                         *)
(* Coroutines are numbered in the order of their creation.                 *)
(***************************************************************************)
EXTENDS Integers

CONSTANT MaxCoros       \* bound: how many coroutines a program creates

ASSUME MaxCorosAssumption == MaxCoros \in Nat

Coros == 1..MaxCoros
User  == 0              \* the main stack, outside coro_sched_wait()
Sched == -1             \* the main stack, inside coro_sched_wait()

VARIABLES
    made,       \* the number of coroutines created so far
    live,       \* the coroutines in the scheduler's list
    finished,   \* the live coroutines whose function has returned
    turn        \* who executes: a coroutine, User or Sched

vars == <<made, live, finished, turn>>

TypeOK == /\ made \in 0..MaxCoros
          /\ live \in SUBSET (1..made)
          /\ finished \in SUBSET live
          /\ turn \in live \cup {User, Sched}

-----------------------------------------------------------------------------
IsNewest(c, S) == c \in S /\ \A d \in S : d <= c

Older(c) == {d \in live : d < c}

(* Where coro_yield() goes from c: the next older coroutine, or back to    *)
(* the scheduler after the oldest one.                                     *)
IsSuccessor(t, c) == IF Older(c) = {} THEN t = Sched ELSE IsNewest(t, Older(c))

Init == made = 0 /\ live = {} /\ finished = {} /\ turn = User

(* coro_new(): called by main or by a running coroutine.                   *)
New == /\ turn # Sched
       /\ made < MaxCoros
       /\ made' = made + 1
       /\ live' = live \cup {made + 1}
       /\ UNCHANGED <<finished, turn>>

(* A mutant: every coro_yield() goes back to the scheduler. *)
Yield_to_sched == /\ turn \in live
                  /\ turn' = Sched
                  /\ UNCHANGED <<made, live, finished>>

(* coro_yield() in the coroutine that has the turn.                        *)
Yield == /\ turn \in live
         /\ \E t \in live \cup {Sched} : IsSuccessor(t, turn) /\ turn' = t
         /\ UNCHANGED <<made, live, finished>>

(* The coroutine's function returns.                                       *)
Finish == /\ turn \in live
          /\ finished' = finished \cup {turn}
          /\ turn' = Sched
          /\ UNCHANGED <<made, live>>

(* main calls coro_sched_wait().                                           *)
Wait == /\ turn = User
        /\ turn' = Sched
        /\ UNCHANGED <<made, live, finished>>

(* coro_sched_wait() returns NULL: there are no coroutines.                *)
WaitNothing == /\ turn = Sched
               /\ live = {}
               /\ turn' = User
               /\ UNCHANGED <<made, live, finished>>

(* coro_sched_wait() returns a finished coroutine.                         *)
Reap(c) == /\ turn = Sched
           /\ c \in finished
           /\ live' = live \ {c}
           /\ finished' = finished \ {c}
           /\ turn' = User
           /\ UNCHANGED made

(* coro_sched_wait() starts a round with the newest coroutine.             *)
Dispatch == /\ turn = Sched
            /\ finished = {}
            /\ \E c \in live : IsNewest(c, live) /\ turn' = c
            /\ UNCHANGED <<made, live, finished>>

Next == \/ New
        \/ Yield
        \/ Finish
        \/ Wait
        \/ WaitNothing
        \/ \E c \in Coros : Reap(c)
        \/ Dispatch

(* The program is one thread: while some step is possible, it takes one.   *)
(* A coroutine's function is assumed to yield or return eventually, and    *)
(* main to call coro_sched_wait(), as the loop in solution.c does.         *)
Spec == Init /\ [][Next]_vars /\ WF_vars(Next)

-----------------------------------------------------------------------------
(* Breaking off the round at every finish does not starve the older        *)
(* coroutines behind the one that finished: as long as a program creates   *)
(* finitely many coroutines, each waiting one gets another turn, however   *)
(* often the others yield.                                                 *)
NoStarvation == \A c \in Coros :
                   (c \in live \ finished /\ turn # c) ~> (turn = c)
=============================================================================
