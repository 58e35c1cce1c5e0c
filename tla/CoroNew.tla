------------------------------ MODULE CoroNew ------------------------------
(***************************************************************************)
(* coro_new() and coro_body() of 1/solution/libcoro.c, system call by      *)
(* system call: how a signal handler run on an alternative stack gives a   *)
(* coroutine its first context, and how the constructor gives the signal   *)
(* state back.  The application uses SIGUSR2 for itself too: it has a      *)
(* handler, may have blocked the signal or set up an alternative stack,    *)
(* and the signal can arrive between any two steps of the constructor.     *)
(*                                                                         *)
(* Names are those of Libcoro: coroutines (and their stacks) are numbered, *)
(* 0 is NULL, -1 is &coro_sched and the main stack.                        *)
(***************************************************************************)
EXTENDS Integers

CONSTANTS MaxCoros,     \* bound: how many coroutines are constructed
          MaxSignals    \* bound: how often the environment sends SIGUSR2

ASSUME CoroNewAssumption == MaxCoros \in Nat /\ MaxSignals \in Nat

NULL  == 0
SCHED == -1
Coros == 1..MaxCoros

Disabled == -2                  \* no alternative signal stack (SS_DISABLE)
AppStack == -3                  \* an alternative stack of the application
Handlers == {"app", "coro_body"}
AltStacks == Coros \cup {Disabled, AppStack}

VARIABLES
    blocked,            \* SIGUSR2 is in the signal mask
    handler,            \* the disposition of SIGUSR2
    altstack,           \* the alternative signal stack
    pending,            \* SIGUSR2 is pending (a standard signal: at most once)
    sent,               \* how often the environment has sent it
    coro_this_ptr,
    start_point,        \* sigjmp_buf with its mask; NULL stack when unset
    ctx,                \* the stack that each structure's saved context is on
    made,               \* the coroutines allocated; the last is `c`
    running,            \* the stack the thread executes on
    pc,                 \* "user", or the next step of coro_new()
    olds, oldsa, oldst, old_this,       \* locals of coro_new()
    app                 \* the application's own [blocked, altstack]

sigstate == <<blocked, handler, altstack, pending>>
locals   == <<olds, oldsa, oldst, old_this>>
vars == <<sigstate, sent, coro_this_ptr, start_point, ctx, made, running, pc,
          locals, app>>

Steps == {"user", "sigprocmask", "sigaction", "sigaltstack", "enter", "raise",
          "suspend", "leave", "disable", "restore_stack", "restore_handler",
          "restore_mask"}

Stacks == Coros \cup {SCHED}

TypeOK ==
    /\ blocked \in BOOLEAN
    /\ handler \in Handlers
    /\ altstack \in AltStacks
    /\ pending \in BOOLEAN
    /\ sent \in 0..MaxSignals
    /\ coro_this_ptr \in IF pc = "leave" THEN {NULL} ELSE Stacks
    /\ start_point \in [stack : Stacks \cup {NULL}, blocked : BOOLEAN]
    /\ ctx \in [Stacks -> Stacks \cup {NULL, AppStack}]
    /\ made \in 0..MaxCoros
    /\ running \in Stacks
    /\ pc \in Steps
    /\ olds \in BOOLEAN
    /\ oldsa \in Handlers
    /\ oldst \in AltStacks
    /\ old_this \in Stacks \cup {NULL}
    /\ app \in [blocked : BOOLEAN, altstack : {Disabled, AppStack}]

Init ==
    /\ app \in [blocked : BOOLEAN, altstack : {Disabled, AppStack}]
    /\ blocked = app.blocked
    /\ handler = "app"
    /\ altstack = app.altstack
    /\ pending = FALSE
    /\ sent = 0
    /\ coro_this_ptr = SCHED
    /\ start_point = [stack |-> NULL, blocked |-> FALSE]
    /\ ctx = [s \in Stacks |-> NULL]
    /\ made = 0
    /\ running = SCHED
    /\ pc = "user"
    /\ olds = FALSE /\ oldsa = "app" /\ oldst = Disabled /\ old_this = NULL

-----------------------------------------------------------------------------
(* The environment and the kernel.                                         *)

SignalArrives ==
    /\ sent < MaxSignals
    /\ sent' = sent + 1
    /\ pending' = TRUE
    /\ UNCHANGED <<blocked, handler, altstack, coro_this_ptr, start_point, ctx,
                   made, running, pc, locals, app>>

(* coro_body() up to its siglongjmp, run as the signal's handler on the    *)
(* alternative stack (SA_ONSTACK), or where the thread was if there is     *)
(* none.  It remembers that stack in the structure coro_this_ptr points to *)
(* and jumps to start_point, whose mask comes back with it.                *)
coro_body ==
    /\ pending' = FALSE
    /\ ctx' = [ctx EXCEPT ![coro_this_ptr] =
                 IF altstack = Disabled THEN running ELSE altstack]
    /\ coro_this_ptr' = NULL
    /\ running' = start_point.stack
    /\ blocked' = start_point.blocked
    /\ pc' = "leave"
    /\ UNCHANGED <<handler, altstack, sent, start_point, made, locals, app>>

(* A mutant: sigsuspend() is given the caller's mask, not the empty one. *)
Deliverable_caller_mask ==
    pending /\ (~blocked \/ (pc = "suspend" /\ coro_this_ptr # NULL /\ ~olds))

(* A pending signal runs its handler before anything else, if it is not    *)
(* blocked or if the thread is in sigsuspend() with the empty mask, which  *)
(* coro_new() calls while coro_this_ptr is not NULL.                       *)
Deliverable == pending /\ (~blocked \/ (pc = "suspend" /\ coro_this_ptr # NULL))

Deliver ==
    /\ Deliverable
    /\ IF handler = "coro_body" THEN coro_body
       ELSE /\ pending' = FALSE
            /\ UNCHANGED <<blocked, handler, altstack, sent, coro_this_ptr,
                           start_point, ctx, made, running, pc, locals, app>>

(* The thread is at step p of coro_new() and no signal interrupts it.      *)
At(p) == pc = p /\ ~Deliverable

-----------------------------------------------------------------------------
(* coro_new(), step by step.                                               *)

(* Client code calls coro_new(): the structure is allocated.               *)
Call == /\ At("user")
        /\ made < MaxCoros
        /\ made' = made + 1
        /\ pc' = "sigprocmask"
        /\ UNCHANGED <<sigstate, sent, coro_this_ptr, start_point, ctx, running,
                       locals, app>>

(* A mutant: SIGUSR2 is not blocked during the construction. *)
BlockSignal_open ==
    /\ At("sigprocmask")
    /\ olds' = blocked
    /\ pc' = "sigaction"
    /\ UNCHANGED <<sigstate, sent, coro_this_ptr, start_point, ctx, made, running,
                   oldsa, oldst, old_this, app>>

BlockSignal ==
    /\ At("sigprocmask")
    /\ olds' = blocked
    /\ blocked' = TRUE
    /\ pc' = "sigaction"
    /\ UNCHANGED <<handler, altstack, pending, sent, coro_this_ptr, start_point,
                   ctx, made, running, oldsa, oldst, old_this, app>>

SetHandler ==
    /\ At("sigaction")
    /\ oldsa' = handler
    /\ handler' = "coro_body"
    /\ pc' = "sigaltstack"
    /\ UNCHANGED <<blocked, altstack, pending, sent, coro_this_ptr, start_point,
                   ctx, made, running, olds, oldst, old_this, app>>

SetStack ==
    /\ At("sigaltstack")
    /\ oldst' = altstack
    /\ altstack' = made
    /\ pc' = "enter"
    /\ UNCHANGED <<blocked, handler, pending, sent, coro_this_ptr, start_point,
                   ctx, made, running, olds, oldsa, old_this, app>>

(* A mutant: coro_this_ptr is not pointed at the new structure. *)
Enter_no_this ==
    /\ At("enter")
    /\ old_this' = coro_this_ptr
    /\ start_point' = [stack |-> running, blocked |-> blocked]
    /\ pc' = "raise"
    /\ UNCHANGED <<sigstate, sent, coro_this_ptr, ctx, made, running, olds, oldsa,
                   oldst, app>>

(* coro_this_ptr = c; sigsetjmp(start_point, 1).                           *)
Enter ==
    /\ At("enter")
    /\ old_this' = coro_this_ptr
    /\ coro_this_ptr' = made
    /\ start_point' = [stack |-> running, blocked |-> blocked]
    /\ pc' = "raise"
    /\ UNCHANGED <<sigstate, sent, ctx, made, running, olds, oldsa, oldst, app>>

(* raise(SIGUSR2): pending, because it is blocked; Deliver takes it from   *)
(* there once the thread is in sigsuspend().                               *)
Raise ==
    /\ At("raise")
    /\ pending' = TRUE
    /\ pc' = "suspend"
    /\ UNCHANGED <<blocked, handler, altstack, sent, coro_this_ptr, start_point,
                   ctx, made, running, locals, app>>

Leave ==
    /\ At("leave")
    /\ coro_this_ptr' = old_this
    /\ pc' = "disable"
    /\ UNCHANGED <<sigstate, sent, start_point, ctx, made, running, locals, app>>

DisableStack ==
    /\ At("disable")
    /\ altstack' = Disabled
    /\ pc' = "restore_stack"
    /\ UNCHANGED <<blocked, handler, pending, sent, coro_this_ptr, start_point,
                   ctx, made, running, locals, app>>

RestoreStack ==
    /\ At("restore_stack")
    /\ altstack' = IF oldst # Disabled THEN oldst ELSE altstack
    /\ pc' = "restore_handler"
    /\ UNCHANGED <<blocked, handler, pending, sent, coro_this_ptr, start_point,
                   ctx, made, running, locals, app>>

RestoreHandler ==
    /\ At("restore_handler")
    /\ handler' = oldsa
    /\ pc' = "restore_mask"
    /\ UNCHANGED <<blocked, altstack, pending, sent, coro_this_ptr, start_point,
                   ctx, made, running, locals, app>>

(* The last step; coro_list_add(c) and the return follow (Libcoro).        *)
RestoreMask ==
    /\ At("restore_mask")
    /\ blocked' = olds
    /\ pc' = "user"
    /\ UNCHANGED <<handler, altstack, pending, sent, coro_this_ptr, start_point,
                   ctx, made, running, locals, app>>

(* Between constructions the client code switches to another stack, in     *)
(* coro_yield() or coro_sched_wait() (Libcoro): the next coro_new() may be *)
(* called from a coroutine.                                                *)
SwitchStack ==
    /\ At("user")
    /\ \E s \in (1..made) \cup {SCHED} :
          /\ s # running
          /\ running' = s
          /\ coro_this_ptr' = s
    /\ ctx' = [ctx EXCEPT ![running] = running]
    /\ UNCHANGED <<sigstate, sent, start_point, made, pc, locals, app>>

coro_new == \/ Call \/ BlockSignal \/ SetHandler \/ SetStack \/ Enter \/ Raise
            \/ Leave \/ DisableStack \/ RestoreStack
            \/ RestoreHandler \/ RestoreMask

Next == SignalArrives \/ Deliver \/ coro_new \/ SwitchStack

(* The thread runs and the kernel delivers; the environment need not send. *)
Spec == Init /\ [][Next]_vars /\ WF_vars(Deliver \/ coro_new)
-----------------------------------------------------------------------------
(* What Libcoro's one-step coro_new() takes for granted: every coroutine   *)
(* constructed so far has its context on its own stack and nobody else's,  *)
(* and the scheduler's context is never overwritten, even when SIGUSR2     *)
(* arrives in the middle of a construction or coro_new() is called from    *)
(* inside another coroutine.  And it leaves no trace in the process'       *)
(* signal state: "rollback all global changes" (libcoro.c:237), whatever   *)
(* mask and stack the application had, and the caller finds itself in      *)
(* coro_this().                                                            *)
ConstructedAndRolledBack ==
    /\ \A c \in 1..made : (c < made \/ pc = "user") => ctx[c] = c
    /\ ctx[SCHED] \in {NULL, SCHED}
    /\ pc = "user" => /\ blocked = app.blocked
                      /\ handler = "app"
                      /\ altstack = app.altstack
                      /\ coro_this_ptr = running

(* coro_body() runs only inside the constructor's sigsuspend(), for the    *)
(* structure under construction and on its stack, whenever SIGUSR2 is sent *)
(* (the old handler is back before the signal is unblocked).  Whose signal *)
(* it takes is left open: a SIGUSR2 of the application that is pending     *)
(* when the constructor suspends, because the application had blocked it   *)
(* or it came since, is one with the raised signal and never reaches the   *)
(* application's handler.                                                  *)
BodyOnlyInConstructor ==
    [][(pending /\ ~pending' /\ handler = "coro_body")
          => pc = "suspend" /\ coro_this_ptr = made /\ altstack = made]_vars

(* The constructor cannot hang in sigsuspend(): the raised signal is       *)
(* blocked until then, so it is not lost before the thread sleeps.         *)
ConstructorReturns == (pc = "sigprocmask") ~> (pc = "user")
=============================================================================
