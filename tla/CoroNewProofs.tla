--------------------------- MODULE CoroNewProofs ---------------------------
(***************************************************************************)
(* Proofs about CoroNew, for any number of coroutines and of signals: the  *)
(* constructor makes what Libcoro takes for granted and leaves no trace,   *)
(* and coro_body() runs at the one place where it may.                     *)
(***************************************************************************)
EXTENDS CoroNew, TLAPS

(* The phases of coro_new(), by what it has changed and not yet restored.  *)
MaskIsApps == {"user", "sigprocmask"}
HandlerIsApps == MaskIsApps \cup {"sigaction", "restore_mask"}
StackIsApps == HandlerIsApps \cup {"sigaltstack", "restore_handler"}
Entered == {"raise", "suspend"}
Made == {"user", "leave", "disable", "restore_stack", "restore_handler", "restore_mask"}

(* The signal state is the application's, or the constructor's.            *)
SignalState ==
    /\ blocked = IF pc \in MaskIsApps THEN app.blocked ELSE TRUE
    /\ handler = IF pc \in HandlerIsApps THEN "app" ELSE "coro_body"
    /\ altstack = IF pc \in StackIsApps THEN app.altstack
                  ELSE IF pc = "restore_stack" THEN Disabled ELSE made

(* What it has to restore is in its locals.                                *)
Saved ==
    /\ pc \notin MaskIsApps => olds = app.blocked
    /\ pc \notin MaskIsApps \cup {"sigaction"} => oldsa = "app"
    /\ pc \notin MaskIsApps \cup {"sigaction", "sigaltstack"} => oldst = app.altstack
    /\ pc \in Entered \cup {"leave"} => old_this = running

(* Who coro_this_ptr is, and where coro_body() will jump to.               *)
Switching ==
    /\ coro_this_ptr = IF pc \in Entered THEN made ELSE IF pc = "leave" THEN NULL ELSE running
    /\ pc \in Entered => start_point = [stack |-> running, blocked |-> TRUE]
    /\ pc # "user" => made > 0

OwnContexts ==
    /\ \A c \in 1..made : (c < made \/ pc \in Made) => ctx[c] = c
    /\ ctx[SCHED] \in {NULL, SCHED}

IInv == TypeOK /\ SignalState /\ Saved /\ Switching /\ OwnContexts

-----------------------------------------------------------------------------
(* The invariant holds at the start, whatever the application has set up.  *)
LEMMA InitInvariant == Init => IInv
<1> SUFFICES ASSUME Init PROVE IInv
  OBVIOUS
<1> USE CoroNewAssumption DEF CoroNewAssumption, Init
<1>1. TypeOK
  <2>1. blocked \in BOOLEAN /\ altstack \in AltStacks
    BY DEF AltStacks
  <2>2. start_point \in [stack : Stacks \cup {NULL}, blocked : BOOLEAN]
    OBVIOUS
  <2>3. ctx \in [Stacks -> Stacks \cup {NULL, AppStack}]
    OBVIOUS
  <2>4. /\ handler \in Handlers /\ pc \in Steps /\ pc # "leave"
        /\ coro_this_ptr \in Stacks /\ running \in Stacks
        /\ oldsa \in Handlers /\ oldst \in AltStacks
    BY DEF Handlers, AltStacks, Steps, Stacks
  <2>5. sent \in 0..MaxSignals /\ made \in 0..MaxCoros
    OBVIOUS
  <2>6. pending \in BOOLEAN /\ olds \in BOOLEAN /\ old_this \in Stacks \cup {NULL}
    OBVIOUS
  <2>7. app \in [blocked : BOOLEAN, altstack : {Disabled, AppStack}]
    OBVIOUS
  <2> HIDE DEF Init
  <2> QED
    BY <2>1, <2>2, <2>3, <2>4, <2>5, <2>6, <2>7 DEF TypeOK
<1>2. SignalState /\ Saved /\ Switching
  BY DEF SignalState, Saved, Switching, MaskIsApps, HandlerIsApps, StackIsApps, Entered
<1>3. OwnContexts
  BY DEF OwnContexts, Stacks, SCHED, NULL
<1> QED
  BY <1>1, <1>2, <1>3 DEF IInv

(* coro_body() runs only in the sigsuspend(): everywhere else where it is  *)
(* the handler, the signal is blocked.                                     *)
LEMMA BodyInSuspend ==
    ASSUME IInv, Deliverable, handler = "coro_body"
    PROVE  pc = "suspend"
  BY DEF IInv, TypeOK, SignalState, Deliverable, MaskIsApps, HandlerIsApps

(* A delivered signal keeps the invariant.                                 *)
LEMMA DeliverStep == IInv /\ Deliver => IInv'
<1> SUFFICES ASSUME IInv, Deliver PROVE IInv'
  OBVIOUS
<1> USE CoroNewAssumption DEF CoroNewAssumption, IInv
<1>1. CASE handler = "coro_body"
  <2>1. pc = "suspend" /\ coro_body
    BY <1>1, BodyInSuspend DEF Deliver
  <2>2. /\ coro_this_ptr = made /\ altstack = made /\ made \in Coros
        /\ start_point = [stack |-> running, blocked |-> TRUE] /\ made # Disabled
    BY <2>1 DEF SignalState, Switching, TypeOK, Entered, MaskIsApps, HandlerIsApps,
                StackIsApps, Coros, Disabled
  <2>3. /\ pc' = "leave" /\ running' = running /\ blocked' = TRUE
        /\ coro_this_ptr' = NULL /\ pending' = FALSE
        /\ ctx' = [ctx EXCEPT ![made] = made]
        /\ UNCHANGED <<handler, altstack, sent, start_point, made, locals, app>>
    BY <2>1, <2>2 DEF coro_body
  <2>4. TypeOK'
    BY <2>2, <2>3 DEF TypeOK, locals, Stacks, Steps, NULL
  <2>5. SignalState' /\ Saved' /\ Switching'
    BY <2>1, <2>2, <2>3 DEF SignalState, Saved, Switching, MaskIsApps, HandlerIsApps,
                            StackIsApps, Entered, locals
  <2>6. OwnContexts'
    <3>1. \A c \in 1..made : c \in Stacks /\ (c = made \/ ctx'[c] = ctx[c])
      BY <2>2, <2>3 DEF TypeOK, Stacks, Coros
    <3>2. ctx'[made] = made /\ ctx'[SCHED] = ctx[SCHED]
      BY <2>2, <2>3 DEF TypeOK, Stacks, Coros, SCHED
    <3>3. \A c \in 1..made : ctx'[c] = c
      BY <2>1, <3>1, <3>2, <2>2 DEF OwnContexts, TypeOK
    <3> QED
      BY <2>3, <3>2, <3>3 DEF OwnContexts
  <2> QED
    BY <2>4, <2>5, <2>6
<1>2. CASE handler # "coro_body"
  <2> USE <1>2 DEF Deliver, locals
  <2>1. TypeOK'
    BY DEF TypeOK
  <2>2. SignalState' /\ Saved'
    BY DEF SignalState, Saved
  <2>3. Switching' /\ OwnContexts'
    BY DEF Switching, OwnContexts
  <2> QED
    BY <2>1, <2>2, <2>3
<1> QED
  BY <1>1, <1>2

(* The steps of coro_new() that change the signal state keep the           *)
(* invariant.                                                              *)
LEMMA SignalSteps ==
    IInv /\ (\/ BlockSignal \/ SetHandler \/ SetStack \/ DisableStack \/ RestoreStack
             \/ RestoreHandler \/ RestoreMask \/ SignalArrives \/ Raise) => IInv'
<1> SUFFICES ASSUME IInv,
                    \/ BlockSignal \/ SetHandler \/ SetStack \/ DisableStack \/ RestoreStack
                    \/ RestoreHandler \/ RestoreMask \/ SignalArrives \/ Raise
             PROVE  IInv'
  OBVIOUS
<1> USE CoroNewAssumption DEF CoroNewAssumption, IInv, At, sigstate, locals, MaskIsApps,
        HandlerIsApps, StackIsApps, Entered
<1>1. OwnContexts'
  BY DEF OwnContexts, Made, BlockSignal, SetHandler, SetStack, DisableStack, RestoreStack,
         RestoreHandler, RestoreMask, SignalArrives, Raise
<1>2. Switching'
  BY DEF Switching, BlockSignal, SetHandler, SetStack, DisableStack, RestoreStack,
         RestoreHandler, RestoreMask, SignalArrives, Raise
<1>3. Saved'
  BY DEF Saved, SignalState, BlockSignal, SetHandler, SetStack, DisableStack, RestoreStack,
         RestoreHandler, RestoreMask, SignalArrives, Raise
<1>4. SignalState'
  BY DEF Saved, SignalState, BlockSignal, SetHandler, SetStack, DisableStack, RestoreStack,
         RestoreHandler, RestoreMask, SignalArrives, Raise
<1>5. TypeOK'
  <2>1. CASE SetStack
    <3>1. made \in Coros
      BY <2>1 DEF SetStack, Switching, TypeOK, Coros
    <3> QED
      BY <2>1, <3>1 DEF SetStack, TypeOK, AltStacks, Steps
  <2>2. CASE BlockSignal \/ SetHandler \/ Raise
    BY <2>2 DEF BlockSignal, SetHandler, Raise, TypeOK, Handlers, Steps
  <2>3. CASE DisableStack \/ RestoreStack
    BY <2>3 DEF DisableStack, RestoreStack, TypeOK, AltStacks, Steps
  <2>4. CASE RestoreHandler \/ RestoreMask
    BY <2>4 DEF RestoreHandler, RestoreMask, TypeOK, Steps
  <2>5. CASE SignalArrives
    BY <2>5 DEF SignalArrives, TypeOK
  <2> QED
    BY <2>1, <2>2, <2>3, <2>4, <2>5
<1> QED
  BY <1>1, <1>2, <1>3, <1>4, <1>5

(* So do the call, and the steps that set coro_this_ptr.                   *)
LEMMA ThisSteps == IInv /\ (Call \/ Enter \/ Leave \/ SwitchStack) => IInv'
<1> SUFFICES ASSUME IInv, Call \/ Enter \/ Leave \/ SwitchStack PROVE IInv'
  OBVIOUS
<1> USE CoroNewAssumption DEF CoroNewAssumption, IInv, At, sigstate, locals, MaskIsApps,
        HandlerIsApps, StackIsApps, Entered
<1>1. CASE Call
  <2>1. TypeOK'
    BY <1>1 DEF Call, TypeOK, Steps
  <2>2. SignalState' /\ Saved' /\ Switching'
    BY <1>1 DEF Call, SignalState, Saved, Switching, TypeOK
  <2>3. OwnContexts'
    BY <1>1 DEF Call, OwnContexts, Made, TypeOK
  <2> QED
    BY <2>1, <2>2, <2>3
<1>2. CASE Enter
  <2>1. made \in Coros /\ running \in Stacks /\ coro_this_ptr = running /\ blocked
    BY <1>2 DEF Enter, Switching, SignalState, TypeOK, Coros
  <2>2. TypeOK'
    BY <1>2, <2>1 DEF Enter, TypeOK, Steps, Stacks
  <2>3. SignalState' /\ Saved' /\ Switching'
    BY <1>2, <2>1 DEF Enter, SignalState, Saved, Switching
  <2>4. OwnContexts'
    BY <1>2 DEF Enter, OwnContexts, Made
  <2> QED
    BY <2>2, <2>3, <2>4
<1>3. CASE Leave
  <2>1. old_this = running /\ running \in Stacks
    BY <1>3 DEF Leave, Saved, TypeOK
  <2>2. TypeOK'
    BY <1>3, <2>1 DEF Leave, TypeOK, Steps
  <2>3. SignalState' /\ Saved' /\ Switching'
    BY <1>3, <2>1 DEF Leave, SignalState, Saved, Switching
  <2>4. OwnContexts'
    BY <1>3 DEF Leave, OwnContexts, Made
  <2> QED
    BY <2>2, <2>3, <2>4
<1>4. CASE SwitchStack
  <2>1. PICK s \in (1..made) \cup {SCHED} : running' = s /\ coro_this_ptr' = s
    BY <1>4 DEF SwitchStack
  <2>2. s \in Stacks /\ ctx' = [ctx EXCEPT ![running] = running] /\ running \in Stacks
    BY <1>4, <2>1 DEF SwitchStack, TypeOK, Stacks, Coros
  <2>3. UNCHANGED <<sigstate, sent, start_point, made, pc, locals, app>> /\ pc = "user"
    BY <1>4 DEF SwitchStack
  <2>4. TypeOK'
    BY <2>1, <2>2, <2>3 DEF TypeOK
  <2>5. SignalState' /\ Saved' /\ Switching'
    BY <2>1, <2>2, <2>3 DEF SignalState, Saved, Switching
  <2>6. OwnContexts'
    <3>1. \A t \in Stacks : ctx'[t] = IF t = running THEN running ELSE ctx[t]
      BY <2>2 DEF TypeOK
    <3>2. \A c \in 1..made : c \in Stacks
      BY DEF TypeOK, Stacks, Coros
    <3>3. SCHED \in Stacks
      BY DEF Stacks
    <3> QED
      BY <2>3, <3>1, <3>2, <3>3 DEF OwnContexts
  <2> QED
    BY <2>4, <2>5, <2>6
<1> QED
  BY <1>1, <1>2, <1>3, <1>4

(* The invariant is inductive.                                             *)
LEMMA NextInvariant == IInv /\ [Next]_vars => IInv'
<1>1. ASSUME IInv, UNCHANGED vars PROVE IInv'
  <2> USE <1>1 DEF vars, sigstate, locals, IInv
  <2>1. TypeOK'
    BY DEF TypeOK
  <2>2. SignalState' /\ Saved'
    BY DEF SignalState, Saved
  <2>3. Switching' /\ OwnContexts'
    BY DEF Switching, OwnContexts
  <2> QED
    BY <2>1, <2>2, <2>3
<1> QED
  BY <1>1, DeliverStep, SignalSteps, ThisSteps DEF Next, coro_new

(* The invariant holds in every behaviour.                                 *)
LEMMA Inductive == Spec => []IInv
  BY InitInvariant, NextInvariant, PTL DEF Spec

(* Every coroutine constructed so far has its context on its own stack,    *)
(* and coro_new() leaves mask, handler, alternative stack and              *)
(* coro_this_ptr as it found them, wherever SIGUSR2 arrives.               *)
THEOREM CoroNewRollsBack == Spec => []ConstructedAndRolledBack
<1>1. IInv => ConstructedAndRolledBack
  BY DEF IInv, SignalState, Switching, OwnContexts, Made, MaskIsApps, HandlerIsApps,
         StackIsApps, Entered, ConstructedAndRolledBack
<1> QED
  BY <1>1, Inductive, PTL

(* coro_body() runs only inside the constructor's sigsuspend(), for the    *)
(* structure under construction and on its stack, whoever sent the signal. *)
THEOREM CoroNewBodyInConstructor == Spec => BodyOnlyInConstructor
<1> DEFINE Taken == pending /\ ~pending' /\ handler = "coro_body"
           Place == pc = "suspend" /\ coro_this_ptr = made /\ altstack = made
<1>1. IInv /\ [Next]_vars => (Taken => Place)
  <2> SUFFICES ASSUME IInv, [Next]_vars, Taken PROVE Place
    OBVIOUS
  <2>1. Deliver
    BY DEF Next, vars, sigstate, coro_new, SignalArrives, Call, BlockSignal, SetHandler,
           SetStack, Enter, Raise, Leave, DisableStack, RestoreStack, RestoreHandler,
           RestoreMask, SwitchStack
  <2>2. pc = "suspend"
    BY <2>1, BodyInSuspend DEF Deliver
  <2> QED
    BY <2>2 DEF IInv, SignalState, Switching, Entered, MaskIsApps, HandlerIsApps, StackIsApps
<1> QED
  BY <1>1, Inductive, PTL DEF Spec, BodyOnlyInConstructor
=============================================================================
