CONSTANTS MaxCoros = 3
          MaxYields = 2
SPECIFICATION Spec
INVARIANTS TypeOK ListWellFormed ContextsAlive ThisIsRunning FreedStacksAreDead
PROPERTIES SwitchOnlyToUnfinished EveryCoroutineReturned ImplementsCoroSched
