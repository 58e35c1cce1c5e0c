CONSTANTS MaxCoros = 3
          MaxSignals = 3
SPECIFICATION Spec
INVARIANT ConstructedAndRolledBack
PROPERTIES BodyOnlyInConstructor ConstructorReturns
