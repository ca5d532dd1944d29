CONSTANTS
    Count = 5
    Powers = {0, 1, 2, 6}
SPECIFICATION FairSpec
INVARIANTS
    PrioritiesAreBoundedDebts
    CycleIsProportional
PROPERTY EveryoneGetsATurn
