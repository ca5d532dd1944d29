CONSTANTS
    a = a
    b = b
    c = c
    x = x
    Signers = {a, b, c, x}
    Validators <- ThreeValidators
    span_size = 3
    MaxBlock = 4
    MaxStored = 5
    MaxTime = 4
    MaxWait = 2
    MAX_FUTURE_BLOCK_TIME = 1
SPECIFICATION Spec
INVARIANTS
    NoDoubleSignOnBranch
    RecentsAreBranchTail
    SiblingsDiffer
    EveryBranchGrows
    ChainWithinClock
    RootBindsRange
PROPERTY VerdictsStand
