CONSTANTS
    Networks <- SmallNetworks
    Schedules <- SmallSchedules
    Heads = {73100, 33000000}
    MaxTd = 1
SPECIFICATION FairSpec
INVARIANTS
    AcceptedAreOurKind
    RejectionsAreReal
    SplitOnlyByFork
    PeersShareEthereumForks
PROPERTY HandshakeEnds
