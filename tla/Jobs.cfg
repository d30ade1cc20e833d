\* Two jobs, one slot: queueing, timeout, exit and cancellation in every order.
SPECIFICATION FairSpec
CONSTANTS
    None = None
    j1 = j1
    j2 = j2
    Job <- TwoJobs
    MaxJobs = 1
    MaxOutput = 3
    ChunkSize <- Sizes
INVARIANTS
    TypeOK
    ShellIsGone
    ShellsBounded
    TruncationReported
PROPERTIES
    EveryJobEnds
    CancelIsOver
