\* cancel() of a job that has no slot yet.
SPECIFICATION Spec
CONSTANTS
    None = None
    j1 = j1
    j2 = j2
    Job <- TwoJobs
    MaxJobs = 1
    MaxOutput = 3
    ChunkSize <- Sizes
INVARIANTS
    CancelIsReported
