\* The timeout of a job whose shell has left a child behind.
SPECIFICATION Spec
CONSTANTS
    None = None
    j1 = j1
    j2 = j2
    Job <- TwoJobs
    MaxJobs = 1
    MaxOutput = 3
    ChunkSize <- Sizes
INVARIANTS
    TimeoutKillsGroup
