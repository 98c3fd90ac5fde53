SPECIFICATION Spec
CONSTANTS
    MaxJobs = 2
    Goals <- WholeGoals
    RtVersions <- Supported
    MaxVersion = 1
INVARIANTS
    AllNeedsOldClang
    SysrootReadersWait
