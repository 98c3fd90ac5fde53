SPECIFICATION Spec
CONSTANTS
    MaxJobs = 2
    Goals <- ToolchainGoals
    RtVersions <- Supported
    MaxVersion = 2
INVARIANTS
    TypeOK
    SuccessMeansCurrent
    RuntimeLibMatchesClang
    FreshSuccessMeansCurrent
