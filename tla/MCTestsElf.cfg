SPECIFICATION Spec
CONSTANTS
    SRC_C <- Three
    MaxJobs = 2
    Linux = TRUE
    MaxVersion = 2
INVARIANT ElfOnLinux
