SPECIFICATION FairSpec
CONSTANTS
    Basic <- MCBasic
    Complex <- MCComplex
    Bits <- MCBits
    S32 = "s32"
    Pointers <- MCPointers
    BasicPointers = {"int*"}
    VoidPtr = "void*"
    LongNames <- MCLongNames
    Undef = "UNDEF"
    Blank = Blank
    MaxArgs = 3
    CWidth <- MCCWidth
    Resolve <- MCResolve
    Diverges = "diverges"
    Archs <- MCArchs
    ArchCalls <- MCArchCalls
    None = None
    Csvs <- AllCsvs
    Requests <- MCRequests
    MaxEdits = 1
    MaxKills = 1
INVARIANTS
    TypeOK
    WholeFilesFaithful
    GuestImportsLink
    RustImportsLink
    OneTornFilePerKill
    FinishedRunIsComplete
    UpdatedDocsAgree
PROPERTIES
    ResolvableRunEnds
    PublishesFiles
