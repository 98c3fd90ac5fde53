SPECIFICATION Spec
CONSTANTS
    Tomls <- OneToml
    None = None
    MaxEdits = 0
    MaxKills = 0
    MaxAborts = 2
INVARIANTS
    TypeOK
    EntriesAreRunnable
    SuccessMeansRegistered
    PermanentIsPermanent
