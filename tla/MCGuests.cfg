SPECIFICATION FairSpec
CONSTANTS
    Programs <- AllPrograms
    NumIts = 15
    MsgLen = 20
    Off = 7
    FirstByte = 65
    ByteSize = 256
    N = 6
    Procs = {"a", "b", "c"}
    TextLen <- MCTextLen
    AlarmTime = 3
    UnblockAt = 10
    Rounds = 18
    FirstAlarm = 2
    SecondAlarm = 3
    Patience = 9
    MaxSends = 5
INVARIANTS
    TypeOK
    EchoesWhatWasSent
    LateInitOnlyRisk
    LastCloserWins
    AlarmsKillOnTime
    HangupsWake
PROPERTY
    ProgramsEnd
CHECK_DEADLOCK FALSE
