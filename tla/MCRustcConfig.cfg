SPECIFICATION Spec
CONSTANTS
    TreeOf <- TreeAB
    TargetOf <- TargetAB
    LlvmOf <- LlvmAB
    Host = "Host"
    Scripts = {"a", "b"}
    Before <- UserFiles
    MaxKills = 1
INVARIANTS
    TypeOK
    UserSettingsSurvive
    PrivateSettingsSurvive
    DoneMeansConfigured
