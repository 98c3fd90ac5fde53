SPECIFICATION Spec
CONSTANTS
    Tomls <- AllTomls
    None = None
    MaxEdits = 2
    MaxKills = 2
INVARIANTS
    TypeOK
    ToolchainsAgree
PROPERTIES
    PublishesFiles
