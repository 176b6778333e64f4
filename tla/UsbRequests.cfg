SPECIFICATION RequestsSpec
CONSTANT
    Platforms = {
        {"dynamic", "id", "vbus", "data", "pullup"},
        {"id", "vbus", "data", "notify", "pullup"},
        {"dynamic", "notify"},
        {"id", "vbus"}}
INVARIANTS
    RequestsTypeOK
    ReportsAreTrue
    ModeExplained
