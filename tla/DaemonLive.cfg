SPECIFICATION CalmSpec
CONSTANTS
    Iface = {a}
    UpdateInterval = 1
    SaveInterval = 2
    OfflineSaveInterval = 3
    RescanInterval = 2
    SaveOnStatusChange = TRUE
    Day = 1
    MaxBack = 2
    MaxSignals = 1
    None = None
PROPERTIES Refilled StatusFollows WritesResume SleeperStops UpdatesGoOn
