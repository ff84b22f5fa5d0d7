SPECIFICATION SteadySpec
CONSTANTS
    Iface = {a, b}
    UpdateInterval = 2
    SaveInterval = 3
    OfflineSaveInterval = 5
    RescanInterval = 3
    SaveOnStatusChange = TRUE
    Day = 1
    MaxBack = 0
    MaxSignals = 2
    None = None
SYMMETRY Interfaces
INVARIANTS TypeOK Fresh EnableSaved
