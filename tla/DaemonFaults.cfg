SPECIFICATION TimelySpec
CONSTANTS
    Iface = {a, b}
    UpdateInterval = 1
    SaveInterval = 1
    OfflineSaveInterval = 2
    RescanInterval = 2
    SaveOnStatusChange = TRUE
    Day = 1
    MaxBack = 0
    MaxSignals = 1
    None = None
SYMMETRY Interfaces
INVARIANTS DbCount GoodFile NoResurrection
