SPECIFICATION Spec
CONSTANTS
    Bot = Bot
    Cli = Cli
    Plan = {p1, p2}
    Period = 2
    Duration = 2
    PanelActs = {"disable", "extend"}
    MaxTime = 3
    MaxEdits = 2
    MaxFaults = 1
INVARIANT TypeOK
INVARIANT OverlayIsNoRenewal
PROPERTY PaidAccessStays
PROPERTY NothingLeftBehind
PROPERTY SuppressedNeverActivated
SYMMETRY Symmetry
CHECK_DEADLOCK FALSE
