SPECIFICATION FairSpec
CONSTANTS
    Bot = Bot
    Cli = Cli
    Plan = {p1}
    Period = 2
    Duration = 2
    PanelActs = {"disable", "replan"}
    MaxTime = 3
    MaxEdits = 1
    MaxFaults = 1
PROPERTY SessionsEnd
CHECK_DEADLOCK FALSE
