CONSTANTS
    FlowCommands = {"H", "S", " ", "K", "F"}
    Buttons = {}
    WaitCycles = 6
SPECIFICATION FairFlowSpec
PROPERTY PreparationIsKept
