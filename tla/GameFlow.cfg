\* The referee, a joystick, and commands that the coach sees only the last of.
CONSTANTS
    FlowCommands = {"H", "S", " ", "K", "P", "F", "B", "h"}
    Buttons = {2}
    WaitCycles = 2
SPECIFICATION FairFlowSpec
INVARIANTS
    FlowTypeOK PlayFitsRestart ModeOutlivesKickInHaltOnly StartIsWhole
    PlanIsOfThisRestart GoesOnOnlyWhenChosen
PROPERTIES
    RestartsAreSeparated ForceStartIsEarned FinishedRestartEnds
