\* The counter is 3 wide, so that it wraps; a whole turn of it can be lost.
\* The stage goes from FIRST_HALF_PRE to FIRST_HALF and back.
CONSTANTS
    Stages = {"FIRST_HALF_PRE"}
    BoxCommands = {"STOP", "NORMAL_START", "PREPARE_KICKOFF_BLUE", "BALL_PLACEMENT_BLUE"}
    CardKinds = {"blueYellow"}
    CardBound = 1
    CounterWidth = 3
    CommandBound = 4
SPECIFICATION FairRefSpec
INVARIANTS RefTypeOK MaskWellFormed OncePerCommand KickAfterNormalStart PlacementTargetIsCurrent
PROPERTY CommandsArrive
