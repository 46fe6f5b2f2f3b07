\* Two cameras that see the same part of the field.
CONSTANTS
    Cameras = {0, 1}
    BallPlaces = {p, q}
    RobotPlaces = {p}
    RobotAge = 1
    BallAge = 0
    MaxObject = 2
    RobotBlindness = 2
    BallBlindness = 2
    Scenes = {{"BLUE"}, {"ball"}}
SPECIFICATION FairVisionSpec
INVARIANTS
    VisionTypeOK AddressIsTried
PROPERTIES
    NoDoubleTrack SeenBallsAreKept GoneIsInactive OursAreOurs BallIsFound ProgramEnds
CHECK_DEADLOCK FALSE
