\* One robot whose skill changes its mind.
CONSTANTS
    RobotCount = 1
    Goals = {a, b}
    ChangeBound = 2
SPECIFICATION FairSpec
INVARIANT WayPointsFitGoal
PROPERTY PathsCatchUp
