\* Two robots in each other's way.
CONSTANTS
    RobotCount = 2
    Goals = {a}
    ChangeBound = 0
SPECIFICATION FairSpec
INVARIANTS TypeOK ResultsDoNotPileUp
PROPERTY PathsCatchUp
