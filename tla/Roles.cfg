\* Two robots, one of whom may be asked to keep the goal, or one not there.
CONSTANTS
    Robots = {0, 1}
    GoalieIDs = {0, 2}
    Suspects = {1}
    Zones = {"critical", "front", "far"}
    FullTeam = 1
    PlaySize = 1
    Formation_Defense = 1
    GameStates = {"Halt", "Stop", "TheirDirectKick", "TheirPenaltyKick", "Start"}
SPECIFICATION FairRolesSpec
INVARIANTS
    RolesTypeOK NobodyIsForgotten HaltMovesLostGoalieOnly
PROPERTIES
    OnlyKeptOnesClash TransientEnds PlayMakerAppears
