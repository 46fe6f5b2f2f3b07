\* The team of Roles.cfg; what the document of the referee asks of a HALT.
CONSTANTS
    Robots = {0, 1}
    GoalieIDs = {0, 2}
    Suspects = {1}
    Zones = {"critical", "front", "far"}
    FullTeam = 1
    PlaySize = 1
    Formation_Defense = 1
    GameStates = {"Halt", "Stop", "TheirDirectKick", "TheirPenaltyKick", "Start"}
SPECIFICATION RolesSpec
INVARIANT HaltMovesNobody
