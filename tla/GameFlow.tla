------------------------------ MODULE GameFlow ------------------------------
(***************************************************************************)
(* One main-loop cycle of the AI above the referee state machine:          *)
(* CKnowledge::updateGameState, CCoach::checkTransitionToForceStart and    *)
(* CCoach::decideAttack with the decide functions it calls.                *)
(*                                                                         *)
(* The referee's packets, the operator's buttons and the main loop all run *)
(* in the thread of CSoccer::run: commands are given to GameState by       *)
(* processEvents, between two cycles, never inside one.  A cycle may come  *)
(* after each command or after any number of them: the coach does not run  *)
(* in the first 50 frames nor while the operator drives a robot by hand.   *)
(*                                                                         *)
(* The plays are reduced to what the coach reads of them, playOnFlag, and  *)
(* the ball to whether it moved 5 cm in ten frames.  The team's colour is  *)
(* chosen before the game.                                                 *)
(***************************************************************************)
EXTENDS GameState

CONSTANTS
    FlowCommands,       \* the commands given in this instance
    Buttons,            \* the joystick's buttons in use, of {2, 3, 4}
    WaitCycles          \* the cycles that a finished play-off waits: 6 in the code

ASSUME FlowAssumption ==
    /\ FlowCommands \subseteq Commands
    /\ Buttons \subseteq {2, 3, 4}
    /\ WaitCycles \in Nat

VARIABLES
    gamestate, gameMode,    \* of CKnowledge
    cyclesWaitAfterballMoved,
    selectedPlay, firstTime,
    playOnFlag,             \* the member of the plays that write it, by play
    deleted,                \* CPlayOff::deleted
    masterMode,             \* of CPlayOff: a static play, or a dynamic or first one
    masterPlan,             \* of CPlayOff: NULL ("none"), or a plan picked in
                            \* "this" restart or in an "old" one
    pending,                \* a command came since the last cycle
    chosen,                 \* history: initPlayOffMode has run since the last
                            \* reset, in "this" restart or an "old" one, or not
    settled,                \* history: the coach has been through a Stop or Halt
    seen,                   \* history: see Observed
    planOver,               \* history: the play-off ended in this restart
    movedFor                \* history: cycles since the ball moved in it

coachVars == <<gamestate, gameMode, cyclesWaitAfterballMoved, selectedPlay,
               firstTime, playOnFlag, deleted, masterMode>>
planVars == <<masterPlan, chosen>>
historyVars == <<settled, seen, planOver, movedFor>>
flowVars == <<gsVars, coachVars, planVars, pending, historyVars>>

Plays == {"ourPlayOff", "ourPenalty", "stopPlay", "dynamicAttack", "otherPlay"}
FlagWriters == {"ourPlayOff", "ourPenalty"}
MasterModes == {"static", "other"}
Times == {"none", "this", "old"}

OurState == [KICKOFF |-> "OurKickOff", PENALTY |-> "OurPenaltyKick",
             DIRECT |-> "OurDirectKick", INDIRECT |-> "OurIndirectKick",
             BALLPLACEMENT |-> "OurBallPlacement"]
TheirState == [KICKOFF |-> "TheirKickOff", PENALTY |-> "TheirPenaltyKick",
               DIRECT |-> "TheirDirectKick", INDIRECT |-> "TheirIndirectKick",
               BALLPLACEMENT |-> "TheirBallPlacement"]

OurKicks == {"OurKickOff", "OurDirectKick", "OurIndirectKick"}
TheirKicks == {"TheirKickOff", "TheirDirectKick", "TheirIndirectKick", "TheirPenaltyKick"}

(***************************************************************************)
(* The counter is compared with 0 and WaitCycles only: it saturates above  *)
(* them, and -1 stands for every negative number.  The constructor of      *)
(* CCoach assigns neither it nor firstTime nor selectedPlay, and of the    *)
(* plays only the play-off initialises its flag, and not its mode.         *)
(***************************************************************************)
CycleCap == WaitCycles + 1
Tick(n) == IF n < CycleCap THEN n + 1 ELSE n

FlowInit ==
    /\ GSInit
    /\ gamestate = "Stop" /\ gameMode = "Stop"
    /\ cyclesWaitAfterballMoved \in {-1, 0, CycleCap}
    /\ selectedPlay = "unassigned" /\ firstTime \in BOOLEAN
    /\ playOnFlag \in {f \in [FlagWriters -> BOOLEAN] : ~f["ourPlayOff"]}
    /\ deleted \in BOOLEAN
    /\ masterMode \in MasterModes /\ masterPlan = "none" /\ chosen = "none"
    /\ pending = FALSE /\ settled = FALSE /\ seen = FALSE
    /\ planOver = FALSE /\ movedFor = 0

-----------------------------------------------------------------------------
(* What was picked in a restart is old when the next one begins. *)
Aged(t) == IF t = "this" THEN "old" ELSE t

(* A command of the referee (CSoccer::refUpdate) or of the operator.       *)
RefCommand(c) ==
    /\ pending' = TRUE
    /\ Transition(c)
    /\ seen' = (seen /\ ~pending)
    /\ IF restart(state') /\ ~restart(state)
       THEN masterPlan' = Aged(masterPlan) /\ chosen' = Aged(chosen)
       ELSE UNCHANGED planVars
    /\ IF restart(state) /\ restart(state') /\ seen'
       THEN UNCHANGED <<planOver, movedFor>>
       ELSE planOver' = FALSE /\ movedFor' = 0
    /\ UNCHANGED <<coachVars, settled>>

-----------------------------------------------------------------------------
(***************************************************************************)
(* CKnowledge::updateGameState, with the joystick button b (0 for none).   *)
(* Buttons 4 and 3 give a command and leave gamestate as it is.            *)
(***************************************************************************)
AfterJoystick(s, b) ==
    IF gameOn(s) THEN s
    ELSE IF b = 4 THEN NextState(s, COMM_HALT)
    ELSE IF b = 3 THEN NextState(s, COMM_STOP)
    ELSE s

StateOfRestart(s, kind) ==
    IF color \notin s THEN TheirState[kind]
    ELSE IF canKickBall(s) /\ kind \in {"KICKOFF", "PENALTY"} THEN "NormalStart"
    ELSE OurState[kind]

StateOfMask(s) ==
    IF ~canMove(s) THEN "Halt"
    ELSE IF restart(s) THEN StateOfRestart(s, CHOOSE k \in RestartFlags : k \in s)
    ELSE IF halfTimeLineUp(s) THEN "HalfTimeLineUp"
    ELSE "Stop"

SeenState(s, b) ==
    IF gameOn(s) THEN "Start"
    ELSE IF b \in {3, 4} THEN gamestate
    ELSE IF b = 2 THEN "OurIndirectKick"
    ELSE StateOfMask(s)

(* a NormalStart goes on with our kick, if it follows one that was prepared *)
KickBefore(old) == IF old \in {"OurPenaltyKick", "OurKickOff"} THEN old ELSE "Start"

(* Plausible bugs: a Stop keeps the mode of the kick before it; a Start    *)
(* remembers the kick, as lines left in a comment did; a NormalStart does  *)
(* not.                                                                    *)
NextModeStopKeeps(old, new, mode) ==
    IF old = new THEN mode
    ELSE IF new = "NormalStart" THEN KickBefore(old)
    ELSE IF new = "Start" THEN new
    ELSE mode

NextModeRemembers(old, new, mode) ==
    IF old = new THEN mode
    ELSE IF new = "NormalStart" THEN KickBefore(old)
    ELSE IF new = "Start" /\ old \in {"OurIndirectKick", "OurDirectKick"} THEN old
    ELSE IF new \in {"Start", "Stop"} THEN new
    ELSE mode

NextModeForgets(old, new, mode) ==
    IF old # new /\ new \in {"Start", "Stop"} THEN new ELSE mode

NextMode(old, new, mode) ==
    IF old = new THEN mode
    ELSE IF new = "NormalStart" THEN KickBefore(old)
    ELSE IF new \in {"Start", "Stop"} THEN new
    ELSE mode

(***************************************************************************)
(* CCoach::checkTransitionToForceStart: the counter of the cycles since    *)
(* the ball moved, and whether the coach starts the game by itself, when   *)
(* knowledge says k and m.                                                 *)
(***************************************************************************)
isOurNonPlayOnKick(k, m) ==
    \/ k \in OurKicks \cup {"OurPenaltyKick"}
    \/ m \in {"OurKickOff", "OurPenaltyKick"}

(* a plausible bug: the counter stands still once it has started *)
WaitedStuck(k, m, moved) ==
    IF cyclesWaitAfterballMoved # 0 THEN cyclesWaitAfterballMoved
    ELSE IF (k # "Start" \/ m # "Start") /\ moved THEN 1
    ELSE 0

Waited(k, m, moved) ==
    IF k = "Start" /\ m = "Start" THEN cyclesWaitAfterballMoved
    ELSE IF cyclesWaitAfterballMoved # 0 THEN Tick(cyclesWaitAfterballMoved)
    ELSE IF moved THEN 1
    ELSE 0

(* the flag of a play that never writes it is what the memory held *)
FlagOf(play) == IF play \in FlagWriters THEN {playOnFlag[play]} ELSE BOOLEAN

ForceStart(k, m, waited, flag) ==
    \/ isOurNonPlayOnKick(k, m) /\ waited > WaitCycles /\ flag
    \/ k \in TheirKicks /\ waited > 0

-----------------------------------------------------------------------------
(***************************************************************************)
(* The decide functions of the coach, when knowledge says k and m, and the *)
(* execution of the play they select.  Each assigns decideVars.            *)
(***************************************************************************)

(* a plausible bug: the reset forgets the stages of the plan and keeps it *)
ResetPlayOffKeepsPlan ==
    /\ deleted' = TRUE /\ UNCHANGED masterPlan
    /\ chosen' = IF deleted THEN chosen ELSE "none"

(* ourPlayOff->reset() unless it is deleted already *)
ResetPlayOff ==
    /\ deleted' = TRUE
    /\ IF deleted THEN UNCHANGED planVars
       ELSE masterPlan' = "none" /\ chosen' = "none"

(* a plausible bug: the play-off is marked deleted and keeps its flag *)
FlagAfterResetKept == playOnFlag

FlagAfterReset == [playOnFlag EXCEPT !["ourPlayOff"] = deleted /\ @]

(* what decideHalt and decideStop share, and a bug of it *)
ClearRestartKeepsFirstTime ==
    /\ UNCHANGED firstTime
    /\ cyclesWaitAfterballMoved' = 0
    /\ ResetPlayOff /\ playOnFlag' = FlagAfterReset
    /\ settled' = TRUE /\ UNCHANGED masterMode

ClearRestart ==
    /\ firstTime' = TRUE
    /\ cyclesWaitAfterballMoved' = 0
    /\ ResetPlayOff /\ playOnFlag' = FlagAfterReset
    /\ settled' = TRUE /\ UNCHANGED masterMode

decideHalt(k) ==
    /\ k = "Halt"
    /\ ClearRestart
    /\ UNCHANGED selectedPlay

decideStop(k) ==
    /\ k \in {"Stop", "TheirBallPlacement"}
    /\ ClearRestart
    /\ selectedPlay' = "stopPlay"

(***************************************************************************)
(* initPlayOffMode, and what decidePlayOff does around it: a static play   *)
(* takes a plan, or leaves the one it had when no plan is valid; firstTime *)
(* is kept while a FirstPlay goes on, one of the other modes.              *)
(***************************************************************************)
initStaticPlay == masterPlan' \in {masterPlan, "this"}

initPlayOffMode ==
    /\ chosen' = "this"
    /\ \/ masterMode' = "static" /\ firstTime' = FALSE /\ initStaticPlay
       \/ masterMode' = "other" /\ firstTime' \in BOOLEAN /\ UNCHANGED masterPlan

(***************************************************************************)
(* decideOurKickOff, decideOurDirect and decideOurIndirect: decidePlayOff  *)
(* chooses when firstTime says so and goes on otherwise (setPlayOff).  The *)
(* play may end while it is executed, but not a static one in the first    *)
(* cycle after a reset, which lays its robots out or has no plan.          *)
(***************************************************************************)
KickOffGoesOn(k, m) == k = "NormalStart" /\ m = "OurKickOff"

decideOurKick(k, m, waited, ends) ==
    /\ k \in OurKicks \/ KickOffGoesOn(k, m)
    /\ selectedPlay' = "ourPlayOff"
    /\ deleted' = FALSE
    /\ IF firstTime
       THEN initPlayOffMode /\ (ends /\ chosen = "none" => masterMode' = "other")
       ELSE UNCHANGED <<firstTime, masterMode, planVars>>
    /\ playOnFlag' = [playOnFlag EXCEPT !["ourPlayOff"] = @ \/ ends]
    /\ cyclesWaitAfterballMoved' = waited
    /\ UNCHANGED settled

decideTheirKick(k, waited) ==
    /\ k \in TheirKicks
    /\ selectedPlay' = "otherPlay"
    /\ firstTime' = TRUE
    /\ cyclesWaitAfterballMoved' = waited
    /\ UNCHANGED <<playOnFlag, deleted, masterMode, planVars, settled>>

(* the penalty play writes its flag in a shootout only *)
decideOurPenalty(k, m, waited) ==
    /\ k = "OurPenaltyKick" \/ (k = "NormalStart" /\ m = "OurPenaltyKick")
    /\ selectedPlay' = "ourPenalty"
    /\ firstTime' = TRUE
    /\ playOnFlag' = [playOnFlag EXCEPT !["ourPenalty"] = @ /\ ~penalty_shootout]
    /\ cyclesWaitAfterballMoved' = waited
    /\ UNCHANGED <<deleted, masterMode, planVars, settled>>

decideStart(k, waited) ==
    /\ k = "Start"
    /\ selectedPlay' = IF penalty_shootout THEN "otherPlay" ELSE "dynamicAttack"
    /\ cyclesWaitAfterballMoved' = waited
    /\ UNCHANGED <<firstTime, playOnFlag, deleted, masterMode, planVars, settled>>

(* resets the play-off, calls it deleted, and executes it without a plan *)
decideNormalStart(k, m, waited, ends) ==
    /\ k = "NormalStart" /\ m \notin {"OurKickOff", "OurPenaltyKick"}
    /\ selectedPlay' = "ourPlayOff"
    /\ firstTime' = TRUE
    /\ ResetPlayOff
    /\ ends => masterMode = "other"
    /\ playOnFlag' = [FlagAfterReset EXCEPT !["ourPlayOff"] = @ \/ ends]
    /\ cyclesWaitAfterballMoved' = waited
    /\ UNCHANGED <<masterMode, settled>>

(* decideOurBallPlacement and decideHalfTimeLineUp *)
decidePlacementOrHalfTime(k, waited) ==
    /\ k \in {"OurBallPlacement", "HalfTimeLineUp"}
    /\ selectedPlay' = "otherPlay"
    /\ cyclesWaitAfterballMoved' = waited
    /\ UNCHANGED <<firstTime, playOnFlag, deleted, masterMode, planVars, settled>>

decideAttack(k, m, waited, ends) ==
    \/ decideHalt(k)
    \/ decideStop(k)
    \/ decideOurKick(k, m, waited, ends)
    \/ decideTheirKick(k, waited)
    \/ decideOurPenalty(k, m, waited)
    \/ decideStart(k, waited)
    \/ decideNormalStart(k, m, waited, ends)
    \/ decidePlacementOrHalfTime(k, waited)

(* CHalftimeLineup gives COMM_HALT in the cycle after its robots are in line *)
AfterPlay(k, s) ==
    IF k = "HalfTimeLineUp" THEN {s, NextState(s, COMM_HALT)} ELSE {s}

-----------------------------------------------------------------------------
(***************************************************************************)
(* Whether the coach has seen, since a Stop or Halt that cleared what it   *)
(* keeps, every command and no button.  A Stop does not always clear: the  *)
(* flag of a play-off that is deleted stays.                               *)
(***************************************************************************)
Observed(b) ==
    b = 0 /\ (seen \/ (gamestate' \in {"Stop", "Halt"} /\ ~playOnFlag'["ourPlayOff"]))

(* the histories of a restart are kept while the coach sees every command *)
Followed == seen /\ seen' /\ restart(state)

(***************************************************************************)
(* CCoach::execute: updateKnowledgeVars, then decideAttack.  A forced      *)
(* start sets the mode and calls updateGameState again, which sees the     *)
(* game on.  The conditions on their kicks are evaluated after that.       *)
(***************************************************************************)
Cycle(b, moved, ends) ==
    LET s == AfterJoystick(state, b)
        k == SeenState(state, b)
        m == NextMode(gamestate, k, gameMode)
        waited == Waited(k, m, moved)
    IN  \E flag \in FlagOf(selectedPlay) :
            LET force == ForceStart(k, m, waited, flag)
                s2 == IF force THEN NextState(s, COMM_START) ELSE s
                k2 == IF force THEN "Start" ELSE k
                m2 == IF force THEN "Start" ELSE m
            IN  /\ gamestate' = k2
                /\ gameMode' = m2
                /\ decideAttack(k2, m2, waited, ends)
                /\ state' \in AfterPlay(k2, s2)
                /\ ends => selectedPlay' = "ourPlayOff" /\ k2 # "Halt"
                /\ seen' = Observed(b)
                /\ planOver' = (Followed /\ (planOver \/ ends))
                /\ movedFor' = IF ~Followed \/ (movedFor = 0 /\ ~moved) THEN 0 ELSE Tick(movedFor)
                /\ pending' = FALSE
                /\ UNCHANGED <<gametimes, color, bluescore, yellowscore>>

CoachExecute ==
    \E b \in Buttons \cup {0}, moved \in BOOLEAN, ends \in BOOLEAN : Cycle(b, moved, ends)

FlowNext == (\E c \in FlowCommands : RefCommand(c)) \/ CoachExecute

FlowSpec == FlowInit /\ [][FlowNext]_flowVars

(* The timer of CSoccer::run calls the main loop again and again. *)
FairFlowSpec == FlowSpec /\ WF_flowVars(CoachExecute)

-----------------------------------------------------------------------------
(* Type invariant. *)
KnowledgeStates ==
    {"Halt", "Stop", "Start", "NormalStart", "HalfTimeLineUp"}
        \cup {OurState[k] : k \in RestartFlags} \cup {TheirState[k] : k \in RestartFlags}

FlowTypeOK ==
    /\ GSTypeOK
    /\ gamestate \in KnowledgeStates
    /\ gameMode \in {"Stop", "Start", "OurKickOff", "OurPenaltyKick"}
    /\ cyclesWaitAfterballMoved \in -1..CycleCap
    /\ selectedPlay \in Plays \cup {"unassigned"}
    /\ playOnFlag \in [FlagWriters -> BOOLEAN]
    /\ {firstTime, deleted, pending, settled, seen, planOver} \subseteq BOOLEAN
    /\ masterMode \in MasterModes
    /\ {masterPlan, chosen} \subseteq Times
    /\ movedFor \in 0..CycleCap

(***************************************************************************)
(* After a cycle the play that was executed is the one for the restart in  *)
(* force, its READY phase included: coach.cpp:1428 dispatches a NormalStart*)
(* on the mode that updateGameState derives from the state it saw BEFORE.  *)
(* Commands that the coach missed and buttons are forgotten at a Stop.     *)
(***************************************************************************)
PlayFitsRestart ==
    ~pending /\ seen =>
        /\ ours(state, "PENALTY") => selectedPlay = "ourPenalty"
        /\ state \cap {"KICKOFF", "DIRECT", "INDIRECT"} # {} /\ color \in state
              => selectedPlay = "ourPlayOff"
        /\ restart(state) /\ color \notin state
              => selectedPlay \in {"otherPlay", "stopPlay"}

(***************************************************************************)
(* The mode of a kickoff or penalty, which goes on telling the coach that  *)
(* a kick is ours, outlives it in Halt only (knowledge.cpp:572 clears it   *)
(* at a Stop, coach.cpp:504 reads it in every cycle).                      *)
(***************************************************************************)
ModeOutlivesKickInHaltOnly ==
    ~pending /\ seen /\ gameMode \in {"OurKickOff", "OurPenaltyKick"} =>
        \/ state = {"HALTED"}
        \/ /\ "READY" \in state
           /\ OurState["KICKOFF"] = gameMode => ours(state, "KICKOFF")
           /\ OurState["PENALTY"] = gameMode => ours(state, "PENALTY")

(***************************************************************************)
(* The two halves of CKnowledge::isStart never disagree: the plays test    *)
(* one or the other and take them for the same.                            *)
(***************************************************************************)
StartIsWhole == gamestate = "Start" => gameMode = "Start"

(***************************************************************************)
(* In a restart of ours the choice of a plan has been made in it, and the  *)
(* play-off never plays the plan of an earlier restart, though it keeps    *)
(* the plan it had when no other is valid (coach.cpp:1923): firstTime,     *)
(* which the other decide functions set and decidePlayOff clears, and the  *)
(* reset of a Stop alone see to it (coach.cpp:1472).                       *)
(***************************************************************************)
PlanIsOfThisRestart ==
    ~pending /\ seen /\ color \in state /\ selectedPlay = "ourPlayOff"
        => chosen = "this" /\ masterPlan # "old"

(***************************************************************************)
(* The play-off is never told to go on (setPlayOff) when no choice was made*)
(* since its last reset, which clears plan and stages (playoff.cpp:1837):  *)
(* not even with the joystick in use and commands the coach did not see.   *)
(***************************************************************************)
GoesOnOnlyWhenChosen == settled /\ ~firstTime => chosen # "none"

(***************************************************************************)
(* When the coach starts the game by itself, out of our restart with the   *)
(* play-off or out of theirs, the reason lies in THIS restart: the plan    *)
(* ended in it and the ball moved WaitCycles before, or the ball moved     *)
(* (coach.cpp:258,268).  Flag and counter are reset by decideStop and      *)
(* decideHalt alone, in another cycle and for another state.               *)
(***************************************************************************)
CoachForcesStart == ~pending' /\ ~gameOn(state) /\ gameOn(state')

ForceStartIsEarned ==
    [][CoachForcesStart /\ seen /\ seen' /\ restart(state) =>
         /\ movedFor' > 0
         /\ ourRestart(state) /\ selectedPlay = "ourPlayOff"
               => planOver /\ movedFor' > WaitCycles]_flowVars

(***************************************************************************)
(* A restart of ours whose plan is over and whose ball has moved ends: the *)
(* coach starts the game, or a command ends it (coach.cpp:245-266).        *)
(***************************************************************************)
KickDone(kind) ==
    /\ ours(state, kind) /\ gamestate = OurState[kind]
    /\ selectedPlay = "ourPlayOff" /\ playOnFlag["ourPlayOff"]
    /\ cyclesWaitAfterballMoved > 0

FinishedRestartEnds ==
    (\E kind \in {"KICKOFF", "DIRECT"} : KickDone(kind))
        ~> ~ourRestart(state) \/ gamestate = "NormalStart"

(***************************************************************************)
(* referee.proto:65 says of HALT "All robots should completely stop        *)
(* moving": no cycle of the coach turns a halted game on.                  *)
(***************************************************************************)
HaltIsKept == [][seen /\ state = {"HALTED"} /\ ~pending' => state' = {"HALTED"}]_flowVars

(***************************************************************************)
(* referee.proto:69 says of NORMAL_START "A prepared kickoff or penalty    *)
(* may now be taken": before it, no cycle of the coach turns it on.        *)
(***************************************************************************)
PreparationIsKept ==
    [][seen /\ "NOTREADY" \in state /\ ~pending' => ~gameOn(state')]_flowVars

(***************************************************************************)
(* playoff.cpp:87 asserts "Q_ASSERT(masterPlan != NULL)": a static play    *)
(* that is executed in the cycle that chose it, or in the one in which     *)
(* decideNormalStart has reset it, has a plan.                             *)
(***************************************************************************)
PlanIsThere ==
    [][/\ ~pending' /\ settled' /\ gamestate' # "Halt"
       /\ selectedPlay' = "ourPlayOff" /\ masterMode' = "static"
       /\ firstTime \/ firstTime'
       => masterPlan' # "none"]_flowVars
=============================================================================
