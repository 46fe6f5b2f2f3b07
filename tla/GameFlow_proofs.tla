---------------------------- MODULE GameFlow_proofs ----------------------------
(***************************************************************************)
(* What the coach's cycle keeps.                                           *)
(*                                                                         *)
(* All theorems hold whatever the joystick does and however many commands  *)
(* come between two cycles.  Those that say what follows once the coach    *)
(* has seen every command since a Stop or Halt (the history seen) need one *)
(* invariant of the mask, of what knowledge makes of it and of the coach's *)
(* variables: FlowInv below, which such a Stop or Halt establishes.        *)
(***************************************************************************)
EXTENDS GameFlow, GameState_proofs

(***************************************************************************)
(* The two outcomes of a cycle: the coach decides for what knowledge says, *)
(* or starts the game by itself.                                           *)
(***************************************************************************)
Outcome(b, k, m, s, waited, moved, ends) ==
    /\ gamestate' = k
    /\ gameMode' = m
    /\ decideAttack(k, m, waited, ends)
    /\ state' \in AfterPlay(k, s)
    /\ ends => selectedPlay' = "ourPlayOff" /\ k # "Halt"
    /\ seen' = Observed(b)
    /\ planOver' = (Followed /\ (planOver \/ ends))
    /\ movedFor' = IF ~Followed \/ (movedFor = 0 /\ ~moved) THEN 0 ELSE Tick(movedFor)
    /\ pending' = FALSE
    /\ UNCHANGED <<gametimes, color, bluescore, yellowscore>>

Follows(b, moved, ends) ==
    LET k == SeenState(state, b)
        m == NextMode(gamestate, k, gameMode)
    IN  Outcome(b, k, m, AfterJoystick(state, b), Waited(k, m, moved), moved, ends)

Starts(b, moved, ends) ==
    LET k == SeenState(state, b)
        m == NextMode(gamestate, k, gameMode)
    IN  /\ \E flag \in FlagOf(selectedPlay) : ForceStart(k, m, Waited(k, m, moved), flag)
        /\ Outcome(b, "Start", "Start", {"GAME_ON"}, Waited(k, m, moved), moved, ends)

(* A cycle has one of the two outcomes.                                    *)
LEMMA CycleOutcome ==
    ASSUME NEW b, NEW moved, NEW ends, Cycle(b, moved, ends)
    PROVE  Follows(b, moved, ends) \/ Starts(b, moved, ends)
<1> DEFINE s == AfterJoystick(state, b)
           k == SeenState(state, b)
           m == NextMode(gamestate, k, gameMode)
           waited == Waited(k, m, moved)
<1>1. \A s0 : NextState(s0, COMM_START) = {"GAME_ON"}
    BY DEF NextState, COMM_START, COMM_STOP, COMM_HALT
<1>2. PICK flag \in FlagOf(selectedPlay) :
          LET force == ForceStart(k, m, waited, flag)
              s2 == IF force THEN NextState(s, COMM_START) ELSE s
              k2 == IF force THEN "Start" ELSE k
              m2 == IF force THEN "Start" ELSE m
          IN  Outcome(b, k2, m2, s2, waited, moved, ends)
    <2> HIDE DEF s, k, m, waited
    <2> QED BY DEF Cycle, Outcome, s, k, m, waited
<1> HIDE DEF s, k, m, waited
<1>3. CASE ForceStart(k, m, waited, flag)
    BY <1>1, <1>2, <1>3 DEF Starts, s, k, m, waited
<1>4. CASE ~ForceStart(k, m, waited, flag)
    BY <1>2, <1>4 DEF Follows, s, k, m, waited
<1> QED BY <1>3, <1>4

-----------------------------------------------------------------------------
(* The mask and what knowledge makes of it. *)

(* A mask is that of a restart or has no flag of one.                      *)
LEMMA MaskCases ==
    ASSUME NEW s \in Masks
    PROVE  \/ s \in PlainMasks /\ ~restart(s)
           \/ s \in RestartMasks /\ restart(s) /\ ~gameOn(s) /\ canMove(s)
<1>1. CASE s \in PlainMasks
    BY <1>1 DEF PlainMasks, restart, RestartFlags
<1>2. CASE s \in RestartMasks
    <2>1. PICK kind \in RestartFlags, k \in Colors, ph \in Phases : s = {kind, k, ph}
        BY <1>2, RestartMaskShape
    <2>2. kind \in s /\ restart(s)
        BY <2>1 DEF restart
    <2>3. s # {"GAME_ON"} /\ s # {"HALTED"}
        BY <2>2 DEF RestartFlags
    <2> QED BY <1>2, <2>2, <2>3 DEF gameOn, canMove
<1> QED BY <1>1, <1>2 DEF Masks

(* Without a restart, each mask has a name of its own.                     *)
LEMMA SeenPlain ==
    /\ StateOfMask({"HALTED"}) = "Halt"
    /\ StateOfMask({"HALF_TIME"}) = "HalfTimeLineUp"
    /\ StateOfMask({"GAME_OFF"}) = "Stop"
BY DEF StateOfMask, canMove, restart, halfTimeLineUp, RestartFlags

(* A restart is named by its kind, its colour and its phase.               *)
LEMMA SeenRestart ==
    ASSUME NEW kind \in RestartFlags, NEW k \in Colors, NEW ph \in Phases,
           NEW s, s = {kind, k, ph}, color \in Colors
    PROVE  StateOfMask(s) =
             IF color # k THEN TheirState[kind]
             ELSE IF ph = "READY" /\ kind \in {"KICKOFF", "PENALTY"} THEN "NormalStart"
             ELSE OurState[kind]
<1>1. (CHOOSE r \in RestartFlags : r \in s) = kind
    <2>1. \A r \in RestartFlags : r \in s <=> r = kind
        BY DEF RestartFlags, Colors, Phases
    <2> QED BY <2>1
<1>2. restart(s) /\ canMove(s) /\ ~gameOn(s)
    <2>1. kind \in s
        OBVIOUS
    <2> QED BY <2>1 DEF restart, canMove, gameOn, RestartFlags
<1>3. color \in s <=> color = k
    BY DEF RestartFlags, Colors, Phases
<1>4. "READY" \in s <=> ph = "READY"
    BY DEF RestartFlags, Colors, Phases
<1>5. canKickBall(s) <=> color = k /\ ph = "READY"
    BY <1>2, <1>3, <1>4 DEF canKickBall, ourRestart
<1> QED BY <1>1, <1>2, <1>3, <1>5 DEF StateOfMask, StateOfRestart

(* What knowledge names is one of its states.                              *)
LEMMA SeenType ==
    ASSUME NEW s \in Masks, color \in Colors, gamestate \in KnowledgeStates, NEW b
    PROVE  SeenState(s, b) \in KnowledgeStates /\ StateOfMask(s) \in KnowledgeStates
<1>0. {"Halt", "Stop", "Start", "NormalStart", "HalfTimeLineUp", "OurIndirectKick"} \subseteq KnowledgeStates
    <2>1. OurState["INDIRECT"] = "OurIndirectKick" /\ "INDIRECT" \in RestartFlags
        BY DEF OurState, RestartFlags
    <2> QED BY <2>1 DEF KnowledgeStates
<1>1. StateOfMask(s) \in KnowledgeStates
    <2>1. CASE s \in PlainMasks /\ ~gameOn(s)
        BY <1>0, <2>1, SeenPlain DEF PlainMasks, gameOn
    <2>2. CASE s \in RestartMasks
        <3>1. PICK kind \in RestartFlags, k \in Colors, ph \in Phases : s = {kind, k, ph}
            BY <2>2, RestartMaskShape
        <3> QED BY <1>0, <3>1, SeenRestart DEF KnowledgeStates
    <2>3. CASE gameOn(s)
        BY <1>0, <2>3 DEF gameOn, StateOfMask, canMove, restart, halfTimeLineUp, RestartFlags
    <2> QED BY <2>1, <2>2, <2>3 DEF Masks
<1> QED BY <1>0, <1>1 DEF SeenState

-----------------------------------------------------------------------------
(* What holds for every use of the joystick and any number of commands. *)

(* The mask after a cycle is the one before it or the mask of a command    *)
(* that the joystick, the half time line-up or the coach itself gave.      *)
LEMMA CycleMask ==
    ASSUME NEW b, NEW moved, NEW ends, Cycle(b, moved, ends)
    PROVE  state' \in {state, {"HALTED"}, {"GAME_OFF"}, {"GAME_ON"}}
<1>1. \A s : NextState(s, COMM_HALT) = {"HALTED"} /\ NextState(s, COMM_STOP) = {"GAME_OFF"}
    BY DEF NextState, COMM_STOP, COMM_HALT
<1>2. AfterJoystick(state, b) \in {state, {"HALTED"}, {"GAME_OFF"}}
    BY <1>1 DEF AfterJoystick
<1>3. \A k, s : AfterPlay(k, s) \subseteq {s, {"HALTED"}}
    BY <1>1 DEF AfterPlay
<1>4. CASE Follows(b, moved, ends)
    <2>1. \E k : state' \in AfterPlay(k, AfterJoystick(state, b))
        BY <1>4 DEF Follows, Outcome
    <2> QED BY <1>2, <1>3, <2>1
<1>5. CASE Starts(b, moved, ends)
    <2>1. state' \in AfterPlay("Start", {"GAME_ON"})
        BY <1>5 DEF Starts, Outcome
    <2> QED BY <1>3, <2>1
<1> QED BY <1>4, <1>5, CycleOutcome

(* The masks of the commands a cycle may give.                             *)
LEMMA PlainAreMasks == {"HALTED"} \in Masks /\ {"GAME_OFF"} \in Masks /\ {"GAME_ON"} \in Masks
BY DEF Masks, PlainMasks

(* None of them is a restart.                                              *)
LEMMA PlainNoRestart == ~restart({"HALTED"}) /\ ~restart({"GAME_OFF"}) /\ ~restart({"GAME_ON"})
BY DEF restart, RestartFlags

(* The masks of the game stay whole, and its types, in every cycle.        *)
LEMMA StepKeepsGame ==
    ASSUME GSInv, [FlowNext]_flowVars
    PROVE  GSInv'
<1>1. ASSUME NEW c \in FlowCommands, RefCommand(c) PROVE GSInv'
    BY <1>1, TransitionKeepsTypes DEF RefCommand
<1>2. ASSUME NEW b, NEW moved, NEW ends, Cycle(b, moved, ends) PROVE GSInv'
    <2>1. state' \in Masks
        BY <1>2, CycleMask, PlainAreMasks DEF GSInv, MaskWellFormed, Masks
    <2>2. UNCHANGED <<gametimes, color, bluescore, yellowscore>>
        BY <1>2, CycleOutcome DEF Follows, Starts, Outcome
    <2>3. state' \subseteq Flags
        BY <2>1, MasksAreFlags
    <2> QED BY <2>1, <2>2, <2>3 DEF GSInv, GSTypeOK, MaskWellFormed, Masks
<1>3. CASE UNCHANGED flowVars
    BY <1>3 DEF flowVars, gsVars, GSInv, GSTypeOK, MaskWellFormed
<1> QED BY <1>1, <1>2, <1>3 DEF FlowNext, CoachExecute

(* The mask and the types of the game hold from the start.                 *)
LEMMA GameInvHolds == FlowSpec => []GSInv
<1>1. FlowInit => GSInv
    BY GSInvInit DEF FlowInit
<1> QED BY <1>1, StepKeepsGame, PTL DEF FlowSpec

(* The mask stays whole below the coach, which gives commands of its own,  *)
(* as it does below the referee alone.                                     *)
THEOREM FlowMaskWellFormed == FlowSpec => []MaskWellFormed
<1>1. GSInv => MaskWellFormed
    BY DEF GSInv
<1> QED BY <1>1, GameInvHolds, PTL

(* Nor does a cycle turn one restart into another, whatever the joystick   *)
(* and the line-up of the half time do to the mask.                        *)
THEOREM FlowSeparatesRestarts == FlowSpec => RestartsAreSeparated
<1> DEFINE Separate == restart(state) /\ restart(state')
                          => state \ Phases = state' \ Phases
<1>1. GSInv /\ [FlowNext]_flowVars => [Separate]_gsVars
    <2> SUFFICES ASSUME GSInv, FlowNext PROVE Separate
        BY DEF flowVars
    <2>1. ASSUME NEW c \in FlowCommands, RefCommand(c) PROVE Separate
        BY <2>1, NextStateSeparates DEF RefCommand, Transition, GSInv, MaskWellFormed, Masks
    <2>2. ASSUME NEW b, NEW moved, NEW ends, Cycle(b, moved, ends) PROVE Separate
        BY <2>2, CycleMask, PlainNoRestart
    <2> QED BY <2>1, <2>2 DEF FlowNext, CoachExecute
<1> QED BY <1>1, GameInvHolds, PTL DEF FlowSpec, RestartsAreSeparated

(* The two halves of isStart agree after every cycle: knowledge and the    *)
(* coach assign them together, except where the state does not change.     *)
THEOREM StartStaysWhole == FlowSpec => []StartIsWhole
<1>1. FlowInit => StartIsWhole
    BY DEF FlowInit, StartIsWhole
<1>2. ASSUME StartIsWhole, [FlowNext]_flowVars PROVE StartIsWhole'
    <2>1. ASSUME NEW c \in FlowCommands, RefCommand(c) PROVE StartIsWhole'
        BY <1>2, <2>1 DEF RefCommand, coachVars, StartIsWhole
    <2>2. ASSUME NEW b, NEW moved, NEW ends, Cycle(b, moved, ends) PROVE StartIsWhole'
        <3>1. CASE Follows(b, moved, ends)
            <4>1. PICK k : gamestate' = k /\ gameMode' = NextMode(gamestate, k, gameMode)
                BY <3>1 DEF Follows, Outcome
            <4> QED BY <1>2, <4>1 DEF NextMode, StartIsWhole
        <3>2. CASE Starts(b, moved, ends)
            BY <3>2 DEF Starts, Outcome, StartIsWhole
        <3> QED BY <2>2, <3>1, <3>2, CycleOutcome
    <2>3. CASE UNCHANGED flowVars
        BY <1>2, <2>3 DEF flowVars, coachVars, StartIsWhole
    <2> QED BY <1>2, <2>1, <2>2, <2>3 DEF FlowNext, CoachExecute
<1> QED BY <1>1, <1>2, PTL DEF FlowSpec

(* The play-off goes on only when a choice was made since its last reset:  *)
(* of the functions that reset it, every one asks for a new choice.        *)
THEOREM PlayOffGoesOnChosen == FlowSpec => []GoesOnOnlyWhenChosen
<1>1. FlowInit => GoesOnOnlyWhenChosen
    BY DEF FlowInit, GoesOnOnlyWhenChosen
<1>2. ASSUME GoesOnOnlyWhenChosen, [FlowNext]_flowVars PROVE GoesOnOnlyWhenChosen'
    <2>1. ASSUME NEW c \in FlowCommands, RefCommand(c) PROVE GoesOnOnlyWhenChosen'
        <3>1. UNCHANGED <<firstTime, settled>> /\ (chosen' = chosen \/ chosen' = Aged(chosen))
            BY <2>1 DEF RefCommand, coachVars, planVars
        <3>2. Aged(chosen) = "none" => chosen = "none"
            BY DEF Aged
        <3> QED BY <1>2, <3>1, <3>2 DEF GoesOnOnlyWhenChosen
    <2>2. ASSUME NEW b, NEW moved, NEW ends, Cycle(b, moved, ends) PROVE GoesOnOnlyWhenChosen'
        <3>1. PICK k, m, waited : decideAttack(k, m, waited, ends)
            BY <2>2, CycleOutcome DEF Follows, Starts, Outcome
        <3>2. \/ firstTime' = TRUE
              \/ chosen' = "this"
              \/ UNCHANGED <<firstTime, chosen, settled>>
            BY <3>1 DEF decideAttack, decideHalt, decideStop, decideOurKick, decideTheirKick,
                        decideOurPenalty, decideStart, decideNormalStart, initPlayOffMode,
                        decidePlacementOrHalfTime, ClearRestart, planVars
        <3> QED BY <1>2, <3>2 DEF GoesOnOnlyWhenChosen
    <2>3. CASE UNCHANGED flowVars
        BY <1>2, <2>3 DEF flowVars, coachVars, planVars, historyVars, GoesOnOnlyWhenChosen
    <2> QED BY <1>2, <2>1, <2>2, <2>3 DEF FlowNext, CoachExecute
<1> QED BY <1>1, <1>2, PTL DEF FlowSpec

(* The types of what the coach keeps.                                      *)
CoachTypes ==
    /\ gamestate \in KnowledgeStates
    /\ gameMode \in {"Stop", "Start", "OurKickOff", "OurPenaltyKick"}
    /\ cyclesWaitAfterballMoved \in -1..CycleCap
    /\ selectedPlay \in Plays \cup {"unassigned"}
    /\ playOnFlag \in [FlagWriters -> BOOLEAN]
    /\ firstTime \in BOOLEAN /\ deleted \in BOOLEAN /\ settled \in BOOLEAN
    /\ masterMode \in MasterModes
    /\ masterPlan \in Times /\ chosen \in Times

HistoryTypes ==
    /\ planOver \in BOOLEAN /\ seen \in BOOLEAN /\ pending \in BOOLEAN
    /\ movedFor \in 0..CycleCap

TypeInv == GSInv /\ CoachTypes /\ HistoryTypes

(* The cap is a number of cycles.                                          *)
LEMMA CapIsNat == CycleCap \in Nat \ {0}
BY FlowAssumption DEF CycleCap

(* The counters count up to their cap.                                     *)
LEMMA TickType ==
    ASSUME NEW n \in -1..CycleCap
    PROVE  Tick(n) \in 0..CycleCap /\ Tick(n) >= n /\ (n < CycleCap => Tick(n) = n + 1)
BY CapIsNat DEF Tick

(* So does the coach's counter, negative or not when it began.             *)
LEMMA WaitedType ==
    ASSUME cyclesWaitAfterballMoved \in -1..CycleCap, NEW k, NEW m, NEW moved
    PROVE  Waited(k, m, moved) \in -1..CycleCap
<1>1. Tick(cyclesWaitAfterballMoved) \in -1..CycleCap
    BY TickType, CapIsNat
<1>2. 0 \in -1..CycleCap /\ 1 \in -1..CycleCap
    BY CapIsNat
<1> QED BY <1>1, <1>2 DEF Waited

(* The mode is Stop, Start or a prepared kick of ours.                     *)
LEMMA ModeType ==
    ASSUME CoachTypes, NEW k
    PROVE  NextMode(gamestate, k, gameMode) \in {"Stop", "Start", "OurKickOff", "OurPenaltyKick"}
BY DEF CoachTypes, NextMode, KickBefore

(* The flags of the plays stay flags.                                      *)
LEMMA FlagTypes ==
    ASSUME CoachTypes, NEW ends \in BOOLEAN
    PROVE  /\ FlagAfterReset \in [FlagWriters -> BOOLEAN]
           /\ [FlagAfterReset EXCEPT !["ourPlayOff"] = @ \/ ends] \in [FlagWriters -> BOOLEAN]
           /\ [playOnFlag EXCEPT !["ourPlayOff"] = @ \/ ends] \in [FlagWriters -> BOOLEAN]
           /\ [playOnFlag EXCEPT !["ourPenalty"] = @ /\ ~penalty_shootout] \in [FlagWriters -> BOOLEAN]
<1>1. \A f \in [FlagWriters -> BOOLEAN], w \in FlagWriters, v \in BOOLEAN :
          [f EXCEPT ![w] = v] \in [FlagWriters -> BOOLEAN]
    OBVIOUS
<1>2. /\ playOnFlag \in [FlagWriters -> BOOLEAN]
      /\ "ourPlayOff" \in FlagWriters /\ "ourPenalty" \in FlagWriters
    BY DEF CoachTypes, FlagWriters
<1>3. FlagAfterReset \in [FlagWriters -> BOOLEAN]
    <2>1. (deleted /\ playOnFlag["ourPlayOff"]) \in BOOLEAN
        OBVIOUS
    <2> QED BY <1>1, <1>2, <2>1 DEF FlagAfterReset
<1>4. ASSUME NEW f \in [FlagWriters -> BOOLEAN]
      PROVE  /\ [f EXCEPT !["ourPlayOff"] = @ \/ ends] \in [FlagWriters -> BOOLEAN]
             /\ [f EXCEPT !["ourPenalty"] = @ /\ ~penalty_shootout] \in [FlagWriters -> BOOLEAN]
    <2>1. (f["ourPlayOff"] \/ ends) \in BOOLEAN /\ (f["ourPenalty"] /\ ~penalty_shootout) \in BOOLEAN
        OBVIOUS
    <2> QED BY <1>1, <1>2, <2>1
<1> QED BY <1>2, <1>3, <1>4

(* What the decide functions assign has its type.                          *)
LEMMA DecisionTypes ==
    ASSUME CoachTypes, NEW k, NEW m, NEW waited \in -1..CycleCap, NEW ends \in BOOLEAN,
           decideAttack(k, m, waited, ends)
    PROVE  /\ cyclesWaitAfterballMoved' \in {0, waited}
           /\ selectedPlay' \in Plays \cup {"unassigned"}
           /\ firstTime' \in BOOLEAN /\ deleted' \in BOOLEAN /\ settled' \in BOOLEAN
           /\ masterMode' \in MasterModes
           /\ masterPlan' \in Times /\ chosen' \in Times
           /\ playOnFlag' \in [FlagWriters -> BOOLEAN]
<1> USE FlagTypes DEF CoachTypes, Plays, MasterModes, Times, planVars
<1>1. CASE decideHalt(k)
    BY <1>1 DEF decideHalt, ClearRestart, ResetPlayOff
<1>2. CASE decideStop(k)
    BY <1>2 DEF decideStop, ClearRestart, ResetPlayOff
<1>3. CASE decideOurKick(k, m, waited, ends)
    BY <1>3 DEF decideOurKick, initPlayOffMode, initStaticPlay
<1>4. CASE decideTheirKick(k, waited)
    BY <1>4 DEF decideTheirKick
<1>5. CASE decideOurPenalty(k, m, waited)
    BY <1>5 DEF decideOurPenalty
<1>6. CASE decideStart(k, waited)
    BY <1>6 DEF decideStart
<1>7. CASE decideNormalStart(k, m, waited, ends)
    BY <1>7 DEF decideNormalStart, ResetPlayOff
<1>8. CASE decidePlacementOrHalfTime(k, waited)
    BY <1>8 DEF decidePlacementOrHalfTime
<1> QED BY <1>1, <1>2, <1>3, <1>4, <1>5, <1>6, <1>7, <1>8 DEF decideAttack

(* Every step keeps the types.                                             *)
LEMMA StepKeepsTypes ==
    ASSUME TypeInv, [FlowNext]_flowVars
    PROVE  TypeInv'
<1>1. GSInv'
    BY StepKeepsGame DEF TypeInv
<1>2. CASE \E c \in FlowCommands : RefCommand(c)
    <2>1. CoachTypes'
        <3>1. masterPlan' \in Times /\ chosen' \in Times
            BY <1>2 DEF RefCommand, planVars, TypeInv, CoachTypes, Aged, Times
        <3> QED BY <1>2, <3>1 DEF RefCommand, coachVars, TypeInv, CoachTypes
    <2>2. HistoryTypes'
        <3>1. pending' \in BOOLEAN /\ seen' \in BOOLEAN
            BY <1>2 DEF RefCommand
        <3>2. planOver' \in BOOLEAN /\ movedFor' \in 0..CycleCap
            <4>1. (planOver' = FALSE /\ movedFor' = 0) \/ UNCHANGED <<planOver, movedFor>>
                BY <1>2 DEF RefCommand
            <4>2. planOver' \in BOOLEAN
                BY <4>1 DEF TypeInv, HistoryTypes
            <4>3. movedFor' \in 0..CycleCap
                BY <4>1, CapIsNat DEF TypeInv, HistoryTypes
            <4> QED BY <4>2, <4>3
        <3> QED BY <3>1, <3>2 DEF HistoryTypes
    <2> QED BY <1>1, <2>1, <2>2 DEF TypeInv
<1>3. ASSUME NEW b, NEW moved, NEW ends \in BOOLEAN, Cycle(b, moved, ends)
      PROVE  CoachTypes' /\ HistoryTypes'
    <2> DEFINE k0 == SeenState(state, b)
               m0 == NextMode(gamestate, k0, gameMode)
               w == Waited(k0, m0, moved)
    <2>1. w \in -1..CycleCap
        BY WaitedType DEF TypeInv, CoachTypes
    <2>2. k0 \in KnowledgeStates /\ m0 \in {"Stop", "Start", "OurKickOff", "OurPenaltyKick"}
        BY SeenType, ModeType DEF TypeInv, GSInv, GSTypeOK, MaskWellFormed, Masks, CoachTypes
    <2>3. "Start" \in KnowledgeStates
        BY DEF KnowledgeStates
    <2>4. PICK k \in KnowledgeStates, m \in {"Stop", "Start", "OurKickOff", "OurPenaltyKick"} :
              \E s : Outcome(b, k, m, s, w, moved, ends)
        <3> HIDE DEF k0, m0, w
        <3>1. \E s : Outcome(b, k0, m0, s, w, moved, ends) \/ Outcome(b, "Start", "Start", s, w, moved, ends)
            BY <1>3, CycleOutcome DEF Follows, Starts, k0, m0, w
        <3> QED BY <2>2, <2>3, <3>1
    <2> HIDE DEF k0, m0, w
    <2>5. gamestate' = k /\ gameMode' = m /\ decideAttack(k, m, w, ends)
        BY <2>4 DEF Outcome
    <2>6. CoachTypes'
        <3>1. cyclesWaitAfterballMoved' \in -1..CycleCap
            BY <2>1, <2>5, DecisionTypes, CapIsNat DEF TypeInv
        <3> QED BY <2>1, <2>5, <3>1, DecisionTypes DEF TypeInv, CoachTypes
    <2>7. HistoryTypes'
        <3>1. movedFor \in -1..CycleCap /\ 0 \in 0..CycleCap
            BY CapIsNat DEF TypeInv, HistoryTypes
        <3>2. movedFor' \in 0..CycleCap
            BY <2>4, <3>1, TickType DEF Outcome
        <3>3. planOver' \in BOOLEAN /\ pending' \in BOOLEAN /\ seen' \in BOOLEAN
            BY <2>4 DEF Outcome, Followed, Observed
        <3> QED BY <3>2, <3>3 DEF HistoryTypes
    <2> QED BY <2>6, <2>7
<1>4. CASE UNCHANGED flowVars
    BY <1>1, <1>4 DEF flowVars, coachVars, planVars, historyVars, TypeInv, CoachTypes, HistoryTypes
<1> QED BY <1>1, <1>2, <1>3, <1>4 DEF FlowNext, CoachExecute, TypeInv

(* And they hold at first, whatever the memory held.                       *)
LEMMA TypesInit ==
    ASSUME FlowInit
    PROVE  TypeInv
<1>1. GSInv
    BY GSInvInit DEF FlowInit
<1>2. CoachTypes
    <2>1. /\ gamestate = "Stop" /\ gameMode = "Stop"
          /\ masterMode \in MasterModes /\ masterPlan = "none" /\ chosen = "none"
          /\ selectedPlay = "unassigned" /\ settled = FALSE
          /\ firstTime \in BOOLEAN /\ deleted \in BOOLEAN
          /\ playOnFlag \in [FlagWriters -> BOOLEAN]
        BY DEF FlowInit
    <2>2. cyclesWaitAfterballMoved \in -1..CycleCap
        <3>1. cyclesWaitAfterballMoved \in {-1, 0, CycleCap}
            BY DEF FlowInit
        <3> QED BY <3>1, CapIsNat
    <2> QED BY <2>1, <2>2 DEF CoachTypes, KnowledgeStates, Times
<1>3. HistoryTypes
    <2>1. planOver = FALSE /\ pending = FALSE /\ seen = FALSE /\ movedFor = 0
        BY DEF FlowInit
    <2>2. planOver \in BOOLEAN /\ pending \in BOOLEAN /\ seen \in BOOLEAN
        BY <2>1
    <2>3. movedFor \in 0..CycleCap
        BY <2>1, CapIsNat
    <2> QED BY <2>2, <2>3 DEF HistoryTypes
<1> QED BY <1>1, <1>2, <1>3 DEF TypeInv

(* So they hold always.                                                    *)
LEMMA TypesHold == FlowSpec => []TypeInv
<1>1. FlowInit => TypeInv
    BY TypesInit
<1> QED BY <1>1, StepKeepsTypes, PTL DEF FlowSpec

(* What knowledge and the coach keep has its type: in particular the mode  *)
(* is never the kick of the other team, though it is assigned from states  *)
(* that may be.                                                            *)
THEOREM FlowTypeCorrect == FlowSpec => []FlowTypeOK
<1>1. TypeInv => FlowTypeOK
    BY DEF TypeInv, GSInv, CoachTypes, HistoryTypes, FlowTypeOK
<1> QED BY <1>1, TypesHold, PTL

-----------------------------------------------------------------------------
(***************************************************************************)
(* FlowInv holds while the coach sees every command.  It says, of the mask *)
(* in force: after a cycle knowledge names it (Sees); knowledge and mode   *)
(* have followed a prepared kick from its preparation on (ModeOfKick) and  *)
(* give it up with it (ModeEnds); a Stop has cleared what the coach keeps  *)
(* of a restart (StopClears), so that counter, flag and plan say nothing of*)
(* an earlier one (CountsThisRestart, PlanIsNew), and a plan is chosen anew*)
(* (ChosenOrAsked, PlanOfKick).  A play-off that is deleted has no flag    *)
(* (DeletedIsClear), or a reset would be skipped that is needed.           *)
(*                                                                         *)
(* FlowSafe holds always: a play-off that is deleted has no plan, knowledge*)
(* and mode are Stop together and Start together, and FlowInv holds while  *)
(* every command is seen.                                                  *)
(***************************************************************************)

Prepared == {"KICKOFF", "PENALTY"}
PreparedModes == {"OurKickOff", "OurPenaltyKick"}
Seen(s) == IF gameOn(s) THEN "Start" ELSE StateOfMask(s)

Sees ==
    ~pending =>
        \/ gamestate = Seen(state)
        \/ state = {"HALTED"} /\ gamestate = "HalfTimeLineUp"

ModeOfKick ==
    \A kind \in Prepared : "READY" \in state /\ ours(state, kind) =>
        \/ gamestate = OurState[kind]
        \/ gamestate = "NormalStart" /\ gameMode = OurState[kind]

ModeEnds ==
    gameMode \in PreparedModes =>
        /\ gamestate \in {"Halt", "NormalStart"}
        /\ \/ state \in {{"HALTED"}, {"GAME_OFF"}, {"GAME_ON"}}
           \/ \E kind \in Prepared :
                  gameMode = OurState[kind] /\ ours(state, kind) /\ "READY" \in state

StopClears ==
    gamestate = "Stop" =>
        /\ firstTime /\ cyclesWaitAfterballMoved = 0 /\ ~playOnFlag["ourPlayOff"]
        /\ masterPlan = "none"

CountsThisRestart ==
    restart(state) =>
        /\ cyclesWaitAfterballMoved >= 0
        /\ cyclesWaitAfterballMoved <= movedFor
        /\ playOnFlag["ourPlayOff"] => planOver

PlanIsNew == restart(state) => masterPlan # "old"
ChosenOrAsked == restart(state) /\ ~firstTime => chosen = "this"
PlanOfKick ==
    ~pending /\ restart(state) /\ color \in state /\ selectedPlay = "ourPlayOff"
        => chosen = "this"
DeletedIsClear == deleted => ~playOnFlag["ourPlayOff"]
DeletedIsPlanless == deleted => masterPlan = "none"
StopIsWhole == gamestate = "Stop" => gameMode = "Stop"

Always == TypeInv /\ StartIsWhole /\ StopIsWhole /\ DeletedIsPlanless

FlowInv ==
    /\ Always
    /\ Sees /\ ModeOfKick /\ ModeEnds
    /\ StopClears /\ CountsThisRestart
    /\ PlanIsNew /\ ChosenOrAsked /\ PlanOfKick /\ DeletedIsClear
    /\ PlayFitsRestart

FlowSafe == Always /\ (seen => FlowInv)

(***************************************************************************)
(* Which mask a command can lead to.                                       *)
(***************************************************************************)
LEMMA CommandOnMask ==
    ASSUME NEW s \in Masks, NEW c
    PROVE  LET t == NextState(s, c)
           IN  /\ restart(t) /\ ~restart(s) => s = {"GAME_OFF"}
               /\ "READY" \in s \/ s = {"HALTED"} => t \in {{"HALTED"}, {"GAME_OFF"}, {"GAME_ON"}}
               /\ "READY" \in t /\ t \cap Prepared # {}
                      => "NOTREADY" \in s /\ t = (s \ {"NOTREADY"}) \cup {"READY"}
<1> USE DEF COMM_HALT, COMM_STOP, COMM_START, COMM_READY, COMM_HALF_TIME
<1>1. "READY" \in s => "NOTREADY" \notin s
    <2>1. CASE s \in PlainMasks
        BY <2>1 DEF PlainMasks
    <2>2. CASE s \in RestartMasks
        BY <2>2, RestartMaskShape DEF RestartFlags, Colors, Phases
    <2> QED BY <2>1, <2>2 DEF Masks
<1>2. restart(NextState(s, c)) /\ ~restart(s) => s = {"GAME_OFF"}
    <2> SUFFICES ASSUME restart(NextState(s, c)), ~restart(s) PROVE s = {"GAME_OFF"}
        OBVIOUS
    <2>1. c \in RestartCommands
        BY CommandOnKick
    <2>2. "READY" \notin s
        BY MaskCases DEF PlainMasks
    <2> QED BY <2>1, <2>2 DEF NextState, RestartCommands
<1>3. "READY" \in s \/ s = {"HALTED"} => NextState(s, c) \in {{"HALTED"}, {"GAME_OFF"}, {"GAME_ON"}}
    BY <1>1 DEF NextState
<1>4. ASSUME "READY" \in NextState(s, c), NextState(s, c) \cap Prepared # {}
      PROVE  "NOTREADY" \in s /\ NextState(s, c) = (s \ {"NOTREADY"}) \cup {"READY"}
    <2>1. c = COMM_READY /\ "NOTREADY" \in s
        BY <1>4, CommandOnKick DEF Prepared
    <2> QED BY <2>1 DEF NextState
<1> QED BY <1>2, <1>3, <1>4

(***************************************************************************)
(* What knowledge sees tells the mask.                                     *)
(***************************************************************************)
LEMMA SeenTells ==
    ASSUME NEW s \in Masks, color \in Colors
    PROVE  /\ Seen(s) = "Start" => s = {"GAME_ON"}
           /\ Seen(s) = "Halt" => s = {"HALTED"}
           /\ Seen(s) = "Stop" => s = {"GAME_OFF"}
           /\ Seen(s) = "HalfTimeLineUp" => s = {"HALF_TIME"}
           /\ Seen(s) \in OurKicks \cup TheirKicks
                  \cup {"OurPenaltyKick", "OurBallPlacement", "TheirBallPlacement", "NormalStart"}
                => restart(s)
           /\ Seen(s) = "NormalStart"
                => \E kind \in Prepared : ours(s, kind) /\ "READY" \in s
           /\ \A kind \in RestartFlags : ours(s, kind) =>
                  Seen(s) = IF kind \in Prepared /\ "READY" \in s THEN "NormalStart" ELSE OurState[kind]
           /\ restart(s) /\ color \notin s => \E kind \in RestartFlags : Seen(s) = TheirState[kind]
<1>1. CASE s \in PlainMasks
    <2>1. ~restart(s) /\ \A kind \in RestartFlags : kind \notin s
        BY <1>1 DEF PlainMasks, restart, RestartFlags
    <2>2. \/ s = {"GAME_ON"} /\ Seen(s) = "Start"
          \/ s = {"HALTED"} /\ Seen(s) = "Halt"
          \/ s = {"GAME_OFF"} /\ Seen(s) = "Stop"
          \/ s = {"HALF_TIME"} /\ Seen(s) = "HalfTimeLineUp"
        BY <1>1, SeenPlain DEF PlainMasks, Seen, gameOn
    <2> QED BY <2>1, <2>2 DEF ours, OurKicks, TheirKicks, Prepared
<1>2. CASE s \in RestartMasks
    <2>1. PICK kind \in RestartFlags, k \in Colors, ph \in Phases : s = {kind, k, ph}
        BY <1>2, RestartMaskShape
    <2>2. restart(s) /\ ~gameOn(s)
        <3>1. kind \in s
            BY <2>1
        <3> QED BY <3>1 DEF restart, gameOn, RestartFlags
    <2>3. Seen(s) = IF color # k THEN TheirState[kind]
                    ELSE IF ph = "READY" /\ kind \in Prepared THEN "NormalStart"
                    ELSE OurState[kind]
        BY <2>1, <2>2, SeenRestart DEF Seen, Prepared
    <2>4. \A kd \in RestartFlags : kd \in s <=> kd = kind
        BY <2>1 DEF RestartFlags, Colors, Phases
    <2>5. (color \in s <=> color = k) /\ ("READY" \in s <=> ph = "READY")
        BY <2>1 DEF RestartFlags, Colors, Phases
    <2>6. /\ OurState[kind] \notin {"Start", "Halt", "Stop", "HalfTimeLineUp", "NormalStart"}
          /\ TheirState[kind] \notin {"Start", "Halt", "Stop", "HalfTimeLineUp", "NormalStart"}
        BY DEF OurState, TheirState, RestartFlags
    <2>7. Prepared \subseteq RestartFlags
        BY DEF Prepared, RestartFlags
    <2> QED BY <2>2, <2>3, <2>4, <2>5, <2>6, <2>7 DEF ours
<1> QED BY <1>1, <1>2 DEF Masks

(***************************************************************************)
(* What the decide functions do to the play-off and the counter, when a    *)
(* NormalStart is of a prepared kick: they clear the restart, go on with   *)
(* our kick, or leave the play-off alone.                                  *)
(***************************************************************************)
Clears(k) ==
    /\ k \in {"Halt", "Stop", "TheirBallPlacement"}
    /\ k # "Halt" => selectedPlay' = "stopPlay"
    /\ firstTime' = TRUE /\ cyclesWaitAfterballMoved' = 0
    /\ playOnFlag'["ourPlayOff"] = FALSE /\ masterPlan' = "none"

Kicks(k, m, waited, ends) ==
    /\ k \in OurKicks \/ (k = "NormalStart" /\ m = "OurKickOff")
    /\ selectedPlay' = "ourPlayOff"
    /\ IF firstTime
       THEN chosen' = "this" /\ masterPlan' \in {masterPlan, "this"}
       ELSE UNCHANGED <<firstTime, planVars>>
    /\ playOnFlag'["ourPlayOff"] = (playOnFlag["ourPlayOff"] \/ ends)
    /\ cyclesWaitAfterballMoved' = waited
    /\ deleted' = FALSE

LeavesPlayOff(k, m, waited) ==
    /\ \/ k \in TheirKicks /\ selectedPlay' = "otherPlay"
       \/ k = "OurPenaltyKick" /\ selectedPlay' = "ourPenalty"
       \/ k = "NormalStart" /\ m = "OurPenaltyKick" /\ selectedPlay' = "ourPenalty"
       \/ k = "OurBallPlacement" /\ selectedPlay' = "otherPlay"
       \/ k \in {"Start", "HalfTimeLineUp"}
    /\ firstTime' \in {TRUE, firstTime} /\ UNCHANGED planVars
    /\ playOnFlag'["ourPlayOff"] = playOnFlag["ourPlayOff"]
    /\ cyclesWaitAfterballMoved' = waited
    /\ UNCHANGED deleted

(* Every decide function does one of the three.                            *)
LEMMA DecisionEffects ==
    ASSUME CoachTypes, DeletedIsClear, DeletedIsPlanless,
           NEW k, NEW m, NEW waited, NEW ends \in BOOLEAN,
           decideAttack(k, m, waited, ends),
           k = "NormalStart" => m \in PreparedModes
    PROVE  Clears(k) \/ Kicks(k, m, waited, ends) \/ LeavesPlayOff(k, m, waited)
<1>1. /\ playOnFlag \in [FlagWriters -> BOOLEAN]
      /\ "ourPlayOff" \in FlagWriters /\ "ourPenalty" \in FlagWriters
    BY DEF CoachTypes, FlagWriters
<1>2. FlagAfterReset["ourPlayOff"] = FALSE
    BY <1>1 DEF FlagAfterReset, DeletedIsClear
<1>3. CASE decideHalt(k)
    BY <1>2, <1>3 DEF decideHalt, ClearRestart, Clears, ResetPlayOff, DeletedIsPlanless, planVars
<1>4. CASE decideStop(k)
    BY <1>2, <1>4 DEF decideStop, ClearRestart, Clears, ResetPlayOff, DeletedIsPlanless, planVars
<1>5. CASE decideOurKick(k, m, waited, ends)
    <2>1. playOnFlag'["ourPlayOff"] = (playOnFlag["ourPlayOff"] \/ ends)
        BY <1>1, <1>5 DEF decideOurKick
    <2> QED BY <1>5, <2>1 DEF decideOurKick, KickOffGoesOn, Kicks, initPlayOffMode,
                              initStaticPlay, planVars
<1>6. CASE decideTheirKick(k, waited)
    BY <1>6 DEF decideTheirKick, LeavesPlayOff
<1>7. CASE decideOurPenalty(k, m, waited)
    <2>1. playOnFlag'["ourPlayOff"] = playOnFlag["ourPlayOff"]
        BY <1>1, <1>7 DEF decideOurPenalty
    <2> QED BY <1>7, <2>1 DEF decideOurPenalty, LeavesPlayOff
<1>8. CASE decideStart(k, waited)
    BY <1>8 DEF decideStart, LeavesPlayOff
<1>9. CASE decideNormalStart(k, m, waited, ends)
    BY <1>9 DEF decideNormalStart, PreparedModes
<1>10. CASE decidePlacementOrHalfTime(k, waited)
    BY <1>10 DEF decidePlacementOrHalfTime, LeavesPlayOff
<1> QED BY <1>3, <1>4, <1>5, <1>6, <1>7, <1>8, <1>9, <1>10 DEF decideAttack

(* A play-off that is deleted has no flag, after each of the three.        *)
LEMMA DecisionKeepsDeletedClear ==
    ASSUME CoachTypes, DeletedIsClear, NEW k, NEW m, NEW waited, NEW ends \in BOOLEAN,
           Clears(k) \/ Kicks(k, m, waited, ends) \/ LeavesPlayOff(k, m, waited)
    PROVE  DeletedIsClear'
BY DEF DeletedIsClear, Clears, Kicks, LeavesPlayOff

(* A play-off that is deleted has no plan, whatever the coach decides.     *)
LEMMA DecisionKeepsPlanless ==
    ASSUME DeletedIsPlanless, NEW k, NEW m, NEW waited, NEW ends,
           decideAttack(k, m, waited, ends)
    PROVE  DeletedIsPlanless'
BY DEF decideAttack, decideHalt, decideStop, decideOurKick, decideTheirKick, decideOurPenalty,
       decideStart, decideNormalStart, decidePlacementOrHalfTime, ClearRestart, ResetPlayOff,
       DeletedIsPlanless, planVars

(* What the coach keeps is whole in every step.                            *)
LEMMA StepKeepsAlways ==
    ASSUME Always, [FlowNext]_flowVars
    PROVE  Always'
<1>1. TypeInv'
    BY StepKeepsTypes DEF Always
<1>2. ASSUME NEW c \in FlowCommands, RefCommand(c)
      PROVE  StartIsWhole' /\ StopIsWhole' /\ DeletedIsPlanless'
    <2>1. UNCHANGED <<gamestate, gameMode, deleted>>
        BY <1>2 DEF RefCommand, coachVars
    <2>2. masterPlan = "none" => masterPlan' = "none"
        BY <1>2 DEF RefCommand, planVars, Aged
    <2> QED BY <2>1, <2>2 DEF Always, StartIsWhole, StopIsWhole, DeletedIsPlanless
<1>3. ASSUME NEW b, NEW moved, NEW ends, Cycle(b, moved, ends)
      PROVE  StartIsWhole' /\ StopIsWhole' /\ DeletedIsPlanless'
    <2>1. StartIsWhole' /\ StopIsWhole'
        <3>1. CASE Follows(b, moved, ends)
            <4>1. PICK k : gamestate' = k /\ gameMode' = NextMode(gamestate, k, gameMode)
                BY <3>1 DEF Follows, Outcome
            <4> QED BY <4>1 DEF NextMode, Always, StartIsWhole, StopIsWhole
        <3>2. CASE Starts(b, moved, ends)
            BY <3>2 DEF Starts, Outcome, StartIsWhole, StopIsWhole
        <3> QED BY <1>3, <3>1, <3>2, CycleOutcome
    <2>2. PICK k, m, waited : decideAttack(k, m, waited, ends)
        BY <1>3, CycleOutcome DEF Follows, Starts, Outcome
    <2> QED BY <2>1, <2>2, DecisionKeepsPlanless DEF Always
<1>4. ASSUME UNCHANGED flowVars
      PROVE  StartIsWhole' /\ StopIsWhole' /\ DeletedIsPlanless'
    BY <1>4 DEF flowVars, coachVars, planVars, Always, StartIsWhole, StopIsWhole, DeletedIsPlanless
<1>5. StartIsWhole' /\ StopIsWhole' /\ DeletedIsPlanless'
    BY <1>2, <1>3, <1>4 DEF FlowNext, CoachExecute
<1> QED BY <1>1, <1>5 DEF Always

(* A command, after a cycle.                                               *)
LEMMA CommandKeepsFlow ==
    ASSUME FlowInv, seen, seen', NEW c \in FlowCommands, RefCommand(c), Always'
    PROVE  FlowInv'
<1>1. ~pending /\ pending' = TRUE
    BY DEF RefCommand
<1>2. /\ state' = NextState(state, c) /\ state \in Masks /\ color' = color /\ color \in Colors
      /\ UNCHANGED coachVars
    BY DEF RefCommand, Transition, FlowInv, Always, TypeInv, GSInv, GSTypeOK, MaskWellFormed, Masks
<1>3. Sees' /\ PlanOfKick' /\ PlayFitsRestart'
    BY <1>1 DEF Sees, PlanOfKick, PlayFitsRestart
<1>4. DeletedIsClear'
    BY <1>2 DEF FlowInv, DeletedIsClear, coachVars
<1>5. gamestate = Seen(state) \/ (state = {"HALTED"} /\ gamestate = "HalfTimeLineUp")
    BY <1>1 DEF FlowInv, Sees
<1>6. ModeOfKick'
    <2> SUFFICES ASSUME NEW kind \in Prepared, "READY" \in state', ours(state, kind)'
                 PROVE  gamestate' = OurState[kind]
        BY DEF ModeOfKick
    <2>1. kind \in state' /\ color \in state'
        BY <1>2 DEF ours
    <2>2. "NOTREADY" \in state /\ state' = (state \ {"NOTREADY"}) \cup {"READY"}
        BY <1>2, <2>1, CommandOnMask
    <2>3. kind \in state /\ color \in state
        BY <1>2, <2>1, <2>2 DEF Prepared, Colors
    <2>4. kind \in RestartFlags /\ ours(state, kind) /\ state # {"HALTED"}
        BY <2>2, <2>3 DEF ours, Prepared, RestartFlags
    <2>5. "READY" \notin state
        <3>1. state \in RestartMasks
            BY <1>2, <2>2 DEF Masks, PlainMasks
        <3> QED BY <2>2, <3>1, RestartMaskShape DEF RestartFlags, Colors, Phases
    <2>6. gamestate = OurState[kind]
        BY <1>2, <1>5, <2>4, <2>5, SeenTells
    <2> QED BY <1>2, <2>6 DEF coachVars
<1>7. ModeEnds'
    <2> SUFFICES ASSUME gameMode' \in PreparedModes
                 PROVE  /\ gamestate' \in {"Halt", "NormalStart"}
                        /\ state' \in {{"HALTED"}, {"GAME_OFF"}, {"GAME_ON"}}
        BY DEF ModeEnds
    <2>1. gamestate \in {"Halt", "NormalStart"} /\ gamestate' = gamestate
        BY <1>2 DEF FlowInv, ModeEnds, coachVars
    <2>2. state = {"HALTED"} \/ "READY" \in state
        BY <1>2, <1>5, <2>1, SeenTells
    <2> QED BY <1>2, <2>1, <2>2, CommandOnMask
<1>8. masterPlan = "none" => masterPlan' = "none"
    BY DEF RefCommand, planVars, Aged
<1>9. StopClears'
    BY <1>2, <1>8 DEF FlowInv, StopClears, coachVars
<1>10. ASSUME restart(state'), ~restart(state)
       PROVE  gamestate = "Stop" /\ planOver' = FALSE /\ movedFor' = 0
    <2>1. state = {"GAME_OFF"}
        BY <1>2, <1>10, CommandOnMask
    <2>2. Seen({"GAME_OFF"}) = "Stop"
        BY SeenPlain DEF Seen, gameOn
    <2>3. planOver' = FALSE /\ movedFor' = 0
        BY <1>10 DEF RefCommand
    <2> QED BY <1>5, <2>1, <2>2, <2>3
<1>11. ASSUME restart(state'), restart(state)
       PROVE  UNCHANGED <<planOver, movedFor, masterPlan, chosen>>
    BY <1>11 DEF RefCommand, planVars
<1>12. CountsThisRestart' /\ PlanIsNew' /\ ChosenOrAsked'
    <2>1. CASE ~restart(state')
        BY <2>1 DEF CountsThisRestart, PlanIsNew, ChosenOrAsked, restart
    <2>2. CASE restart(state') /\ ~restart(state)
        <3>1. /\ firstTime /\ cyclesWaitAfterballMoved = 0 /\ ~playOnFlag["ourPlayOff"]
              /\ masterPlan = "none"
            BY <1>10, <2>2 DEF FlowInv, StopClears
        <3> QED BY <1>2, <1>8, <1>10, <2>2, <3>1
                DEF CountsThisRestart, PlanIsNew, ChosenOrAsked, coachVars
    <2>3. CASE restart(state') /\ restart(state)
        BY <1>2, <1>11, <2>3 DEF FlowInv, CountsThisRestart, PlanIsNew, ChosenOrAsked, coachVars
    <2> QED BY <2>1, <2>2, <2>3
<1> QED BY <1>3, <1>4, <1>6, <1>7, <1>9, <1>12 DEF FlowInv

(***************************************************************************)
(* A cycle in which the coach starts the game: the mask is on, and nothing *)
(* of a restart is left to say.                                            *)
(***************************************************************************)
LEMMA StartKeepsFlow ==
    ASSUME FlowInv, NEW b, NEW moved, NEW ends \in BOOLEAN, Starts(b, moved, ends), Always'
    PROVE  FlowInv'
<1>1. PICK waited : Outcome(b, "Start", "Start", {"GAME_ON"}, waited, moved, ends)
    BY DEF Starts
<1>2. gamestate' = "Start" /\ gameMode' = "Start" /\ state' = {"GAME_ON"}
    BY <1>1 DEF Outcome, AfterPlay
<1>3. ~restart(state') /\ "READY" \notin state'
    BY <1>2, PlainNoRestart
<1>4. ModeOfKick' /\ ModeEnds'
    BY <1>2, <1>3 DEF ModeOfKick, ModeEnds, PreparedModes
<1>5. Sees'
    BY <1>2 DEF Sees, Seen, gameOn
<1>6. StopClears'
    BY <1>2 DEF StopClears
<1>7. CountsThisRestart' /\ PlanIsNew' /\ ChosenOrAsked' /\ PlanOfKick'
    BY <1>3 DEF CountsThisRestart, PlanIsNew, ChosenOrAsked, PlanOfKick, restart
<1>8. PlayFitsRestart'
    <2>1. state' \cap {"KICKOFF", "DIRECT", "INDIRECT"} = {} /\ "PENALTY" \notin state'
        BY <1>2
    <2> QED BY <1>3, <2>1 DEF PlayFitsRestart, ours, restart
<1>9. DeletedIsClear'
    <2>1. decideAttack("Start", "Start", waited, ends)
        BY <1>1 DEF Outcome
    <2> QED BY <2>1, DecisionEffects, DecisionKeepsDeletedClear DEF FlowInv, Always, TypeInv
<1> QED BY <1>4, <1>5, <1>6, <1>7, <1>8, <1>9 DEF FlowInv

(* What knowledge names does not depend on the rest of the state.          *)
LEMMA SeenSame ==
    ASSUME state' = state, color' = color
    PROVE  Seen(state)' = Seen(state)
BY DEF Seen, StateOfMask, StateOfRestart, gameOn, canMove, restart, halfTimeLineUp,
       canKickBall, ourRestart

(***************************************************************************)
(* The cycle that sees a Stop or Halt, of which the coach makes a new      *)
(* beginning: whatever it missed or was told by a button is forgotten.     *)
(***************************************************************************)
LEMMA StopBegins ==
    ASSUME Always, ~seen, seen', NEW b, NEW moved, NEW ends \in BOOLEAN,
           Cycle(b, moved, ends), Always'
    PROVE  FlowInv'
<1>1. b = 0 /\ gamestate' \in {"Stop", "Halt"} /\ ~playOnFlag'["ourPlayOff"]
    BY CycleOutcome DEF Follows, Starts, Outcome, Observed
<1>2. Follows(0, moved, ends)
    BY <1>1, CycleOutcome DEF Starts, Outcome
<1>3. PICK m, waited : Outcome(0, Seen(state), m, state, waited, moved, ends)
    BY <1>2 DEF Follows, SeenState, Seen, AfterJoystick
<1>4. gamestate' = Seen(state) /\ state' = state /\ color' = color
    BY <1>1, <1>3 DEF Outcome, AfterPlay
<1>5. state \in Masks /\ color \in Colors
    BY DEF Always, TypeInv, GSInv, GSTypeOK, MaskWellFormed, Masks
<1>6. state \in {{"HALTED"}, {"GAME_OFF"}}
    BY <1>1, <1>4, <1>5, SeenTells
<1>7. ~restart(state') /\ "READY" \notin state' /\ \A kind \in RestartFlags : kind \notin state'
    BY <1>4, <1>6, PlainNoRestart DEF restart
<1>8. Sees'
    <2>1. Seen(state)' = Seen(state)
        BY <1>4, SeenSame
    <2> QED BY <1>4, <2>1 DEF Sees
<1>9. ModeOfKick'
    BY <1>7 DEF ModeOfKick
<1>10. ModeEnds'
    <2>1. gamestate' = "Stop" => gameMode' = "Stop"
        BY DEF Always, StopIsWhole
    <2> QED BY <1>1, <1>4, <1>6, <2>1 DEF ModeEnds, PreparedModes
<1>11. StopClears'
    <2> SUFFICES ASSUME gamestate' = "Stop"
                 PROVE  firstTime' /\ cyclesWaitAfterballMoved' = 0 /\ masterPlan' = "none"
        BY <1>1 DEF StopClears
    <2>1. decideAttack("Stop", m, waited, ends)
        BY <1>3, <1>4 DEF Outcome
    <2>2. decideStop("Stop")
        BY <2>1 DEF decideAttack, decideHalt, decideOurKick, decideTheirKick, decideOurPenalty,
                    decideStart, decideNormalStart, decidePlacementOrHalfTime, OurKicks,
                    TheirKicks, KickOffGoesOn
    <2> QED BY <2>2 DEF decideStop, ClearRestart, ResetPlayOff, Always, DeletedIsPlanless, planVars
<1>12. CountsThisRestart' /\ PlanIsNew' /\ ChosenOrAsked' /\ PlanOfKick'
    BY <1>7 DEF CountsThisRestart, PlanIsNew, ChosenOrAsked, PlanOfKick, restart
<1>13. PlayFitsRestart'
    BY <1>7 DEF PlayFitsRestart, ours, restart, RestartFlags
<1>14. DeletedIsClear'
    BY <1>1 DEF DeletedIsClear
<1> QED BY <1>8, <1>9, <1>10, <1>11, <1>12, <1>13, <1>14 DEF FlowInv

(* The counter never runs ahead of the cycles since the ball moved.        *)
LEMMA CountersAgree ==
    ASSUME cyclesWaitAfterballMoved \in 0..CycleCap, movedFor \in 0..CycleCap,
           cyclesWaitAfterballMoved <= movedFor, NEW k, NEW m, NEW moved
    PROVE  Waited(k, m, moved) <=
               IF movedFor = 0 /\ ~moved THEN 0 ELSE Tick(movedFor)
<1> DEFINE waits == cyclesWaitAfterballMoved
<1>1. /\ Tick(waits) \in 0..CycleCap /\ Tick(movedFor) \in 0..CycleCap
      /\ Tick(waits) <= Tick(movedFor) /\ Tick(movedFor) >= 1
      /\ Tick(movedFor) >= movedFor
    BY CapIsNat DEF Tick
<1>2. CASE movedFor = 0 /\ ~moved
    <2>1. waits = 0
        BY <1>2, CapIsNat
    <2> QED BY <1>2, <2>1 DEF Waited
<1>3. CASE ~(movedFor = 0 /\ ~moved)
    <2>1. Waited(k, m, moved) \in {waits, Tick(waits), 0, 1}
        BY DEF Waited
    <2>2. \A n \in {waits, Tick(waits), 0, 1} : n <= Tick(movedFor)
        BY <1>1, CapIsNat
    <2> QED BY <1>3, <2>1, <2>2
<1> QED BY <1>2, <1>3

(* Once the counter is a number of cycles it stays one.                    *)
LEMMA WaitedNat ==
    ASSUME cyclesWaitAfterballMoved \in 0..CycleCap, NEW k, NEW m, NEW moved
    PROVE  Waited(k, m, moved) \in 0..CycleCap
BY CapIsNat DEF Waited, Tick

(* A cycle in which the coach decides for what knowledge sees.             *)
LEMMA FollowsKeepsFlow ==
    ASSUME FlowInv, seen, seen', NEW moved, NEW ends \in BOOLEAN, Follows(0, moved, ends), Always'
    PROVE  FlowInv'
<1> DEFINE k == Seen(state)
           m == NextMode(gamestate, k, gameMode)
           waited == Waited(k, m, moved)
<1>1. Outcome(0, k, m, state, waited, moved, ends)
    BY DEF Follows, SeenState, Seen, AfterJoystick
<1>2. /\ gamestate' = k /\ gameMode' = m /\ color' = color
      /\ decideAttack(k, m, waited, ends)
      /\ state' = state \/ (k = "HalfTimeLineUp" /\ state' = {"HALTED"})
    BY <1>1 DEF Outcome, AfterPlay, NextState, COMM_HALT
<1>3. /\ state \in Masks /\ color \in Colors /\ CoachTypes
      /\ restart(state) => /\ planOver' = (planOver \/ ends)
                           /\ movedFor' = IF movedFor = 0 /\ ~moved THEN 0 ELSE Tick(movedFor)
    <2>1. restart(state) => Followed
        BY DEF Followed
    <2> QED BY <1>1, <2>1
            DEF Outcome, FlowInv, Always, TypeInv, GSInv, GSTypeOK, MaskWellFormed, Masks
<1>4. \A kind \in Prepared : ours(state, kind) /\ "READY" \in state
          => k = "NormalStart" /\ m = OurState[kind]
    <2> SUFFICES ASSUME NEW kind \in Prepared, ours(state, kind), "READY" \in state
                 PROVE  k = "NormalStart" /\ m = OurState[kind]
        OBVIOUS
    <2>1. kind \in RestartFlags /\ OurState[kind] \in {"OurPenaltyKick", "OurKickOff"}
        BY DEF Prepared, RestartFlags, OurState
    <2>2. k = "NormalStart"
        BY <1>3, <2>1, SeenTells
    <2>3. \/ gamestate = OurState[kind]
          \/ gamestate = "NormalStart" /\ gameMode = OurState[kind]
        BY DEF FlowInv, ModeOfKick
    <2> HIDE DEF k
    <2> QED BY <2>1, <2>2, <2>3 DEF NextMode, KickBefore
<1>5. k = "NormalStart" => \E kind \in Prepared :
                               ours(state, kind) /\ "READY" \in state /\ m = OurState[kind]
    BY <1>3, <1>4, SeenTells
<1>6. k = "NormalStart" => m \in PreparedModes
    BY <1>5 DEF Prepared, PreparedModes, OurState
<1> HIDE DEF k
<1>7. Clears(k) \/ Kicks(k, m, waited, ends) \/ LeavesPlayOff(k, m, waited)
    <2> HIDE DEF m, waited
    <2> QED BY <1>2, <1>3, <1>6, DecisionEffects DEF FlowInv, Always
<1>8. m \in PreparedModes /\ k # "NormalStart" => m = gameMode /\ (k = gamestate \/ k \notin {"Start", "Stop"})
    BY DEF NextMode, PreparedModes
<1> HIDE DEF m
<1>9. ASSUME restart(state)
      PROVE  /\ movedFor \in 0..CycleCap /\ movedFor' \in 0..CycleCap
             /\ cyclesWaitAfterballMoved \in 0..CycleCap /\ cyclesWaitAfterballMoved <= movedFor
             /\ playOnFlag["ourPlayOff"] => planOver
             /\ waited \in 0..CycleCap /\ waited <= movedFor'
    <2>1. movedFor \in 0..CycleCap /\ movedFor' \in 0..CycleCap
        BY DEF FlowInv, Always, TypeInv, HistoryTypes
    <2>2. /\ cyclesWaitAfterballMoved \in 0..CycleCap /\ cyclesWaitAfterballMoved <= movedFor
          /\ playOnFlag["ourPlayOff"] => planOver
        BY <1>3, <1>9, CapIsNat DEF FlowInv, CountsThisRestart, CoachTypes
    <2>3. waited \in 0..CycleCap /\ waited <= movedFor'
        BY <1>3, <1>9, <2>1, <2>2, CountersAgree, WaitedNat
    <2> QED BY <2>1, <2>2, <2>3
<1> HIDE DEF waited
<1>20. Sees'
    <2>1. CASE state' = state
        <3>1. Seen(state)' = k
            BY <1>2, <2>1, SeenSame DEF k
        <3> QED BY <1>2, <3>1 DEF Sees
    <2>2. CASE state' # state
        BY <1>2, <2>2 DEF Sees
    <2> QED BY <2>1, <2>2
<1>21. ModeOfKick'
    <2> SUFFICES ASSUME NEW kind \in Prepared, "READY" \in state', ours(state, kind)'
                 PROVE  gamestate' = "NormalStart" /\ gameMode' = OurState[kind]
        BY DEF ModeOfKick
    <2>1. state' = state /\ ours(state, kind)
        BY <1>2 DEF ours
    <2> QED BY <1>2, <1>4, <2>1
<1>22. ModeEnds'
    <2> SUFFICES ASSUME m \in PreparedModes
                 PROVE  /\ k \in {"Halt", "NormalStart"}
                        /\ \/ state' \in {{"HALTED"}, {"GAME_OFF"}, {"GAME_ON"}}
                           \/ \E kind \in Prepared :
                                 m = OurState[kind] /\ ours(state, kind)' /\ "READY" \in state'
        BY <1>2 DEF ModeEnds
    <2>1. CASE k = "NormalStart"
        <3>1. state' = state
            BY <1>2, <2>1
        <3> QED BY <1>2, <1>5, <2>1, <3>1 DEF ours
    <2>2. CASE k # "NormalStart"
        <3>1. gameMode \in PreparedModes
            BY <1>8, <2>2
        <3>2. /\ gamestate \in {"Halt", "NormalStart"}
              /\ \/ state \in {{"HALTED"}, {"GAME_OFF"}, {"GAME_ON"}}
                 \/ \E kind \in Prepared : ours(state, kind) /\ "READY" \in state
            BY <3>1 DEF FlowInv, ModeEnds
        <3>3. state \in {{"HALTED"}, {"GAME_OFF"}, {"GAME_ON"}}
            BY <1>4, <2>2, <3>2
        <3>4. k \notin {"Start", "Stop"}
            BY <1>8, <2>2, <3>2
        <3>5. state = {"HALTED"} /\ k = "Halt"
            BY <3>3, <3>4, SeenPlain DEF k, Seen, gameOn
        <3> QED BY <1>2, <3>5
    <2> QED BY <2>1, <2>2
<1>24. StopClears'
    <2> SUFFICES ASSUME k = "Stop" PROVE Clears(k)
        BY <1>2 DEF StopClears, Clears
    <2> QED BY <1>7 DEF Kicks, LeavesPlayOff, OurKicks, TheirKicks
<1>25. DeletedIsClear'
    BY <1>3, <1>7, DecisionKeepsDeletedClear DEF FlowInv
<1>26. ASSUME restart(state)'
       PROVE  state' = state /\ restart(state)
    <2>1. restart(state')
        BY <1>26 DEF restart
    <2> QED BY <1>2, <2>1, PlainNoRestart
<1>27. CountsThisRestart'
    <2> SUFFICES ASSUME restart(state)
                 PROVE  /\ cyclesWaitAfterballMoved' >= 0
                        /\ cyclesWaitAfterballMoved' <= movedFor'
                        /\ playOnFlag'["ourPlayOff"] => planOver'
        BY <1>26 DEF CountsThisRestart
    <2>1. cyclesWaitAfterballMoved' \in {0, waited}
        BY <1>7 DEF Clears, Kicks, LeavesPlayOff
    <2>2. playOnFlag'["ourPlayOff"] => playOnFlag["ourPlayOff"] \/ ends
        BY <1>7 DEF Clears, Kicks, LeavesPlayOff
    <2>3. movedFor' >= 0 /\ 0 <= movedFor'
        BY <1>9, CapIsNat
    <2>4. /\ cyclesWaitAfterballMoved' >= 0
          /\ cyclesWaitAfterballMoved' <= movedFor'
        BY <1>9, <2>1, <2>3, CapIsNat
    <2>5. playOnFlag'["ourPlayOff"] => planOver'
        BY <1>3, <1>9, <2>2
    <2> QED BY <2>4, <2>5
<1>28. PlanIsNew' /\ ChosenOrAsked'
    <2> SUFFICES ASSUME restart(state)
                 PROVE  masterPlan' # "old" /\ (~firstTime' => chosen' = "this")
        BY <1>26 DEF PlanIsNew, ChosenOrAsked
    <2>1. masterPlan # "old" /\ (~firstTime => chosen = "this")
        BY DEF FlowInv, PlanIsNew, ChosenOrAsked
    <2> QED BY <1>7, <2>1 DEF Clears, Kicks, LeavesPlayOff, planVars
<1>29. PlanOfKick'
    <2> SUFFICES ASSUME restart(state), color \in state, selectedPlay' = "ourPlayOff"
                 PROVE  chosen' = "this"
        BY <1>2, <1>26 DEF PlanOfKick
    <2>1. k \notin {"Halt", "Start", "HalfTimeLineUp"}
        <3>1. PICK kind \in RestartFlags : ours(state, kind)
            BY DEF restart, ours
        <3>2. k \in {"NormalStart", OurState[kind]}
            BY <1>3, <3>1, SeenTells DEF k
        <3> QED BY <3>2 DEF RestartFlags, OurState
    <2>2. Kicks(k, m, waited, ends)
        BY <1>7, <2>1 DEF Clears, LeavesPlayOff
    <2> QED BY <2>2 DEF Kicks, FlowInv, ChosenOrAsked, planVars
<1>30. PlayFitsRestart'
    <2>1. ASSUME ours(state, "PENALTY") PROVE selectedPlay' = "ourPenalty"
        <3>1. k = "OurPenaltyKick" \/ (k = "NormalStart" /\ m = "OurPenaltyKick")
            <4>1. "PENALTY" \in Prepared /\ "PENALTY" \in RestartFlags /\ OurState["PENALTY"] = "OurPenaltyKick"
                BY DEF Prepared, RestartFlags, OurState
            <4>2. k = IF "READY" \in state THEN "NormalStart" ELSE "OurPenaltyKick"
                BY <1>3, <2>1, <4>1, SeenTells DEF k
            <4> QED BY <1>4, <2>1, <4>1, <4>2
        <3> QED BY <1>7, <3>1 DEF Clears, Kicks, LeavesPlayOff, OurKicks, TheirKicks
    <2>2. ASSUME NEW kind \in {"KICKOFF", "DIRECT", "INDIRECT"}, ours(state, kind)
          PROVE  selectedPlay' = "ourPlayOff"
        <3>1. k \in OurKicks \/ (k = "NormalStart" /\ m = "OurKickOff")
            <4>1. kind \in RestartFlags /\ OurState[kind] \in OurKicks
                BY DEF RestartFlags, OurState, OurKicks
            <4>2. k = IF kind \in Prepared /\ "READY" \in state THEN "NormalStart" ELSE OurState[kind]
                BY <1>3, <2>2, <4>1, SeenTells DEF k
            <4>3. kind \in Prepared => OurState[kind] = "OurKickOff"
                BY DEF Prepared, OurState
            <4> QED BY <1>4, <2>2, <4>1, <4>2, <4>3
        <3> QED BY <1>7, <3>1 DEF Clears, Kicks, LeavesPlayOff, OurKicks, TheirKicks
    <2>3. ASSUME restart(state), color \notin state
          PROVE  selectedPlay' \in {"otherPlay", "stopPlay"}
        <3>1. k \in TheirKicks \cup {"TheirBallPlacement"}
            <4>1. PICK kind \in RestartFlags : k = TheirState[kind]
                BY <1>3, <2>3, SeenTells DEF k
            <4> QED BY <4>1 DEF RestartFlags, TheirState, TheirKicks
        <3> QED BY <1>7, <3>1 DEF Clears, Kicks, LeavesPlayOff, OurKicks, TheirKicks
    <2>4. \/ state' = state
          \/ ~restart(state') /\ \A kind \in RestartFlags : kind \notin state'
        BY <1>2 DEF restart, RestartFlags
    <2>5. ours(state, "PENALTY")' => selectedPlay' = "ourPenalty"
        BY <1>2, <2>1, <2>4 DEF ours, RestartFlags
    <2>6. state' \cap {"KICKOFF", "DIRECT", "INDIRECT"} # {} /\ color' \in state'
              => selectedPlay' = "ourPlayOff"
        BY <1>2, <2>2, <2>4 DEF ours, RestartFlags
    <2>7. restart(state)' /\ color' \notin state' => selectedPlay' \in {"otherPlay", "stopPlay"}
        BY <1>2, <1>26, <2>3
    <2> QED BY <2>5, <2>6, <2>7 DEF PlayFitsRestart
<1> QED
    BY <1>20, <1>21, <1>22, <1>24, <1>25, <1>27, <1>28, <1>29, <1>30 DEF FlowInv

(* Each step keeps what holds always, and what holds while it is seen.     *)
LEMMA FlowSafeHolds == FlowSpec => []FlowSafe
<1>1. FlowInit => FlowSafe
    <2> SUFFICES ASSUME FlowInit PROVE Always /\ ~seen
        BY DEF FlowSafe
    <2>1. TypeInv
        BY TypesInit
    <2>2. gamestate = "Stop" /\ gameMode = "Stop" /\ masterPlan = "none" /\ seen = FALSE
        BY DEF FlowInit
    <2> QED BY <2>1, <2>2 DEF Always, StartIsWhole, StopIsWhole, DeletedIsPlanless
<1>2. FlowSafe /\ [FlowNext]_flowVars => FlowSafe'
    <2> SUFFICES ASSUME FlowSafe, [FlowNext]_flowVars PROVE FlowSafe'
        OBVIOUS
    <2>1. Always'
        BY StepKeepsAlways DEF FlowSafe
    <2> SUFFICES ASSUME seen' PROVE FlowInv'
        BY <2>1 DEF FlowSafe
    <2>2. ASSUME NEW c \in FlowCommands, RefCommand(c) PROVE FlowInv'
        <3>1. seen
            BY <2>2 DEF RefCommand
        <3> QED BY <2>1, <2>2, <3>1, CommandKeepsFlow DEF FlowSafe
    <2>3. ASSUME NEW b, NEW moved \in BOOLEAN, NEW ends \in BOOLEAN, Cycle(b, moved, ends)
          PROVE  FlowInv'
        <3>1. b = 0
            BY <2>3, CycleOutcome DEF Follows, Starts, Outcome, Observed
        <3>2. CASE seen
            BY <2>1, <2>3, <3>1, <3>2, CycleOutcome, FollowsKeepsFlow, StartKeepsFlow DEF FlowSafe
        <3>3. CASE ~seen
            BY <2>1, <2>3, <3>3, StopBegins DEF FlowSafe
        <3> QED BY <3>2, <3>3
    <2>4. CASE UNCHANGED flowVars
        <3>1. UNCHANGED <<state, color, coachVars, planVars, pending, seen, planOver, movedFor>>
            BY <2>4 DEF flowVars, gsVars, historyVars
        <3>2. FlowInv
            BY <3>1 DEF FlowSafe
        <3>3. Seen(state)' = Seen(state)
            BY <3>1, SeenSame
        <3>4. Sees' /\ ModeOfKick' /\ ModeEnds'
            BY <3>1, <3>2, <3>3 DEF FlowInv, Sees, ModeOfKick, ModeEnds, coachVars, ours
        <3>5. StopClears' /\ CountsThisRestart' /\ DeletedIsClear'
            BY <3>1, <3>2 DEF FlowInv, StopClears, CountsThisRestart, DeletedIsClear,
                              coachVars, planVars, restart
        <3>6. PlanIsNew' /\ ChosenOrAsked' /\ PlanOfKick'
            BY <3>1, <3>2 DEF FlowInv, PlanIsNew, ChosenOrAsked, PlanOfKick, coachVars, planVars,
                              restart
        <3>7. PlayFitsRestart'
            BY <3>1, <3>2 DEF FlowInv, PlayFitsRestart, coachVars, restart, ours
        <3> QED BY <2>1, <3>4, <3>5, <3>6, <3>7 DEF FlowInv
    <2> QED BY <2>1, <2>2, <2>3, <2>4 DEF FlowNext, CoachExecute
<1> QED BY <1>1, <1>2, PTL DEF FlowSpec

(* After every cycle the play that was executed is the one for the restart *)
(* in force (coach.cpp:1428), while the coach sees every command.          *)
THEOREM PlayAlwaysFits == FlowSpec => []PlayFitsRestart
<1>1. FlowSafe => PlayFitsRestart
    BY DEF FlowSafe, FlowInv, PlayFitsRestart
<1> QED BY <1>1, FlowSafeHolds, PTL

(* In a restart of ours the choice of a plan has been made in it, and the  *)
(* play-off does not play the plan of an earlier one, though it keeps the  *)
(* plan it had when none is valid (coach.cpp:1472,1923).                   *)
THEOREM PlanAlwaysOfThisRestart == FlowSpec => []PlanIsOfThisRestart
<1>1. FlowSafe => PlanIsOfThisRestart
    <2> SUFFICES ASSUME FlowInv, ~pending, color \in state, selectedPlay = "ourPlayOff"
                 PROVE  chosen = "this" /\ masterPlan # "old"
        BY DEF FlowSafe, PlanIsOfThisRestart
    <2>1. restart(state)
        <3>1. state \in Masks /\ color \in Colors
            BY DEF FlowInv, Always, TypeInv, GSInv, GSTypeOK, MaskWellFormed, Masks
        <3>2. state \notin PlainMasks
            BY <3>1 DEF PlainMasks, Colors
        <3> QED BY <3>1, <3>2, MaskCases
    <2> QED BY <2>1 DEF FlowInv, PlanOfKick, PlanIsNew
<1> QED BY <1>1, FlowSafeHolds, PTL

(* The mode of a prepared kick outlives the kick in Halt only, where it    *)
(* goes on telling the coach that a kick is ours (knowledge.cpp:572).      *)
THEOREM ModeOutlivesOnlyInHalt == FlowSpec => []ModeOutlivesKickInHaltOnly
<1>1. FlowSafe => ModeOutlivesKickInHaltOnly
    <2> SUFFICES ASSUME FlowInv, ~pending, gameMode \in PreparedModes
                 PROVE  \/ state = {"HALTED"}
                        \/ /\ "READY" \in state
                           /\ OurState["KICKOFF"] = gameMode => ours(state, "KICKOFF")
                           /\ OurState["PENALTY"] = gameMode => ours(state, "PENALTY")
        BY DEF FlowSafe, ModeOutlivesKickInHaltOnly, PreparedModes
    <2>1. gamestate \in {"Halt", "NormalStart"}
        BY DEF FlowInv, ModeEnds
    <2>2. gamestate = Seen(state) \/ state = {"HALTED"}
        BY DEF FlowInv, Sees
    <2>3. state # {"GAME_OFF"} /\ state # {"GAME_ON"}
        BY <2>1, <2>2, SeenPlain DEF Seen, gameOn
    <2>4. CASE state = {"HALTED"}
        BY <2>4
    <2>5. CASE \E kind \in Prepared : gameMode = OurState[kind] /\ ours(state, kind) /\ "READY" \in state
        BY <2>5 DEF Prepared, OurState
    <2> QED BY <2>3, <2>4, <2>5 DEF FlowInv, ModeEnds
<1> QED BY <1>1, FlowSafeHolds, PTL

(* When the coach starts the game out of a restart, the ball has moved in  *)
(* this restart, and out of a play-off of ours the plan has ended in it    *)
(* and the ball moved more than WaitCycles before (coach.cpp:258,268),     *)
(* however long the restarts before it lasted and however they ended.      *)
THEOREM ForceStartAlwaysEarned == FlowSpec => ForceStartIsEarned
<1> DEFINE Earned == CoachForcesStart /\ seen /\ seen' /\ restart(state) =>
                         /\ movedFor' > 0
                         /\ ourRestart(state) /\ selectedPlay = "ourPlayOff"
                               => planOver /\ movedFor' > WaitCycles
<1>1. FlowSafe /\ [FlowNext]_flowVars => [Earned]_flowVars
    <2> SUFFICES ASSUME FlowInv, FlowNext, CoachForcesStart, seen, seen', restart(state)
                 PROVE  /\ movedFor' > 0
                        /\ ourRestart(state) /\ selectedPlay = "ourPlayOff"
                               => planOver /\ movedFor' > WaitCycles
        BY DEF FlowSafe
    <2>1. ~pending' /\ gameOn(state') /\ ~gameOn(state)
        BY DEF CoachForcesStart
    <2>2. PICK moved \in BOOLEAN, ends \in BOOLEAN : Cycle(0, moved, ends)
        <3>0. ASSUME NEW c \in FlowCommands, RefCommand(c) PROVE FALSE
            BY <2>1, <3>0 DEF RefCommand
        <3>1. PICK b \in Buttons \cup {0}, moved \in BOOLEAN, ends \in BOOLEAN : Cycle(b, moved, ends)
            BY <3>0 DEF FlowNext, CoachExecute
        <3>2. b = 0
            BY <3>1, CycleOutcome DEF Follows, Starts, Outcome, Observed
        <3> QED BY <3>1, <3>2
    <2> DEFINE k == Seen(state)
               m == NextMode(gamestate, k, gameMode)
               waited == Waited(k, m, moved)
    <2>3. Starts(0, moved, ends)
        <3>1. ASSUME Follows(0, moved, ends) PROVE FALSE
            <4>1. state' = state \/ state' = {"HALTED"}
                BY <3>1 DEF Follows, Outcome, AfterPlay, AfterJoystick, NextState, COMM_HALT
            <4> QED BY <2>1, <4>1 DEF gameOn
        <3> QED BY <2>2, <3>1, CycleOutcome
    <2>4. PICK flag \in FlagOf(selectedPlay) : ForceStart(k, m, waited, flag)
        BY <2>3 DEF Starts, SeenState, Seen
    <2>5. /\ cyclesWaitAfterballMoved \in 0..CycleCap
          /\ cyclesWaitAfterballMoved <= movedFor
          /\ playOnFlag["ourPlayOff"] => planOver
        BY CapIsNat DEF FlowInv, Always, CountsThisRestart, TypeInv, CoachTypes
    <2>6. movedFor \in 0..CycleCap
        BY DEF FlowInv, Always, TypeInv, HistoryTypes
    <2>7. movedFor' = IF movedFor = 0 /\ ~moved THEN 0 ELSE Tick(movedFor)
        <3>1. Followed
            BY DEF Followed
        <3> QED BY <2>3, <3>1 DEF Starts, Outcome
    <2>8. waited <= movedFor' /\ waited \in 0..CycleCap /\ movedFor' \in 0..CycleCap
        <3>1. Tick(movedFor) \in 0..CycleCap /\ 0 \in 0..CycleCap
            BY <2>6, CapIsNat DEF Tick
        <3> HIDE DEF k, m
        <3> QED BY <2>5, <2>6, <2>7, <3>1, CountersAgree, WaitedNat
    <2>9. state \in Masks /\ color \in Colors
        BY DEF FlowInv, Always, TypeInv, GSInv, GSTypeOK, MaskWellFormed, Masks
    <2>10. ourRestart(state) => k \notin TheirKicks
        <3> SUFFICES ASSUME ourRestart(state) PROVE k \notin TheirKicks
            OBVIOUS
        <3>1. PICK kind \in RestartFlags : ours(state, kind)
            BY DEF ourRestart, restart, ours
        <3>2. k \in {"NormalStart", OurState[kind]}
            BY <2>9, <3>1, SeenTells
        <3> QED BY <3>2 DEF RestartFlags, OurState, TheirKicks
    <2> HIDE DEF k, m, waited
    <2>11. waited > 0 /\ (k \notin TheirKicks => waited > WaitCycles /\ flag)
        BY <2>4, <2>8, CapIsNat, FlowAssumption DEF ForceStart
    <2>12. selectedPlay = "ourPlayOff" => flag = playOnFlag["ourPlayOff"]
        BY <2>4 DEF FlagOf, FlagWriters
    <2> QED BY <2>5, <2>8, <2>10, <2>11, <2>12, CapIsNat, FlowAssumption
<1> QED BY <1>1, FlowSafeHolds, PTL DEF FlowSpec, ForceStartIsEarned
=============================================================================
