----------------------------- MODULE GameState -----------------------------
(***************************************************************************)
(* The referee state machine of the program: class GameState               *)
(* (gamestate.cpp).  A referee command is one character, as in commands.h. *)
(* The `int state' of the class is a mask of one-bit constants; here it is *)
(* the set of the constants whose bit is set, so `state & X' is            *)
(* "X \in state" and `state == X' is "state = {X}".                        *)
(*                                                                         *)
(* The transition function is split into NextState, NextGametimes and      *)
(* NextScore, because the modules that extend this one apply it inside     *)
(* larger steps and to the states of an imagined run.                      *)
(***************************************************************************)
EXTENDS Integers

VARIABLES
    state,                  \* the mask, as a set of flags
    gametimes,              \* {GAME_ON} until the penalty shootout begins
    color,                  \* the flag of our team's colour
    bluescore, yellowscore

gsVars == <<state, gametimes, color, bluescore, yellowscore>>

Colors == {"BLUE", "YELLOW"}
RestartFlags == {"KICKOFF", "PENALTY", "DIRECT", "INDIRECT", "BALLPLACEMENT"}
Phases == {"READY", "NOTREADY"}
Flags == {"GAME_ON", "GAME_OFF", "HALTED", "HALF_TIME"}
             \cup Colors \cup RestartFlags \cup Phases

(* The characters of commands.h. *)
COMM_HALT == "H"
COMM_STOP == "S"
COMM_START == "s"
COMM_READY == " "
COMM_HALF_TIME == "h"
COMM_PENALTY_SHOOTOUT == "a"
RestartCommands == {"K", "k", "P", "p", "F", "f", "I", "i", "B", "b"}
ScoreCommands == {"G", "g", "D", "d"}
OtherCommands == {"1", "2", "o", "O", "t", "T", "y", "Y", "r", "R"}
Commands == {COMM_HALT, COMM_STOP, COMM_START, COMM_READY, COMM_HALF_TIME,
             COMM_PENALTY_SHOOTOUT}
                 \cup RestartCommands \cup ScoreCommands \cup OtherCommands

(***************************************************************************)
(* The mask a restart command puts into the state.  Kickoffs and penalties *)
(* are prepared first and wait for COMM_READY; the other restarts are      *)
(* READY at once.                                                          *)
(***************************************************************************)
RestartKind(c) ==
    IF c \in {"K", "k"} THEN "KICKOFF"
    ELSE IF c \in {"P", "p"} THEN "PENALTY"
    ELSE IF c \in {"F", "f"} THEN "DIRECT"
    ELSE IF c \in {"I", "i"} THEN "INDIRECT"
    ELSE "BALLPLACEMENT"

PreparedCommands == {"K", "k", "P", "p"}

RestartMask(c) ==
    {RestartKind(c),
     IF c \in {"K", "P", "F", "I", "B"} THEN "BLUE" ELSE "YELLOW",
     IF c \in PreparedCommands THEN "NOTREADY" ELSE "READY"}

(* Two plausible bugs of the function below: COMM_READY does not clear       *)
(* NOTREADY; a restart command is obeyed without a STOP before it.           *)
NextStateKeepsNotReady(s, c) ==
    IF c = COMM_HALT       THEN {"HALTED"}
    ELSE IF c = COMM_STOP  THEN {"GAME_OFF"}
    ELSE IF c = COMM_START THEN {"GAME_ON"}
    ELSE IF c = COMM_READY /\ "NOTREADY" \in s THEN s \cup {"READY"}
    ELSE IF s = {"GAME_OFF"} /\ c \in RestartCommands THEN RestartMask(c)
    ELSE s

NextStateWithoutStop(s, c) ==
    IF c = COMM_HALT       THEN {"HALTED"}
    ELSE IF c = COMM_STOP  THEN {"GAME_OFF"}
    ELSE IF c = COMM_START THEN {"GAME_ON"}
    ELSE IF c \in RestartCommands THEN RestartMask(c)
    ELSE s

(***************************************************************************)
(* transition(ref_command), field by field.  A READY restart is ended by   *)
(* any command that is not HALT, STOP or START, whatever it says.          *)
(***************************************************************************)
NextState(s, c) ==
    IF c = COMM_HALT       THEN {"HALTED"}
    ELSE IF c = COMM_STOP  THEN {"GAME_OFF"}
    ELSE IF c = COMM_START THEN {"GAME_ON"}
    ELSE IF c = COMM_READY /\ "NOTREADY" \in s
         THEN (s \ {"NOTREADY"}) \cup {"READY"}
    ELSE IF "READY" \in s      THEN {"GAME_ON"}
    ELSE IF s # {"GAME_OFF"}   THEN s
    ELSE IF c \in RestartCommands THEN RestartMask(c)
    ELSE IF c = COMM_HALF_TIME THEN {"HALF_TIME"}
    ELSE s

NextGametimes(s, t, c) ==
    IF c = COMM_PENALTY_SHOOTOUT /\ "READY" \notin s
    THEN {"PENALTY_SHOOTOUT"} ELSE t

NextScore(score, goal, subgoal, c) ==
    IF c = goal THEN score + 1
    ELSE IF c = subgoal THEN score - 1
    ELSE score

(* The queries of the class, on a mask s and our colour. *)
gameOn(s)        == s = {"GAME_ON"}
canMove(s)       == s # {"HALTED"}
restart(s)       == s \cap RestartFlags # {}
ourRestart(s)    == restart(s) /\ color \in s
ours(s, kind)    == kind \in s /\ color \in s
theirs(s, kind)  == kind \in s /\ color \notin s
halfTimeLineUp(s) == "HALF_TIME" \in s
canKickBall(s)   == gameOn(s) \/ (ourRestart(s) /\ "READY" \in s)
penalty_shootout == "PENALTY_SHOOTOUT" \in gametimes

-----------------------------------------------------------------------------
(* The class on its own: any caller, any command. *)

GSInit ==
    /\ state = {"GAME_OFF"}
    /\ gametimes = {"GAME_ON"}
    /\ color = "BLUE"
    /\ bluescore = 0
    /\ yellowscore = 0

Transition(c) ==
    /\ state' = NextState(state, c)
    /\ gametimes' = NextGametimes(state, gametimes, c)
    /\ bluescore' = NextScore(bluescore, "G", "D", c)
    /\ yellowscore' = NextScore(yellowscore, "g", "d", c)
    /\ UNCHANGED color

(* GameState::init, called when the operator changes the team's colour *)
SetColor(k) ==
    /\ color' = k
    /\ UNCHANGED <<state, gametimes, bluescore, yellowscore>>

GSNext == \/ \E c \in Commands : Transition(c)
          \/ \E k \in Colors : SetColor(k)

GSSpec == GSInit /\ [][GSNext]_gsVars

-----------------------------------------------------------------------------
(***************************************************************************)
(* Type invariant: the variables are masks, colours and numbers.           *)
(***************************************************************************)
GSTypeOK ==
    /\ state \subseteq Flags
    /\ gametimes \in {{"GAME_ON"}, {"PENALTY_SHOOTOUT"}}
    /\ color \in Colors
    /\ bluescore \in Int
    /\ yellowscore \in Int

(***************************************************************************)
(* The mask is never a mixture: the play is on, off, halted, at half time, *)
(* or in exactly one restart, of exactly one colour, in exactly one phase, *)
(* and only kickoffs and penalties are ever waiting to be READY.  The      *)
(* if-chains of CKnowledge::updateGameState and CSoccer::refUpdate read    *)
(* the mask flag by flag and rely on it.                                   *)
(***************************************************************************)
RestartMasks ==
    {{kind, k, "READY"} : kind \in RestartFlags, k \in Colors}
        \cup {{kind, k, "NOTREADY"} : kind \in {"KICKOFF", "PENALTY"}, k \in Colors}

PlainMasks == {{"GAME_ON"}, {"GAME_OFF"}, {"HALTED"}, {"HALF_TIME"}}

MaskWellFormed == state \in PlainMasks \cup RestartMasks

(***************************************************************************)
(* One restart is never turned into another: between two of them the game  *)
(* is stopped, halted or on.  A wrong kind or colour would put the plays   *)
(* of the previous restart to work for the next one (gamestate.cpp:79).    *)
(***************************************************************************)
RestartsAreSeparated ==
    [][restart(state) /\ restart(state')
         => state \ Phases = state' \ Phases]_gsVars
=============================================================================
