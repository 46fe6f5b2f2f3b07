-------------------------- MODULE GameState_proofs --------------------------
(***************************************************************************)
(* Proofs about the referee state machine, for every sequence of commands  *)
(* and of changes of colour.  MaskWellFormed is inductive together         *)
(* with the type invariant; that one restart never becomes another follows *)
(* from it.                                                                *)
(***************************************************************************)
EXTENDS GameState, TLAPS

Masks == PlainMasks \cup RestartMasks

(* A mask of a restart, spelled out. *)
LEMMA RestartMaskShape ==
    ASSUME NEW s \in RestartMasks
    PROVE  \E kind \in RestartFlags, k \in Colors, ph \in Phases :
              /\ s = {kind, k, ph}
              /\ ph = "NOTREADY" => kind \in {"KICKOFF", "PENALTY"}
BY DEF RestartMasks, RestartFlags, Colors, Phases

(* What a restart command puts into the state is a restart mask. *)
LEMMA RestartMaskWellFormed ==
    ASSUME NEW c \in RestartCommands
    PROVE  RestartMask(c) \in RestartMasks
<1> DEFINE kind == RestartKind(c)
           k == IF c \in {"K", "P", "F", "I", "B"} THEN "BLUE" ELSE "YELLOW"
           ph == IF c \in PreparedCommands THEN "NOTREADY" ELSE "READY"
<1>1. kind \in RestartFlags
  BY DEF RestartKind, RestartCommands, RestartFlags
<1>2. k \in Colors
  BY DEF Colors
<1>3. ph = "NOTREADY" => kind \in {"KICKOFF", "PENALTY"}
  BY DEF PreparedCommands, RestartKind
<1>4. ph \in {"READY", "NOTREADY"}
  OBVIOUS
<1>5. RestartMask(c) = {kind, k, ph}
  BY DEF RestartMask
<1> QED
  <2> HIDE DEF kind, k, ph
  <2> QED BY <1>1, <1>2, <1>3, <1>4, <1>5 DEF RestartMasks

(* NORMAL_START turns a prepared restart into the same restart, READY. *)
LEMMA ReadyMask ==
    ASSUME NEW s \in RestartMasks, "NOTREADY" \in s
    PROVE  (s \ {"NOTREADY"}) \cup {"READY"} \in RestartMasks
<1>1. PICK kind \in RestartFlags, k \in Colors, ph \in Phases : s = {kind, k, ph}
  BY RestartMaskShape
<1>2. kind # "NOTREADY" /\ k # "NOTREADY"
  BY DEF RestartFlags, Colors
<1>3. ph = "NOTREADY"
  BY <1>1, <1>2
<1>4. (s \ {"NOTREADY"}) \cup {"READY"} = {kind, k, "READY"}
  BY <1>1, <1>2, <1>3
<1> QED BY <1>4 DEF RestartMasks

(* The transition function keeps masks well formed, whatever character it  *)
(* is given: it may be one the memory held (Referee, Unassigned).          *)
LEMMA NextStateWellFormed ==
    ASSUME NEW s \in Masks, NEW c
    PROVE  NextState(s, c) \in Masks
<1>1. CASE c = COMM_HALT
  BY <1>1 DEF NextState, Masks, PlainMasks, COMM_HALT
<1>2. CASE c = COMM_STOP
  BY <1>2 DEF NextState, Masks, PlainMasks, COMM_HALT, COMM_STOP
<1>3. CASE c = COMM_START
  BY <1>3 DEF NextState, Masks, PlainMasks, COMM_HALT, COMM_STOP, COMM_START
<1>4. CASE c = COMM_READY /\ "NOTREADY" \in s
  <2>1. s \in RestartMasks
    BY <1>4 DEF Masks, PlainMasks
  <2>2. NextState(s, c) = (s \ {"NOTREADY"}) \cup {"READY"}
    BY <1>4 DEF NextState, COMM_HALT, COMM_STOP, COMM_START, COMM_READY
  <2> QED BY <1>4, <2>1, <2>2, ReadyMask DEF Masks
<1>5. CASE /\ c \notin {COMM_HALT, COMM_STOP, COMM_START}
           /\ ~(c = COMM_READY /\ "NOTREADY" \in s)
  <2>1. NextState(s, c) =
            IF "READY" \in s THEN {"GAME_ON"}
            ELSE IF s # {"GAME_OFF"} THEN s
            ELSE IF c \in RestartCommands THEN RestartMask(c)
            ELSE IF c = COMM_HALF_TIME THEN {"HALF_TIME"}
            ELSE s
    BY <1>5 DEF NextState
  <2> QED BY <2>1, RestartMaskWellFormed DEF Masks, PlainMasks
<1> QED BY <1>1, <1>2, <1>3, <1>4, <1>5

(* Whatever the command, a restart stays the same restart or ends. *)
LEMMA NextStateSeparates ==
    ASSUME NEW s \in Masks, NEW c,
           restart(s), restart(NextState(s, c))
    PROVE  s \ Phases = NextState(s, c) \ Phases
<1>1. c \notin {COMM_HALT, COMM_STOP, COMM_START}
  BY DEF NextState, restart, RestartFlags, COMM_HALT, COMM_STOP, COMM_START
<1>2. CASE c = COMM_READY /\ "NOTREADY" \in s
  <2>1. NextState(s, c) = (s \ {"NOTREADY"}) \cup {"READY"}
    BY <1>1, <1>2 DEF NextState
  <2> QED BY <2>1 DEF Phases
<1>3. CASE ~(c = COMM_READY /\ "NOTREADY" \in s)
  <2>1. NextState(s, c) =
            IF "READY" \in s THEN {"GAME_ON"}
            ELSE IF s # {"GAME_OFF"} THEN s
            ELSE IF c \in RestartCommands THEN RestartMask(c)
            ELSE IF c = COMM_HALF_TIME THEN {"HALF_TIME"}
            ELSE s
    BY <1>1, <1>3 DEF NextState
  <2>2. "READY" \notin s
    BY <2>1 DEF restart, RestartFlags
  <2>3. s # {"GAME_OFF"}
    BY DEF restart, RestartFlags
  <2> QED BY <2>1, <2>2, <2>3
<1> QED BY <1>2, <1>3

(* What a command does to a kick that is being prepared.                   *)
LEMMA CommandOnKick ==
    ASSUME NEW s \in Masks, NEW c
    PROVE  LET t == NextState(s, c) IN
           /\ ~restart(s) /\ restart(t) => c \in RestartCommands
           /\ t \cap {"KICKOFF", "PENALTY"} # {} /\ "READY" \in t
                 => c = COMM_READY /\ "NOTREADY" \in s
           /\ "BALLPLACEMENT" \in t => c \in {"b", "B"}
           /\ c = COMM_READY => "NOTREADY" \notin t
<1> DEFINE t == NextState(s, c)
<1>0. s \in RestartMasks \/ s \in PlainMasks
  BY DEF Masks
<1>1. CASE c \in {COMM_HALT, COMM_STOP, COMM_START}
  <2>1. t \in PlainMasks
    BY <1>1 DEF NextState, PlainMasks
  <2> QED BY <2>1 DEF PlainMasks, restart, RestartFlags
<1>2. CASE c \notin {COMM_HALT, COMM_STOP, COMM_START} /\ c = COMM_READY /\ "NOTREADY" \in s
  <2>1. t = (s \ {"NOTREADY"}) \cup {"READY"}
    BY <1>2 DEF NextState
  <2>2. PICK kind \in RestartFlags, k \in Colors, ph \in Phases :
            s = {kind, k, ph} /\ (ph = "NOTREADY" => kind \in {"KICKOFF", "PENALTY"})
    BY <1>0, <1>2, RestartMaskShape DEF PlainMasks
  <2>3. restart(s)
    BY <2>2 DEF restart
  <2>4. "BALLPLACEMENT" \notin t
    BY <1>2, <2>1, <2>2 DEF RestartFlags, Colors, Phases
  <2> QED BY <1>2, <2>1, <2>3, <2>4
<1>3. CASE c \notin {COMM_HALT, COMM_STOP, COMM_START} /\ ~(c = COMM_READY /\ "NOTREADY" \in s)
  <2>1. t = IF "READY" \in s THEN {"GAME_ON"}
            ELSE IF s # {"GAME_OFF"} THEN s
            ELSE IF c \in RestartCommands THEN RestartMask(c)
            ELSE IF c = COMM_HALF_TIME THEN {"HALF_TIME"}
            ELSE s
    BY <1>3 DEF NextState
  <2>2. CASE t = s /\ "READY" \notin s
    <3>1. "BALLPLACEMENT" \notin s
      BY <1>0, <2>2, RestartMaskShape DEF PlainMasks, RestartFlags, Colors, Phases
    <3> QED BY <1>3, <2>2, <3>1
  <2>3. CASE t = RestartMask(c) /\ c \in RestartCommands
    <3>1. t \cap {"KICKOFF", "PENALTY"} # {} => c \in PreparedCommands
      BY <2>3 DEF RestartMask, RestartKind, RestartCommands, PreparedCommands
    <3>2. "READY" \in t => c \notin PreparedCommands
      BY <2>3 DEF RestartMask, RestartKind
    <3>3. "BALLPLACEMENT" \in t => c \in {"b", "B"}
      BY <2>3 DEF RestartMask, RestartKind, RestartCommands
    <3>4. c # COMM_READY
      BY <2>3 DEF RestartCommands, COMM_READY
    <3> QED BY <2>3, <3>1, <3>2, <3>3, <3>4
  <2>4. CASE t \in {{"GAME_ON"}, {"HALF_TIME"}, {"GAME_OFF"}}
    BY <2>4 DEF restart, RestartFlags
  <2> QED BY <2>1, <2>2, <2>3, <2>4
<1> QED BY <1>1, <1>2, <1>3

-----------------------------------------------------------------------------
(* The types are inductive together with the mask.                         *)
GSInv == GSTypeOK /\ MaskWellFormed

(* A well-formed mask is a set of flags.                                   *)
LEMMA MasksAreFlags == Masks \subseteq SUBSET Flags
BY RestartMaskShape DEF Masks, PlainMasks, Flags, Phases

(* The first mask is one.                                                  *)
LEMMA GSInvInit == GSInit => GSInv
BY DEF GSInit, GSInv, GSTypeOK, MaskWellFormed, PlainMasks, Flags, Colors

(* A command, of whatever character, keeps the types and the mask.         *)
LEMMA TransitionKeepsTypes ==
    ASSUME GSInv, NEW c, Transition(c)
    PROVE  GSInv'
<1>1. state' \in Masks
  BY NextStateWellFormed DEF GSInv, MaskWellFormed, Masks, Transition
<1>2. state' \subseteq Flags
  BY <1>1, MasksAreFlags
<1>3. gametimes' \in {{"GAME_ON"}, {"PENALTY_SHOOTOUT"}}
  BY DEF Transition, NextGametimes, GSInv, GSTypeOK
<1>4. bluescore' \in Int /\ yellowscore' \in Int
  BY DEF Transition, NextScore, GSInv, GSTypeOK
<1>5. color' \in Colors
  BY DEF Transition, GSInv, GSTypeOK
<1> QED BY <1>1, <1>2, <1>3, <1>4, <1>5 DEF GSInv, GSTypeOK, MaskWellFormed, Masks

(* Every command and every change of colour keeps it.                      *)
LEMMA GSInvNext == GSInv /\ [GSNext]_gsVars => GSInv'
<1> SUFFICES ASSUME GSInv, [GSNext]_gsVars PROVE GSInv'
  OBVIOUS
<1>1. ASSUME NEW c \in Commands, Transition(c) PROVE GSInv'
  BY <1>1, TransitionKeepsTypes
<1>2. ASSUME NEW k \in Colors, SetColor(k) PROVE GSInv'
  BY <1>2 DEF SetColor, GSInv, GSTypeOK, MaskWellFormed
<1>3. CASE UNCHANGED gsVars
  BY <1>3 DEF gsVars, GSInv, GSTypeOK, MaskWellFormed
<1> QED BY <1>1, <1>2, <1>3 DEF GSNext

(***************************************************************************)
(* The variables of GameState keep their types whatever the commands       *)
(* (gamestate.cpp:55).                                                     *)
(***************************************************************************)
THEOREM TypeCorrect == GSSpec => []GSTypeOK
<1>1. GSInv => GSTypeOK BY DEF GSInv
<1> QED BY GSInvInit, GSInvNext, <1>1, PTL DEF GSSpec

(***************************************************************************)
(* The mask is on, off, halted, half time or exactly one restart, after    *)
(* any sequence of commands (gamestate.cpp:55).                            *)
(***************************************************************************)
THEOREM MaskAlwaysWellFormed == GSSpec => []MaskWellFormed
<1>1. GSInv => MaskWellFormed BY DEF GSInv
<1> QED BY GSInvInit, GSInvNext, <1>1, PTL DEF GSSpec

(***************************************************************************)
(* No command turns one restart into another (gamestate.cpp:79).           *)
(***************************************************************************)
THEOREM RestartsStaySeparated == GSSpec => RestartsAreSeparated
<1> DEFINE Separate == restart(state) /\ restart(state')
                          => state \ Phases = state' \ Phases
<1>1. GSInv /\ [GSNext]_gsVars => [Separate]_gsVars
  <2> SUFFICES ASSUME GSInv, GSNext PROVE Separate
    OBVIOUS
  <2>1. ASSUME NEW c \in Commands, Transition(c) PROVE Separate
    BY <2>1, NextStateSeparates DEF GSInv, MaskWellFormed, Masks, Transition
  <2>2. ASSUME NEW k \in Colors, SetColor(k) PROVE Separate
    BY <2>2 DEF SetColor
  <2> QED BY <2>1, <2>2 DEF GSNext
<1> QED BY GSInvInit, GSInvNext, <1>1, PTL DEF GSSpec, RestartsAreSeparated
=============================================================================
