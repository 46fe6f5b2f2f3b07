--------------------------- MODULE Referee_proofs ---------------------------
(***************************************************************************)
(* What the packets do to the state machine is transition() or nothing, so *)
(* the facts about masks hold here too, cached characters included; the    *)
(* whole implements the state machine.                                     *)
(*                                                                         *)
(* The state machine is given a command at most once, for every width of   *)
(* the counter, every set of stages, commands and cards, and every loss.   *)
(* The invariant that is inductive speaks of the packet in the socket and  *)
(* of the command given last: what refUpdate kept of the counter is the    *)
(* low byte of that command's number, and later packets carry no smaller   *)
(* number.  Two numbers with different low bytes are different.            *)
(*                                                                         *)
(* That a kick waits for its own NORMAL_START rests on what the packets on *)
(* the way tell (PacketsTell) and on what the cached character still does  *)
(* (CachedTells): a stage of play that the program has not seen yet was    *)
(* entered by a NORMAL_START after the restart, and so was a COMM_READY    *)
(* kept while the kick is prepared.                                        *)
(***************************************************************************)
EXTENDS Referee, GameState_proofs, TLAPS

(* What refUpdate keeps of the counter fits its width. *)
LEMMA LowByteType ==
    ASSUME NEW n \in Nat
    PROVE  LowByte(n) \in 0..(CounterWidth - 1)
BY RefereeAssumption DEF LowByte

(* The characters of stages; only a half that is played gives COMM_READY. *)
LEMMA MapStageGives ==
    ASSUME NEW st \in AllStages
    PROVE  /\ map_stage(st) \in {"1", "2", "h", "a", " "}
           /\ map_stage(st) = COMM_READY => st \in {"FIRST_HALF", "SECOND_HALF"}
BY DEF map_stage, COMM_HALF_TIME, COMM_PENALTY_SHOOTOUT, COMM_READY, AllStages

(* The characters of commands; only NORMAL_START gives COMM_READY. *)
LEMMA MapCommandGives ==
    ASSUME NEW c \in AllBoxCommands
    PROVE  /\ map_command(c) \in {"H", "S", " ", "s", "K", "p", "F", "i", "B", "G", "T"}
           /\ map_command(c) = COMM_READY <=> c = "NORMAL_START"
BY DEF map_command, AllBoxCommands, COMM_READY, COMM_HALT, COMM_STOP, COMM_START

(* Where compute_command takes the character from. *)
LEMMA ComputedCommand ==
    ASSUME RefTypeOK, NEW p \in socket
    PROVE  \/ /\ p.stage # last.stage
              /\ compute_command(p) = map_stage(p.stage)
           \/ /\ p.command # last.command
              /\ compute_command(p) = map_command(p.command)
           \/ compute_command(p) \in {"y", "Y", "r", "R"}
           \/ /\ p.command = last.command
              /\ compute_command(p) = cached
BY DEF compute_command

(* The character that compute_command reports is a command or none yet.    *)
LEMMA ComputedCommandType ==
    ASSUME RefTypeOK, NEW p \in socket
    PROVE  compute_command(p) \in Commands \cup {Unassigned}
<1>1. p.stage \in AllStages /\ p.command \in AllBoxCommands
  BY DEF RefTypeOK, Packets
<1>2. map_stage(p.stage) \in Commands
  BY <1>1, MapStageGives DEF Commands, COMM_HALF_TIME, COMM_PENALTY_SHOOTOUT, COMM_READY, OtherCommands
<1>3. map_command(p.command) \in Commands
  BY <1>1, MapCommandGives DEF Commands, COMM_READY, COMM_HALT, COMM_STOP, COMM_START, RestartCommands, ScoreCommands, OtherCommands
<1> QED BY <1>2, <1>3, ComputedCommand DEF RefTypeOK, Commands, OtherCommands

(* The types of the composition, and the mask it leaves to the state       *)
(* machine.                                                                *)
RefTypeInv == RefTypeOK /\ MaskWellFormed

(* The types hold before the first packet.                                 *)
LEMMA RefTypeInit == RefInit => RefTypeInv
<1> SUFFICES ASSUME RefInit PROVE RefTypeInv
  OBVIOUS
<1>1. GSTypeOK /\ MaskWellFormed
  BY GSInvInit DEF RefInit, GSInv
<1>2. box \in Packets /\ socket \subseteq Packets
  BY DEF RefInit, Packets, AllStages, AllBoxCommands
<1>3. last \in [stage : AllStages \cup {Unassigned},
                 command : AllBoxCommands \cup {Unassigned},
                 cards : [CardKinds -> Nat]]
  BY RefereeAssumption DEF RefInit, AllBoxCommands
<1>4. cached \in Commands \cup {Unassigned}
  BY DEF RefInit, Commands
<1>5. lastCmdCnt \in 0..(CounterWidth - 1)
  BY RefereeAssumption DEF RefInit
<1> QED BY <1>1, <1>2, <1>3, <1>4, <1>5 DEF RefInit, RefTypeInv, RefTypeOK

(* A step of the box or the network leaves the program's types alone. *)
LEMMA OutsideKeepsTypes ==
    ASSUME RefTypeInv, UNCHANGED <<gsVars, soccerVars, enteredBy, fed, lastFed>>,
           box' \in Packets, socket' \subseteq Packets, startIssued' \in Nat
    PROVE  RefTypeInv'
BY DEF RefTypeInv, RefTypeOK, GSTypeOK, MaskWellFormed, gsVars, soccerVars

(* The stages in which the game is played.                                 *)
PlayStages == {"FIRST_HALF", "SECOND_HALF"}

(* The halves are entered by NORMAL_START, out of their PRE stages. *)
LEMMA PlayOfGives ==
    /\ DOMAIN PlayOf = {"FIRST_HALF_PRE", "SECOND_HALF_PRE"}
    /\ \A s \in DOMAIN PlayOf : PlayOf[s] \in PlayStages
    /\ \A s \in PlayStages : \E pre \in DOMAIN PlayOf : s = PlayOf[pre]
<1>1. DOMAIN PlayOf = {"FIRST_HALF_PRE", "SECOND_HALF_PRE"}
  BY DEF PlayOf
<1>2. PlayOf["FIRST_HALF_PRE"] = "FIRST_HALF" /\ PlayOf["SECOND_HALF_PRE"] = "SECOND_HALF"
  BY DEF PlayOf
<1> QED BY <1>1, <1>2 DEF PlayStages

(* What a new command makes of the packet the box sends. *)
LEMMA IssuedBox ==
    ASSUME box \in Packets, NEW c \in BoxCommands, Issue(c)
    PROVE  /\ box' \in Packets
           /\ box'.counter = box.counter + 1 /\ box'.command = c
           /\ box'.stage = box.stage \/ (c = "NORMAL_START" /\ box'.stage \in PlayStages)
           /\ startIssued' = IF c = "NORMAL_START" THEN box.counter + 1 ELSE startIssued
<1> DEFINE st == IF c = "NORMAL_START" /\ box.stage \in DOMAIN PlayOf
                 THEN PlayOf[box.stage] ELSE box.stage
<1>1. st = box.stage \/ (c = "NORMAL_START" /\ st \in PlayStages)
  BY PlayOfGives
<1>2. box' = [box EXCEPT !.command = c, !.counter = box.counter + 1, !.stage = st]
  BY DEF Issue
<1> HIDE DEF st
<1>3. st \in AllStages
  BY <1>1 DEF Packets, PlayStages, AllStages
<1>4. box' = [stage |-> st, command |-> c, counter |-> box.counter + 1, cards |-> box.cards]
  BY <1>2 DEF Packets
<1>5. c \in AllBoxCommands /\ box.counter + 1 \in Nat /\ box.cards \in [CardKinds -> Nat]
  BY RefereeAssumption DEF Packets
<1>6. box' \in Packets
  BY <1>3, <1>4, <1>5 DEF Packets
<1>7. startIssued' = IF c = "NORMAL_START" THEN box.counter + 1 ELSE startIssued
  BY DEF Issue
<1> QED BY <1>1, <1>4, <1>6, <1>7

(* Every step keeps the types and the mask.                                *)
LEMMA RefTypeNext == RefTypeInv /\ [RefNext]_refVars => RefTypeInv'
<1> SUFFICES ASSUME RefTypeInv, [RefNext]_refVars PROVE RefTypeInv'
  OBVIOUS
<1>0. box \in Packets /\ socket \subseteq Packets /\ startIssued \in Nat
  BY DEF RefTypeInv, RefTypeOK
<1>1. ASSUME NEW c \in BoxCommands, Issue(c) PROVE RefTypeInv'
  <2>1. box' \in Packets /\ startIssued' \in Nat
    BY <1>0, <1>1, IssuedBox DEF Packets
  <2> QED BY <1>0, <1>1, <2>1, OutsideKeepsTypes DEF Issue
<1>2. ASSUME NEW s \in Stages, EnterStage(s) PROVE RefTypeInv'
  <2>1. box' \in Packets
    BY <1>0, <1>2, RefereeAssumption DEF EnterStage, Packets
  <2> QED BY <1>0, <1>2, <2>1, OutsideKeepsTypes DEF EnterStage, history
<1>3. ASSUME NEW k \in CardKinds, GiveCard(k) \/ CardExpires(k) PROVE RefTypeInv'
  <2>1. box' \in Packets
    BY <1>0, <1>3 DEF GiveCard, CardExpires, Packets
  <2> QED BY <1>0, <1>3, <2>1, OutsideKeepsTypes DEF GiveCard, CardExpires, history
<1>4. ASSUME Send \/ Lose PROVE RefTypeInv'
  BY <1>0, <1>4, OutsideKeepsTypes DEF Send, Lose, history
<1>5. ASSUME refUpdate PROVE RefTypeInv'
  <2>1. PICK p \in socket :
            /\ socket' = {}
            /\ last' = [stage |-> p.stage, command |-> p.command,
                        cards |-> RememberedCards(p)]
            /\ cached' = compute_command(p)
            /\ bpPosition' = IF HasPosition(compute_command(p)) THEN p.counter ELSE bpPosition
            /\ lastCmdCnt' = LowByte(p.counter)
            /\ \/ UNCHANGED <<gsVars, enteredBy, fed, lastFed>>
               \/ /\ Transition(compute_command(p))
                  /\ enteredBy' = IF restart(state') /\ ~restart(state)
                                  THEN p.counter ELSE enteredBy
                  /\ fed' = fed + 1
                  /\ lastFed' = p.counter
            /\ UNCHANGED <<box, startIssued>>
    BY <1>5 DEF refUpdate
  <2>2. p \in Packets
    BY <1>0
  <2>3. last' \in [stage : AllStages \cup {Unassigned},
                   command : AllBoxCommands \cup {Unassigned},
                   cards : [CardKinds -> Nat]]
    <3>1. RememberedCards(p) \in [CardKinds -> Nat]
      BY <2>2 DEF RememberedCards, Packets, RefTypeInv, RefTypeOK
    <3> QED BY <2>1, <2>2, <3>1 DEF Packets
  <2>4. cached' \in Commands \cup {Unassigned}
    BY <2>1, ComputedCommandType DEF RefTypeInv
  <2>5. lastCmdCnt' \in 0..(CounterWidth - 1)
    BY <2>1, <2>2, LowByteType DEF Packets
  <2>6. {bpPosition, startIssued, enteredBy, fed, lastFed}' \subseteq Nat
    BY <2>1, <2>2 DEF Packets, RefTypeInv, RefTypeOK
  <2>7. GSTypeOK' /\ MaskWellFormed'
    <3>1. CASE UNCHANGED gsVars
      BY <3>1 DEF gsVars, RefTypeInv, RefTypeOK, GSTypeOK, MaskWellFormed
    <3>2. CASE Transition(compute_command(p))
      BY <3>2, TransitionKeepsTypes DEF GSInv, RefTypeInv, RefTypeOK
    <3> QED BY <2>1, <3>1, <3>2
  <2>8. box' \in Packets /\ socket' \subseteq Packets
    BY <1>0, <2>1
  <2> QED BY <2>3, <2>4, <2>5, <2>6, <2>7, <2>8 DEF RefTypeInv, RefTypeOK
<1>6. ASSUME NEW k \in Colors, ChangeTeamColor(k) PROVE RefTypeInv'
  BY <1>6 DEF ChangeTeamColor, SetColor, RefTypeInv, RefTypeOK, GSTypeOK,
              MaskWellFormed, soccerVars, history
<1>7. CASE UNCHANGED refVars
  BY <1>7 DEF refVars, gsVars, soccerVars, history, RefTypeInv, RefTypeOK, GSTypeOK,
              MaskWellFormed
<1> QED BY <1>1, <1>2, <1>3, <1>4, <1>5, <1>6, <1>7 DEF RefNext

(***************************************************************************)
(* The variables of CSoccer and of the box keep their types, unassigned    *)
(* memory being one of their values (soccer.cpp:1068).                     *)
(***************************************************************************)
THEOREM RefereeTypeCorrect == RefSpec => []RefTypeOK
<1>1. RefTypeInv => RefTypeOK
  BY DEF RefTypeInv
<1> QED BY RefTypeInit, RefTypeNext, <1>1, PTL DEF RefSpec

(***************************************************************************)
(* The mask is well formed whatever packets are lost and repeated, and     *)
(* whatever unassigned memory the program starts with (soccer.cpp:866).    *)
(***************************************************************************)
THEOREM RefereeMaskWellFormed == RefSpec => []MaskWellFormed
<1>1. RefTypeInv => MaskWellFormed
  BY DEF RefTypeInv
<1> QED BY RefTypeInit, RefTypeNext, <1>1, PTL DEF RefSpec

-----------------------------------------------------------------------------
(* The numbers are numbers.                                                *)
Counters ==
    /\ "counter" \in DOMAIN box
    /\ box.counter \in Nat
    /\ \A p \in socket : p.counter \in Nat
    /\ fed \in Nat
    /\ lastFed \in Nat

(* They grow from the last feeding to the socket to the box.               *)
NumbersGrow ==
    /\ lastFed <= box.counter
    /\ \A p \in socket : lastFed <= p.counter /\ p.counter <= box.counter

(* The state machine was fed at most as often as the number fed last says. *)
OnceInv ==
    /\ Counters
    /\ NumbersGrow
    /\ lastCmdCnt = LowByte(lastFed)
    /\ fed <= lastFed

(* What a step of the box does to its number. *)
BoxGrows ==
    /\ DOMAIN box' = DOMAIN box
    /\ box'.counter \in Nat
    /\ box.counter <= box'.counter

(* This holds before the first command.                                    *)
LEMMA OnceInvInit == RefInit => OnceInv
<1> SUFFICES ASSUME RefInit PROVE OnceInv
  OBVIOUS
<1>1. "counter" \in DOMAIN box /\ box.counter = 0 /\ socket = {} /\ fed = 0 /\ lastFed = 0 /\ lastCmdCnt = 0
  BY DEF RefInit
<1>2. LowByte(0) = 0
  BY RefereeAssumption DEF LowByte
<1> QED BY <1>1, <1>2 DEF OnceInv, Counters, NumbersGrow

(* A step that leaves the program alone and only makes the number grow. *)
LEMMA BoxStepKeepsOnceInv ==
    ASSUME OnceInv, BoxGrows,
           UNCHANGED <<socket, lastCmdCnt, fed, lastFed>>
    PROVE  OnceInv'
<1>1. Counters'
  BY DEF OnceInv, Counters, BoxGrows
<1>2. NumbersGrow'
  BY DEF OnceInv, Counters, NumbersGrow, BoxGrows
<1>3. (lastCmdCnt = LowByte(lastFed) /\ fed <= lastFed)'
  BY DEF OnceInv, LowByte
<1> QED BY <1>1, <1>2, <1>3 DEF OnceInv

(* Every step keeps it.                                                    *)
LEMMA OnceInvNext == OnceInv /\ [RefNext]_refVars => OnceInv'
<1> SUFFICES ASSUME OnceInv, [RefNext]_refVars PROVE OnceInv'
  OBVIOUS
<1> USE DEF history, soccerVars
<1>1. ASSUME NEW c \in BoxCommands, Issue(c) PROVE OnceInv'
  <2>1. BoxGrows
    BY <1>1 DEF Issue, BoxGrows, OnceInv, Counters
  <2> QED BY <1>1, <2>1, BoxStepKeepsOnceInv DEF Issue
<1>2. ASSUME NEW s \in Stages, EnterStage(s) PROVE OnceInv'
  <2>1. BoxGrows
    BY <1>2 DEF EnterStage, BoxGrows, OnceInv, Counters
  <2> QED BY <1>2, <2>1, BoxStepKeepsOnceInv DEF EnterStage
<1>3. ASSUME NEW k \in CardKinds, GiveCard(k) PROVE OnceInv'
  <2>1. BoxGrows
    BY <1>3 DEF GiveCard, BoxGrows, OnceInv, Counters
  <2> QED BY <1>3, <2>1, BoxStepKeepsOnceInv DEF GiveCard
<1>4. ASSUME NEW k \in CardKinds, CardExpires(k) PROVE OnceInv'
  <2>1. BoxGrows
    BY <1>4 DEF CardExpires, BoxGrows, OnceInv, Counters
  <2> QED BY <1>4, <2>1, BoxStepKeepsOnceInv DEF CardExpires
<1>5. ASSUME Send PROVE OnceInv'
  BY <1>5 DEF Send, OnceInv, Counters, NumbersGrow, LowByte
<1>6. ASSUME Lose PROVE OnceInv'
  BY <1>6 DEF Lose, OnceInv, Counters, NumbersGrow, LowByte
<1>7. ASSUME refUpdate PROVE OnceInv'
  <2>1. PICK p \in socket :
            /\ socket' = {}
            /\ lastCmdCnt' = LowByte(p.counter)
            /\ \/ ~IsNewCommand(p) /\ UNCHANGED <<fed, lastFed>>
               \/ IsNewCommand(p) /\ fed' = fed + 1 /\ lastFed' = p.counter
            /\ UNCHANGED box
    BY <1>7 DEF refUpdate
  <2>2. /\ p.counter \in Nat
        /\ lastFed <= p.counter
        /\ p.counter <= box.counter
    BY DEF OnceInv, Counters, NumbersGrow
  <2>3. CASE ~IsNewCommand(p) /\ UNCHANGED <<fed, lastFed>>
    BY <2>1, <2>3 DEF OnceInv, Counters, NumbersGrow, IsNewCommand, LowByte
  <2>4. CASE IsNewCommand(p) /\ fed' = fed + 1 /\ lastFed' = p.counter
    <3>1. p.counter # lastFed
      BY <2>4 DEF IsNewCommand, OnceInv
    <3>2. fed + 1 <= p.counter
      BY <2>2, <3>1 DEF OnceInv, Counters
    <3> QED BY <2>1, <2>2, <2>4, <3>2 DEF OnceInv, Counters, NumbersGrow, LowByte
  <2> QED BY <2>1, <2>3, <2>4
<1>8. ASSUME NEW k \in Colors, ChangeTeamColor(k) PROVE OnceInv'
  BY <1>8 DEF ChangeTeamColor, SetColor, OnceInv, Counters, NumbersGrow, LowByte
<1>9. CASE UNCHANGED refVars
  BY <1>9 DEF refVars, OnceInv, Counters, NumbersGrow, LowByte
<1> QED BY <1>1, <1>2, <1>3, <1>4, <1>5, <1>6, <1>7, <1>8, <1>9 DEF RefNext

(***************************************************************************)
(* Whatever is sent again, lost, or changed between two commands, the      *)
(* state machine is fed at most once per command issued (soccer.cpp:860).  *)
(***************************************************************************)
THEOREM FedOncePerCommand == RefSpec => []OncePerCommand
<1>1. OnceInv => OncePerCommand
  BY DEF OnceInv, Counters, NumbersGrow, OncePerCommand
<1> QED BY OnceInvInit, OnceInvNext, <1>1, PTL DEF RefSpec

-----------------------------------------------------------------------------
(* The packets that may be read, now or later.                             *)
Carriers == socket \cup {box}

(* The kick in force was entered by a command that was fed, and the last   *)
(* start has a number that was issued.                                     *)
Numbers ==
    /\ enteredBy <= lastFed
    /\ startIssued <= box.counter

(* What a packet tells of the commands before it: a NORMAL_START is not    *)
(* younger than the last issued; one number is one command; a packet of    *)
(* another stage than the stage of play is older than the start of that    *)
(* play; one that brings a stage of play brings a start that comes after   *)
(* the kick was entered; and no packet enters a kick by NORMAL_START.      *)
PacketsTell ==
    \A p \in Carriers :
        /\ p.command = "NORMAL_START" => p.counter <= startIssued
        /\ p.counter = box.counter => p.command = box.command
        /\ box.stage \in PlayStages /\ p.stage # box.stage => p.counter < startIssued
        /\ p.stage \in PlayStages /\ p.stage # last.stage => enteredBy < startIssued
        /\ restart(state) /\ p.counter = enteredBy => p.command # "NORMAL_START"

(* While a kick's character waits the last packet was no NORMAL_START;     *)
(* while READY waits and a kick is in preparation, a start was issued      *)
(* after that kick was entered.                                            *)
CachedTells ==
    /\ cached \in RestartCommands => last.command # "NORMAL_START"
    /\ cached = COMM_READY /\ "NOTREADY" \in state => enteredBy < startIssued

(* The inductive invariant of KickAfterNormalStart and                     *)
(* PlacementTargetIsCurrent.                                               *)
KickInv ==
    /\ RefTypeInv /\ OnceInv
    /\ Numbers /\ PacketsTell /\ CachedTells
    /\ KickAfterNormalStart /\ PlacementTargetIsCurrent

(* It holds before the first command.                                      *)
LEMMA KickInvInit == RefInit => KickInv
<1> SUFFICES ASSUME RefInit PROVE KickInv
  OBVIOUS
<1>1. RefTypeInv /\ OnceInv
  BY RefTypeInit, OnceInvInit
<1>2. Numbers
  BY DEF RefInit, Numbers
<1>3. PacketsTell
  BY DEF RefInit, PacketsTell, Carriers, PlayStages
<1>4. CachedTells
  BY DEF RefInit, GSInit, CachedTells, RestartCommands, COMM_READY, COMM_START, Unassigned
<1>5. KickAfterNormalStart /\ PlacementTargetIsCurrent
  BY DEF RefInit, GSInit, KickAfterNormalStart, PlacementTargetIsCurrent
<1> QED BY <1>1, <1>2, <1>3, <1>4, <1>5 DEF KickInv

(* What is known of the packets' numbers. *)
LEMMA CarrierNumbers ==
    ASSUME KickInv, NEW p \in Carriers
    PROVE  /\ p \in Packets /\ p.counter \in Nat /\ box \in Packets /\ box.counter \in Nat
           /\ {enteredBy, lastFed, startIssued} \subseteq Nat
           /\ enteredBy <= lastFed /\ lastFed <= p.counter /\ p.counter <= box.counter
           /\ startIssued <= box.counter
<1>1. p \in Packets /\ box \in Packets
  BY DEF KickInv, RefTypeInv, RefTypeOK, Carriers
<1>2. p.counter \in Nat /\ box.counter \in Nat
  BY <1>1 DEF Packets
<1>3. {enteredBy, lastFed, startIssued} \subseteq Nat
  BY DEF KickInv, RefTypeInv, RefTypeOK
<1>4. lastFed <= p.counter /\ p.counter <= box.counter
  BY <1>2, <1>3 DEF KickInv, OnceInv, NumbersGrow, Carriers
<1> QED BY <1>1, <1>2, <1>3, <1>4 DEF KickInv, Numbers

(* A COMM_READY for a kick that is being prepared has a NORMAL_START of    *)
(* the box behind it, wherever compute_command took it from.               *)
LEMMA ReadyIsEarned ==
    ASSUME KickInv, NEW p \in socket, compute_command(p) = COMM_READY,
           "NOTREADY" \in state
    PROVE  enteredBy < startIssued
<1>0. p \in Carriers /\ RefTypeOK /\ restart(state)
  <2>1. state \in RestartMasks
    BY DEF KickInv, RefTypeInv, MaskWellFormed, PlainMasks
  <2> QED BY <2>1, RestartMaskShape DEF KickInv, RefTypeInv, Carriers, restart
<1>1. CASE p.stage # last.stage /\ map_stage(p.stage) = COMM_READY
  <2>1. p.stage \in PlayStages
    BY <1>1, <1>0, CarrierNumbers, MapStageGives DEF Packets, PlayStages
  <2> QED BY <1>0, <1>1, <2>1 DEF KickInv, PacketsTell
<1>2. CASE map_command(p.command) = COMM_READY
  <2>1. p.command = "NORMAL_START"
    BY <1>0, <1>2, CarrierNumbers, MapCommandGives DEF Packets
  <2>2. p.counter <= startIssued /\ p.counter # enteredBy
    BY <1>0, <2>1 DEF KickInv, PacketsTell
  <2> QED BY <1>0, <2>2, CarrierNumbers
<1>3. CASE cached = COMM_READY
  BY <1>3 DEF KickInv, CachedTells
<1>4. compute_command(p) \notin {"y", "Y", "r", "R"}
  BY DEF COMM_READY
<1> QED BY <1>0, <1>1, <1>2, <1>3, <1>4, ComputedCommand

(* The character of a restart is not computed from a packet that says      *)
(* NORMAL_START.                                                           *)
LEMMA RestartIsTold ==
    ASSUME KickInv, NEW p \in socket, compute_command(p) \in RestartCommands
    PROVE  p.command # "NORMAL_START"
<1>0. p \in Packets /\ RefTypeOK
  BY DEF KickInv, RefTypeInv, RefTypeOK
<1>1. map_stage(p.stage) \notin RestartCommands
  BY <1>0, MapStageGives DEF Packets, RestartCommands
<1>2. map_command("NORMAL_START") \notin RestartCommands
  BY DEF map_command, RestartCommands, COMM_READY
<1>3. {"y", "Y", "r", "R"} \cap RestartCommands = {}
  BY DEF RestartCommands
<1>4. cached \in RestartCommands => last.command # "NORMAL_START"
  BY DEF KickInv, CachedTells
<1> QED BY <1>0, <1>1, <1>2, <1>3, <1>4, ComputedCommand

(* A step of the box or the network. *)
LEMMA OutsideKeepsKickInv ==
    ASSUME KickInv, RefTypeInv', OnceInv', PacketsTell', Numbers',
           UNCHANGED <<state, last, cached, bpPosition, enteredBy, lastFed>>,
           startIssued <= startIssued'
    PROVE  KickInv'
<1>0. {enteredBy, startIssued, startIssued'} \subseteq Nat
  BY DEF KickInv, RefTypeInv, RefTypeOK
<1>1. CachedTells'
  BY <1>0 DEF KickInv, CachedTells
<1>2. KickAfterNormalStart' /\ PlacementTargetIsCurrent'
  BY <1>0 DEF KickInv, KickAfterNormalStart, PlacementTargetIsCurrent
<1> QED BY <1>1, <1>2 DEF KickInv

(* A packet that is handled keeps it.                                      *)
LEMMA UpdateKeepsKickInv ==
    ASSUME KickInv, RefTypeInv', OnceInv', refUpdate
    PROVE  KickInv'
<1>1. PICK p \in socket :
            /\ socket' = {} /\ box' = box /\ startIssued' = startIssued
            /\ last' = [stage |-> p.stage, command |-> p.command,
                        cards |-> RememberedCards(p)]
            /\ cached' = compute_command(p)
            /\ bpPosition' = IF HasPosition(compute_command(p)) THEN p.counter ELSE bpPosition
            /\ \/ UNCHANGED <<state, enteredBy, lastFed>>
               \/ /\ IsNewCommand(p)
                  /\ state' = NextState(state, compute_command(p))
                  /\ enteredBy' = IF restart(state') /\ ~restart(state)
                                  THEN p.counter ELSE enteredBy
                  /\ lastFed' = p.counter
  BY DEF refUpdate, gsVars, Transition
<1> DEFINE c == compute_command(p)
<1>2. p \in Carriers /\ box \in Carriers /\ Carriers' = {box} /\ state \in Masks
  BY <1>1 DEF Carriers, KickInv, RefTypeInv, MaskWellFormed, Masks
<1>3. /\ {p.counter, box.counter, enteredBy, lastFed, startIssued, bpPosition} \subseteq Nat
      /\ enteredBy <= lastFed /\ lastFed <= p.counter /\ p.counter <= box.counter
      /\ startIssued <= box.counter
  BY <1>2, CarrierNumbers DEF KickInv, RefTypeInv, RefTypeOK
<1>4. c = COMM_READY /\ "NOTREADY" \in state => enteredBy < startIssued
  BY ReadyIsEarned
<1>5. c \in RestartCommands => p.command # "NORMAL_START"
  BY RestartIsTold
<1>6. last'.stage = p.stage /\ last'.command = p.command
  BY <1>1
<1>7. enteredBy' \in {enteredBy, p.counter}
  BY <1>1
<1>8. CASE UNCHANGED <<state, enteredBy, lastFed>>
  <2>1. Numbers'
    BY <1>1, <1>3, <1>8 DEF Numbers
  <2>2. CachedTells'
    BY <1>1, <1>4, <1>5, <1>6, <1>8 DEF CachedTells
  <2>3. KickAfterNormalStart'
    BY <1>1, <1>8 DEF KickInv, KickAfterNormalStart
  <2>4. PlacementTargetIsCurrent'
    BY <1>1, <1>3, <1>8 DEF KickInv, PlacementTargetIsCurrent
  <2>5. restart(state') /\ box.counter = enteredBy' => box.command # "NORMAL_START"
    BY <1>2, <1>8 DEF KickInv, PacketsTell
  <2>6. PacketsTell'
    BY <1>1, <1>2, <1>3, <1>6, <1>7, <2>5 DEF KickInv, PacketsTell
  <2> QED BY <2>1, <2>2, <2>3, <2>4, <2>6 DEF KickInv
<1>9. CASE /\ IsNewCommand(p)
           /\ state' = NextState(state, c)
           /\ enteredBy' = IF restart(state') /\ ~restart(state) THEN p.counter ELSE enteredBy
           /\ lastFed' = p.counter
  <2>0. /\ ~restart(state) /\ restart(state') => c \in RestartCommands
        /\ state' \cap {"KICKOFF", "PENALTY"} # {} /\ "READY" \in state'
              => c = COMM_READY /\ "NOTREADY" \in state
        /\ "BALLPLACEMENT" \in state' => c \in {"b", "B"}
        /\ c = COMM_READY => "NOTREADY" \notin state'
    BY <1>2, <1>9, CommandOnKick
  <2>1. Numbers'
    BY <1>1, <1>3, <1>9 DEF Numbers
  <2>2. CachedTells'
    BY <1>1, <1>5, <1>6, <2>0 DEF CachedTells
  <2>3. KickAfterNormalStart'
    <3> SUFFICES ASSUME state' \cap {"KICKOFF", "PENALTY"} # {}, "READY" \in state'
                 PROVE  startIssued > enteredBy'
      BY <1>1 DEF KickAfterNormalStart
    <3>1. restart(state)
      <4>1. "NOTREADY" \in state
        BY <2>0
      <4> QED BY <4>1, <1>2, RestartMaskShape DEF Masks, PlainMasks, restart
    <3> QED BY <1>3, <1>4, <1>9, <2>0, <3>1
  <2>4. PlacementTargetIsCurrent'
    BY <1>1, <1>3, <1>7, <2>0 DEF HasPosition, PlacementTargetIsCurrent
  <2>5. restart(state') /\ box.counter = enteredBy' => box.command # "NORMAL_START"
    <3>1. CASE restart(state)
      BY <1>2, <1>9, <3>1 DEF KickInv, PacketsTell
    <3>2. CASE ~restart(state)
      BY <1>2, <1>5, <1>9, <2>0, <3>2 DEF KickInv, PacketsTell
    <3> QED BY <3>1, <3>2
  <2>6. PacketsTell'
    BY <1>1, <1>2, <1>3, <1>6, <1>7, <2>5 DEF KickInv, PacketsTell
  <2> QED BY <2>1, <2>2, <2>3, <2>4, <2>6 DEF KickInv
<1> QED BY <1>1, <1>8, <1>9

(* A new command has a number that no packet on the way has.               *)
LEMMA IssueKeepsKickInv ==
    ASSUME KickInv, RefTypeInv', OnceInv', NEW c \in BoxCommands, Issue(c)
    PROVE  KickInv'
<1>0. box \in Packets /\ socket' = socket
  BY DEF KickInv, RefTypeInv, RefTypeOK, Issue
<1>1. /\ box'.counter = box.counter + 1 /\ box'.command = c
      /\ box'.stage = box.stage \/ (c = "NORMAL_START" /\ box'.stage \in PlayStages)
      /\ startIssued' = IF c = "NORMAL_START" THEN box.counter + 1 ELSE startIssued
      /\ UNCHANGED <<state, last, cached, bpPosition, enteredBy, lastFed>>
  BY <1>0, IssuedBox DEF Issue, soccerVars, gsVars
<1>2. /\ {box.counter, enteredBy, lastFed, startIssued} \subseteq Nat
      /\ enteredBy <= lastFed /\ lastFed <= box.counter /\ startIssued <= box.counter
  BY CarrierNumbers DEF Carriers
<1>3. startIssued <= startIssued' /\ Numbers'
  BY <1>1, <1>2 DEF Numbers
<1>4. PacketsTell'
  <2> SUFFICES ASSUME NEW p \in Carriers'
               PROVE  /\ p.command = "NORMAL_START" => p.counter <= startIssued'
                      /\ p.counter = box'.counter => p.command = box'.command
                      /\ box'.stage \in PlayStages /\ p.stage # box'.stage => p.counter < startIssued'
                      /\ p.stage \in PlayStages /\ p.stage # last'.stage => enteredBy' < startIssued'
                      /\ restart(state') /\ p.counter = enteredBy' => p.command # "NORMAL_START"
    BY DEF PacketsTell
  <2>1. CASE p = box'
    <3>1. box.stage \in PlayStages /\ box.stage # last.stage => enteredBy < startIssued
      BY DEF KickInv, PacketsTell, Carriers
    <3> QED BY <1>1, <1>2, <2>1, <3>1
  <2>2. CASE p \in socket
    <3>1. p \in Carriers /\ p.counter \in Nat /\ p.counter <= box.counter
      BY <2>2, CarrierNumbers DEF Carriers
    <3>2. /\ p.command = "NORMAL_START" => p.counter <= startIssued
          /\ box.stage \in PlayStages /\ p.stage # box.stage => p.counter < startIssued
          /\ p.stage \in PlayStages /\ p.stage # last.stage => enteredBy < startIssued
          /\ restart(state) /\ p.counter = enteredBy => p.command # "NORMAL_START"
      BY <3>1 DEF KickInv, PacketsTell
    <3> QED BY <1>1, <1>2, <3>1, <3>2
  <2> QED BY <1>0, <2>1, <2>2 DEF Carriers
<1> QED BY <1>1, <1>3, <1>4, OutsideKeepsKickInv

(* Every step keeps it.                                                    *)
LEMMA KickInvNext == KickInv /\ [RefNext]_refVars => KickInv'
<1> SUFFICES ASSUME KickInv, [RefNext]_refVars PROVE KickInv'
  OBVIOUS
<1>0. RefTypeInv' /\ OnceInv'
  BY RefTypeNext, OnceInvNext DEF KickInv
<1>1. ASSUME NEW c \in BoxCommands, Issue(c) PROVE KickInv'
  BY <1>0, <1>1, IssueKeepsKickInv
<1>a. box \in Packets /\ startIssued \in Nat
  BY DEF KickInv, RefTypeInv, RefTypeOK
<1>2. ASSUME UNCHANGED <<state, last, cached, bpPosition, enteredBy, lastFed, startIssued>>,
             PacketsTell', box'.counter = box.counter
      PROVE  KickInv'
  <2>1. Numbers'
    BY <1>2 DEF KickInv, Numbers
  <2> QED BY <1>0, <1>a, <1>2, <2>1, OutsideKeepsKickInv
<1> USE DEF history, soccerVars, gsVars
<1>3. ASSUME NEW s \in Stages, EnterStage(s) PROVE KickInv'
  <2>1. s \notin PlayStages
    BY <1>3, PlayOfGives DEF EnterStage
  <2>2. box'.stage = s /\ box'.counter = box.counter /\ box'.command = box.command
    BY <1>a, <1>3 DEF EnterStage, Packets
  <2>3. socket' = socket
    BY <1>3 DEF EnterStage
  <2>4. PacketsTell'
    BY <1>3, <2>1, <2>2, <2>3 DEF EnterStage, KickInv, PacketsTell, Carriers
  <2> QED BY <1>2, <1>3, <2>2, <2>4 DEF EnterStage
<1>4. ASSUME NEW k \in CardKinds, GiveCard(k) \/ CardExpires(k) PROVE KickInv'
  <2>1. box'.stage = box.stage /\ box'.counter = box.counter /\ box'.command = box.command
    BY <1>a, <1>4 DEF GiveCard, CardExpires, Packets
  <2>2. PacketsTell'
    BY <1>4, <2>1 DEF GiveCard, CardExpires, KickInv, PacketsTell, Carriers
  <2> QED BY <1>2, <1>4, <2>1, <2>2 DEF GiveCard, CardExpires
<1>5. ASSUME Send \/ Lose PROVE KickInv'
  <2>1. socket' \subseteq Carriers /\ box' = box
    BY <1>5 DEF Send, Lose, Carriers
  <2>2. PacketsTell'
    BY <1>5, <2>1 DEF Send, Lose, KickInv, PacketsTell, Carriers
  <2> QED BY <1>2, <1>5, <2>1, <2>2 DEF Send, Lose
<1>6. ASSUME refUpdate PROVE KickInv'
  BY <1>0, <1>6, UpdateKeepsKickInv
<1>7. ASSUME NEW k \in Colors, ChangeTeamColor(k) PROVE KickInv'
  <2>1. PacketsTell'
    BY <1>7 DEF ChangeTeamColor, SetColor, KickInv, PacketsTell, Carriers, restart
  <2> QED BY <1>2, <1>7, <2>1 DEF ChangeTeamColor, SetColor
<1>8. CASE UNCHANGED refVars
  <2>1. PacketsTell'
    BY <1>8 DEF refVars, KickInv, PacketsTell, Carriers, restart
  <2> QED BY <1>2, <1>8, <2>1 DEF refVars
<1> QED BY <1>1, <1>3, <1>4, <1>5, <1>6, <1>7, <1>8 DEF RefNext

(***************************************************************************)
(* A kickoff or penalty is READY only after a NORMAL_START that was issued *)
(* after the command that prepared it, whatever is lost and whichever      *)
(* stage, card or cached character is taken for a command                  *)
(* (soccer.cpp:1068).                                                      *)
(***************************************************************************)
THEOREM KicksFollowNormalStart == RefSpec => []KickAfterNormalStart
<1>1. KickInv => KickAfterNormalStart
  BY DEF KickInv
<1> QED BY KickInvInit, KickInvNext, <1>1, PTL DEF RefSpec

(***************************************************************************)
(* The position kept for a ball placement in force is not older than the   *)
(* packet that began it (soccer.cpp:844).                                  *)
(***************************************************************************)
THEOREM PlacementTargetsAreCurrent == RefSpec => []PlacementTargetIsCurrent
<1>1. KickInv => PlacementTargetIsCurrent
  BY DEF KickInv
<1> QED BY KickInvInit, KickInvNext, <1>1, PTL DEF RefSpec

-----------------------------------------------------------------------------
(* A character of unassigned memory does what a foul does: it ends a       *)
(* restart that is READY.                                                  *)
LEMMA UnassignedIsACommand == Transition(Unassigned) => Transition("o")
BY DEF Transition, NextState, NextGametimes, NextScore, Unassigned, COMM_HALT, COMM_STOP,
       COMM_START, COMM_READY, COMM_HALF_TIME, COMM_PENALTY_SHOOTOUT, RestartCommands

(* Every step is one of the state machine, or leaves it alone.             *)
LEMMA RefStepIsGSStep == RefTypeInv /\ [RefNext]_refVars => [GSNext]_gsVars
<1> SUFFICES ASSUME RefTypeInv, RefNext PROVE GSNext \/ UNCHANGED gsVars
  BY DEF refVars
<1>1. ASSUME NEW p \in socket, Transition(compute_command(p)) PROVE GSNext
  <2>1. compute_command(p) \in Commands \cup {Unassigned}
    BY ComputedCommandType DEF RefTypeInv
  <2>2. "o" \in Commands
    BY DEF Commands, OtherCommands
  <2> QED BY <1>1, <2>1, <2>2, UnassignedIsACommand DEF GSNext
<1>2. CASE refUpdate
  <2>1. PICK p \in socket : UNCHANGED gsVars \/ Transition(compute_command(p))
    BY <1>2 DEF refUpdate
  <2> QED BY <1>1, <2>1
<1>3. CASE \E k \in Colors : ChangeTeamColor(k)
  BY <1>3 DEF ChangeTeamColor, GSNext
<1>4. CASE ~refUpdate /\ ~\E k \in Colors : ChangeTeamColor(k)
  BY <1>4 DEF RefNext, Issue, EnterStage, GiveCard, CardExpires, Send, Lose
<1> QED BY <1>2, <1>3, <1>4

(***************************************************************************)
(* Box, network and CSoccer together do nothing to the state machine that  *)
(* commands and changes of colour could not do, unassigned memory included *)
(* (soccer.cpp:866).                                                       *)
(***************************************************************************)
THEOREM RefereeImplementsGameState == RefSpec => GSSpec
<1>1. RefInit => GSInit
  BY DEF RefInit
<1> QED BY <1>1, RefTypeInit, RefTypeNext, RefStepIsGSStep, PTL DEF RefSpec, GSSpec

(***************************************************************************)
(* No burst of packets turns one restart into another (gamestate.cpp:79).  *)
(***************************************************************************)
THEOREM RefereeSeparatesRestarts == RefSpec => RestartsAreSeparated
BY RefereeImplementsGameState, RestartsStaySeparated, PTL
=============================================================================
