------------------------------- MODULE Referee ------------------------------
(***************************************************************************)
(* From the referee box to the state machine: the UDP packets of           *)
(* SSL_Referee (referee.proto), CSoccer::compute_command and               *)
(* CSoccer::refUpdate (soccer.cpp).                                        *)
(*                                                                         *)
(* The box, which is not part of the program, sends its whole state again  *)
(* and again.  Packets may be lost; refUpdate drains the socket and keeps  *)
(* only the last datagram, so that the packets of a burst are lost too:    *)
(* the socket is a single slot.  Packets are not reordered.                *)
(*                                                                         *)
(* A packet carries the stage and the command, and a counter of the        *)
(* commands, of which the program keeps the low byte.  The AI derives ONE  *)
(* character from it, and gives it to GameState when the counter moved.    *)
(***************************************************************************)
EXTENDS GameState

CONSTANTS
    Stages,             \* the stages this instance uses
    BoxCommands,        \* the commands this instance uses
    CardKinds,          \* the cards this instance uses
    CardBound,          \* cards of each kind at any moment
    CounterWidth,       \* 256: gsp.cmd_counter is an unsigned char
    CommandBound        \* commands the box issues in a run

AllStages == {"FIRST_HALF_PRE", "FIRST_HALF", "HALF_TIME",
              "SECOND_HALF_PRE", "SECOND_HALF", "PENALTY_SHOOTOUT"}

AllBoxCommands == {"HALT", "STOP", "NORMAL_START", "FORCE_START",
                   "PREPARE_KICKOFF_BLUE", "PREPARE_PENALTY_YELLOW",
                   "DIRECT_FREE_BLUE", "INDIRECT_FREE_YELLOW",
                   "BALL_PLACEMENT_BLUE", "GOAL_BLUE", "TIMEOUT_BLUE"}

AllCardKinds == {"yellowYellow", "blueYellow", "yellowRed", "blueRed"}

ASSUME RefereeAssumption ==
    /\ Stages \subseteq AllStages /\ "FIRST_HALF_PRE" \in Stages
    /\ BoxCommands \subseteq AllBoxCommands
    /\ CardKinds \subseteq AllCardKinds
    /\ CardBound \in Nat
    /\ CounterWidth \in Nat \ {0, 1}
    /\ CommandBound \in Nat

PlayOf == [FIRST_HALF_PRE |-> "FIRST_HALF", SECOND_HALF_PRE |-> "SECOND_HALF"]

VARIABLES
    box,                \* the referee box: stage, command, counter, cards
    socket,             \* {} or the one datagram refUpdate will keep
    last,               \* CSoccer::last_stage, last_command, last_*cards
    cached,             \* CSoccer::cached_command_char
    lastCmdCnt,
    bpPosition,         \* CKnowledge::bpPosition, named by its packet's counter
    startIssued,        \* history: counter of the box's last NORMAL_START
    enteredBy,          \* history: counter of the packet that began the restart
    fed,                \* history: characters given to transition()
    lastFed             \* history: counter of the packet of the last one

soccerVars == <<last, cached, lastCmdCnt, bpPosition>>
history == <<startIssued, enteredBy, fed, lastFed>>
refVars == <<gsVars, box, socket, soccerVars, history>>

(***************************************************************************)
(* The constructor of CSoccer leaves last_* and cached_command_char        *)
(* unassigned: they hold what the memory held.                             *)
(***************************************************************************)
Unassigned == "?"

RefInit ==
    /\ GSInit
    /\ box = [stage |-> "FIRST_HALF_PRE", command |-> "HALT", counter |-> 0,
              cards |-> [k \in CardKinds |-> 0]]
    /\ socket = {}
    /\ last \in [stage : Stages \cup {Unassigned},
                 command : {"HALT", Unassigned},
                 cards : [CardKinds -> {0, CardBound}]]
    /\ cached \in {Unassigned, COMM_READY, COMM_START}
    /\ lastCmdCnt = 0
    /\ bpPosition = 0
    /\ startIssued = 0 /\ enteredBy = 0 /\ fed = 0 /\ lastFed = 0

-----------------------------------------------------------------------------
(* The referee box and the network. *)

Issue(c) ==
    /\ box.counter < CommandBound
    /\ box' = [box EXCEPT
                 !.command = c,
                 !.counter = @ + 1,
                 \* "This stage ends with the NORMAL_START"
                 !.stage = IF c = "NORMAL_START" /\ @ \in DOMAIN PlayOf
                           THEN PlayOf[@] ELSE @]
    /\ startIssued' = IF c = "NORMAL_START" THEN box.counter + 1 ELSE startIssued
    /\ UNCHANGED <<gsVars, socket, soccerVars, enteredBy, fed, lastFed>>

(* A stage is entered by the operator; the halves only through Issue. *)
EnterStage(stage) ==
    /\ stage # box.stage
    /\ \A pre \in DOMAIN PlayOf : stage # PlayOf[pre]
    /\ box' = [box EXCEPT !.stage = stage]
    /\ UNCHANGED <<gsVars, socket, soccerVars, history>>

GiveCard(kind) ==
    /\ box.cards[kind] < CardBound
    /\ box' = [box EXCEPT !.cards[kind] = @ + 1]
    /\ UNCHANGED <<gsVars, socket, soccerVars, history>>

(* yellow_card_times holds the time left of each card: it gets shorter *)
CardExpires(kind) ==
    /\ kind \in {"yellowYellow", "blueYellow"}
    /\ box.cards[kind] > 0
    /\ box' = [box EXCEPT !.cards[kind] = @ - 1]
    /\ UNCHANGED <<gsVars, socket, soccerVars, history>>

Send ==
    /\ socket' = {box}
    /\ UNCHANGED <<gsVars, box, soccerVars, history>>

Lose ==
    /\ socket # {}
    /\ socket' = {}
    /\ UNCHANGED <<gsVars, box, soccerVars, history>>

-----------------------------------------------------------------------------
(* CSoccer::map_stage and CSoccer::map_command *)

(* a plausible bug: every stage maps to the default of the switch *)
map_stageSilent(stage) == COMM_READY

map_stage(stage) ==
    IF stage = "FIRST_HALF_PRE"        THEN "1"
    ELSE IF stage = "SECOND_HALF_PRE"  THEN "2"
    ELSE IF stage = "HALF_TIME"        THEN COMM_HALF_TIME
    ELSE IF stage = "PENALTY_SHOOTOUT" THEN COMM_PENALTY_SHOOTOUT
    ELSE COMM_READY

map_command(command) ==
    IF command = "HALT"                        THEN COMM_HALT
    ELSE IF command = "STOP"                   THEN COMM_STOP
    ELSE IF command = "NORMAL_START"           THEN COMM_READY
    ELSE IF command = "FORCE_START"            THEN COMM_START
    ELSE IF command = "PREPARE_KICKOFF_BLUE"   THEN "K"
    ELSE IF command = "PREPARE_PENALTY_YELLOW" THEN "p"
    ELSE IF command = "DIRECT_FREE_BLUE"       THEN "F"
    ELSE IF command = "INDIRECT_FREE_YELLOW"   THEN "i"
    ELSE IF command = "BALL_PLACEMENT_BLUE"    THEN "B"
    ELSE IF command = "GOAL_BLUE"              THEN "G"
    ELSE "T"    \* TIMEOUT_BLUE

(***************************************************************************)
(* compute_command: what differs from the previous packet, a stage before  *)
(* a command before a card; the cached character when nothing does.        *)
(***************************************************************************)
NewCard(p, kind) == kind \in CardKinds /\ p.cards[kind] > last.cards[kind]

(* a plausible bug: the cards are looked at before the command *)
compute_commandOfCards(p) ==
    IF p.stage # last.stage           THEN map_stage(p.stage)
    ELSE IF NewCard(p, "yellowYellow") THEN "y"
    ELSE IF NewCard(p, "blueYellow")   THEN "Y"
    ELSE IF p.command # last.command  THEN map_command(p.command)
    ELSE cached

compute_command(p) ==
    IF p.stage # last.stage           THEN map_stage(p.stage)
    ELSE IF p.command # last.command  THEN map_command(p.command)
    ELSE IF NewCard(p, "yellowYellow") THEN "y"
    ELSE IF NewCard(p, "blueYellow")   THEN "Y"
    ELSE IF NewCard(p, "yellowRed")    THEN "r"
    ELSE IF NewCard(p, "blueRed")      THEN "R"
    ELSE cached

(***************************************************************************)
(* What it remembers for the next packet.  The last assignment overwrites  *)
(* last_blue_ycards with the number of RED cards, 0 in an instance without *)
(* them, and last_blue_rcards is never assigned.                           *)
(***************************************************************************)
RememberedCards(p) ==
    [k \in CardKinds |->
        IF k = "blueYellow"
        THEN IF "blueRed" \in CardKinds THEN p.cards["blueRed"] ELSE 0
        ELSE IF k = "blueRed" THEN last.cards[k]
        ELSE p.cards[k]]

(* Plausible bugs of the definitions below: the counter is not narrowed;   *)
(* every packet is news; the character cached by the packet before this    *)
(* one tells whether there is a position.                                  *)
LowByteUnmasked(n) == n
IsNewCommandAlways(p) == TRUE
HasPositionOfCached(c) == cached \in {"b", "B"}

LowByte(n) == n % CounterWidth
IsNewCommand(p) == LowByte(p.counter) # lastCmdCnt
HasPosition(c) == c \in {"b", "B"}

(***************************************************************************)
(* refUpdate: the character is computed on every packet, and given to the  *)
(* state machine when the counter's low byte is not the one seen last.     *)
(***************************************************************************)
refUpdate ==
    \E p \in socket :
        LET c == compute_command(p)
        IN  /\ socket' = {}
            /\ last' = [stage |-> p.stage, command |-> p.command,
                        cards |-> RememberedCards(p)]
            /\ cached' = c
            /\ bpPosition' = IF HasPosition(c) THEN p.counter ELSE bpPosition
            /\ lastCmdCnt' = LowByte(p.counter)
            /\ \/ /\ ~IsNewCommand(p)
                  /\ UNCHANGED <<gsVars, enteredBy, fed, lastFed>>
               \/ /\ IsNewCommand(p)
                  /\ Transition(c)
                  /\ enteredBy' = IF restart(state') /\ ~restart(state)
                                  THEN p.counter ELSE enteredBy
                  /\ fed' = fed + 1
                  /\ lastFed' = p.counter
            /\ UNCHANGED <<box, startIssued>>

(* CMainApplication::changeTeamColor, while packets come in *)
ChangeTeamColor(k) ==
    /\ SetColor(k)
    /\ UNCHANGED <<box, socket, soccerVars, history>>

-----------------------------------------------------------------------------
RefNext ==
    \/ \E c \in BoxCommands : Issue(c)
    \/ \E s \in Stages : EnterStage(s)
    \/ \E k \in CardKinds : GiveCard(k) \/ CardExpires(k)
    \/ Send
    \/ Lose
    \/ refUpdate
    \/ \E k \in Colors : ChangeTeamColor(k)

(***************************************************************************)
(* The box sends for ever, infinitely many packets get through, and the    *)
(* event loop handles a datagram that stays in the socket.                 *)
(***************************************************************************)
RefSpec == RefInit /\ [][RefNext]_refVars
FairRefSpec == RefSpec /\ WF_refVars(Send) /\ SF_refVars(refUpdate)

-----------------------------------------------------------------------------
(* Type invariant. *)
Packets == [stage : AllStages, command : AllBoxCommands, counter : Nat,
            cards : [CardKinds -> Nat]]

RefTypeOK ==
    /\ GSTypeOK
    /\ box \in Packets
    /\ socket \subseteq Packets
    /\ last \in [stage : AllStages \cup {Unassigned},
                 command : AllBoxCommands \cup {Unassigned},
                 cards : [CardKinds -> Nat]]
    /\ cached \in Commands \cup {Unassigned}
    /\ lastCmdCnt \in 0..(CounterWidth - 1)
    /\ {bpPosition, startIssued, enteredBy, fed, lastFed} \subseteq Nat

(***************************************************************************)
(* However often a packet is repeated, and whatever stage or card changes  *)
(* in between, the state machine is fed at most once per command issued    *)
(* (soccer.cpp:860).                                                       *)
(***************************************************************************)
OncePerCommand == fed <= box.counter

(***************************************************************************)
(* A kickoff or penalty that is READY has had a NORMAL_START of the box    *)
(* issued after the command that prepared it, whatever was lost on the     *)
(* way: no change of stage and no cached character stands in for it.       *)
(***************************************************************************)
KickAfterNormalStart ==
    state \cap {"KICKOFF", "PENALTY"} # {} /\ "READY" \in state
        => startIssued > enteredBy

(***************************************************************************)
(* While a ball placement is in force, the position kept for it is not     *)
(* one of an earlier placement (soccer.cpp:844 reads the character that    *)
(* compute_command has just cached).                                       *)
(***************************************************************************)
PlacementTargetIsCurrent ==
    "BALLPLACEMENT" \in state => bpPosition >= enteredBy

(***************************************************************************)
(* A command of the box that is not the one handled last arrives as its    *)
(* own character, cards or no cards, however many packets are lost, unless *)
(* another command or a stage comes in between, or the counter has turned  *)
(* round unseen (soccer.cpp:842,1074): a card that looks new for ever and  *)
(* the cached character never stand in its way.  referee.proto:108 gives   *)
(* the counter this purpose.                                               *)
(***************************************************************************)
Awaited(n) ==
    /\ box.counter = n /\ box.command # last.command /\ box.stage = last.stage
    /\ socket = {} /\ LowByte(n) # lastCmdCnt

CommandsArrive ==
    \A n \in 1..CommandBound :
        Awaited(n) ~> \/ lastFed = n /\ cached = map_command(box.command)
                      \/ box.counter > n
                      \/ box.stage # last.stage

(***************************************************************************)
(* referee.proto:65 says of HALT "All robots should completely stop        *)
(* moving": the first packet handled that says HALT halts.  (The very      *)
(* first packet is left aside: it is compared with unassigned memory.)     *)
(***************************************************************************)
HaltIsObeyed ==
    [][last.command \notin {"HALT", Unassigned} /\ last'.command = "HALT"
         => state' = {"HALTED"}]_refVars
=============================================================================
