------------------------------- MODULE Roles --------------------------------
(***************************************************************************)
(* Roles: who does what.  Every cycle CCoach::execute gives our robots     *)
(* their tasks: goalie, defenders, the play maker and the others of the    *)
(* selected play.  What it keeps from one cycle to the next (the last play *)
(* maker and its timer, the last defenders, the number of them, the        *)
(* transient flag and its timer, the play maker of the play) outlives the  *)
(* robots and the states of the game it was decided for.                   *)
(*                                                                         *)
(* Whoever is nearest to something is any robot the code compares, and the *)
(* place of the ball is one of Zones, cut where the code compares it.  Any *)
(* of Suspects may be found faulty in any cycle, and any number of robots  *)
(* may be more than a full team has.  The timers advance at any speed.     *)
(* Which defender takes which post, what a play has the robots it is given *)
(* do, and penalty shoot-outs are left out.                                *)
(***************************************************************************)
EXTENDS Integers, FiniteSets, FiniteSetsExt

CONSTANTS
    Robots,             \* numbers of ours; _MAX_NUM_PLAYERS is 12
    GoalieIDs,          \* what the referee or the operator asks for
    Suspects,           \* robots whose changeIsNeeded may be set
    Zones,              \* where the ball may be: some of AllZones
    FullTeam,           \* robots of a full team: 6
    PlaySize,           \* robots a play is made for: 6
    Formation_Defense,  \* defenders in a stop, set by the operator
    GameStates          \* those of States that occur

None == -1
States == {"Halt", "Stop", "OurKickOff", "TheirKickOff", "OurDirectKick", "TheirDirectKick",
           "OurIndirectKick", "TheirIndirectKick", "OurPenaltyKick", "TheirPenaltyKick",
           "Start", "NormalStart", "OurBallPlacement", "TheirBallPlacement", "HalfTimeLineUp"}

ASSUME RolesAssumption ==
    /\ Robots \subseteq 0..11 /\ IsFiniteSet(Robots)
    /\ GoalieIDs \subseteq 0..11 /\ Suspects \subseteq Robots
    /\ Zones \subseteq {"area", "critical", "back", "middle", "front", "far"}
    /\ {FullTeam, PlaySize, Formation_Defense} \subseteq Nat /\ GameStates \subseteq States

VARIABLES
    active, goalieID,   \* wm->our: who is there, and who is to keep the goal
    gameState,          \* knowledge->getGameState()
    lastState,          \* whether it was their free kick in the last cycle
    transientFlag, trasientTimeOut,     \* 0, 1: over 1000 ms, 2: 2000 ms
    goalieAgent, preferedDefenseCounts,
    lastDefenseAgents,  \* how often each robot is in the list
    clearing,           \* knowledge->variables["clearing"]
    lastPlayMake, intentionOver,        \* playMakeIntention, after 300 ms
    playmakeID,         \* CDynamicAttack's
    tasks,              \* what each robot is told to do in this cycle
    done                \* the cycle has told them

world == <<active, goalieID, gameState>>
transient == <<lastState, transientFlag, trasientTimeOut>>
defence == <<goalieAgent, preferedDefenseCounts, lastDefenseAgents, clearing>>
keeping == <<lastPlayMake, intentionOver>>
rolesVars == <<world, transient, defence, keeping, playmakeID,
               tasks, done>>

OurHalf == {"area", "critical", "back", "middle"}   \* back: x < -1, far: x >= 1
OurKicks == {"OurKickOff", "OurDirectKick", "OurIndirectKick",
             "OurPenaltyKick"}
TheirFreeKicks == {"TheirDirectKick", "TheirIndirectKick"}
TheirKicks == TheirFreeKicks \cup {"TheirKickOff", "TheirPenaltyKick"}
Stops == {"Stop", "TheirBallPlacement"}
Tasks == {"goalie", "defence", "play", "playMaker", "wait", "save"}

Nobody == [r \in Robots |-> 0]
Once(rs) == [r \in Robots |-> IF r \in rs THEN 1 ELSE 0]
NoTasks == [r \in Robots |-> {}]
In(list) == {r \in Robots : list[r] > 0}

(* lastPlayMake and lastState are read before they are set: whatever is in *)
(* the memory.                                                             *)
RolesInit ==
    /\ active = Robots /\ goalieID \in GoalieIDs /\ gameState \in GameStates
    /\ lastState \in BOOLEAN
    /\ transientFlag = FALSE /\ trasientTimeOut = 0
    /\ goalieAgent = None
    /\ preferedDefenseCounts = 2
    /\ lastDefenseAgents = Nobody
    /\ clearing = FALSE
    /\ lastPlayMake \in Robots \cup {None} /\ intentionOver = FALSE
    /\ playmakeID = None
    /\ tasks = NoTasks /\ done = FALSE

-----------------------------------------------------------------------------
(* The functions execute calls; primed is what the cycle has decided.      *)

\* Their free kick goes on as a phase of the game until a time has passed or
\* the ball is in the other half.  The timer starts again while it is not one.
FreeKickTaken == lastState /\ gameState = "Start"
TheirFreeKick == transientFlag \/ FreeKickTaken
ElapsedAnew == IF transientFlag /\ ~FreeKickTaken THEN trasientTimeOut ELSE 0
Elapsed == IF TheirFreeKick THEN trasientTimeOut ELSE 0
virtualTheirPlayOffState(zone) == TheirFreeKick /\ Elapsed < 2 /\ zone # "far"

preferedGoalie == IF gameState = "HalfTimeLineUp" THEN None ELSE goalieID

\* isOurNonPlayOnKick also holds by a mode that a halt has left as it was.
ByOurKick == IF gameState \in {"Halt", "NormalStart"} THEN BOOLEAN
             ELSE {gameState \in OurKicks}

AllButOneOf(n, missing) == n - missing - 1
AllButOne(n, missing) == Max({0, n - missing - 1})

\* The number of defenders: one or two by where the opponents are, and the
\* number of the last cycle where the code sets none.
DefenceCounts(n, missing, flag, ourKick, zone) ==
    CASE gameState = "Stop" ->
             {IF zone \in OurHalf THEN n - 1
              ELSE IF zone = "far" THEN Formation_Defense
              ELSE preferedDefenseCounts}
      [] gameState = "Start" /\ flag ->
             {IF Elapsed > 0 /\ zone # "area"
              THEN AllButOne(n, missing) ELSE n - missing}
      [] gameState = "Start" /\ ~flag ->
             IF n \in {1, 2} THEN {n - 1} ELSE {1, 2}
      [] ourKick ->
             CASE zone \in {"area", "critical", "back"} -> {1, 2}
               [] zone = "middle" -> {0, preferedDefenseCounts}
               [] OTHER -> {0}
      [] gameState = "TheirKickOff" -> {2}
      [] gameState \in TheirKicks \ {"TheirKickOff"} ->
             {AllButOne(n, missing)}
      [] gameState = "HalfTimeLineUp" -> {0}
      [] OTHER -> {preferedDefenseCounts}

\* The robots are counted without the goalie of the last cycle.
decidePreferedDefenseAgentsCount(flag, zone) ==
    LET n == Cardinality(active \ {goalieAgent})
        missing == IF Cardinality(active) > FullTeam
                   THEN 0..Cardinality(active) ELSE {0}
    IN  UNION {DefenceCounts(n, m, flag, ourKick, zone) :
                   m \in missing, ourKick \in ByOurKick}

\* The nearest one is taken for each target, and the last one again for each
\* target no robot is left for.
Defences(rs, n) ==
    CASE rs = {} \/ n <= 0 -> {Nobody}
      [] rs # {} /\ n \in 1..Cardinality(rs) -> {Once(d) : d \in kSubset(n, rs)}
      [] OTHER -> {[Once(rs) EXCEPT ![r] = 1 + n - Cardinality(rs)] : r \in rs}

FitForAll(p, changeIsNeeded) == active \ ({goalieAgent'} \cup changeIsNeeded)
FitFor(p, changeIsNeeded) == active \ ({goalieAgent', p} \cup changeIsNeeded)
assignDefenseAgents(p, faulty) ==
    lastDefenseAgents' \in
        IF clearing THEN {lastDefenseAgents}
        ELSE Defences(FitFor(p, faulty), preferedDefenseCounts')

Defenders(list) == IF gameState = "TheirPenaltyKick" THEN {} ELSE In(list)

\* The plan for the defence starts by not clearing; only a defender clears.
decideDefense(p, faulty) ==
    /\ goalieAgent' = IF preferedGoalie \in active THEN preferedGoalie ELSE None
    /\ assignDefenseAgents(p, faulty)
    /\ clearing' \in {FALSE, Defenders(lastDefenseAgents') # {}}

\* Any of the players by a slow ball, and by a fast one after the interval;
\* within it the last one, wherever it is now.
OneOfLast(players, p) ==
    \/ p \in players /\ UNCHANGED intentionOver
    \/ p = lastPlayMake /\ intentionOver' = FALSE
OneOf(players, p) ==
    \/ p \in players /\ UNCHANGED intentionOver
    \/ p \in players /\ intentionOver /\ intentionOver' = FALSE
    \/ p = lastPlayMake /\ ~intentionOver /\ UNCHANGED intentionOver

choosePlaymake(players, enough, p) ==
    IF players = {} \/ ~enough THEN p = None /\ UNCHANGED intentionOver
    ELSE OneOf(players, p)

FieldPlayers == active \ {preferedGoalie}
Enough == Cardinality(FieldPlayers) > preferedDefenseCounts'
PlayMakeFirst(p, faulty) ==
    /\ choosePlaymake(FieldPlayers, Enough, p)
    /\ decideDefense(p, faulty)

DefenceFirst(p, faulty) ==
    /\ decideDefense(None, faulty)
    /\ choosePlaymake(FieldPlayers \ Defenders(lastDefenseAgents'), TRUE, p)

\* In a halt all that are there wait.
Players == active \ ({goalieAgent'} \cup Defenders(lastDefenseAgents'))
WaitingIn == IF gameState = "Halt" THEN active ELSE {}

\* The play maker is one of the play in all states but Start; there it is the
\* play's own, who is told of a new one and goes on with the old one if there
\* is none.
Others(p) == IF gameState = "Start" THEN Players \ {p} ELSE Players
SamePlayMaker(p) == playmakeID
NextPlayMaker(p) == IF gameState = "Start" /\ p # None THEN p ELSE playmakeID

\* Apart from the play, those of the lowest numbers mark, and in a stop only
\* the faulty are left to it.
Marks == {0, 2, 3}
Aparts(p, faulty) ==
    CASE gameState = "Start" ->
             {{r \in Others(p) : Cardinality({s \in Others(p) : s < r}) < n} : n \in Marks}
      [] gameState \in Stops -> {Players \ faulty}
      [] OTHER -> {{}}

\* A play that is given more than PlaySize tells none of them, nor its play
\* maker, what to do.
Executes(p, apart) == gameState # "Halt" /\ Cardinality(Others(p) \ apart) <= PlaySize
PlayingIn(p, apart) ==
    IF gameState = "Halt" THEN {}
    ELSE IF Executes(p, apart) THEN Others(p) ELSE apart
PlayMakersOf(p, apart) ==
    IF gameState = "Start" /\ Executes(p, apart) THEN {NextPlayMaker(p)} ELSE {}

\* A goalie that is there restarts the timer.  With no goalie asked for,
\* getAgent throws, after all else that the cycle had to do.
saveAnyGoalie == {{}, {preferedGoalie}}
saveGoalie == {{}} \cup {{preferedGoalie} : g \in {None} \cap {goalieAgent'}}

TaskOf(r, p, apart, save) ==
    IF r \in WaitingIn THEN {"wait"} \cup {t \in {"save"} : r \in save}
    ELSE {t \in Tasks :
             \/ t = "goalie" /\ r = goalieAgent'
             \/ t = "defence" /\ r \in Defenders(lastDefenseAgents')
             \/ t = "play" /\ r \in PlayingIn(p, apart)
             \/ t = "playMaker" /\ r \in PlayMakersOf(p, apart)
             \/ t = "save" /\ r \in save}

\* decideStop forgets the play maker; in all else both ids are the same.
decideAttack(p, apart, save) ==
    /\ lastPlayMake' = IF gameState \in Stops THEN None ELSE p
    /\ playmakeID' = NextPlayMaker(p)
    /\ tasks' = [r \in Robots |-> TaskOf(r, p, apart, save)]

\* What the cycle makes of the place of the ball.
Decided(zone, blockPass) ==
    LET flag == virtualTheirPlayOffState(zone)
    IN  {[transient |-> flag, count |-> n,
          defenceFirst |-> zone \in {"area", "critical"} \/ (flag /\ ~blockPass)] :
             n \in decidePreferedDefenseAgentsCount(flag, zone)}

execute(decided) ==
    /\ lastState' = (gameState \in TheirFreeKicks)
    /\ trasientTimeOut' = Elapsed /\ transientFlag' = decided.transient
    /\ preferedDefenseCounts' = decided.count
    /\ \E p \in Robots \cup {None}, faulty \in SUBSET Suspects :
           /\ IF decided.defenceFirst THEN DefenceFirst(p, faulty) ELSE PlayMakeFirst(p, faulty)
           /\ \E apart \in Aparts(p, faulty), save \in saveGoalie : decideAttack(p, apart, save)
    /\ done' = TRUE
    /\ UNCHANGED world

Cycle ==
    /\ ~done
    /\ \E decided \in UNION {Decided(zone, blockPass) :
                                 zone \in Zones, blockPass \in BOOLEAN} :
           execute(decided)

-----------------------------------------------------------------------------
(* Between two cycles.                                                     *)
others == <<transient, defence, keeping, playmakeID, tasks, done>>

\* Before the next cycle all robots are told to wait.  The last defenders are
\* read again only if one of them clears.
waitHere ==
    /\ done /\ done' = FALSE /\ tasks' = NoTasks
    /\ lastDefenseAgents' = IF clearing THEN lastDefenseAgents ELSE Nobody
    /\ UNCHANGED <<world, transient, goalieAgent, preferedDefenseCounts,
                   clearing, keeping, playmakeID>>

\* Vision finds or loses a robot.
update ==
    /\ ~done
    /\ \E r \in Robots :
           active' = IF r \in active THEN active \ {r} ELSE active \cup {r}
    /\ UNCHANGED <<goalieID, gameState, others>>

updateGameState ==
    /\ ~done
    /\ gameState' \in GameStates \ {gameState}
    /\ UNCHANGED <<active, goalieID, others>>

updateGoaliID ==
    /\ ~done
    /\ goalieID' \in GoalieIDs \ {goalieID}
    /\ UNCHANGED <<active, gameState, others>>

IntentionElapses ==
    /\ ~done
    /\ ~intentionOver /\ intentionOver' = TRUE
    /\ UNCHANGED <<world, transient, defence, lastPlayMake, playmakeID,
                   tasks, done>>

TransientElapses ==
    /\ ~done
    /\ transientFlag /\ trasientTimeOut < 2
    /\ trasientTimeOut' = trasientTimeOut + 1
    /\ UNCHANGED <<world, lastState, transientFlag, defence, keeping,
                   playmakeID, tasks, done>>

RolesNext ==
    \/ Cycle
    \/ waitHere
    \/ update
    \/ updateGameState
    \/ updateGoaliID
    \/ IntentionElapses
    \/ TransientElapses

RolesSpec == RolesInit /\ [][RolesNext]_rolesVars

\* The main loop runs its cycles (one of Cycle and waitHere can always be
\* taken, and no other step changes done), and time passes.
NextHalf == done' = ~done
RolesFairness ==
    /\ WF_done(NextHalf)
    /\ SF_intentionOver(IntentionElapses) /\ SF_trasientTimeOut(TransientElapses)
FairRolesSpec == RolesSpec /\ RolesFairness

-----------------------------------------------------------------------------
(* The number of defenders is never less than -1, which a team of none has *)
(* in a stop, and nobody is in the list more often than there are targets. *)
Most == Max({2, Formation_Defense, Cardinality(Robots)})
RolesTypeOK ==
    /\ active \subseteq Robots /\ goalieID \in GoalieIDs
    /\ gameState \in GameStates /\ lastState \in BOOLEAN
    /\ transientFlag \in BOOLEAN /\ trasientTimeOut \in 0..2
    /\ goalieAgent \in Robots \cup {None}
    /\ preferedDefenseCounts \in -1..Most
    /\ lastDefenseAgents \in [Robots -> 0..Most]
    /\ {clearing, intentionOver, done} \subseteq BOOLEAN
    /\ {lastPlayMake, playmakeID} \subseteq Robots \cup {None}
    /\ tasks \in [Robots -> SUBSET Tasks]

(* What the coach keeps from cycle to cycle is all that goes wrong: only   *)
(* the play maker it keeps (by the 300 ms in choosePlaymakeAndSupporter,   *)
(* or in the play when there is no new one) and the defenders it keeps     *)
(* (while one clears) ever have a second task, or one though they are not  *)
(* there; but for the goalie that saveGoalie moves.                        *)
KeptOnes == {lastPlayMake, playmakeID} \cup IF clearing THEN In(lastDefenseAgents) ELSE {}
OnlyKeptOnesClash ==
    [][~done /\ done' =>
         \A r \in Robots \ KeptOnes : LET given == tasks'[r] \ {"save"} IN
             Cardinality(given) <= IF r \in active THEN 1 ELSE 0]_rolesVars

(* decidePlayOn takes the play maker out of the list of the others, and    *)
(* the assignments before it take theirs: each robot that is there is told *)
(* what to do in every cycle, unless its play is given too many, which     *)
(* leaves them all without (masterplay.cpp:301).                           *)
NobodyIsForgotten ==
    done => LET forgotten == {r \in active : tasks[r] = {}}
            IN  forgotten = {} \/ Cardinality(forgotten) > PlaySize

(* HALT: decideHalt tells all that are there to wait, after the plan for   *)
(* the defence has given some a skill; saveGoalie still moves the goalie   *)
(* asked for, but only one that vision does not see.                       *)
HaltMovesLostGoalieOnly ==
    done /\ gameState = "Halt" =>
        /\ \A r \in active : tasks[r] = {"wait"}
        /\ \A r \in Robots : "save" \in tasks[r] => r = goalieID /\ r \notin active

(* What referee.proto:65 says of a HALT, "All robots should completely     *)
(* stop moving.": the goalie that saveGoalie moves does not.               *)
HaltMovesNobody == done /\ gameState = "Halt" => \A r \in Robots : tasks[r] \subseteq {"wait"}

(* However often their free kicks are repeated and whatever else happens,  *)
(* the defence by all that follows them is over at some time.              *)
TransientEnds == []<>~transientFlag

(* With the game on and the same robots there, one of them other than the  *)
(* goalie is made play maker and from then on there always is one: neither *)
(* a lost or forgotten play maker nor a fast ball keeps it from it.        *)
PlayMakerAppears ==
    <>[][UNCHANGED world]_rolesVars
    /\ <>[](gameState = "Start" /\ FieldPlayers # {} /\ ~clearing)
    => <>[](lastPlayMake \in FieldPlayers)
=============================================================================
