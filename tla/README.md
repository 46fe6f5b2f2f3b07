# A TLA+ model of the Parsian SSL AI

The program plays robot soccer in RoboCup's Small Size League: it listens to a
vision system and to a referee box, decides what each robot does, and sends the
decisions to the robots by radio. It is a Qt application of about a dozen
threads around one main loop. This directory holds the models of the parts of
it whose correctness lies in the order of things rather than in geometry, the
TLC runs that check them, and theorems about them checked by TLAPS.

## The system

| Part | State it keeps | Operations | Hard behaviour |
|---|---|---|---|
| `GameState` (`gamestate.cpp`) | a mask of flags, shootout flag, colour, two scores | `transition(char)`, `init(color)`, queries | any caller may give any character at any time: referee, operator, joystick, coach, a play |
| Referee input (`soccer.cpp:819-1107`) | last stage, command and cards, cached character, last counter, placement position | `refUpdate` on every datagram | UDP: loss, repetition; one character per packet; a counter narrowed to a byte; members never initialised |
| Game knowledge (`knowledge.cpp:500-590`) | `gamestate`, `gameMode` | `updateGameState` once a cycle, and again after a forced start | the mode is derived from the state seen in the cycle before |
| Coach (`coach.cpp`) | selected play, `firstTime`, `cyclesWaitAfterballMoved`, roles | `execute` once a cycle: `updateKnowledgeVars`, `decideAttack` | state left from an earlier restart; commands between two cycles that no cycle sees |
| Plays (`plays/`) | `playOnFlag`, the play-off's plan, `deleted` | `execute`, `reset` | flags of one restart read in the next |
| Path planner (`planner.cpp`) | request, kept way points and result of each robot, a copy of the world | slots `initPathPlanner`, `updatePlannerWorldModel`; thread `run` | a mutex that is only tried; requests dropped; answers overtaken in the event queue |
| Agents (`agent.cpp`) | the last path, the radio packet | skills, control loops | the path answers an older request |
| Main loop (`soccer.cpp:649-815`) | the clock of the last cycle | `processEvents`, world model, cycle | closing handshakes with logger and vision |
| Logger and replay (`util/gamelogger.cpp`, `logger.cpp`) | packets, draws and debug texts of the frames not yet written, seek lists | record thread, operator's switches, replay | the operator switches while the thread is in a frame |
| Vision and world model (`visionclient.cpp`, `soccer.cpp:1290-1560`, `worldmodel.cpp`) | each camera's sightings of late, the merged half world, tracks of balls and robots, the request to reconnect, the closing flags | `parse`, `merge`, `reconnect`, `CHalfWorld::update`, watch dog | cameras that miss, mistake and fall silent; a colour read twice without a lock; tracks reordered under the loop that walks them |
| Coach's assignment (`coach.cpp:314-450`, `1067-1570`, `2211-2264`) | last play maker and its timer, last defenders and their number, transient flag and its timer, the play's own play maker | `assignGoalieAgent`, `assignDefenseAgents`, `choosePlaymakeAndSupporter`, `decidePlayOn`, `saveGoalie` | robots lost and found between two cycles, choices kept from states of the game that are over |
| Mixed-team threads (`mixteam*.cpp`) | shared messages | read, send | four threads |

The parts talk to each other in four ways. Referee packets, the operator's
buttons, planner requests and planner results are Qt events, handled one at a
time by `processEvents` in the main thread (`soccer.cpp:675`). The main loop
then calls the coach, which calls knowledge, the plays and the skills. The
planner, vision and logger threads share data with the main thread under
mutexes. And several parts call `wm->gs->transition` directly, so that the
referee state changes under the feet of the others.

## Modules

| Module | Models | Correspondence |
|---|---|---|
| `GameState` | class `GameState` | the mask is the set of the flags whose bit is set; `Transition(c)` is `transition`, split into `NextState`, `NextGametimes`, `NextScore`; `SetColor` is `init` |
| `Referee` | referee box, UDP, `compute_command`, `refUpdate`, `changeTeamColor`; extends `GameState` | `socket` is the one datagram that `refUpdate` keeps of a burst; `last`, `cached`, `lastCmdCnt`, `bpPosition` are the members of the same names; the action `refUpdate` is the whole slot |
| `GameFlow` | `updateGameState`, `checkTransitionToForceStart`, `decideAttack` with all its decide functions; extends `GameState` | `Cycle` is one call of `CCoach::execute`; `RefCommand` is a command given between two cycles; each `decide...` has the name of its function |
| `Planner` | slots and thread of `CPlannerThread`, `CPlanner::resetPlanner`, the agent's side | `queue` is the main thread's event queue; the actions named like slots are those slots; `TakeTurn`, `SkipTurn`, `FinishPlan` are one round of `run` |
| `GameLog` | recording: `setLoggerReplayMode`, `terminateLogOrReplay`, `StartLogfunc`, `debug`/`draw`, `openFilesToLog`, `closeLogFiles`, the thread `CGameLogger::run`, the end of `CSoccer::run` and `fullHandle` | `todo` is what is left of the main thread's handler; `LogOn`, `LogOff`, `ReplayOn`, `ReplayOff` are its sections under `loggerMutex`; the `Run...` actions are the pieces of `run` between two operations on the mutex |
| `Vision` | cameras, `CVisionClient::parse` and `merge`, the thread `CVisionThread::run`, `CHalfWorld::update`, the operator's address, colour and ball, the closing handshake | `v`, `packs`, `reconnect`, `robot`, `balls` are the members of those names; `ReceivePacket` is one `parse`, `Merge` one merging with the update of all tracks, `Reconnect` and `ReconnectDone` the two sides of the flag the thread clears; `ReceiveAcrossChange` is a packet parsed while the colour changes |
| `Roles` | the assignment part of `CCoach::execute`, from `virtualTheirPlayOffState` to `saveGoalie` | `Cycle` is one `execute`: `Decided` is what it makes of the ball, `PlayMakeFirst` and `DefenceFirst` its two orders, `tasks` what each robot has been told when it ends; `waitHere` is the loop before the next one; `update`, `updateGameState`, `updateGoaliID` are what changes between |
| `LogBook` | abstract: what a log promises to those who write into it | `open`, `book`, `safe`; `GameLog!BookKept` is the refinement |
| `GameState_proofs`, `Referee_proofs`, `GameFlow_proofs`, `Planner_proofs`, `GameLog_proofs`, `Vision_proofs`, `Roles_proofs` | theorems about the module they extend | see Proofs |

### What is abstracted

- `Referee`: score, time and goalkeeper fields of a packet (they feed no
  decision of the state machine); the colours are represented by one command of
  each kind where both go the same way. Members that the constructor leaves
  unassigned start with any of the values that matter.
- `GameFlow`: a play is what the coach reads of it, `playOnFlag`, plus, of the
  play-off, whether it is a static one (`masterMode`), whether it has a plan and
  of which restart (`masterPlan`); a choice of a static play may find no valid
  plan and leave what there was. Which of the valid plans is taken is left out.
  The ball is whether it moved 5 cm in ten frames. The counter of cycles is
  compared with 0 and 6 only, so it saturates one above `WaitCycles`. An
  exception in the middle of a cycle, which `runMainLoop` catches, is not
  modelled, nor is the failing assertion of a build that has assertions: the
  model goes on as the other build does.
- `Planner`: goals are equal or far apart; the search ends at the goal or
  elsewhere. Each request carries a number, which the code does not have, to
  say which request a path answers.
- `GameLog`: a section under `loggerMutex` is one step; the thread is seen
  inside its section too (`append`, `write`), for that is when the end of the
  program does not get the mutex. `debugs` and `draws` are one list. How much
  time has passed is not in the model, so the thread appends or writes whenever
  it likes. A stop in the middle of a write leaves the file as it was before
  it: half-written frames are left out, as are the descriptions, the info file
  and the analyses. The replay pass of the thread touches nothing of this
  state, and is a pass that goes back to the top.

- `Vision`: positions are places further apart than both the 0.5 m within
  which `merge` takes two sightings for one and the metre within which a track
  is continued; one number stands for all numbers of robots. `field` is where
  each thing may be reported from now on, and shrinks as things settle. A
  packet lacks any part of what is in a camera's sight, and reports any number
  of false balls; an address may be refused; robots and their colour are reported as they are or not at
  all. A fast ball is any ball in any merge. The main loop's copy of the half
  world is one step under the mutex and no variable of its own. A camera that
  is switched off sends packets that are counted and not parsed; what it saw
  before stays in the merging (`countActiveCameras`, which would drop it, is
  never called). `merge` compares a third sighting with the sum of the first
  two, not with their mean: `summed` marks a sum, which agrees with no third
  sighting (away from the field's centre). `NoDoubleTrack` speaks of the balls
  that no more than two cameras have seen of late.
- `Roles`: whoever is nearest is any robot the code compares, the ball is in
  one of six zones cut where the code compares its position, and kick time
  estimates give any order. `kickTimeEstimation`'s array has ten places for ids
  up to eleven; the model has no meaning for the writes past its end. The
  faulty robots are any of `Suspects` in any cycle, `missMatchIds` any number
  of robots once there are more than `FullTeam`, and a clearing defence plan
  starts and stops as it likes. Timers may be over at any moment. The transient
  timer runs in transient phases only (in the others every cycle restarts it),
  and the last defenders are forgotten when nothing can read them again; a
  program that stops calling the coach for seconds is left out. None, two or
  three of the others mark, whoever has the ball (`Marks`), and the rest are
  the play's, which is made for `PlaySize`: given more it tells none of them,
  nor its play maker, anything (`Executes`). What a play that is given no more
  has its robots do is left out, and with it the arrays of five in
  `CDynamicAttack` that a play of six without the play maker overruns; so are
  the post a defender takes and penalty shoot-outs.

Histories (variables the code does not have) are marked in the modules:
`startIssued`, `enteredBy`, `fed`, `lastFed` in `Referee`; `settled`, `seen`,
`planOver`, `movedFor`, `chosen` and the distinction "this"/"old" of
`masterPlan` in `GameFlow`; the numbers of requests in `Planner`; `session` and
`said` in `GameLog`. `address` in `Vision` says what became of the address asked
for; `tasks` in `Roles` is what `execute` has told the agents, and `done` that
it has. `seen` says that the coach has had a cycle after every command, and no
joystick button, since a Stop or Halt that cleared what it keeps.

## Runs

| Run | Instance | Shows |
|---|---|---|
| `referee` | 2 stages, 4 commands, a yellow card of the blue team, counter 3 wide, 4 commands; loss, repetition, change of colour | type, well-formed mask, one feeding per command, a kick is READY only after its own NORMAL_START, the placement target is current; a new command arrives as its own character, cards or not |
| `referee_halt` | 3 stages, HALT and STOP, counter 256 wide | violation: a stage swallows HALT |
| `flow` | 8 commands, any number of them between two cycles, joystick button 2, `WaitCycles` 2 | play, mode and plan fit the restart in force and a forced start is earned while the coach sees every command; restarts are separated, the two halves of `isStart` agree, the play-off goes on only after a choice; a finished restart ends |
| `flow_halt_kept` | 5 commands | violation: a forced start out of HALT |
| `flow_preparation` | 5 commands | violation: a forced start before NORMAL_START |
| `flow_plan` | 5 commands | violation: a static play is executed without a plan |
| `planner_two` | 2 robots, one goal | both robots get their path though they compete for mutex and turns; results do not pile up |
| `planner_one` | 1 robot, 2 goals, 2 changes of mind | kept way points fit the request; the path of the last request wins |
| `logger` | 2 openings, 3 frames a file, 2 texts a session, 2 tag widgets | frames and packets stay paired; what is said while the files are open is in them once they are closed, and in no other session's; a crash, or an opening over a log that still runs, loses no more than what came after the last write; a thread told to end says so |
| `vision` | 2 cameras over the same part of the field, a blue robot or a ball, 2 places a ball may seem to be, 2 balls tracked, sightings kept for 1 and 0 packets, lost ones believed in for 2 merges | nothing is tracked twice, a ball in sight is not dropped; an address asked for is tried, and unless it is refused a ball is found again and robots that are gone or of the other colour leave; the program ends |
| `roles` | 2 robots that come and go, a goalie who is one of them or not there, 5 states of the game, 3 zones, one robot that may be faulty, a full team and a play of 1 | each robot that is there has a task in every cycle unless its play is given too many; tasks clash only by what was kept from an earlier cycle; a HALT moves nobody but a goalie out of sight; the transient phase ends; a play maker appears |
| `roles_halt` | the team of `roles` | violation: a goalie out of sight is moved in a HALT |

Why the bounds are enough. The counter of the referee matters through equality
of its low byte only: width 3 with 4 commands wraps, and lets a whole turn be
lost, which width 256 would need hundreds of commands for; the proof covers
every width. FIRST_HALF_PRE, the half that NORMAL_START begins, and back are the
least that put a stage between two commands. `CommandBound` and `CardBound`
bound what the box does, not the program. In `flow` nothing bounds the commands
between two cycles; the eight are one of each kind that the coach tells apart
(a kickoff or penalty to prepare, a free kick, a placement, the stage's half
time and the three plain ones), theirs being ours after the blue or yellow
colour is drawn at the start. Two cycles of waiting let the counter stand below,
at and above the limit. Button 2 is the one that changes what knowledge says and
not the mask; 3 and 4 give commands that the referee gives as well, and the
theorems cover all three.

In `planner_one` two changes of goal over two goals are the least that let `lastGoal`, which is two requests old, equal
a new goal it should not; in `planner_two` two robots are the least that can
hold each other up. In `logger` two sessions are the least that a late frame
can go astray between, and three frames let a file hold a written frame, one
appended and the one that closing adds. In `vision` two cameras are the least
that can disagree, two places the least a false ball can hide a true one at,
and a track limit of two lets a false ball use it up; the ages and blindnesses
keep their order (a ball is forgotten by its camera before a robot is, and
neither track is given up at the first miss). In `roles` two robots with a
goalie who may not be there leave one or two for the field: enough for a
defender and a play maker to be confused, for a goalie who appears to make the
count of robots one too many, and for nobody to be left; with `FullTeam` and
`PlaySize` 1 two are already more than a team, and more than a play is made for.
`Zones` leaves out the penalty area, the rest of our half and the middle, where
the same rules decide with other numbers.

Deadlock is checked in every run but `logger` and `vision`, where a program
that was closed does nothing more.

### Fairness

- `FairRefSpec`: the box sends for ever (weak), and a packet that is there
  again and again is handled some time (strong): loss may not take every packet
  from some moment on, for the loss is of the network and nobody promises more.
- `FairFlowSpec`: weak fairness of the cycle, which a timer of the main loop
  runs. Nothing is assumed of the referee.
- `Planner!FairSpec`: the main loop and its event queue go on; the thread goes
  round and its plans end, their nodes being bounded. Because both sides sleep a
  millisecond per round without the mutex, a `tryLock` that is made again and
  again succeeds again and again: strong fairness of a robot's turn, and
  `[]<>Asks(r) => []<><<TakesRequest(r)>>_vars` for its requests.

- `FairVisionSpec`: the vision thread and the main loop's end are scheduled
  (weak), and each camera, unless the thread has ended, sends again and again a
  packet that lacks nothing of what is in its sight, followed by a merging
  before the next packet of it. Vision may miss anything for any time, but not
  for ever: without that no ball need ever be found. An address that is refused
  is not tried again (`soccer.cpp:1306`): `GoneIsInactive`, `OursAreOurs` and
  `BallIsFound` are about a program whose address is not (`Stays`).
- `FairRolesSpec`: cycles go on (weak; a cycle or the loop before it can always
  be taken), and the 300 ms and the two seconds of a timer that is not
  restarted pass (strong, for the steps are interleaved with cycles).
- `FairLogSpec`: the scheduler runs the logger's thread (weak), which nobody
  can keep from `loggerMutex` for ever: each section under it ends. Nothing is
  assumed of the operator.

## What disagrees with the documents

Five runs end in a violation; four findings quote a comment of `referee.proto`
that the code contradicts, and one an assertion of the code.

1. `referee_halt`: `compute_command` reports the stage before the command
   (`soccer.cpp:1073`). A packet that brings both a new stage and HALT feeds
   the stage's character to the state machine, and the counter is used up: no
   later packet brings that HALT.
2. `flow_halt_kept`: a Halt leaves `gameMode` as it was, and
   `isOurNonPlayOnKick` reads it (`knowledge.cpp:506`): a force start is given
   in the first cycle of a HALT that interrupts our kickoff.
3. `flow_preparation`: the coach's force start does not look at the phase, and
   turns the play on before NORMAL_START (`coach.cpp:258`, `268`).
4. `flow_plan`: when no plan is valid `initStaticPlay` returns
   (`coach.cpp:1923`), `decidePlayOff` calls the play-off static and clears
   `firstTime` all the same, and the play-off runs with `masterPlan` NULL, which
   `playoff.cpp:87` asserts it is not; `decideNormalStart` does the same to a
   static play-off it has just reset (`coach.cpp:2464`).
5. `roles_halt`: `saveGoalie` is called at the end of every cycle and gives the
   goalie asked for a velocity of up to 2 m/s once it has been out of vision's
   sight for 100 ms (`coach.cpp:150-180`), in a HALT as well, and the packets go
   to agents in sight or not (`soccer.cpp:542-549`). `HaltMovesLostGoalieOnly`,
   proved, says that it is nobody else.

## Proofs

Every invariant and every action property that a passing run checks is also a
theorem, for every value of the constants. What a run shows on a small instance
the theorem shows for any number of cameras, robots, sessions, commands, and
for any bounds.

`GameState_proofs`: for every sequence of commands and changes of colour the
variables keep their types (`TypeCorrect`), the mask is well formed
(`MaskAlwaysWellFormed`) and no command turns one restart into another
(`RestartsStaySeparated`). `MaskWellFormed` with the type is inductive; the
lemmas `NextStateWellFormed` and `NextStateSeparates` state what the transition
function does to one mask, for any character whatever, and are used again by the
modules above.

`Referee_proofs`, from `RefereeAssumption`. `RefereeImplementsGameState`: each
step of the composition is a transition with some character or leaves the
state machine alone, so that its theorems hold here too
(`RefereeMaskWellFormed`, `RefereeSeparatesRestarts`, `RefereeTypeCorrect`).
`FedOncePerCommand` is not inductive: `OnceInv` adds that `lastCmdCnt` is the low
byte of the number of the packet fed last, that numbers only grow from there to
the socket to the box, and that the feedings are at most that number; a packet
whose byte differs has another number, hence a greater one.
`KicksFollowNormalStart` and `PlacementTargetsAreCurrent` need `KickInv`, which
says what a packet tells of the commands before it (`PacketsTell`: a stage of
play arrives with a number that comes after the start of that play) and what
the cached character stands for (`CachedTells`).

`GameFlow_proofs`, from `FlowAssumption`. Whatever the joystick does and however
many commands come between two cycles: types, mask, separation,
`StartStaysWhole`, `PlayOffGoesOnChosen`. The other four properties hold while
the coach has seen every command (`seen`): otherwise a STOP may pass that no
cycle sees, and what it should have reset is left. The invariant is `FlowSafe`:
what holds in all states (`Always`: among it that a play-off that is deleted has
no plan), and, while `seen`, `FlowInv`. That says how knowledge lags behind the
mask (`Sees`), which modes a kick leaves and when they end (`ModeOfKick`,
`ModeEnds`), that a STOP has cleared what the coach keeps (`StopClears`), and
that counter, flag and plan are therefore of the restart in force. `StopBegins`
shows that a Stop or Halt establishes it out of any state whatever, and
`FollowsKeepsFlow` that a cycle that follows keeps it.

`Planner_proofs`, from `PlannerAssumption`. `ResultsStayFew` is a matter of
counting: `Load(r)` bounds the requests and results of a robot that wait in the
queue together with the plan that is due, one between two calls of
`processEvents` and two within one, for a cycle asks once and each event is
handled before the next cycle. `KeptWayPointsFit` needs that the thread plans
for a robot whose request it took (`PlansWhatIsDue`).

`GameLog_proofs`. `FramesAgree` needs the types of the lists and nothing of the
thread's place: a frame taken late finds the lists of the session in force,
which fit each other. The types need more (`LogInv`): a text carries the number
of its session, so nobody may speak before the first (`SpeaksInSession`), and
one is opened only while one is left, which depends on what the handler has
still to do (`TodoInv`). `LoggerKeepsBook` shows, action by action, that each step
maps to one of `LogBook` or to a stutter. `LogBook` names what may be lost: a
crash (`Crash`) and an opening over a log that still runs (`OpenOverOpen`,
`gamelogger.cpp:99`) leave of a book what was safe.

`Vision_proofs`, from `VisionAssumption`. The lists are built by loops, written
as recursive functions. The prover has no induction over an operator, so the
module derives one over sets (`Induction`) from the well-foundedness of the
numbers, shows that a loop has a run (`LoopRuns`), that a run stays in a set its
rounds stay in (`LoopStays`), and that it keeps an invariant given round by round
(`LoopKeeps`). From these follow, for lists of any length, that the sightings of
a camera have no doubles (`SightAllKeepsLists`; `LeftOfIs` for the loop that
passes over an element, `KeptIs` for what is left of a list), what merging does
(`JoinedIsUnique`), and that each sighting gets one track (`TellRoundKeeps`).
`VisionTypeCorrect`, `AddressIsNotLost`, `MergeForgetsNoBall` and
`OneTrackForABall` hold for any number of cameras. For the last a loop is
counted: a round of merging adds a sighting of a place only to those that are
sums (`JoinRoundCounts`), so that a place which at most two cameras have seen is
merged into one (`SeersCounted`, `MergedOnce`).

`Roles_proofs`, from `RolesAssumption`. The properties compare what one cycle
decides with what the coach kept before it, so the types are all the invariant
they need; the work is in the cycle. `OfACycle` is what all its branches have in
common (`CycleDecides`), and the three properties follow from that.
`EverybodyHasATask` counts: who is told nothing is nobody, or is among more
robots than a play is made for.

Left to TLC: all liveness (`CommandsArrive`, `FinishedRestartEnds`,
`PathsCatchUp`, `LoggerEnds`, `GoneIsInactive`, `OursAreOurs`, `BallIsFound`,
`ProgramEnds`, `TransientEnds`, `PlayMakerAppears`), for TLAPS 1.4.5 has neither
fairness nor ENABLED, and the properties that are violated.

## What the models brought out besides

Behaviour that no document speaks against, so that no run is about it alone,
but which a reader of the properties should know:

- A command that repeats the one before it (another STOP) may be swallowed:
  with the same stage and command in the packet, `compute_command` reports a
  card that looks new, or the cached character (`soccer.cpp:1077-1104`), and
  the counter is used up. `CommandsArrive` is about the commands that differ.
- A flag that a play-off sets in the cycle in which `decideNormalStart` has
  marked it deleted survives the next Stop, which resets only what is not
  deleted; `seen` begins at a Stop that finds it down.
- `CDynamicAttack` goes on with its old play maker when the coach has none:
  that robot may be told to defend in the same cycle, and the play maker's
  skill, assigned last, wins (`OnlyKeptOnesClash`).
- `assignDefenseAgents` does not reset `nearestRobot` in its loop: with more
  targets than fit robots the last one is entered again for each target left.
- A goalie who comes into sight is counted among the field players in that
  cycle, so that the number of defenders is one too many for one cycle.
- A camera that is switched off or falls silent is merged with its last
  sightings for ever.
- An address that cannot be joined is given up: `reconnect()` reports that
  `open()` failed, the flag is cleared (`soccer.cpp:1445`), and nobody tries again.
- `merge` adds the second sighting of a ball to the first and halves the sum when
  all cameras are through (`visionclient.cpp:256`, `264`): a third camera's
  sighting of that ball is compared with the sum, does not match, and the ball
  gets two tracks. Hence the two cameras in `NoDoubleTrack`.
- A play of more than six tells its robots nothing (`masterplay.cpp:301`): each
  stays where `waitHere` has put it. `CDynamicAttack` has arrays for five
  (`plays/dynamicattack.h:144`), which six robots without the play maker overrun.

## Plan

1. Done: `GameState`, `Referee`, `GameFlow`, `Planner`, `GameLog`, `Vision`,
   `Roles`.
2. Done: a theorem for each invariant and each action property that a passing
   run checks, and for the two refinements, bursts of commands that no cycle sees
   included. To come: lemmas on the order that the lists of `Vision` keep.
3. Not begun: the logger's lost start (`start()` does nothing for a thread that
   has read `closeLogger` and has not returned yet, so that a replay switched
   off and a log switched on at once leave `logMode` on, "REC" on the monitor,
   `ui/widgets.cpp:1683`, and no thread); the choice of a play-off plan and its
   shuffled index; pure algorithms (`C2DTree::findNearestNode` against the
   linear scan it replaced, `WMatching` against the best assignment, the packet
   number of the radio); the mixed-team threads; the passes inside a play-off;
   the hysteresis check.

## Not modelled

Filters, trajectories, positioning, marking and the skills' control laws are
floating-point geometry with next to no discrete state, out of TLC's reach.
The radio and serial output is pure I/O. The user interface draws what the
modules' variables hold; of its handlers, those that change them are actions
(`ChangeTeamColor`, `LogOn`, `setTeamColor`, `connectVision`, `selectBall`).
Three of the mixed-team threads' classes are used in one kind of tournament
only and share one list of messages; they are in the plan. `fedit2`, `geom`, `formation`,
`include`, `libs`, `lib64`, `cl` and `proto` are vendored or generated;
`ssl-visual-planner` and `playoff` are an editor and its data.
