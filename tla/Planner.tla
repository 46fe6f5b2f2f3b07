------------------------------ MODULE Planner -------------------------------
(***************************************************************************)
(* Path planning: the agents' skills, in the main thread, ask for a path   *)
(* in every cycle; CPlannerThread::run plans in a thread of its own.       *)
(*                                                                         *)
(* The slots of CPlannerThread (initPathPlanner, updatePlannerWorldModel)  *)
(* run in the MAIN thread, like those of the agents, because the object    *)
(* was created there: requests, world models and results are events of one *)
(* queue.  The planner's state is shared under plannerMutex, which every   *)
(* user only tries to lock, for a millisecond: a request or a world model  *)
(* is dropped when the planner is busy for longer.                         *)
(*                                                                         *)
(* Geometry is reduced to goals that are the same or far apart.  A goal    *)
(* carries a number that grows when the skill changes its mind; it is not  *)
(* in the code, and says how old the request behind a path is.             *)
(***************************************************************************)
EXTENDS Integers, FiniteSets, Sequences

CONSTANTS
    RobotCount,         \* _MAX_NUM_PLAYERS
    Goals,
    ChangeBound         \* changes of goal of each robot

ASSUME PlannerAssumption ==
    /\ RobotCount \in Nat \ {0}
    /\ ChangeBound \in Nat

VARIABLES
    wanted,             \* the goal each robot's skill asks for, and its number
    phase,              \* of the main loop: "cycle" or "events"
    queue,              \* events posted to the main thread
    mywma,              \* the robots in the planner's copy of the world
    ready,              \* planner[i].readyToPlan
    goal, lastGoal,     \* planner[i].goal, with its number; lastGoal
    result,             \* where the way points kept in planner[i].result end
    turn,               \* the index of the loop of run()
    planning,           \* the thread holds plannerMutex
    path                \* CAgent::pathPlannerResult: the number of the
                        \* request it answers

planVars == <<ready, goal, lastGoal, result>>
vars == <<wanted, phase, queue, mywma, planVars, turn, planning, path>>

Robots == 1..RobotCount
NoGoal == "none"
Elsewhere == "elsewhere"
Unasked == [goal |-> NoGoal, nr |-> 0]

Request(r, g) == [kind |-> "request", robot |-> r, wanted |-> g]
World(set) == [kind |-> "world", robots |-> set]
Answer(r, g) == [kind |-> "result", robot |-> r, nr |-> g.nr]

Init ==
    /\ wanted \in [Robots -> [goal : Goals, nr : {1}]]
    /\ phase = "cycle" /\ queue = <<>>
    /\ mywma = {}
    /\ ready = [r \in Robots |-> FALSE]
    /\ goal = [r \in Robots |-> Unasked]
    /\ lastGoal = [r \in Robots |-> NoGoal]
    /\ result = [r \in Robots |-> NoGoal]
    /\ turn = 1 /\ planning = FALSE
    /\ path = [r \in Robots |-> 0]

-----------------------------------------------------------------------------
(***************************************************************************)
(* One round of CSoccer::run, between two calls of processEvents: it posts *)
(* the world that vision sees (newPacketHalfWordlsMerged), and runs the    *)
(* main loop when it is time, where the skills of the robots in asking     *)
(* call CAgent::initPlanner, one after the other.                          *)
(***************************************************************************)
OneByOne(asking) ==
    {order \in [1..Cardinality(asking) -> asking] :
        \A i, j \in DOMAIN order : i < j => order[i] < order[j]}

MainLoop(asking) ==
    /\ phase = "cycle"
    /\ \E seen \in SUBSET Robots, order \in OneByOne(asking) :
           queue' = Append(queue, World(seen))
                        \o [i \in DOMAIN order |-> Request(order[i], wanted[order[i]])]
    /\ phase' = "events"
    /\ UNCHANGED <<wanted, mywma, planVars, turn, planning, path>>

ChangeGoal(r) ==
    /\ phase = "cycle"
    /\ wanted[r].nr <= ChangeBound
    /\ \E g \in Goals : wanted' = [wanted EXCEPT ![r] = [goal |-> g, nr |-> @.nr + 1]]
    /\ UNCHANGED <<phase, queue, mywma, planVars, turn, planning, path>>

(* processEvents returns when the queue is empty *)
EventsDone ==
    /\ phase = "events" /\ queue = <<>>
    /\ phase' = "cycle"
    /\ UNCHANGED <<wanted, queue, mywma, planVars, turn, planning, path>>

-----------------------------------------------------------------------------
(* The slots.  Each takes the first event; the first two need the mutex.   *)

FirstIs(kind) == phase = "events" /\ queue # <<>> /\ Head(queue).kind = kind

updatePlannerWorldModel ==
    /\ FirstIs("world") /\ ~planning
    /\ mywma' = Head(queue).robots
    /\ queue' = Tail(queue)
    /\ UNCHANGED <<wanted, phase, planVars, turn, planning, path>>

(* tryLock(1) fails: the event is lost *)
DropEvent ==
    /\ FirstIs("world") \/ FirstIs("request")
    /\ planning
    /\ queue' = Tail(queue)
    /\ UNCHANGED <<wanted, phase, mywma, planVars, turn, planning, path>>

(* the robot is not in the planner's copy of the world *)
RefuseRequest(r) ==
    /\ FirstIs("request") /\ Head(queue).robot = r /\ ~planning
    /\ r \notin mywma
    /\ queue' = Tail(queue)
    /\ UNCHANGED <<wanted, phase, mywma, planVars, turn, planning, path>>

(* a plausible bug: the near answer is for the request kept from before *)
NearAnswerOfLast(r, g) == Answer(r, goal[r])

NearAnswer(r, g) == Answer(r, g)

(* it is within 10 cm of its goal: the answer is immediate, and what was   *)
(* asked before stays as it is                                             *)
AnswerNear(r) ==
    /\ FirstIs("request") /\ Head(queue).robot = r /\ ~planning
    /\ r \in mywma
    /\ queue' = Append(Tail(queue), NearAnswer(r, Head(queue).wanted))
    /\ UNCHANGED <<wanted, phase, mywma, planVars, turn, planning, path>>

(***************************************************************************)
(* CPlanner::resetPlanner: the way points of the last path are kept when   *)
(* they end where lastGoal is and the new goal is there too.  lastGoal is  *)
(* the goal of the request BEFORE the last one.                            *)
(***************************************************************************)
(* a plausible bug: the end of the way points is not looked at *)
KeepsWayPointsByGoal(r, g) == result[r] # NoGoal /\ lastGoal[r] = g

KeepsWayPoints(r, g) ==
    /\ result[r] # NoGoal
    /\ lastGoal[r] = g
    /\ result[r] = lastGoal[r]

initPathPlanner(r) ==
    /\ FirstIs("request") /\ Head(queue).robot = r /\ ~planning
    /\ r \in mywma
    /\ LET g == Head(queue).wanted
       IN  /\ result' = [result EXCEPT ![r] =
                            IF KeepsWayPoints(r, g.goal) THEN @ ELSE NoGoal]
           /\ lastGoal' = [lastGoal EXCEPT ![r] = goal[r].goal]
           /\ goal' = [goal EXCEPT ![r] = g]
           /\ ready' = [ready EXCEPT ![r] = TRUE]
    /\ queue' = Tail(queue)
    /\ UNCHANGED <<wanted, phase, mywma, turn, planning, path>>

(* CAgent::getPathPlannerResult, connected to every agent *)
getPathPlannerResult ==
    /\ FirstIs("result")
    /\ path' = [path EXCEPT ![Head(queue).robot] = Head(queue).nr]
    /\ queue' = Tail(queue)
    /\ UNCHANGED <<wanted, phase, mywma, planVars, turn, planning>>

-----------------------------------------------------------------------------
(***************************************************************************)
(* CPlannerThread::run.  TakeTurn finds the mutex free; SkipTurn finds it  *)
(* held by a slot for longer than it cares to wait.                        *)
(***************************************************************************)
(* plausible bugs: the loop does not start again; a plan is made twice;    *)
(* the plans of all robots are taken as made                               *)
NextTurnRunsOut == turn' = turn + 1
ReadyAfterPlanKept == ready
ReadyAfterPlanClearsAll == [r \in Robots |-> FALSE]

ReadyAfterPlan == [ready EXCEPT ![turn] = FALSE]

NextTurn == turn' = IF turn < RobotCount THEN turn + 1 ELSE 1

TakeTurn ==
    /\ ~planning
    /\ IF ready[turn]
       THEN planning' = TRUE /\ UNCHANGED turn
       ELSE NextTurn /\ UNCHANGED planning
    /\ UNCHANGED <<wanted, phase, queue, mywma, planVars, path>>

SkipTurn ==
    /\ ~planning
    /\ NextTurn
    /\ UNCHANGED <<wanted, phase, queue, mywma, planVars, planning, path>>

(* runPlanner, which may not get to the goal; then the lock is released *)
FinishPlan ==
    /\ planning
    /\ \E end \in {goal[turn].goal, Elsewhere} : result' = [result EXCEPT ![turn] = end]
    /\ queue' = Append(queue, Answer(turn, goal[turn]))
    /\ ready' = ReadyAfterPlan
    /\ planning' = FALSE
    /\ NextTurn
    /\ UNCHANGED <<wanted, phase, mywma, goal, lastGoal, path>>

-----------------------------------------------------------------------------
Next ==
    \/ \E r \in Robots : \/ ChangeGoal(r)
                         \/ RefuseRequest(r)
                         \/ AnswerNear(r)
                         \/ initPathPlanner(r)
    \/ \E asking \in SUBSET Robots : MainLoop(asking)
    \/ EventsDone
    \/ updatePlannerWorldModel
    \/ getPathPlannerResult
    \/ DropEvent
    \/ TakeTurn
    \/ SkipTurn
    \/ FinishPlan

Spec == Init /\ [][Next]_vars

(***************************************************************************)
(* The main loop goes round and every event is taken; in some of its       *)
(* rounds, by the clock, every robot asks.  The thread goes round and its  *)
(* plans are bounded.  Each side sleeps a millisecond a round without the  *)
(* mutex, so no robot's requests are dropped for ever, and no robot's turn *)
(* is skipped for ever: of the tries that come again and again, some       *)
(* succeed.                                                                *)
(***************************************************************************)
TakesRequest(r) == RefuseRequest(r) \/ AnswerNear(r) \/ initPathPlanner(r)
Asks(r) == FirstIs("request") /\ Head(queue).robot = r
StartsPlan(r) == turn = r /\ ready[r] /\ TakeTurn

FairSpec ==
    /\ Spec
    /\ WF_vars(EventsDone \/ updatePlannerWorldModel \/ getPathPlannerResult
                   \/ DropEvent \/ \E r \in Robots : TakesRequest(r))
    /\ WF_vars(\E asking \in SUBSET Robots : MainLoop(asking))
    /\ SF_vars(MainLoop(Robots))
    /\ WF_vars(TakeTurn) /\ WF_vars(FinishPlan)
    /\ \A r \in Robots : /\ []<>Asks(r) => []<><<TakesRequest(r)>>_vars
                          /\ SF_vars(StartsPlan(r))

-----------------------------------------------------------------------------
(* Type invariant. *)
Requested == [goal : Goals, nr : 1..(ChangeBound + 1)]
Answers == 0..(ChangeBound + 1)
Events == [kind : {"request"}, robot : Robots, wanted : Requested]
             \cup [kind : {"world"}, robots : SUBSET Robots]
             \cup [kind : {"result"}, robot : Robots, nr : Answers]

TypeOK ==
    /\ wanted \in [Robots -> Requested]
    /\ phase \in {"cycle", "events"}
    /\ queue \in Seq(Events)
    /\ mywma \subseteq Robots
    /\ ready \in [Robots -> BOOLEAN]
    /\ goal \in [Robots -> Requested \cup {Unasked}]
    /\ lastGoal \in [Robots -> Goals \cup {NoGoal}]
    /\ result \in [Robots -> Goals \cup {NoGoal, Elsewhere}]
    /\ turn \in Robots
    /\ planning \in BOOLEAN
    /\ path \in [Robots -> Answers]

(***************************************************************************)
(* Results do not pile up in the main thread: at most two wait there for a *)
(* robot, though the thread posts without asking (planner.cpp:944) and an  *)
(* answer given at once is posted behind it.                               *)
(***************************************************************************)
Waiting(r) == {i \in DOMAIN queue : queue[i].kind = "result" /\ queue[i].robot = r}
ResultsDoNotPileUp == \A r \in Robots : Cardinality(Waiting(r)) <= 2

(***************************************************************************)
(* While a plan is due, the way points kept from the last path, which bias *)
(* the search, lead to the goal of THIS request, although they are         *)
(* compared with the goal of the request before the last                   *)
(* (planner.cpp:594, and 684 after it).                                    *)
(***************************************************************************)
WayPointsFitGoal ==
    \A r \in Robots : ready[r] => result[r] \in {NoGoal, goal[r].goal}

(***************************************************************************)
(* When the planner keeps seeing a robot, the robot ends up with the path  *)
(* to the goal it wants, and keeps it, whatever was dropped on the way and *)
(* whatever older answers are still in the queue.                          *)
(***************************************************************************)
PathsCatchUp ==
    \A r \in Robots : <>[](r \in mywma) => <>[](path[r] = wanted[r].nr)
=============================================================================
