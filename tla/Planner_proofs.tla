-------------------------- MODULE Planner_proofs ---------------------------
(***************************************************************************)
(* The safety properties of Planner, for every number of robots, every set *)
(* of goals and every bound on their changes.                              *)
(*                                                                         *)
(* That results do not pile up rests on a count: what waits in the queue   *)
(* of the main thread for a robot, its requests and its results, together  *)
(* with the plan that is due for it, is at most two, and at most one when  *)
(* the main thread is between two calls of processEvents.  Every slot and  *)
(* every plan turns one of them into another; only the main loop adds one. *)
(***************************************************************************)
EXTENDS Planner, FiniteSetTheorems, TLAPS

(* event i of q is a request or a result of robot r *)
Of(q, r, i) == i \in DOMAIN q /\ q[i].kind # "world" /\ q[i].robot = r

(* How many requests and results of a robot wait in a queue.               *)
NoneOf(q, r) == \A i \in DOMAIN q : ~Of(q, r, i)
AtMostOne(q, r) == \A i, j \in DOMAIN q : Of(q, r, i) /\ Of(q, r, j) => i = j
AtMostTwo(q, r) ==
    \A i, j, k \in DOMAIN q :
        Of(q, r, i) /\ Of(q, r, j) /\ Of(q, r, k) => i = j \/ j = k \/ i = k

(* Its requests and results that wait, and the plan that is due, are one   *)
(* at most between two calls of processEvents, and two at most within one. *)
Load(r) ==
    IF phase = "cycle"
    THEN AtMostOne(queue, r) /\ (ready[r] => NoneOf(queue, r))
    ELSE AtMostTwo(queue, r) /\ (ready[r] => AtMostOne(queue, r))

(* The thread plans for a robot whose request it has taken.                *)
PlansWhatIsDue == planning => ready[turn]

(* The inductive invariant of all three theorems.                          *)
PlannerInv ==
    /\ TypeOK
    /\ WayPointsFitGoal
    /\ PlansWhatIsDue
    /\ \A r \in Robots : Load(r)

-----------------------------------------------------------------------------
(* The queue: what taking, posting and the requests of a round do to the   *)
(* count of one robot.                                                     *)

(* What is left after an event is taken was there before, one place on. *)
LEMMA OfTail ==
    ASSUME NEW q \in Seq(Events), q # <<>>, NEW r
    PROVE  /\ Tail(q) \in Seq(Events)
           /\ \A i \in DOMAIN Tail(q) :
                  /\ i \in Nat /\ i >= 1 /\ i + 1 \in DOMAIN q
                  /\ Tail(q)[i] = q[i + 1]
           /\ \A i \in DOMAIN Tail(q) : Of(Tail(q), r, i) => Of(q, r, i + 1)
           /\ 1 \in DOMAIN q /\ q[1] = Head(q)
  <1>1. Tail(q) \in Seq(Events) /\ Len(Tail(q)) = Len(q) - 1
    OBVIOUS
  <1>2. \A i \in 1..Len(Tail(q)) : Tail(q)[i] = q[i + 1]
    OBVIOUS
  <1>3. DOMAIN Tail(q) = 1..Len(Tail(q)) /\ DOMAIN q = 1..Len(q)
        /\ Len(q) \in Nat /\ Len(q) >= 1
    BY <1>1
  <1>4. Head(q) = q[1]
    OBVIOUS
  <1>5. \A i \in DOMAIN Tail(q) : i \in Nat /\ i >= 1 /\ i + 1 \in DOMAIN q
    BY <1>1, <1>3
  <1> QED
    BY <1>1, <1>2, <1>3, <1>4, <1>5 DEF Of

(* Taking an event adds nothing to any robot. *)
LEMMA CountAfterTail ==
    ASSUME NEW q \in Seq(Events), q # <<>>, NEW r
    PROVE  /\ NoneOf(q, r) => NoneOf(Tail(q), r)
           /\ AtMostOne(q, r) => AtMostOne(Tail(q), r)
           /\ AtMostTwo(q, r) => AtMostTwo(Tail(q), r)
  <1>1. \A i \in DOMAIN Tail(q) : i \in Nat /\ i + 1 \in DOMAIN q
    BY OfTail
  <1>2. \A i \in DOMAIN Tail(q) : Of(Tail(q), r, i) => Of(q, r, i + 1)
    BY OfTail
  <1>3. \A i, j \in DOMAIN Tail(q) : i + 1 = j + 1 => i = j
    BY <1>1
  <1>4. NoneOf(q, r) => NoneOf(Tail(q), r)
    BY <1>1, <1>2 DEF NoneOf
  <1>5. AtMostOne(q, r) => AtMostOne(Tail(q), r)
    BY <1>1, <1>2, <1>3 DEF AtMostOne
  <1>6. ASSUME AtMostTwo(q, r), NEW i \in DOMAIN Tail(q), NEW j \in DOMAIN Tail(q),
               NEW k \in DOMAIN Tail(q),
               Of(Tail(q), r, i), Of(Tail(q), r, j), Of(Tail(q), r, k)
        PROVE  i = j \/ j = k \/ i = k
    <2>1. Of(q, r, i + 1) /\ Of(q, r, j + 1) /\ Of(q, r, k + 1)
      BY <1>2, <1>6
    <2>2. i + 1 = j + 1 \/ j + 1 = k + 1 \/ i + 1 = k + 1
      BY <1>1, <1>6, <2>1 DEF AtMostTwo
    <2> QED
      BY <1>3, <2>2
  <1> QED
    BY <1>4, <1>5, <1>6 DEF AtMostTwo

(* Taking an event of the robot leaves it one less. *)
LEMMA CountAfterOwnTail ==
    ASSUME NEW q \in Seq(Events), q # <<>>, NEW r,
           Head(q).kind # "world", Head(q).robot = r
    PROVE  /\ AtMostOne(q, r) => NoneOf(Tail(q), r)
           /\ AtMostTwo(q, r) => AtMostOne(Tail(q), r)
  <1>1. \A i \in DOMAIN Tail(q) : i \in Nat /\ i >= 1 /\ i + 1 \in DOMAIN q
    BY OfTail
  <1>2. \A i \in DOMAIN Tail(q) : Of(Tail(q), r, i) => Of(q, r, i + 1)
    BY OfTail
  <1>3. 1 \in DOMAIN q /\ Of(q, r, 1)
    BY OfTail DEF Of
  <1>4. \A i \in DOMAIN Tail(q) : i + 1 # 1
    BY <1>1
  <1>5. \A i, j \in DOMAIN Tail(q) : i + 1 = j + 1 => i = j
    BY <1>1
  <1>6. AtMostOne(q, r) => NoneOf(Tail(q), r)
    BY <1>1, <1>2, <1>3, <1>4 DEF AtMostOne, NoneOf
  <1>7. ASSUME AtMostTwo(q, r), NEW i \in DOMAIN Tail(q), NEW j \in DOMAIN Tail(q),
               Of(Tail(q), r, i), Of(Tail(q), r, j)
        PROVE  i = j
    <2>1. Of(q, r, i + 1) /\ Of(q, r, j + 1)
      BY <1>2, <1>7
    <2>2. i + 1 = j + 1 \/ j + 1 = 1 \/ i + 1 = 1
      BY <1>1, <1>3, <1>7, <2>1 DEF AtMostTwo
    <2> QED
      BY <1>4, <1>5, <2>2
  <1> QED
    BY <1>6, <1>7 DEF AtMostOne

(* Posting an event adds one, and only to the robot it is of. *)
LEMMA CountAfterAppend ==
    ASSUME NEW q \in Seq(Events), NEW e \in Events, NEW r
    PROVE  /\ Append(q, e) \in Seq(Events)
           /\ NoneOf(q, r) => AtMostOne(Append(q, e), r)
           /\ AtMostOne(q, r) => AtMostTwo(Append(q, e), r)
           /\ e.kind = "world" \/ e.robot # r =>
                  /\ NoneOf(q, r) => NoneOf(Append(q, e), r)
                  /\ AtMostOne(q, r) => AtMostOne(Append(q, e), r)
                  /\ AtMostTwo(q, r) => AtMostTwo(Append(q, e), r)
  <1> DEFINE a == Append(q, e)
             l == Len(q) + 1
  <1>1. a \in Seq(Events) /\ Len(a) = l /\ DOMAIN a = 1..l /\ DOMAIN q = 1..Len(q)
        /\ Len(q) \in Nat
    OBVIOUS
  <1>2. \A i \in 1..Len(q) : a[i] = q[i]
    OBVIOUS
  <1>3. a[l] = e
    OBVIOUS
  <1>4. \A i \in DOMAIN a : i = l \/ i \in DOMAIN q
    BY <1>1
  <1>5. \A i \in DOMAIN a : Of(a, r, i) => i = l \/ (i \in DOMAIN q /\ Of(q, r, i))
    BY <1>1, <1>2, <1>4 DEF Of
  <1>6. e.kind = "world" \/ e.robot # r =>
            \A i \in DOMAIN a : Of(a, r, i) => i \in DOMAIN q /\ Of(q, r, i)
    BY <1>3, <1>5 DEF Of
  <1> HIDE DEF a, l
  <1>7. NoneOf(q, r) => AtMostOne(a, r)
    BY <1>5 DEF NoneOf, AtMostOne
  <1>8. AtMostOne(q, r) => AtMostTwo(a, r)
    BY <1>5 DEF AtMostTwo, AtMostOne
  <1>9. ASSUME e.kind = "world" \/ e.robot # r
        PROVE  /\ NoneOf(q, r) => NoneOf(a, r)
               /\ AtMostOne(q, r) => AtMostOne(a, r)
               /\ AtMostTwo(q, r) => AtMostTwo(a, r)
    BY <1>6, <1>9 DEF NoneOf, AtMostTwo, AtMostOne
  <1> QED
    BY <1>1, <1>7, <1>8, <1>9 DEF a

(* The requests of one round: at most one of each robot. *)
LEMMA RequestsOfRound ==
    ASSUME NEW asking \in SUBSET Robots, NEW order \in OneByOne(asking),
           wanted \in [Robots -> Requested], PlannerAssumption, NEW r
    PROVE  LET s == [i \in DOMAIN order |-> Request(order[i], wanted[order[i]])]
           IN  s \in Seq(Events) /\ AtMostOne(s, r)
  <1> DEFINE s == [i \in DOMAIN order |-> Request(order[i], wanted[order[i]])]
             n == Cardinality(asking)
  <1>1. n \in Nat
    <2>1. IsFiniteSet(Robots)
      BY FS_Interval DEF Robots, PlannerAssumption
    <2> QED
      BY <2>1, FS_Subset, FS_CardinalityType
  <1>2. order \in [1..n -> Robots] /\ DOMAIN order = 1..n
    BY DEF OneByOne
  <1>3. \A i \in 1..n : s[i] = Request(order[i], wanted[order[i]]) /\ s[i] \in Events
    BY <1>2 DEF Request, Events
  <1>4. s \in [1..n -> Events]
    BY <1>2, <1>3
  <1>5. s \in Seq(Events)
    BY <1>1, <1>4
  <1>6. \A i, j \in 1..n : i < j => order[i] < order[j]
    BY <1>2 DEF OneByOne
  <1>7. ASSUME NEW i \in 1..n, NEW j \in 1..n, Of(s, r, i), Of(s, r, j)
        PROVE  i = j
    <2>1. order[i] = r /\ order[j] = r
      BY <1>3, <1>7 DEF Of, Request
    <2>2. order[i] \in Int /\ order[j] \in Int /\ i \in Int /\ j \in Int
      BY <1>1, <1>2 DEF Robots
    <2>3. ~(i < j) /\ ~(j < i)
      BY <1>6, <2>1, <2>2
    <2> QED
      BY <2>2, <2>3
  <1>8. AtMostOne(s, r)
    BY <1>2, <1>7 DEF AtMostOne
  <1> QED
    BY <1>5, <1>8

(* They add one to what waits. *)
LEMMA CountAfterRequests ==
    ASSUME NEW q \in Seq(Events), NEW s \in Seq(Events), NEW r, AtMostOne(s, r)
    PROVE  /\ q \o s \in Seq(Events)
           /\ NoneOf(q, r) => AtMostOne(q \o s, r)
           /\ AtMostOne(q, r) => AtMostTwo(q \o s, r)
  <1> DEFINE a == q \o s
             l == Len(q)
  <1>1. a \in Seq(Events) /\ Len(a) = l + Len(s) /\ DOMAIN a = 1..(l + Len(s))
        /\ DOMAIN q = 1..l /\ DOMAIN s = 1..Len(s) /\ l \in Nat /\ Len(s) \in Nat
    OBVIOUS
  <1>2. \A i \in DOMAIN a : IF i <= l THEN a[i] = q[i] ELSE a[i] = s[i - l]
    OBVIOUS
  <1>3. \A i \in DOMAIN a : i \in Int /\ (i \in DOMAIN q \/ i - l \in DOMAIN s)
    BY <1>1
  <1>4. \A i \in DOMAIN a : Of(a, r, i) =>
            (i \in DOMAIN q /\ Of(q, r, i)) \/ (i - l \in DOMAIN s /\ Of(s, r, i - l))
    BY <1>1, <1>2 DEF Of
  <1>5. \A i, j \in DOMAIN a : i - l = j - l => i = j
    BY <1>1
  <1>6. \A i, j \in DOMAIN s : Of(s, r, i) /\ Of(s, r, j) => i = j
    BY DEF AtMostOne
  <1>7. ASSUME NEW i \in DOMAIN a, NEW j \in DOMAIN a,
               i - l \in DOMAIN s, Of(s, r, i - l), j - l \in DOMAIN s, Of(s, r, j - l)
        PROVE  i = j
    BY <1>5, <1>6, <1>7
  <1> HIDE DEF a, l
  <1>8. NoneOf(q, r) => AtMostOne(a, r)
    BY <1>4, <1>7 DEF NoneOf, AtMostOne
  <1>9. AtMostOne(q, r) => AtMostTwo(a, r)
    BY <1>4, <1>7 DEF AtMostTwo, AtMostOne
  <1> QED
    BY <1>1, <1>8, <1>9 DEF a

(* No three different elements: at most two. *)
LEMMA NoThreeMeansTwo ==
    ASSUME NEW S, IsFiniteSet(S),
           \A i, j, k \in S : i = j \/ j = k \/ i = k
    PROVE  Cardinality(S) <= 2
  <1>1. CASE S = {}
    BY <1>1, FS_EmptySet
  <1>2. CASE \E x \in S : S = {x}
    BY <1>2, FS_Singleton
  <1>3. CASE \E x, y \in S : x # y
    <2>1. PICK x, y \in S : x # y
      BY <1>3
    <2>2. S = {x} \cup {y}
      BY <2>1
    <2>3. IsFiniteSet({x}) /\ Cardinality({x}) = 1
      BY FS_Singleton
    <2>4. Cardinality({x} \cup {y}) = 2
      BY <2>1, <2>3, FS_AddElement
    <2> QED
      BY <2>2, <2>4
  <1> QED
    BY <1>1, <1>2, <1>3

-----------------------------------------------------------------------------
(* The first event, by its kind. *)
LEMMA FirstEvent ==
    ASSUME queue \in Seq(Events), queue # <<>>
    PROVE  /\ Head(queue) \in Events
           /\ Head(queue).kind = "request" =>
                  Head(queue).robot \in Robots /\ Head(queue).wanted \in Requested
           /\ Head(queue).kind = "world" => Head(queue).robots \subseteq Robots
           /\ Head(queue).kind = "result" =>
                  Head(queue).robot \in Robots /\ Head(queue).nr \in Answers
  <1>1. Head(queue) \in Events
    OBVIOUS
  <1> QED
    BY <1>1 DEF Events

(* The events posted. *)
LEMMA PostedEvents ==
    ASSUME PlannerAssumption
    PROVE  /\ \A seen \in SUBSET Robots : World(seen) \in Events
           /\ \A r \in Robots, g \in Requested \cup {Unasked} : Answer(r, g) \in Events
  <1>1. \A g \in Requested \cup {Unasked} : g.nr \in Answers
    BY DEF PlannerAssumption, Requested, Unasked, Answers
  <1> QED
    BY <1>1 DEF World, Answer, Events

(* The types hold before the first request.                                *)
LEMMA TypeInit == PlannerAssumption /\ Init => TypeOK
  <1> SUFFICES ASSUME PlannerAssumption, Init
               PROVE  TypeOK
    OBVIOUS
  <1>1. wanted \in [Robots -> Requested]
    BY DEF Init, Requested, PlannerAssumption
  <1>2. queue \in Seq(Events)
    BY DEF Init
  <1>3. goal \in [Robots -> Requested \cup {Unasked}]
    BY DEF Init
  <1>4. turn \in Robots /\ path \in [Robots -> Answers]
    BY DEF Init, Robots, Answers, PlannerAssumption
  <1> QED
    BY <1>1, <1>2, <1>3, <1>4 DEF Init, TypeOK

(* Every step keeps them.                                                  *)
LEMMA TypeStep ==
    ASSUME PlannerAssumption, TypeOK, [Next]_vars
    PROVE  TypeOK'
  <1> USE DEF planVars
  <1>1. CASE UNCHANGED vars
    BY <1>1 DEF TypeOK, vars
  <1>2. ASSUME NEW r \in Robots, ChangeGoal(r)
        PROVE  TypeOK'
    <2>1. PICK g \in Goals : wanted' = [wanted EXCEPT ![r] = [goal |-> g, nr |-> @.nr + 1]]
      BY <1>2 DEF ChangeGoal
    <2>2. wanted[r] \in Requested /\ wanted[r].nr <= ChangeBound
      BY <1>2 DEF ChangeGoal, TypeOK
    <2>3. wanted[r].nr + 1 \in 1..(ChangeBound + 1)
      BY <2>2 DEF Requested, PlannerAssumption
    <2>4. [goal |-> g, nr |-> wanted[r].nr + 1] \in Requested
      BY <2>3 DEF Requested
    <2>5. wanted' \in [Robots -> Requested]
      BY <2>1, <2>4 DEF TypeOK
    <2> QED
      BY <1>2, <2>5 DEF ChangeGoal, TypeOK
  <1>3. ASSUME queue # <<>>, queue' = Tail(queue)
        PROVE  queue' \in Seq(Events)
    BY <1>3, OfTail DEF TypeOK
  <1>4. ASSUME NEW r \in Robots, RefuseRequest(r)
        PROVE  TypeOK'
    BY <1>3, <1>4 DEF RefuseRequest, FirstIs, TypeOK
  <1>5. ASSUME NEW r \in Robots, AnswerNear(r)
        PROVE  TypeOK'
    <2>1. Tail(queue) \in Seq(Events)
      BY <1>5, OfTail DEF AnswerNear, FirstIs, TypeOK
    <2>2. Head(queue).wanted \in Requested
      BY <1>5, FirstEvent DEF AnswerNear, FirstIs, TypeOK
    <2>3. Answer(r, Head(queue).wanted) \in Events
      BY <2>2, PostedEvents
    <2>4. queue' \in Seq(Events)
      BY <1>5, <2>1, <2>3 DEF AnswerNear, NearAnswer
    <2> QED
      BY <1>5, <2>4 DEF AnswerNear, TypeOK
  <1>6. ASSUME NEW r \in Robots, initPathPlanner(r)
        PROVE  TypeOK'
    <2> DEFINE g == Head(queue).wanted
    <2>1. g \in Requested /\ g.goal \in Goals
      BY <1>6, FirstEvent DEF initPathPlanner, FirstIs, TypeOK, Requested
    <2>2. goal[r].goal \in Goals \cup {NoGoal}
      BY DEF TypeOK, Requested, Unasked
    <2>3. lastGoal' \in [Robots -> Goals \cup {NoGoal}]
      BY <1>6, <2>2 DEF initPathPlanner, TypeOK
    <2>4. result' \in [Robots -> Goals \cup {NoGoal, Elsewhere}]
      BY <1>6 DEF initPathPlanner, TypeOK
    <2>5. goal' \in [Robots -> Requested \cup {Unasked}]
      BY <1>6, <2>1 DEF initPathPlanner, TypeOK
    <2>6. ready' \in [Robots -> BOOLEAN]
      BY <1>6 DEF initPathPlanner, TypeOK
    <2>7. queue' \in Seq(Events)
      BY <1>3, <1>6 DEF initPathPlanner, FirstIs
    <2> QED
      BY <1>6, <2>3, <2>4, <2>5, <2>6, <2>7 DEF initPathPlanner, TypeOK
  <1>7. ASSUME NEW asking \in SUBSET Robots, MainLoop(asking)
        PROVE  TypeOK'
    <2>1. PICK seen \in SUBSET Robots, order \in OneByOne(asking) :
              queue' = Append(queue, World(seen))
                         \o [i \in DOMAIN order |-> Request(order[i], wanted[order[i]])]
      BY <1>7 DEF MainLoop
    <2>2. Append(queue, World(seen)) \in Seq(Events)
      BY PostedEvents DEF TypeOK
    <2>3. [i \in DOMAIN order |-> Request(order[i], wanted[order[i]])] \in Seq(Events)
      BY RequestsOfRound DEF TypeOK
    <2>4. queue' \in Seq(Events)
      BY <2>1, <2>2, <2>3
    <2> QED
      BY <1>7, <2>4 DEF MainLoop, TypeOK
  <1>8. CASE EventsDone
    BY <1>8 DEF EventsDone, TypeOK
  <1>9. CASE updatePlannerWorldModel
    <2>1. mywma' \subseteq Robots
      BY <1>9, FirstEvent DEF updatePlannerWorldModel, FirstIs, TypeOK
    <2> QED
      BY <1>3, <1>9, <2>1 DEF updatePlannerWorldModel, FirstIs, TypeOK
  <1>10. CASE getPathPlannerResult
    <2>1. path' \in [Robots -> Answers]
      BY <1>10, FirstEvent DEF getPathPlannerResult, FirstIs, TypeOK
    <2> QED
      BY <1>3, <1>10, <2>1 DEF getPathPlannerResult, FirstIs, TypeOK
  <1>11. CASE DropEvent
    BY <1>3, <1>11 DEF DropEvent, FirstIs, TypeOK
  <1>12. ASSUME NextTurn
         PROVE  turn' \in Robots
    BY <1>12 DEF NextTurn, TypeOK, Robots, PlannerAssumption
  <1>13. CASE TakeTurn
    <2>1. turn' \in Robots /\ planning' \in BOOLEAN
      BY <1>12, <1>13 DEF TakeTurn, TypeOK
    <2> QED
      BY <1>13, <2>1 DEF TakeTurn, TypeOK
  <1>14. CASE SkipTurn
    BY <1>12, <1>14 DEF SkipTurn, TypeOK
  <1>15. CASE FinishPlan
    <2>1. turn' \in Robots
      BY <1>12, <1>15 DEF FinishPlan
    <2>2. goal[turn] \in Requested \cup {Unasked} /\ goal[turn].goal \in Goals \cup {NoGoal}
      BY DEF TypeOK, Requested, Unasked
    <2>3. Answer(turn, goal[turn]) \in Events
      BY <2>2, PostedEvents DEF TypeOK
    <2>4. queue' \in Seq(Events)
      BY <1>15, <2>3 DEF FinishPlan, TypeOK
    <2>5. result' \in [Robots -> Goals \cup {NoGoal, Elsewhere}]
      BY <1>15, <2>2 DEF FinishPlan, TypeOK
    <2>6. ready' \in [Robots -> BOOLEAN]
      BY <1>15 DEF FinishPlan, ReadyAfterPlan, TypeOK
    <2> QED
      BY <1>15, <2>1, <2>4, <2>5, <2>6 DEF FinishPlan, TypeOK
  <1> QED
    BY <1>1, <1>2, <1>4, <1>5, <1>6, <1>7, <1>8, <1>9, <1>10, <1>11, <1>13, <1>14, <1>15
    DEF Next

-----------------------------------------------------------------------------
(* Way points are only kept for the goal they end at, and a plan that ends *)
(* somewhere is no longer due: runPlanner is the one that moves them.      *)
LEMMA WayPointsStep ==
    ASSUME TypeOK, WayPointsFitGoal, [Next]_vars
    PROVE  WayPointsFitGoal'
  <1>1. ASSUME UNCHANGED planVars
        PROVE  WayPointsFitGoal'
    BY <1>1 DEF WayPointsFitGoal, planVars
  <1>2. ASSUME NEW r \in Robots, initPathPlanner(r)
        PROVE  WayPointsFitGoal'
    <2> DEFINE g == Head(queue).wanted
    <2>1. result' = [result EXCEPT ![r] = IF KeepsWayPoints(r, g.goal) THEN @ ELSE NoGoal]
          /\ goal' = [goal EXCEPT ![r] = g]
          /\ ready' = [ready EXCEPT ![r] = TRUE]
      BY <1>2 DEF initPathPlanner
    <2>2. goal'[r] = g /\ result'[r] = IF KeepsWayPoints(r, g.goal) THEN result[r] ELSE NoGoal
      BY <2>1 DEF TypeOK
    <2>3. result'[r] \in {NoGoal, goal'[r].goal}
      BY <2>2 DEF KeepsWayPoints
    <2>4. \A s \in Robots \ {r} :
              ready'[s] = ready[s] /\ result'[s] = result[s] /\ goal'[s] = goal[s]
      BY <2>1 DEF TypeOK
    <2> QED
      BY <2>3, <2>4 DEF WayPointsFitGoal
  <1>3. CASE FinishPlan
    <2>1. turn \in Robots /\ goal' = goal
      BY <1>3 DEF FinishPlan, TypeOK
    <2>2. ready' = [ready EXCEPT ![turn] = FALSE]
      BY <1>3 DEF FinishPlan, ReadyAfterPlan
    <2>3. \A s \in Robots \ {turn} : result'[s] = result[s] /\ ready'[s] = ready[s]
      BY <1>3, <2>2 DEF FinishPlan, TypeOK
    <2>4. ~ready'[turn]
      BY <2>1, <2>2 DEF TypeOK
    <2> QED
      BY <2>1, <2>3, <2>4 DEF WayPointsFitGoal
  <1> QED
    BY <1>1, <1>2, <1>3 DEF Next, vars, ChangeGoal, RefuseRequest, AnswerNear, MainLoop,
       EventsDone, updatePlannerWorldModel, getPathPlannerResult, DropEvent,
       TakeTurn, SkipTurn

(* The slots wait for the mutex: what the thread works on stays due. *)
LEMMA PlansStep ==
    ASSUME TypeOK, PlansWhatIsDue, [Next]_vars
    PROVE  PlansWhatIsDue'
  <1>1. ASSUME UNCHANGED <<planning, turn, ready>>
        PROVE  PlansWhatIsDue'
    BY <1>1 DEF PlansWhatIsDue
  <1>2. ASSUME NEW r \in Robots, initPathPlanner(r)
        PROVE  PlansWhatIsDue'
    BY <1>2 DEF initPathPlanner, PlansWhatIsDue
  <1>3. CASE TakeTurn
    BY <1>3 DEF TakeTurn, PlansWhatIsDue, planVars
  <1>4. CASE SkipTurn
    BY <1>4 DEF SkipTurn, PlansWhatIsDue
  <1>5. CASE FinishPlan
    BY <1>5 DEF FinishPlan, PlansWhatIsDue
  <1> QED
    BY <1>1, <1>2, <1>3, <1>4, <1>5 DEF Next, vars, planVars, ChangeGoal, RefuseRequest,
       AnswerNear, MainLoop, EventsDone, updatePlannerWorldModel, getPathPlannerResult,
       DropEvent

-----------------------------------------------------------------------------
(* What waits for a robot and what is due for it, step by step. *)
LEMMA LoadStep ==
    ASSUME PlannerAssumption, TypeOK, PlansWhatIsDue, [Next]_vars, NEW r \in Robots, Load(r)
    PROVE  Load(r)'
  <1> USE DEF Load
  <1>q. queue \in Seq(Events) /\ ready \in [Robots -> BOOLEAN]
    BY DEF TypeOK
  <1>1. ASSUME UNCHANGED <<phase, queue, ready>>
        PROVE  Load(r)'
    BY <1>1
  <1>2. ASSUME phase = "events", queue # <<>>, queue' = Tail(queue), UNCHANGED <<phase, ready>>
        PROVE  Load(r)'
    BY <1>2, <1>q, CountAfterTail
  <1>3. ASSUME NEW s \in Robots, AnswerNear(s)
        PROVE  Load(r)'
    <2> DEFINE e == NearAnswer(s, Head(queue).wanted)
               t == Tail(queue)
    <2>1. /\ phase = "events" /\ queue # <<>> /\ Head(queue).kind = "request"
          /\ Head(queue).robot = s
          /\ queue' = Append(t, e) /\ phase' = phase /\ ready' = ready
      BY <1>3 DEF AnswerNear, FirstIs, planVars
    <2>2. t \in Seq(Events)
      BY <1>q, <2>1, OfTail
    <2>3. Head(queue).wanted \in Requested
      BY <1>q, <2>1, FirstEvent
    <2>4. e \in Events /\ e.kind = "result" /\ e.robot = s
      BY <2>3, PostedEvents DEF NearAnswer, Answer
    <2> HIDE DEF e
    <2>5. CASE s = r
      <3>1. AtMostOne(queue, r) => NoneOf(t, r)
        BY <1>q, <2>1, <2>5, CountAfterOwnTail
      <3>2. AtMostTwo(queue, r) => AtMostOne(t, r)
        BY <1>q, <2>1, <2>5, CountAfterOwnTail
      <3> HIDE DEF t
      <3>3. NoneOf(t, r) => AtMostOne(Append(t, e), r)
        BY <2>2, <2>4, CountAfterAppend
      <3>4. AtMostOne(t, r) => AtMostTwo(Append(t, e), r)
        BY <2>2, <2>4, CountAfterAppend
      <3> QED
        BY <2>1, <3>1, <3>2, <3>3, <3>4
    <2>6. CASE s # r
      <3>1. AtMostOne(queue, r) => AtMostOne(t, r)
        BY <1>q, <2>1, CountAfterTail
      <3>2. AtMostTwo(queue, r) => AtMostTwo(t, r)
        BY <1>q, <2>1, CountAfterTail
      <3> HIDE DEF t
      <3>3. AtMostOne(t, r) => AtMostOne(Append(t, e), r)
        BY <2>2, <2>4, <2>6, CountAfterAppend
      <3>4. AtMostTwo(t, r) => AtMostTwo(Append(t, e), r)
        BY <2>2, <2>4, <2>6, CountAfterAppend
      <3> QED
        BY <2>1, <3>1, <3>2, <3>3, <3>4
    <2> QED
      BY <2>5, <2>6
  <1>4. ASSUME NEW s \in Robots, initPathPlanner(s)
        PROVE  Load(r)'
    <2>1. /\ phase = "events" /\ queue # <<>> /\ Head(queue).kind = "request"
          /\ Head(queue).robot = s
          /\ queue' = Tail(queue) /\ phase' = phase
          /\ ready' = [ready EXCEPT ![s] = TRUE]
      BY <1>4 DEF initPathPlanner, FirstIs
    <2>2. CASE s = r
      BY <1>q, <2>1, <2>2, CountAfterOwnTail, CountAfterTail
    <2>3. CASE s # r
      <3>1. ready'[r] = ready[r]
        BY <1>q, <2>1, <2>3
      <3> QED
        BY <1>q, <2>1, <3>1, CountAfterTail
    <2> QED
      BY <2>2, <2>3
  <1>5. ASSUME NEW asking \in SUBSET Robots, MainLoop(asking)
        PROVE  Load(r)'
    <2>1. PICK seen \in SUBSET Robots, order \in OneByOne(asking) :
              queue' = Append(queue, World(seen))
                         \o [i \in DOMAIN order |-> Request(order[i], wanted[order[i]])]
      BY <1>5 DEF MainLoop
    <2> DEFINE w == Append(queue, World(seen))
               s == [i \in DOMAIN order |-> Request(order[i], wanted[order[i]])]
    <2>2. phase = "cycle" /\ phase' = "events" /\ ready' = ready
      BY <1>5 DEF MainLoop, planVars
    <2>3. World(seen) \in Events /\ World(seen).kind = "world"
      BY PostedEvents DEF World
    <2>4. w \in Seq(Events)
      BY <1>q, <2>3, CountAfterAppend
    <2>5. NoneOf(queue, r) => NoneOf(w, r)
      BY <1>q, <2>3, CountAfterAppend
    <2>6. AtMostOne(queue, r) => AtMostOne(w, r)
      BY <1>q, <2>3, CountAfterAppend
    <2>7. s \in Seq(Events) /\ AtMostOne(s, r)
      BY RequestsOfRound DEF TypeOK
    <2>8. queue' = w \o s
      BY <2>1
    <2> HIDE DEF w, s
    <2>9. NoneOf(w, r) => AtMostOne(w \o s, r)
      BY <2>4, <2>7, CountAfterRequests
    <2>10. AtMostOne(w, r) => AtMostTwo(w \o s, r)
      BY <2>4, <2>7, CountAfterRequests
    <2> QED
      BY <2>2, <2>5, <2>6, <2>8, <2>9, <2>10
  <1>6. CASE EventsDone
    <2>1. phase' = "cycle" /\ queue' = <<>>
      BY <1>6 DEF EventsDone
    <2> QED
      BY <2>1 DEF AtMostOne, NoneOf
  <1>7. CASE FinishPlan
    <2> DEFINE e == Answer(turn, goal[turn])
    <2>1. queue' = Append(queue, e) /\ phase' = phase /\ planning /\ turn \in Robots
          /\ ready' = [ready EXCEPT ![turn] = FALSE]
      BY <1>7 DEF FinishPlan, ReadyAfterPlan, TypeOK
    <2>2. e \in Events /\ e.kind = "result" /\ e.robot = turn
      <3>1. goal[turn] \in Requested \cup {Unasked}
        BY <2>1 DEF TypeOK
      <3> QED
        BY <2>1, <3>1, PostedEvents DEF Answer
    <2> HIDE DEF e
    <2>3. CASE turn = r
      <3>1. ready[r]
        BY <2>1, <2>3 DEF PlansWhatIsDue
      <3>2. ~ready'[r]
        BY <1>q, <2>1, <2>3
      <3>3. NoneOf(queue, r) => AtMostOne(queue', r)
        BY <1>q, <2>1, <2>2, CountAfterAppend
      <3>4. AtMostOne(queue, r) => AtMostTwo(queue', r)
        BY <1>q, <2>1, <2>2, CountAfterAppend
      <3> QED
        BY <2>1, <3>1, <3>2, <3>3, <3>4
    <2>4. CASE turn # r
      <3>1. ready'[r] = ready[r]
        BY <1>q, <2>1, <2>4
      <3>2. /\ NoneOf(queue, r) => NoneOf(queue', r)
            /\ AtMostOne(queue, r) => AtMostOne(queue', r)
            /\ AtMostTwo(queue, r) => AtMostTwo(queue', r)
        BY <1>q, <2>1, <2>2, <2>4, CountAfterAppend
      <3> QED
        BY <2>1, <3>1, <3>2
    <2> QED
      BY <2>3, <2>4
  <1> QED
    BY <1>1, <1>2, <1>3, <1>4, <1>5, <1>6, <1>7 DEF Next, vars, planVars, ChangeGoal,
       RefuseRequest, updatePlannerWorldModel, getPathPlannerResult, DropEvent, FirstIs,
       TakeTurn, SkipTurn

(* The invariant always holds.                                             *)
LEMMA PlannerInvariant == Spec => []PlannerInv
  <1> USE PlannerAssumption
  <1>1. Init => PlannerInv
    <2> SUFFICES ASSUME Init
                 PROVE  PlannerInv
      OBVIOUS
    <2>1. TypeOK
      BY TypeInit
    <2>2. queue = <<>> /\ DOMAIN queue = {} /\ \A r \in Robots : ~ready[r]
      BY DEF Init
    <2> QED
      BY <2>1, <2>2 DEF Init, PlannerInv, WayPointsFitGoal, PlansWhatIsDue, Load,
         NoneOf, AtMostOne, AtMostTwo
  <1>2. PlannerInv /\ [Next]_vars => PlannerInv'
    BY TypeStep, WayPointsStep, PlansStep, LoadStep DEF PlannerInv
  <1> QED
    BY <1>1, <1>2, PTL DEF Spec

(* Every variable keeps its type: the requests of a round, the answers of  *)
(* the thread and the numbers of changed goals stay in their ranges.       *)
THEOREM PlannerTypeCorrect == Spec => []TypeOK
  <1>1. PlannerInv => TypeOK
    BY DEF PlannerInv
  <1> QED
    BY <1>1, PlannerInvariant, PTL

(* While a plan is due, the way points kept lead to the goal of the last   *)
(* request, although resetPlanner compares them with the one before it     *)
(* (planner.cpp:594).                                                      *)
THEOREM KeptWayPointsFit == Spec => []WayPointsFitGoal
  <1>1. PlannerInv => WayPointsFitGoal
    BY DEF PlannerInv
  <1> QED
    BY <1>1, PlannerInvariant, PTL

(* At most two results of a robot wait in the main thread, whatever is     *)
(* dropped, refused or answered at once and however the thread's plans     *)
(* fall between the slots.                                                 *)
THEOREM ResultsStayFew == Spec => []ResultsDoNotPileUp
  <1>1. PlannerInv => ResultsDoNotPileUp
    <2> SUFFICES ASSUME PlannerInv, NEW r \in Robots
                 PROVE  Cardinality(Waiting(r)) <= 2
      BY DEF ResultsDoNotPileUp
    <2>1. queue \in Seq(Events) /\ AtMostTwo(queue, r)
      BY DEF PlannerInv, TypeOK, Load, AtMostOne, AtMostTwo
    <2>2. IsFiniteSet(DOMAIN queue) /\ Waiting(r) \subseteq DOMAIN queue
      BY <2>1, FS_Interval DEF Waiting
    <2>3. IsFiniteSet(Waiting(r))
      BY <2>2, FS_Subset
    <2>4. \A i \in Waiting(r) : i \in DOMAIN queue /\ Of(queue, r, i)
      BY DEF Waiting, Of
    <2>5. \A i, j, k \in Waiting(r) : i = j \/ j = k \/ i = k
      BY <2>1, <2>4 DEF AtMostTwo
    <2> QED
      BY <2>3, <2>5, NoThreeMeansTwo
  <1> QED
    BY <1>1, PlannerInvariant, PTL
=============================================================================
