---------------------------- MODULE Roles_proofs ----------------------------
(***************************************************************************)
(* The safety properties of Roles, for any robots, any numbers asked for   *)
(* as goalie, any suspects, places of the ball and formation.  The types   *)
(* are their only invariant: who is told what follows from one cycle, with *)
(* whatever the coach has kept from those before it.                       *)
(***************************************************************************)
EXTENDS Roles, FiniteSetTheorems, TLAPS

-----------------------------------------------------------------------------
(* Numbers.                                                                *)

(* The greatest of two and of three numbers. *)
LEMMA MaxOfTwo ==
    ASSUME NEW x \in Int, NEW y \in Int
    PROVE  Max({x, y}) = IF x >= y THEN x ELSE y
  <1> DEFINE m == IF x >= y THEN x ELSE y
  <1>1. m \in {x, y} /\ \A z \in {x, y} : m >= z
    OBVIOUS
  <1>2. \A w \in {x, y} : (\A z \in {x, y} : w >= z) => w = m
    OBVIOUS
  <1> QED
    BY <1>1, <1>2 DEF Max

(* The greatest of three numbers bounds each.                              *)
LEMMA MaxOfThree ==
    ASSUME NEW x \in Int, NEW y \in Int, NEW z \in Int
    PROVE  /\ Max({x, y, z}) \in Int
           /\ Max({x, y, z}) >= x /\ Max({x, y, z}) >= y /\ Max({x, y, z}) >= z
  <1> DEFINE S == {x, y, z}
             m == IF x >= y THEN (IF x >= z THEN x ELSE z) ELSE (IF y >= z THEN y ELSE z)
  <1>1. m \in S /\ \A w \in S : m >= w
    OBVIOUS
  <1>2. Max(S) \in S /\ \A w \in S : Max(S) >= w
    BY <1>1 DEF Max
  <1> QED
    BY <1>2

(* How many robots there are, with and without one. *)
LEMMA Counts ==
    ASSUME RolesAssumption, NEW rs \in SUBSET Robots
    PROVE  /\ IsFiniteSet(rs) /\ Cardinality(rs) \in Nat
           /\ Cardinality(rs) <= Cardinality(Robots) /\ Cardinality(Robots) \in Nat
           /\ \A r : Cardinality(rs \ {r}) \in {Cardinality(rs), Cardinality(rs) - 1}
                     /\ Cardinality(rs \ {r}) \in Nat
  <1>1. IsFiniteSet(Robots)
    BY DEF RolesAssumption
  <1>2. IsFiniteSet(rs) /\ Cardinality(rs) <= Cardinality(Robots)
    BY <1>1, FS_Subset
  <1>3. Cardinality(rs) \in Nat /\ Cardinality(Robots) \in Nat
    BY <1>1, <1>2, FS_CardinalityType
  <1>4. ASSUME NEW r
        PROVE  /\ Cardinality(rs \ {r}) \in {Cardinality(rs), Cardinality(rs) - 1}
               /\ Cardinality(rs \ {r}) \in Nat
    <2>1. Cardinality(rs \ {r}) = IF r \in rs THEN Cardinality(rs) - 1 ELSE Cardinality(rs)
      BY <1>2, FS_RemoveElement
    <2>2. IsFiniteSet(rs \ {r})
      BY <1>2, FS_RemoveElement
    <2>3. Cardinality(rs \ {r}) \in Nat
      BY <2>2, FS_CardinalityType
    <2> QED
      BY <2>1, <2>3
  <1> QED
    BY <1>2, <1>3, <1>4

(* The bound on the number of defenders. *)
LEMMA MaxWithTwo ==
    ASSUME NEW f \in Int, NEW c \in Int, NEW m, m = Max({2, f, c})
    PROVE  m \in Int /\ m >= 2 /\ m >= f /\ m >= c
  <1>1. 2 \in Int
    OBVIOUS
  <1> QED
    BY <1>1, MaxOfThree, Zenon

(* Most is a number, not below two, the formation's defenders or the       *)
(* robots.                                                                 *)
LEMMA MostBounds ==
    ASSUME RolesAssumption
    PROVE  /\ Most \in Nat /\ Most >= 2 /\ Most >= Formation_Defense
           /\ Most >= Cardinality(Robots)
  <1>1. Cardinality(Robots) \in Nat
    BY Counts
  <1>2. Formation_Defense \in Int
    BY DEF RolesAssumption
  <1>3. Most = Max({2, Formation_Defense, Cardinality(Robots)})
    BY DEF Most
  <1>4. /\ Most \in Int /\ Most >= 2 /\ Most >= Formation_Defense
        /\ Most >= Cardinality(Robots)
    <2>1. Cardinality(Robots) \in Int
      BY <1>1
    <2> QED
      BY <1>2, <1>3, <2>1, MaxWithTwo, Zenon
  <1> QED
    BY <1>4

(* A robot's number is none of the special ones. *)
LEMMA RobotsAreSomebody ==
    ASSUME RolesAssumption
    PROVE  None \notin Robots /\ \A r \in Robots : r \in 0..11
  BY DEF RolesAssumption, None

-----------------------------------------------------------------------------
(* Who is chosen.                                                          *)

(* A list that counts nobody outside e. *)
LEMMA InOnly ==
    ASSUME NEW list, NEW e, \A r \in Robots \ e : list[r] = 0
    PROVE  In(list) \subseteq e
  BY DEF In

(* Only those that are fit defend, and none more often than there are      *)
(* targets.                                                                *)
LEMMA DefencesAreOfTheFit ==
    ASSUME RolesAssumption, NEW rs \in SUBSET Robots, NEW n \in -1..Most,
           NEW d \in Defences(rs, n)
    PROVE  d \in [Robots -> 0..Most] /\ In(d) \subseteq rs
  <1>1. Most \in Nat /\ Most >= 2
    BY MostBounds
  <1>2. Cardinality(rs) \in Nat
    BY Counts
  <1>3. CASE d = Nobody
    <2>1. d \in [Robots -> 0..Most] /\ \A r \in Robots : d[r] = 0
      BY <1>1, <1>3 DEF Nobody
    <2>2. In(d) \subseteq rs
      BY <2>1, InOnly
    <2> QED
      BY <2>1, <2>2
  <1>4. ASSUME NEW e \in SUBSET rs, d = Once(e)
        PROVE  d \in [Robots -> 0..Most] /\ In(d) \subseteq rs
    <2>1. d \in [Robots -> 0..Most] /\ \A r \in Robots \ e : d[r] = 0
      BY <1>1, <1>4 DEF Once
    <2>2. In(d) \subseteq e
      BY <2>1, InOnly
    <2> QED
      BY <1>4, <2>1, <2>2
  <1>5. ASSUME NEW r \in rs, n > Cardinality(rs),
               d = [Once(rs) EXCEPT ![r] = 1 + n - Cardinality(rs)]
        PROVE  d \in [Robots -> 0..Most] /\ In(d) \subseteq rs
    <2> DEFINE k == 1 + n - Cardinality(rs)
    <2>1. Cardinality(rs) # 0
      BY Counts, FS_EmptySet
    <2>2. k \in 0..Most
      BY <1>1, <1>2, <1>5, <2>1
    <2> HIDE DEF k
    <2>3. d = [Once(rs) EXCEPT ![r] = k]
      BY <1>5 DEF k
    <2>4. Once(rs) \in [Robots -> 0..Most]
      BY <1>1 DEF Once
    <2>5. d \in [Robots -> 0..Most]
      BY <2>2, <2>3, <2>4
    <2>6. \A s \in Robots \ rs : d[s] = 0
      BY <2>3 DEF Once
    <2>7. In(d) \subseteq rs
      BY <2>6, InOnly
    <2> QED
      BY <2>5, <2>7
  <1>6. \/ d = Nobody
        \/ \E e \in SUBSET rs : d = Once(e)
        \/ n > Cardinality(rs)
           /\ \E r \in rs : d = [Once(rs) EXCEPT ![r] = 1 + n - Cardinality(rs)]
    BY <1>2 DEF Defences, kSubset
  <1> QED
    BY <1>3, <1>4, <1>5, <1>6

(* The number of defenders is within its bounds, whatever was decided in   *)
(* the last cycle.                                                         *)
LEMMA CountsOfDefenders ==
    ASSUME RolesAssumption, active \subseteq Robots, preferedDefenseCounts \in -1..Most,
           NEW flag, NEW zone, NEW n \in decidePreferedDefenseAgentsCount(flag, zone)
    PROVE  n \in -1..Most
  <1> DEFINE all == Cardinality(active)
             field == Cardinality(active \ {goalieAgent})
  <1>1. Most \in Nat /\ Most >= 2 /\ Most >= Formation_Defense /\ Most >= Cardinality(Robots)
    BY MostBounds
  <1>2. /\ all \in Nat /\ field \in Nat /\ field \in {all, all - 1}
        /\ all <= Cardinality(Robots) /\ Cardinality(Robots) \in Nat
    BY Counts
  <1>3. PICK m \in Nat, ourKick \in BOOLEAN :
            m <= all /\ n \in DefenceCounts(field, m, flag, ourKick, zone)
    <2> DEFINE missing == IF all > FullTeam THEN 0..all ELSE {0}
    <2>1. \A x \in ByOurKick : x \in BOOLEAN
      BY DEF ByOurKick
    <2>2. \A x \in missing : x \in Nat /\ x <= all
      BY <1>2
    <2>3. n \in UNION {DefenceCounts(field, m, flag, ourKick, zone) :
                           m \in missing, ourKick \in ByOurKick}
      BY DEF decidePreferedDefenseAgentsCount
    <2> HIDE DEF missing, field
    <2>4. PICK m \in missing, ourKick \in ByOurKick :
              n \in DefenceCounts(field, m, flag, ourKick, zone)
      BY <2>3
    <2> QED
      BY <2>1, <2>2, <2>4
  <1> HIDE DEF all, field
  <1>4. AllButOne(field, m) \in 0..Most
    <2>1. AllButOne(field, m) = IF 0 >= field - m - 1 THEN 0 ELSE field - m - 1
      BY <1>2, <1>3, MaxOfTwo DEF AllButOne
    <2> QED
      BY <1>1, <1>2, <1>3, <2>1
  <1>5. field - m \in -1..Most /\ field - 1 \in -1..Most /\ Formation_Defense \in -1..Most
    BY <1>1, <1>2, <1>3 DEF RolesAssumption
  <1>6. 0 \in -1..Most /\ 1 \in -1..Most /\ 2 \in -1..Most
    BY <1>1
  <1>7. \A x \in 0..Most : x \in -1..Most
    BY <1>1
  <1>8. \A x \in DefenceCounts(field, m, flag, ourKick, zone) :
            x \in {0, 1, 2, field - 1, field - m, Formation_Defense,
                   preferedDefenseCounts, AllButOne(field, m)}
    BY DEF DefenceCounts
  <1> QED
    BY <1>3, <1>4, <1>5, <1>6, <1>7, <1>8

-----------------------------------------------------------------------------
(* What a cycle decides, whichever of the two orders it takes: the first   *)
(* two conjuncts are what it leaves alone, and the types.                  *)
OfACycle(p, apart, save) ==
    /\ ~done /\ done' = TRUE /\ UNCHANGED world
    /\ lastState' \in BOOLEAN /\ trasientTimeOut' \in 0..2 /\ transientFlag' \in BOOLEAN
    /\ preferedDefenseCounts' \in -1..Most
    /\ lastDefenseAgents' \in [Robots -> 0..Most]
    /\ clearing' \in BOOLEAN /\ intentionOver' \in BOOLEAN
    /\ goalieAgent' = IF preferedGoalie \in active THEN preferedGoalie ELSE None
    /\ clearing => lastDefenseAgents' = lastDefenseAgents
    /\ ~clearing => In(lastDefenseAgents') \subseteq active \ {goalieAgent'}
    /\ \/ p = None
       \/ p = lastPlayMake
       \/ /\ p \in active \ {preferedGoalie}
          /\ clearing \/ p \notin Defenders(lastDefenseAgents')
    /\ apart \subseteq Others(p)
    /\ decideAttack(p, apart, save)

(* Those that defend in a cycle are in the list it makes. *)
LEMMA DefendersAreListed == ASSUME NEW list PROVE Defenders(list) \subseteq In(list)
  BY DEF Defenders

(* What the plan for the defence decides, for a play maker q chosen before *)
(* it, or for none.                                                        *)
LEMMA OfTheDefence ==
    ASSUME RolesAssumption, RolesTypeOK, preferedDefenseCounts' \in -1..Most,
           NEW q, NEW faulty, decideDefense(q, faulty)
    PROVE  /\ lastDefenseAgents' \in [Robots -> 0..Most] /\ clearing' \in BOOLEAN
           /\ goalieAgent' = IF preferedGoalie \in active THEN preferedGoalie ELSE None
           /\ clearing => lastDefenseAgents' = lastDefenseAgents
           /\ ~clearing => /\ In(lastDefenseAgents') \subseteq active \ {goalieAgent'}
                           /\ q \notin In(lastDefenseAgents')
  <1>1. goalieAgent' = IF preferedGoalie \in active THEN preferedGoalie ELSE None
    BY DEF decideDefense
  <1>2. clearing' \in BOOLEAN
    <2>1. clearing' \in {FALSE, Defenders(lastDefenseAgents') # {}}
      BY DEF decideDefense
    <2> QED
      BY <2>1
  <1>3. assignDefenseAgents(q, faulty)
    BY DEF decideDefense
  <1>4. CASE clearing
    BY <1>1, <1>2, <1>3, <1>4 DEF assignDefenseAgents, RolesTypeOK
  <1>5. CASE ~clearing
    <2>1. lastDefenseAgents' \in Defences(FitFor(q, faulty), preferedDefenseCounts')
      BY <1>3, <1>5 DEF assignDefenseAgents
    <2>2. FitFor(q, faulty) \in SUBSET Robots
          /\ FitFor(q, faulty) \subseteq active \ {goalieAgent'} /\ q \notin FitFor(q, faulty)
      BY DEF FitFor, RolesTypeOK
    <2>3. lastDefenseAgents' \in [Robots -> 0..Most]
          /\ In(lastDefenseAgents') \subseteq FitFor(q, faulty)
      BY <2>1, <2>2, DefencesAreOfTheFit
    <2> QED
      BY <1>1, <1>2, <1>5, <2>2, <2>3
  <1> QED
    BY <1>4, <1>5

(* Whom choosePlaymake takes. *)
LEMMA OfThePlayMaker ==
    ASSUME RolesTypeOK, NEW players, NEW enough, NEW p, choosePlaymake(players, enough, p)
    PROVE  (p = None \/ p = lastPlayMake \/ p \in players) /\ intentionOver' \in BOOLEAN
  <1>1. intentionOver \in BOOLEAN
    BY DEF RolesTypeOK
  <1> QED
    BY <1>1 DEF choosePlaymake, OneOf

(* A cycle ends with the tasks of some play maker, saved goalie or not.    *)
LEMMA CycleDecides ==
    ASSUME RolesAssumption, RolesTypeOK, Cycle
    PROVE  \E p \in Robots \cup {None}, apart \in SUBSET Robots, save \in saveGoalie :
               OfACycle(p, apart, save)
  <1>1. PICK zone \in Zones, blockPass \in BOOLEAN :
            ~done /\ \E decided \in Decided(zone, blockPass) : execute(decided)
    BY DEF Cycle
  <1>2. PICK decided \in Decided(zone, blockPass) : execute(decided)
    BY <1>1
  <1>3. PICK n \in decidePreferedDefenseAgentsCount(virtualTheirPlayOffState(zone), zone) :
            /\ decided.transient = virtualTheirPlayOffState(zone)
            /\ decided.count = n
    BY DEF Decided
  <1>4. n \in -1..Most
    BY CountsOfDefenders DEF RolesTypeOK
  <1>5. PICK p \in Robots \cup {None}, faulty \in SUBSET Suspects :
            /\ DefenceFirst(p, faulty) \/ PlayMakeFirst(p, faulty)
            /\ \E apart \in Aparts(p, faulty), save \in saveGoalie : decideAttack(p, apart, save)
    BY <1>2 DEF execute
  <1>6. PICK apart \in Aparts(p, faulty), save \in saveGoalie : decideAttack(p, apart, save)
    BY <1>5
  <1>a. apart \subseteq Others(p) /\ apart \in SUBSET Robots
    <2>1. Others(p) \subseteq Robots
      BY DEF Others, Players, RolesTypeOK
    <2>2. gameState \in Stops => Players = Others(p)
      BY DEF Others, Stops
    <2> QED
      BY <1>6, <2>1, <2>2 DEF Aparts
  <1>7. done' = TRUE /\ UNCHANGED world
    BY <1>2 DEF execute
  <1>8. preferedDefenseCounts' \in -1..Most
    BY <1>2, <1>3, <1>4 DEF execute
  <1>9. transientFlag' \in BOOLEAN
    <2>1. transientFlag' = virtualTheirPlayOffState(zone)
      BY <1>2, <1>3 DEF execute
    <2> QED
      BY <2>1 DEF virtualTheirPlayOffState
  <1>10. lastState' \in BOOLEAN
    <2>1. lastState' = (gameState \in TheirFreeKicks)
      BY <1>2 DEF execute
    <2> QED
      BY <2>1
  <1>11. trasientTimeOut' \in 0..2
    <2>1. trasientTimeOut' = Elapsed /\ trasientTimeOut \in 0..2
      BY <1>2 DEF execute, RolesTypeOK
    <2> QED
      BY <2>1 DEF Elapsed
  <1>12. CASE PlayMakeFirst(p, faulty)
    <2>1. choosePlaymake(FieldPlayers, Enough, p) /\ decideDefense(p, faulty)
      BY <1>12 DEF PlayMakeFirst
    <2>2. (p = None \/ p = lastPlayMake \/ p \in FieldPlayers) /\ intentionOver' \in BOOLEAN
      BY <2>1, OfThePlayMaker
    <2>3. /\ lastDefenseAgents' \in [Robots -> 0..Most] /\ clearing' \in BOOLEAN
          /\ goalieAgent' = IF preferedGoalie \in active THEN preferedGoalie ELSE None
          /\ clearing => lastDefenseAgents' = lastDefenseAgents
          /\ ~clearing => /\ In(lastDefenseAgents') \subseteq active \ {goalieAgent'}
                          /\ p \notin In(lastDefenseAgents')
      BY <1>8, <2>1, OfTheDefence
    <2>4. clearing \/ p \notin Defenders(lastDefenseAgents')
      BY <2>3, DefendersAreListed
    <2> QED
      BY <1>1, <1>6, <1>7, <1>8, <1>9, <1>10, <1>11, <1>a, <2>2, <2>3, <2>4
      DEF OfACycle, FieldPlayers
  <1>13. CASE DefenceFirst(p, faulty)
    <2> DEFINE players == FieldPlayers \ Defenders(lastDefenseAgents')
    <2>1. choosePlaymake(players, TRUE, p) /\ decideDefense(None, faulty)
      BY <1>13 DEF DefenceFirst
    <2>2. (p = None \/ p = lastPlayMake \/ p \in players) /\ intentionOver' \in BOOLEAN
      BY <2>1, OfThePlayMaker
    <2>3. /\ lastDefenseAgents' \in [Robots -> 0..Most] /\ clearing' \in BOOLEAN
          /\ goalieAgent' = IF preferedGoalie \in active THEN preferedGoalie ELSE None
          /\ clearing => lastDefenseAgents' = lastDefenseAgents
          /\ ~clearing => In(lastDefenseAgents') \subseteq active \ {goalieAgent'}
      BY <1>8, <2>1, OfTheDefence
    <2> QED
      BY <1>1, <1>6, <1>7, <1>8, <1>9, <1>10, <1>11, <1>a, <2>2, <2>3
      DEF OfACycle, FieldPlayers
  <1> QED
    BY <1>5, <1>6, <1>12, <1>13

-----------------------------------------------------------------------------
(* Types.                                                                  *)

(* The types hold before the first cycle.                                  *)
LEMMA RolesTypeInit == RolesAssumption /\ RolesInit => RolesTypeOK
  <1> SUFFICES ASSUME RolesAssumption, RolesInit
               PROVE  RolesTypeOK
    OBVIOUS
  <1>1. Most \in Nat /\ Most >= 2
    BY MostBounds
  <1>2. preferedDefenseCounts \in -1..Most
    BY <1>1 DEF RolesInit
  <1>3. lastDefenseAgents \in [Robots -> 0..Most]
    BY <1>1 DEF RolesInit, Nobody
  <1>4. {clearing, intentionOver, done} \subseteq BOOLEAN
    BY DEF RolesInit
  <1>5. tasks \in [Robots -> SUBSET Tasks]
    BY DEF RolesInit, NoTasks
  <1>6. transientFlag \in BOOLEAN
    BY DEF RolesInit
  <1>7. trasientTimeOut \in 0..2
    BY DEF RolesInit
  <1> QED
    BY <1>2, <1>3, <1>4, <1>5, <1>6, <1>7 DEF RolesInit, RolesTypeOK

(* Every step keeps them.                                                  *)
LEMMA RolesTypeStep ==
    ASSUME RolesAssumption, RolesTypeOK, [RolesNext]_rolesVars
    PROVE  RolesTypeOK'
  <1> USE DEF world, transient, defence, keeping, others
  <1>1. CASE UNCHANGED rolesVars
    BY <1>1 DEF rolesVars, RolesTypeOK
  <1>2. CASE Cycle
    <2>1. PICK p \in Robots \cup {None}, apart \in SUBSET Robots, save \in saveGoalie : OfACycle(p, apart, save)
      BY <1>2, CycleDecides
    <2>2. /\ lastPlayMake' = IF gameState \in Stops THEN None ELSE p
          /\ playmakeID' = NextPlayMaker(p)
          /\ tasks' = [r \in Robots |-> TaskOf(r, p, apart, save)]
      BY <2>1 DEF OfACycle, decideAttack
    <2>3. lastPlayMake' \in Robots \cup {None} /\ playmakeID' \in Robots \cup {None}
      BY <2>1, <2>2 DEF NextPlayMaker, RolesTypeOK
    <2>4. \A r \in Robots : TaskOf(r, p, apart, save) \in SUBSET Tasks
      BY DEF TaskOf, Tasks
    <2>5. tasks' \in [Robots -> SUBSET Tasks]
      BY <2>2, <2>4
    <2>6. goalieAgent' \in Robots \cup {None}
      BY <2>1 DEF OfACycle, RolesTypeOK
    <2>7. active' \subseteq Robots /\ goalieID' \in GoalieIDs /\ gameState' \in GameStates
      BY <2>1 DEF OfACycle, RolesTypeOK
    <2>8. lastState' \in BOOLEAN /\ transientFlag' \in BOOLEAN /\ trasientTimeOut' \in 0..2
      BY <2>1 DEF OfACycle
    <2>9. clearing' \in BOOLEAN /\ intentionOver' \in BOOLEAN /\ done' \in BOOLEAN
      BY <2>1 DEF OfACycle
    <2>10. preferedDefenseCounts' \in -1..Most /\ lastDefenseAgents' \in [Robots -> 0..Most]
      BY <2>1 DEF OfACycle
    <2> QED
      BY <2>3, <2>5, <2>6, <2>7, <2>8, <2>9, <2>10 DEF RolesTypeOK
  <1>3. CASE waitHere
    <2>1. Most \in Nat
      BY MostBounds
    <2>2. lastDefenseAgents' \in [Robots -> 0..Most]
      BY <1>3, <2>1 DEF waitHere, Nobody, RolesTypeOK
    <2>3. tasks' \in [Robots -> SUBSET Tasks]
      BY <1>3 DEF waitHere, NoTasks
    <2>4. {clearing', intentionOver', done'} \subseteq BOOLEAN
      BY <1>3 DEF waitHere, RolesTypeOK
    <2> QED
      BY <1>3, <2>2, <2>3, <2>4 DEF waitHere, RolesTypeOK
  <1>4. CASE update
    <2>1. active' \subseteq Robots
      BY <1>4 DEF update, RolesTypeOK
    <2> QED
      BY <1>4, <2>1 DEF update, RolesTypeOK
  <1>5. CASE updateGameState
    BY <1>5 DEF updateGameState, RolesTypeOK
  <1>6. CASE updateGoaliID
    BY <1>6 DEF updateGoaliID, RolesTypeOK
  <1>7. CASE IntentionElapses
    <2>1. {clearing', intentionOver', done'} \subseteq BOOLEAN
      BY <1>7 DEF IntentionElapses, RolesTypeOK
    <2> QED
      BY <1>7, <2>1 DEF IntentionElapses, RolesTypeOK
  <1>8. CASE TransientElapses
    <2>1. trasientTimeOut' \in 0..2
      BY <1>8 DEF TransientElapses, RolesTypeOK
    <2> QED
      BY <1>8, <2>1 DEF TransientElapses, RolesTypeOK
  <1> QED
    BY <1>1, <1>2, <1>3, <1>4, <1>5, <1>6, <1>7, <1>8 DEF RolesNext

(* What is decided for one cycle stays in its range, however many robots   *)
(* come and go between it and the next; nobody is in the list of defenders *)
(* more often than there are targets.                                      *)
THEOREM RolesTypeCorrect == RolesSpec => []RolesTypeOK
  <1> USE RolesAssumption
  <1>1. RolesInit => RolesTypeOK
    BY RolesTypeInit
  <1>2. RolesTypeOK /\ [RolesNext]_rolesVars => RolesTypeOK'
    BY RolesTypeStep
  <1> QED
    BY <1>1, <1>2, PTL DEF RolesSpec

-----------------------------------------------------------------------------
(* Only a cycle tells anybody what to do, and the world stands still until *)
(* the next begins.                                                        *)
LEMMA OnlyCyclesTell ==
    ASSUME [RolesNext]_rolesVars
    PROVE  Cycle \/ ~done' \/ UNCHANGED <<done, active, goalieID, gameState, tasks>>
  BY DEF RolesNext, rolesVars, world, others, waitHere, update, updateGameState,
         updateGoaliID, IntentionElapses, TransientElapses

(* Every robot that is there is told what to do in every cycle: the goalie,*)
(* the defenders, the play maker, those that mark and the rest are all     *)
(* there are.  Only a play that is given too many forgets them, all of     *)
(* them at once (masterplay.cpp:301).                                      *)
THEOREM EverybodyHasATask == RolesSpec => []NobodyIsForgotten
  <1> USE RolesAssumption
  <1>1. RolesInit => NobodyIsForgotten
    BY DEF RolesInit, NobodyIsForgotten
  <1>2. RolesTypeOK /\ NobodyIsForgotten /\ [RolesNext]_rolesVars => NobodyIsForgotten'
    <2> SUFFICES ASSUME RolesTypeOK, NobodyIsForgotten, [RolesNext]_rolesVars
                 PROVE  NobodyIsForgotten'
      OBVIOUS
    <2>1. CASE Cycle
      <3>1. PICK p \in Robots \cup {None}, apart \in SUBSET Robots, save \in saveGoalie :
                OfACycle(p, apart, save)
        BY <2>1, CycleDecides
      <3>2. /\ active' = active /\ tasks' = [r \in Robots |-> TaskOf(r, p, apart, save)]
            /\ goalieAgent' = IF preferedGoalie \in active THEN preferedGoalie ELSE None
        BY <3>1 DEF OfACycle, decideAttack, world
      <3>3. active \subseteq Robots /\ None \notin active
        BY RobotsAreSomebody DEF RolesTypeOK
      <3> DEFINE forgotten == {r \in active : TaskOf(r, p, apart, save) = {}}
      <3>4. forgotten = {} \/ Cardinality(forgotten) > PlaySize
        <4>1. CASE gameState = "Halt"
          BY <4>1 DEF TaskOf, WaitingIn
        <4>2. CASE gameState # "Halt" /\ Executes(p, apart)
          <5> SUFFICES ASSUME NEW r \in active
                       PROVE  TaskOf(r, p, apart, save) # {}
            OBVIOUS
          <5> DEFINE m == goalieAgent'
                     list == lastDefenseAgents'
          <5>1. r \notin WaitingIn
            BY <4>2 DEF WaitingIn
          <5>2. PlayingIn(p, apart) = Others(p)
            BY <4>2 DEF PlayingIn
          <5>3. \/ r = m
                \/ r \in Defenders(list)
                \/ r \in PlayingIn(p, apart)
                \/ r \in PlayMakersOf(p, apart)
            <6>1. r = m \/ r \in Defenders(list) \/ r \in Players
              BY DEF Players
            <6>2. r \in Players => r \in Others(p) \/ (gameState = "Start" /\ r = p)
              BY DEF Others
            <6>3. gameState = "Start" /\ r = p => r \in PlayMakersOf(p, apart)
              BY <3>3, <4>2 DEF PlayMakersOf, NextPlayMaker
            <6> QED
              BY <5>2, <6>1, <6>2, <6>3
          <5> QED
            BY <5>1, <5>3 DEF TaskOf, Tasks
        <4>3. CASE gameState # "Halt" /\ ~Executes(p, apart)
          <5> DEFINE left == Others(p) \ apart
          <5>1. Others(p) \subseteq Players /\ Players \subseteq active
            BY DEF Others, Players
          <5>2. Cardinality(left) > PlaySize
            <6>1. left \subseteq Robots
              BY <3>3, <5>1
            <6>2. Cardinality(left) \in Nat
              BY <6>1, Counts
            <6>3. ~(Cardinality(left) <= PlaySize) /\ PlaySize \in Nat
              BY <4>3 DEF Executes, RolesAssumption
            <6> QED
              BY <6>2, <6>3
          <5>3. ASSUME NEW r \in left
                PROVE  r \in active /\ TaskOf(r, p, apart, save) = {}
            <6>1. r \in active /\ r # goalieAgent' /\ r \notin Defenders(lastDefenseAgents')
              BY <5>1 DEF Players
            <6>2. r \notin PlayingIn(p, apart) /\ r \notin PlayMakersOf(p, apart) /\ r \notin WaitingIn
              BY <4>3 DEF PlayingIn, PlayMakersOf, WaitingIn
            <6>3. r \notin save
              BY <3>1, <3>2, <3>3, <6>1 DEF saveGoalie
            <6> QED
              BY <6>1, <6>2, <6>3 DEF TaskOf
          <5>4. left \subseteq forgotten
            BY <5>3
          <5>5. Cardinality(left) <= Cardinality(forgotten)
            <6>1. IsFiniteSet(forgotten)
              <7>1. forgotten \in SUBSET Robots
                BY <3>3
              <7> QED
                BY <7>1, Counts
            <6> QED
              BY <5>4, <6>1, FS_Subset
          <5>6. Cardinality(left) \in Nat /\ Cardinality(forgotten) \in Nat /\ PlaySize \in Nat
            <6>1. left \in SUBSET Robots /\ forgotten \in SUBSET Robots
              BY <3>3, <5>1
            <6>2. PlaySize \in Nat
              BY DEF RolesAssumption
            <6> HIDE DEF left, forgotten
            <6> QED
              BY <6>1, <6>2, Counts
          <5> HIDE DEF left, forgotten
          <5> QED
            BY <5>2, <5>5, <5>6
        <4> QED
          BY <4>1, <4>2, <4>3
      <3>5. {r \in active' : tasks'[r] = {}} = forgotten
        BY <3>2, <3>3
      <3> HIDE DEF forgotten
      <3> QED
        BY <3>4, <3>5 DEF NobodyIsForgotten
    <2>2. CASE ~done'
      BY <2>2 DEF NobodyIsForgotten
    <2>3. CASE UNCHANGED <<done, active, goalieID, gameState, tasks>>
      BY <2>3 DEF NobodyIsForgotten
    <2> QED
      BY <2>1, <2>2, <2>3, OnlyCyclesTell
  <1> QED
    BY <1>1, <1>2, RolesTypeCorrect, PTL DEF RolesSpec

(* In a halt the robots that are there wait, and nobody else is moved but  *)
(* the goalie asked for, if vision has lost it.                            *)
THEOREM HaltHolds == RolesSpec => []HaltMovesLostGoalieOnly
  <1> USE RolesAssumption
  <1>1. RolesInit => HaltMovesLostGoalieOnly
    BY DEF RolesInit, HaltMovesLostGoalieOnly
  <1>2. RolesTypeOK /\ HaltMovesLostGoalieOnly /\ [RolesNext]_rolesVars
            => HaltMovesLostGoalieOnly'
    <2> SUFFICES ASSUME RolesTypeOK, HaltMovesLostGoalieOnly, [RolesNext]_rolesVars
                 PROVE  HaltMovesLostGoalieOnly'
      OBVIOUS
    <2>1. CASE Cycle
      <3>1. PICK p \in Robots \cup {None}, apart \in SUBSET Robots, save \in saveGoalie : OfACycle(p, apart, save)
        BY <2>1, CycleDecides
      <3>2. /\ active' = active /\ goalieID' = goalieID /\ gameState' = gameState
            /\ tasks' = [r \in Robots |-> TaskOf(r, p, apart, save)]
            /\ goalieAgent' = IF preferedGoalie \in active THEN preferedGoalie ELSE None
        BY <3>1 DEF OfACycle, decideAttack, world
      <3>3. active \subseteq Robots /\ None \notin active
        BY RobotsAreSomebody DEF RolesTypeOK
      <3>4. ASSUME gameState = "Halt"
            PROVE  \A r \in save : r = goalieID /\ r \notin active
        <4>1. preferedGoalie = goalieID
          BY <3>4 DEF preferedGoalie
        <4>2. ASSUME NEW r \in save
              PROVE  goalieAgent' = None /\ r = preferedGoalie
          BY <3>1, <4>2 DEF saveGoalie
        <4> QED
          BY <3>2, <3>3, <4>1, <4>2
      <3>5. ASSUME gameState = "Halt", NEW r \in active
            PROVE  tasks'[r] = {"wait"}
        <4>1. r \notin save
          BY <3>4, <3>5
        <4>2. tasks'[r] = {"wait"} \cup {t \in {"save"} : r \in save}
          BY <3>2, <3>3, <3>5 DEF TaskOf, WaitingIn
        <4> QED
          BY <4>1, <4>2
      <3>6. ASSUME gameState = "Halt", NEW r \in Robots, "save" \in tasks'[r]
            PROVE  r = goalieID /\ r \notin active
        <4>1. "save" \in TaskOf(r, p, apart, save)
          BY <3>2, <3>6
        <4>2. r \in save
          BY <4>1 DEF TaskOf
        <4> QED
          BY <3>4, <3>6, <4>2
      <3> QED
        BY <3>2, <3>5, <3>6 DEF HaltMovesLostGoalieOnly
    <2>2. CASE ~done'
      BY <2>2 DEF HaltMovesLostGoalieOnly
    <2>3. CASE UNCHANGED <<done, active, goalieID, gameState, tasks>>
      BY <2>3 DEF HaltMovesLostGoalieOnly
    <2> QED
      BY <2>1, <2>2, <2>3, OnlyCyclesTell
  <1> QED
    BY <1>1, <1>2, RolesTypeCorrect, PTL DEF RolesSpec

-----------------------------------------------------------------------------
(* Those with one element or none. *)
LEMMA AtMostOneElement ==
    ASSUME NEW S, NEW x, S \subseteq {x}
    PROVE  Cardinality(S) \in Nat /\ Cardinality(S) <= 1
  <1>1. CASE S = {}
    <2>1. Cardinality(S) = 0
      BY <1>1, FS_EmptySet
    <2> QED
      BY <2>1
  <1>2. CASE S = {x}
    <2>1. Cardinality(S) = 1
      BY <1>2, FS_Singleton
    <2> QED
      BY <2>1
  <1> QED
    BY <1>1, <1>2

(* What the coach keeps from cycle to cycle is all that goes wrong: a      *)
(* robot that is neither the play maker kept, by the coach or by the play, *)
(* nor a defender kept while one clears has one task if it is there and    *)
(* none if it is not, but for the goalie that saveGoalie moves.            *)
THEOREM OthersHaveOneTask == RolesSpec => OnlyKeptOnesClash
  <1> USE RolesAssumption
  <1> DEFINE Given(r) == tasks'[r] \ {"save"}
             OneTask == ~done /\ done' =>
                 \A r \in Robots \ KeptOnes :
                     Cardinality(Given(r)) <= IF r \in active THEN 1 ELSE 0
  <1>1. ASSUME RolesTypeOK, [RolesNext]_rolesVars
        PROVE  [OneTask]_rolesVars
    <2>1. CASE Cycle
      <3>1. PICK p \in Robots \cup {None}, apart \in SUBSET Robots, save \in saveGoalie : OfACycle(p, apart, save)
        BY <1>1, <2>1, CycleDecides
      <3> DEFINE m == goalieAgent'
                 list == lastDefenseAgents'
                 D == Defenders(list)
      <3>2. /\ m = IF preferedGoalie \in active THEN preferedGoalie ELSE None
            /\ tasks' = [r \in Robots |-> TaskOf(r, p, apart, save)]
        BY <3>1 DEF OfACycle, decideAttack
      <3>3. active \subseteq Robots /\ None \notin Robots
        BY <1>1, RobotsAreSomebody DEF RolesTypeOK
      <3> SUFFICES ASSUME NEW r \in Robots, r \notin KeptOnes
                   PROVE  Cardinality(Given(r)) <= IF r \in active THEN 1 ELSE 0
        OBVIOUS
      <3>4. r # lastPlayMake /\ r # playmakeID /\ (clearing => r \notin In(lastDefenseAgents))
        BY DEF KeptOnes
      <3>5. r = m => r \in active /\ r # p
        BY <3>1, <3>2, <3>3, <3>4 DEF OfACycle
      <3>6. r \in D => ~clearing /\ r \in active /\ r # m
        BY <3>1, <3>4, DefendersAreListed DEF OfACycle
      <3>7. r \in PlayMakersOf(p, apart) => r = p
        BY <3>4 DEF PlayMakersOf, NextPlayMaker
      <3>s. PlayingIn(p, apart) \subseteq Others(p)
        BY <3>1 DEF PlayingIn, OfACycle
      <3>8. r = p => r \in active /\ r # m /\ r \notin D
        BY <3>1, <3>3, <3>4, <3>5, <3>6 DEF OfACycle
      <3>9. r \in PlayingIn(p, apart) => r \in active /\ r # m /\ r \notin D
        BY <3>s DEF Others, Players
      <3>10. r \in PlayingIn(p, apart) /\ r \in PlayMakersOf(p, apart) => FALSE
        BY <3>7, <3>s DEF Others, PlayMakersOf
      <3>11. Given(r) = TaskOf(r, p, apart, save) \ {"save"}
        BY <3>2
      <3>12. CASE r \in WaitingIn
        <4>1. Given(r) \subseteq {"wait"} /\ r \in active
          BY <3>11, <3>12 DEF TaskOf, WaitingIn
        <4> QED
          BY <4>1, AtMostOneElement
      <3>13. CASE r \notin WaitingIn
        <4> DEFINE x == IF r = m THEN "goalie"
                        ELSE IF r \in D THEN "defence"
                        ELSE IF r \in PlayingIn(p, apart) THEN "play" ELSE "playMaker"
        <4>1. \A t \in Given(r) :
                  \/ t = "goalie" /\ r = m
                  \/ t = "defence" /\ r \in D
                  \/ t = "play" /\ r \in PlayingIn(p, apart)
                  \/ t = "playMaker" /\ r \in PlayMakersOf(p, apart)
          BY <3>11, <3>13 DEF TaskOf
        <4> HIDE DEF m, list, D, Given
        <4>2. Given(r) \subseteq {x}
          BY <3>5, <3>6, <3>7, <3>8, <3>9, <3>10, <4>1
        <4>3. r \notin active => Given(r) = {}
          BY <3>5, <3>6, <3>7, <3>8, <3>9, <4>1
        <4> HIDE DEF x
        <4>4. Cardinality(Given(r)) \in Nat /\ Cardinality(Given(r)) <= 1
          BY <4>2, AtMostOneElement
        <4>5. r \notin active => Cardinality(Given(r)) = 0
          BY <4>3, FS_EmptySet
        <4> QED
          BY <4>4, <4>5
      <3> QED
        BY <3>12, <3>13
    <2>2. CASE ~done'
      BY <2>2
    <2>3. CASE UNCHANGED <<done, active, goalieID, gameState, tasks>>
      <3>1. done' = done
        BY <2>3
      <3> QED
        BY <3>1, Zenon
    <2> QED
      BY <1>1, <2>1, <2>2, <2>3, OnlyCyclesTell
  <1>2. [][OneTask]_rolesVars => OnlyKeptOnesClash
    BY DEF OnlyKeptOnesClash
  <1> QED
    BY <1>1, <1>2, RolesTypeCorrect, PTL DEF RolesSpec
=============================================================================
