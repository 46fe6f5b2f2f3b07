------------------------------- MODULE Vision -------------------------------
(***************************************************************************)
(* Vision: the cameras send packets, CVisionThread::run keeps for each of  *)
(* them what it has seen of late (CVisionClient::parse), merges them       *)
(* (merge) and follows balls and robots over time (CHalfWorld).  The main  *)
(* loop copies the result in one step, and its thread runs the handlers of *)
(* the operator's window.                                                  *)
(*                                                                         *)
(* Places are further apart than both the 0.5 m within which sightings are *)
(* taken for one, and the metre within which one continues a track: two    *)
(* sightings agree if their places are equal.  One number stands for all   *)
(* numbers of robots.  A step that holds visionDataMutex is one action;    *)
(* the thread holds visionSocketMutex while pc = "connected".  What it     *)
(* does between unlocking that and its next packet is no step of its own.  *)
(***************************************************************************)
EXTENDS Integers, Sequences, FiniteSets

CONSTANTS
    Cameras,            \* numbers of the cameras
    BallPlaces, RobotPlaces,
    RobotAge, BallAge,  \* packets a sighting is kept for: 15 and 2
    MaxObject,          \* MAX_OBJECT: 5
    RobotBlindness, BallBlindness,  \* merges a lost one is believed in: 100 and 8
    Scenes              \* what may be on the field: one of these sets

ASSUME VisionAssumption ==
    /\ IsFiniteSet(Cameras) /\ Cameras = 0..(Cardinality(Cameras) - 1) /\ Cameras # {}
    /\ IsFiniteSet(BallPlaces) /\ IsFiniteSet(RobotPlaces)
    /\ {RobotAge, BallAge} \subseteq Nat
    /\ {MaxObject, RobotBlindness, BallBlindness} \subseteq Nat \ {0}
    /\ Scenes \subseteq SUBSET {"BLUE", "YELLOW", "ball"}

VARIABLES
    field,              \* where each may be reported from now on
    v, lastCamera, ourColor,    \* CVisionClient
    pc, packs,          \* CVisionThread::run
    reconnect,          \* visionconfig.reconnect
    address,            \* the one last asked for: not tried yet ("asked"), the
                        \* socket's ("joined"), or tried in vain ("refused")
    closeVision, visionClosed,
    robot, balls,       \* mergedHalfWorld
    main                \* CSoccer::run

client == <<v, lastCamera, ourColor>>
thread == <<pc, packs>>
config == <<reconnect, address>>
closing == <<closeVision, visionClosed>>
halfWorld == <<robot, balls>>
visionVars == <<field, client, thread, config, closing, halfWorld, main>>

Colors == {"BLUE", "YELLOW"}
Teams == {"our", "opp"}
Kinds == Teams \cup {"ball"}
Places == BallPlaces \cup RobotPlaces
Things == Colors \cup {"ball"}

Age(kind) == IF kind = "ball" THEN BallAge ELSE RobotAge
None == "nobody"
NoRobot == [who |-> None, inSight |-> 0, vanished |-> 0]    \* a new CRobot

VisionInit ==
    /\ \E scene \in Scenes : field = [w \in Things |->
           CASE w \notin scene -> {}
             [] w \in scene /\ w = "ball" -> BallPlaces
             [] w \in scene /\ w # "ball" -> RobotPlaces]
    /\ v = [c \in Cameras |-> [k \in Kinds |-> <<>>]]
    /\ lastCamera = -1 /\ ourColor = "BLUE"
    /\ pc = "start" /\ packs = 0
    /\ reconnect = FALSE /\ address = "asked"
    /\ closeVision = FALSE /\ visionClosed = FALSE
    /\ robot = [t \in Teams |-> <<>>] /\ balls = <<>>
    /\ main = "run"

-----------------------------------------------------------------------------
(* The field and the network. *)

(***************************************************************************)
(* A camera takes other things for a ball or a robot, and misses what is   *)
(* there: anything may be reported, until this or that does not occur any  *)
(* more.                                                                   *)
(***************************************************************************)
Settle ==
    \E w \in Things : \E where \in SUBSET field[w] \ {field[w]} :
        /\ pc = "check"     \* where packets are received
        /\ field' = [field EXCEPT ![w] = where]
        /\ UNCHANGED <<client, thread, config, closing, halfWorld, main>>

(* a packet tells some of it, in any order; parse looks at MAX_OBJECT balls *)
Orders(S) == {s \in UNION {[1..n -> S] : n \in 0..Cardinality(S)} :
                \A i, j \in DOMAIN s : s[i] = s[j] => i = j}

Reports == {r \in [Things -> UNION {Orders(field[w]) : w \in Things}] :
                \A w \in Things : r[w] \in Orders(field[w]) /\ (w = "ball" => Len(r[w]) <= MaxObject)}

-----------------------------------------------------------------------------
(* CVisionClient::parse *)

(* the elements of a list at the places in kept, in their order *)
Kept(list, kept) ==
    [n \in 1..Cardinality(kept) |->
        list[CHOOSE i \in kept : Cardinality({j \in kept : j <= i}) = n]]

(***************************************************************************)
(* What is left of a list when a loop over its indices takes away those in *)
(* bad: removeAt moves the next element to an index that is done already,  *)
(* so that an element after a removed one is passed over.                  *)
(***************************************************************************)
LeftOf(list, bad) ==
    LET removed[i \in 0..Len(list)] == i \in bad /\ ~removed[i - 1]
    IN  Kept(list, {i \in DOMAIN list : ~removed[i]})

(* a packet of any camera makes every sighting a frame older *)
Older(list, kind) ==
    [i \in DOMAIN list |->
        [list[i] EXCEPT !.age = IF @ > Age(kind) THEN @ ELSE @ + 1]]

(* plausible bug: an old sighting is kept *)
KeptForEver(list, kind) == list

Recent(list, kind) == LeftOf(list, {i \in DOMAIN list : list[i].age > Age(kind)})

Sight(list, kind, w, place) ==
    IF kind # "ball" /\ Len(list) >= MaxObject THEN list
    ELSE Append(LeftOf(list, {i \in DOMAIN list : list[i].place = place}),
                [place |-> place, who |-> w, age |-> 0])

SightAll(list, kind, w, places) ==
    LET seen[n \in 0..Len(places)] ==
            IF n = 0 THEN list ELSE Sight(seen[n - 1], kind, w, places[n])
    IN  seen[Len(places)]

(* plausible bug: blue robots are ours whatever our colour is *)
BlueIsOurs(lists, saw, b) ==
    [lists EXCEPT !["our"] = SightAll(@, "our", "BLUE", saw["BLUE"]),
                  !["opp"] = SightAll(@, "opp", "YELLOW", saw["YELLOW"])]

(* __RECIEVE_ROBOTS_DATA, for blue robots that are team b, and for yellow  *)
WithRobots(lists, saw, b) ==
    LET y == IF b = "our" THEN "opp" ELSE "our"
    IN  [lists EXCEPT ![b] = SightAll(@, b, "BLUE", saw["BLUE"]),
                      ![y] = SightAll(@, y, "YELLOW", saw["YELLOW"])]

CountPacket ==
    /\ packs' = packs + 1
    /\ pc' = IF packs' >= Cardinality(Cameras) THEN "merge" ELSE "check"

(* unlocked; vision->receive() may as well tell of none, any number of times *)
Awaits == pc = "check" /\ ~reconnect /\ ~closeVision

(* parse(), for a packet whose robots are for teams b and the other, or,   *)
(* if b is None, are not taken                                             *)
Parse(c, saw, b) ==
    LET aged == [d \in Cameras |-> [k \in Kinds |-> Older(v[d][k], k)]]
        kept == [k \in Kinds |-> Recent(aged[c][k], k)]
        withBall == [kept EXCEPT !["ball"] = SightAll(@, "ball", "ball", saw["ball"])]
    IN  /\ v' = [aged EXCEPT ![c] = IF b = None THEN withBall ELSE WithRobots(withBall, saw, b)]
        /\ lastCamera' = c
        /\ CountPacket

ReceivePacket(c, saw) ==
    /\ Awaits
    /\ Parse(c, saw, IF ourColor = "BLUE" THEN "our" ELSE "opp")
    /\ UNCHANGED <<field, ourColor, config, closing, halfWorld, main>>

(***************************************************************************)
(* setTeamColor in the midst of parse, which does not lock: neither BLUE   *)
(* when that is asked first nor YELLOW when that is, the robots are        *)
(* dropped.  Any other step between the two looks may as well come after.  *)
(***************************************************************************)
ReceiveAcrossChange(c, saw) ==
    /\ Awaits /\ main = "run"
    /\ ourColor = "YELLOW" /\ ourColor' = "BLUE"
    /\ Parse(c, saw, None)
    /\ UNCHANGED <<field, config, closing, halfWorld, main>>

(* a packet of a camera that the operator has switched off is only counted *)
SkipPacket ==
    /\ Awaits /\ CountPacket
    /\ UNCHANGED <<field, client, config, closing, halfWorld, main>>

-----------------------------------------------------------------------------
(***************************************************************************)
(* CVisionClient::merge: the sightings of the cameras, in the order of     *)
(* their numbers, two that agree made one.  The second is added to the     *)
(* first and the sum halved at the end only: what lies at the sum of two   *)
(* agrees with no third (with none at all, half a metre off the centre).   *)
(***************************************************************************)
Joined(list, more) ==
    LET join[n \in 0..Len(more)] ==
            IF n = 0 THEN list
            ELSE LET agree == {i \in DOMAIN join[n - 1] : /\ join[n - 1][i].place = more[n].place
                                                          /\ ~join[n - 1][i].summed}
                 IN  IF agree = {}
                     THEN Append(join[n - 1], [place |-> more[n].place, who |-> more[n].who,
                                               summed |-> FALSE])
                     ELSE [i \in DOMAIN join[n - 1] |->
                              [join[n - 1][i] EXCEPT !.summed = @ \/ i \in agree]]
    IN  join[Len(more)]

Merged(kind) ==
    LET upTo[n \in 0..Cardinality(Cameras)] ==
            IF n = 0 THEN <<>> ELSE Joined(upTo[n - 1], v[n - 1][kind])
    IN  upTo[Cardinality(Cameras)]

(***************************************************************************)
(* CMovingObject::kalmanFilter and filter, told of a frame without the     *)
(* object; inSight counts halves.                                          *)
(***************************************************************************)
Unseen(o, blindness) ==
    LET n == IF o.vanished < blindness THEN o.vanished + 1 ELSE blindness
    IN  [o EXCEPT !.vanished = n, !.inSight = IF n < blindness THEN 1 ELSE 0]

(* plausible bug: a robot is not told of a merge without it *)
NextRobotStays(list, res) ==
    IF list = <<>> THEN <<NoRobot>>
    ELSE IF res = <<>> THEN list
         ELSE <<[who |-> res[1].who, inSight |-> 2, vanished |-> 0]>>

(* CHalfWorld::update, robots: the first sighting a merge gives of the     *)
(* number; a number's first merge makes its object and shows it not yet    *)
NextRobot(list, res) ==
    IF list = <<>> THEN <<NoRobot>>
    ELSE CASE res # <<>> -> <<[who |-> res[1].who, inSight |-> 2, vanished |-> 0]>>
           [] res = <<>> /\ list[1].inSight > 0 -> <<Unseen(list[1], RobotBlindness)>>
           [] OTHER -> list

(***************************************************************************)
(* CHalfWorld::update, balls: each sighting goes to the track that agrees  *)
(* with it and has none yet, or to a new one; the others are told of none. *)
(***************************************************************************)
SeenBall(place) == [place |-> place, inSight |-> 2, vanished |-> 0]

(* plausible bug: a sighting goes to a track that it does not agree with *)
AnyTrack(list, told, place) == {i \in DOMAIN list : i \notin told}

TracksOf(list, told, place) == {i \in DOMAIN list : i \notin told /\ list[i].place = place}

Told(res) ==
    LET tell[n \in 0..Len(res)] ==
            IF n = 0 THEN [list |-> balls, told |-> {}]
            ELSE LET t == tell[n - 1]
                     tracks == TracksOf(t.list, t.told, res[n].place)
                     k == IF tracks = {} THEN Len(t.list) + 1
                          ELSE CHOOSE i \in tracks : \A j \in tracks : i <= j
                 IN  [list |-> [i \in 1..(IF tracks = {} THEN k ELSE Len(t.list)) |->
                                   IF i = k THEN SeenBall(res[n].place) ELSE t.list[i]],
                      told |-> t.told \cup {k}]
    IN  tell[Len(res)]

Tracked(res) ==
    LET t == Told(res)
    IN  [i \in DOMAIN t.list |->
            IF i \in t.told THEN t.list[i] ELSE Unseen(t.list[i], BallBlindness)]

Swapped(list, i) == [n \in DOMAIN list |->
    CASE n = 1 -> list[i] [] n = i /\ i # 1 -> list[1] [] OTHER -> list[n]]

Least(S) == IF S = {} THEN 1 ELSE CHOOSE i \in S : \A j \in S : i <= j

(* the watch dog: a ball that moves goes before one that does not; fast,   *)
(* those that move, is what the filter says, of a track that is lost too   *)
Watched(list, fast) == Swapped(list, IF 1 \in fast THEN 1 ELSE Least(fast))

(***************************************************************************)
(* vanishOutOfSights: the first ball is believed in even when it is lost,  *)
(* but another that is not comes first; the others are forgotten.          *)
(***************************************************************************)
FirstStays(list) == 1       \* plausible bug: lost or not

FirstInSight(list) ==
    IF list[1].inSight > 0 THEN 1 ELSE Least({i \in DOMAIN list \ {1} : list[i].inSight > 0})

(* plausible bug: those that are out of sight are kept *)
NoneVanishes(list) == IF list = <<>> THEN list ELSE Swapped(list, FirstInSight(list))

Vanished(list) ==
    IF list = <<>> THEN list
    ELSE LET first == FirstInSight(list)
             believed == [list EXCEPT ![1].inSight = IF @ = 0 THEN 1 ELSE @]
             swapped == Swapped(believed, first)
         IN  Kept(swapped, {i \in DOMAIN swapped : swapped[i].inSight > 0})

Merge ==
    /\ pc = "merge" /\ pc' = "check" /\ packs' = 0
    /\ \/ /\ lastCamera # -1
          /\ robot' = [t \in Teams |-> NextRobot(robot[t], Merged(t))]
          /\ LET list == Tracked(Merged("ball"))
             IN  IF list = <<>> THEN balls' = <<>>
                 ELSE \E fast \in SUBSET DOMAIN list : balls' = Vanished(Watched(list, fast))
       \/ /\ lastCamera = -1
          /\ UNCHANGED halfWorld
    /\ UNCHANGED <<field, client, config, closing, main>>

-----------------------------------------------------------------------------
(* CVisionThread::run around it *)

(***************************************************************************)
(* reconnect(): the world is emptied, the address is read and its group is *)
(* joined, or cannot be; nobody tries again.  The socket is bound all the  *)
(* same and may be handed packets, only nobody promises any.               *)
(***************************************************************************)
Connect ==
    /\ address' \in {"joined", "refused"}
    /\ robot' = [t \in Teams |-> <<>>] /\ balls' = <<>>

Start ==
    /\ pc = "start" /\ pc' = "check"
    /\ Connect
    /\ UNCHANGED <<field, client, packs, reconnect, closing, main>>

(* with visionSocketMutex, from one of the two to the other *)
Reconnect ==
    /\ pc = "check" /\ reconnect /\ pc' = "connected"
    /\ Connect
    /\ UNCHANGED <<field, client, packs, reconnect, closing, main>>

ReconnectDone ==
    /\ pc = "connected" /\ pc' = "check"
    /\ reconnect' = FALSE
    /\ UNCHANGED <<field, client, packs, address, closing, halfWorld, main>>

(* plausible bug: the thread ends without saying so *)
LeaveSilently ==
    /\ pc = "check" /\ ~reconnect /\ closeVision /\ pc' = "ended"
    /\ UNCHANGED <<field, client, packs, config, closing, halfWorld, main>>

Close ==
    /\ pc = "check" /\ ~reconnect /\ closeVision /\ pc' = "ended"
    /\ visionClosed' = TRUE
    /\ UNCHANGED <<field, client, packs, config, closeVision, halfWorld, main>>

run ==
    \/ Start \/ Reconnect \/ ReconnectDone \/ Close
    \/ \E c \in Cameras, saw \in Reports : ReceivePacket(c, saw) \/ ReceiveAcrossChange(c, saw)
    \/ SkipPacket \/ Merge

NoMutex == TRUE     \* plausible bug

SocketFree == pc # "connected"

-----------------------------------------------------------------------------
(* The main loop, and the handlers of the operator's window. *)

(* closeAll() ends the loop; the thread is told, and waited for *)
MainLoopEnds ==
    /\ main = "run" /\ main' = "wait"
    /\ SocketFree /\ closeVision' = TRUE
    /\ UNCHANGED <<field, client, thread, config, visionClosed, halfWorld>>

MainEnds ==
    /\ main = "wait" /\ visionClosed /\ main' = "ended"
    /\ UNCHANGED <<field, client, thread, config, closing, halfWorld>>

setTeamColor(color) ==
    /\ main = "run" /\ SocketFree
    /\ ourColor' = color
    /\ UNCHANGED <<field, v, lastCamera, thread, config, closing, halfWorld, main>>

connectVision ==
    /\ main = "run" /\ SocketFree
    /\ address' = "asked" /\ reconnect' = TRUE
    /\ UNCHANGED <<field, client, thread, closing, halfWorld, main>>

selectBall(i) ==
    /\ main = "run"
    /\ balls' = Swapped(balls, i)
    /\ UNCHANGED <<field, client, thread, config, closing, robot, main>>

VisionNext ==
    \/ Settle \/ run \/ MainLoopEnds \/ MainEnds
    \/ \E color \in Colors : setTeamColor(color)
    \/ connectVision
    \/ \E i \in DOMAIN balls : selectBall(i)

VisionSpec == VisionInit /\ [][VisionNext]_visionVars

(***************************************************************************)
(* The thread is scheduled: only its own steps change pc and packs.  Each  *)
(* camera goes on sending, and now and then a merge comes just after a     *)
(* packet of it that lacks nothing, unless the address is refused again    *)
(* and again, or once and for all.                                         *)
(***************************************************************************)
Scheduled == /\ pc # "ended" /\ packs' \in 0..Cardinality(Cameras)
             /\ pc' \in {"check", "connected", "merge", "ended"}
Whole(c) ==
    /\ pc = "merge" /\ lastCamera = c
    /\ \A w \in Things : \A place \in field[w] :
        \E k \in Kinds : \E i \in DOMAIN v[c][k] :
            v[c][k][i] = [place |-> place, who |-> w, age |-> 0]

FairVisionSpec ==
    /\ VisionSpec
    /\ WF_<<pc, packs>>(Scheduled) /\ WF_visionVars(MainEnds)
    /\ \A c \in Cameras : []<>(pc = "ended" \/ address = "refused" \/ Whole(c))

-----------------------------------------------------------------------------
(* Type invariant; no track is kept that is not believed in. *)
Sightings(kind) == [place : Places, who : IF kind = "ball" THEN {"ball"} ELSE Colors,
                    age : 0..(Age(kind) + 1)]
Robots == [who : Colors \cup {None}, inSight : 0..2, vanished : 0..RobotBlindness]
Balls == [place : Places, inSight : 1..2, vanished : 0..BallBlindness]

VisionTypeOK ==
    /\ field \in [Things -> SUBSET Places]
    /\ v \in [Cameras -> [Kinds -> UNION {Seq(Sightings(k)) : k \in Kinds}]]
    /\ \A c \in Cameras, k \in Kinds : v[c][k] \in Seq(Sightings(k))
    /\ lastCamera \in Cameras \cup {-1} /\ ourColor \in Colors
    /\ pc \in {"start", "check", "connected", "merge", "ended"}
    /\ packs \in 0..Cardinality(Cameras)
    /\ {reconnect, closeVision, visionClosed} \subseteq BOOLEAN
    /\ address \in {"asked", "joined", "refused"}
    /\ \A t \in Teams : robot[t] = <<>> \/ robot[t] \in [{1} -> Robots]
    /\ balls \in Seq(Balls)
    /\ main \in {"run", "wait", "ended"}

(***************************************************************************)
(* The address last asked for has been tried, or is still to be: one that  *)
(* is set while the thread reconnects is not lost (soccer.cpp:1444).  That *)
(* it is joined nobody promises: open() may fail and is not tried again    *)
(* (soccer.cpp:1306).                                                      *)
(***************************************************************************)
AddressIsTried == pc \notin {"start", "connected"} /\ ~reconnect => address # "asked"

(***************************************************************************)
(* No step makes a second track of a ball that at most two cameras see,    *)
(* whatever they and the others report in which order, and whatever is     *)
(* swapped or removed (worldmodel.cpp:711).  Of a ball that three see it   *)
(* may: merge compares the third sighting with the sum of the first two    *)
(* (visionclient.cpp:256,264).                                             *)
(***************************************************************************)
Seers(place) == {c \in Cameras : \E i \in DOMAIN v[c]["ball"] : v[c]["ball"][i].place = place}
OneTrack(list, place) ==
    \A i, j \in DOMAIN list : list[i].place = place /\ list[j].place = place => i = j

NoDoubleTrack ==
    [][\A place \in BallPlaces :
         Cardinality(Seers(place)) <= 2 /\ OneTrack(balls, place) => OneTrack(balls', place)
      ]_visionVars

(***************************************************************************)
(* A merge forgets no ball that it has seen, and leaves one that has been  *)
(* unseen for too long in the first place only if it is the only one       *)
(* (worldmodel.cpp:579).                                                   *)
(***************************************************************************)
SeenBallsAreKept ==
    [][pc = "merge" /\ pc' # "merge" /\ lastCamera # -1 =>
        /\ \A n \in DOMAIN Merged("ball") :
              \E i \in DOMAIN balls' : balls'[i].place = Merged("ball")[n].place
        /\ Len(balls') > 1 => balls'[1].vanished < BallBlindness]_visionVars

(***************************************************************************)
(* While the program runs and its addresses are not refused:               *)
(* a robot taken from the field ends up inactive in the world model,       *)
(* though the sightings are purged with a loop that passes over some       *)
(* (visionclient.cpp:103), and only by packets of the same camera.         *)
(***************************************************************************)
Stays == <>[](main = "run" /\ address # "refused")
Shown(t, who) == \E i \in DOMAIN robot[t] : robot[t][i].inSight > 0 /\ robot[t][i].who \in who

GoneIsInactive ==
    Stays /\ <>[](\A w \in Colors : field[w] = {}) => <>[](\A t \in Teams : ~Shown(t, Colors))

(***************************************************************************)
(* When the team's colour changes, our robots end up to be ours, whatever  *)
(* of a packet was parsed under the colour before (visionclient.cpp:161).  *)
(***************************************************************************)
OursAreOurs ==
    \A color \in Colors :
        Stays /\ <>[](ourColor = color)
            => <>[](~Shown("our", Colors \ {color}) /\ ~Shown("opp", {color}))

(***************************************************************************)
(* A ball that stays where it is gets to be the first again and again,     *)
(* whatever lost one the watch dog or the operator puts before it          *)
(* (worldmodel.cpp:754).                                                   *)
(***************************************************************************)
BallIsFound ==
    \A place \in Places :
        Stays /\ <>[](field["ball"] = {place}) => []<>(balls # <<>> /\ balls[1].place = place)

(***************************************************************************)
(* The main thread's wait for the vision thread ends (soccer.cpp:808).     *)
(***************************************************************************)
ProgramEnds == main = "wait" ~> main = "ended"
=============================================================================
