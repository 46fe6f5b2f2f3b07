------------------------------- MODULE GameLog -------------------------------
(***************************************************************************)
(* The recording side of the logger: the operator's switches in the main   *)
(* thread, the calls of debug() and draw() in any, and CGameLogger::run in *)
(* a thread of its own, which takes a frame sixty times a second and       *)
(* writes what has gathered once a second.                                 *)
(*                                                                         *)
(* loggerMutex makes each section of a handler, and each frame, one step.  *)
(* The thread decides WITHOUT it that it is going to take a frame, and the *)
(* operator may close the files, and open others, before it gets it.  The  *)
(* program may stop at any moment, by closing its window or by a signal.   *)
(*                                                                         *)
(* The lists `debugs' and `draws' are always treated alike; here they are  *)
(* one list of frames, each the set of the texts said in it.  isLogMode is *)
(* assigned wherever logMode is; so are isReplayMode and replayMode.       *)
(***************************************************************************)
EXTENDS Integers, Sequences

CONSTANTS
    OpenBound,          \* openings of files in a run
    FrameBound,         \* frames of one file
    TextBound,          \* texts said in one session
    WidgetBound         \* open CLogTagWidgets

ASSUME GameLogAssumption ==
    {OpenBound, FrameBound, TextBound, WidgetBound} \subseteq Nat

VARIABLES
    checked,            \* the menu actions that are checked
    widgets,            \* number of CLogTagWidgets that are open
    todo,               \* what is left of the main thread's handler
    logMode, replayMode, closeLogger, loggerClosed, fileLogError,
    packets,            \* number of frames in the list
    debugs,             \* the texts of each frame, the one begun included
    file,               \* what the files of this session contain
    pc,                 \* of the thread; "append" and "write" have the mutex
    session, said       \* history: openings, and texts said since the last

flags == <<logMode, replayMode, closeLogger>>
lists == <<packets, debugs, file, fileLogError>>
menu == <<checked, widgets>>
thread == <<pc, loggerClosed>>
logVars == <<menu, todo, flags, lists, thread, session, said>>

MenuActions == {"Log", "LogTag", "Replay"}
Sections == {"logOn", "logOff", "replayOn", "replayOff", "start", "down"}
EmptyFile == [packets |-> 0, frames |-> 0, texts |-> {}]

Pending == UNION {debugs[i] : i \in 1..Len(debugs)}
Locked == pc \in {"append", "write"}
Down == todo = <<"down">>       \* the process is gone

LogInit ==
    /\ checked = {} /\ widgets = 0 /\ todo = <<>>
    /\ logMode = FALSE /\ replayMode = FALSE
    /\ closeLogger = TRUE /\ loggerClosed = TRUE /\ fileLogError = TRUE
    /\ packets = 0 /\ debugs = <<>> /\ file = EmptyFile
    /\ pc = "off"
    /\ session = 0 /\ said = 0

-----------------------------------------------------------------------------
(* The lists and the files. *)

(* writePackets, writeDebugs and writeDraws, with n packets in the list    *)
Written(n) ==
    [packets |-> file.packets + n,
     frames  |-> file.frames + Len(debugs),
     texts   |-> file.texts \cup Pending]

(* plausible bugs: the new frame is begun under the old number; the frame  *)
(* that was begun stays when files are opened                              *)
NewFrameInPlace(d) == [d EXCEPT ![Len(d)] = {}]
OpenedListKept == <<IF debugs = <<>> THEN {} ELSE debugs[Len(debugs)]>>

NewFrame(d) == Append(d, {})
OpenedList == <<{}>>

(* openFilesToLog.  QFile::setFileName closes a file that is still open,   *)
(* and what the lists hold for it is dropped (gamelogger.cpp:99).  A file  *)
(* that did open although another did not is left out.                     *)
openFilesToLog ==
    /\ session' = session + 1 /\ said' = 0
    /\ file' = EmptyFile /\ packets' = 0
    /\ \/ fileLogError' = FALSE /\ debugs' = OpenedList
       \/ fileLogError' = TRUE /\ debugs' = <<>>

(* closeLogFiles(false): the frame that was begun gets its packet *)
ClosingPacketsOnly == packets       \* plausible bug: the frame begun is forgotten
ClosingPackets == packets + 1

closeLogFiles ==
    /\ fileLogError' = TRUE
    /\ IF fileLogError
       THEN UNCHANGED <<packets, debugs, file>>
       ELSE file' = Written(ClosingPackets) /\ packets' = 0 /\ debugs' = <<>>
    /\ UNCHANGED <<session, said>>

-----------------------------------------------------------------------------
(***************************************************************************)
(* The menu: CMainApplication::setLoggerReplayMode, terminateLogOrReplay   *)
(* and CLogTagWidget::StartLogfunc.  A handler is the list of its sections *)
(* under the mutex and of its call of start(); the other threads may move  *)
(* between two of them, the rest of the main thread may not.               *)
(***************************************************************************)
If(condition, section) == IF condition THEN <<section>> ELSE <<>>

setLoggerReplayMode(action) ==
    /\ todo = <<>>
    /\ LET on == action \notin checked
       IN  /\ checked' = IF on THEN checked \cup {action} ELSE checked \ {action}
           /\ action = "Log" /\ on => session < OpenBound
           /\ widgets' = IF action = "LogTag" /\ on THEN widgets + 1 ELSE widgets
           /\ widgets' <= WidgetBound
           /\ todo' =
                IF action = "Replay"
                THEN If(checked \cap {"Log", "LogTag"} # {}, "logOff")
                        \o (IF on THEN <<"replayOn", "start">> ELSE <<"replayOff">>)
                ELSE If("Replay" \in checked, "replayOff")
                        \o (IF ~on THEN <<"logOff">>
                            ELSE IF action = "Log" THEN <<"logOn", "start">>
                            ELSE <<>>)
    /\ UNCHANGED <<flags, lists, thread, session, said>>

StartLogfunc ==
    /\ todo = <<>> /\ widgets > 0 /\ session < OpenBound
    /\ widgets' = widgets - 1
    /\ todo' = <<"logOn", "start">>
    /\ UNCHANGED <<checked, flags, lists, thread, session, said>>

Section(s) ==
    /\ todo # <<>> /\ Head(todo) = s
    /\ s # "start" => ~Locked
    /\ todo' = Tail(todo)
    /\ UNCHANGED <<widgets, loggerClosed>>

LogOn ==
    /\ Section("logOn")
    /\ logMode' = TRUE /\ closeLogger' = FALSE
    /\ openFilesToLog
    /\ UNCHANGED <<checked, replayMode, pc>>

LogOff ==
    /\ Section("logOff")
    /\ checked' = checked \ {"Log", "LogTag"}
    /\ logMode' = FALSE /\ closeLogger' = TRUE
    /\ closeLogFiles
    /\ UNCHANGED <<replayMode, pc>>

ReplayOn ==
    /\ Section("replayOn")
    /\ replayMode' = TRUE /\ closeLogger' = FALSE
    /\ UNCHANGED <<checked, logMode, lists, pc, session, said>>

ReplayOff ==
    /\ Section("replayOff")
    /\ checked' = checked \ {"Replay"}
    /\ replayMode' = FALSE /\ closeLogger' = TRUE
    /\ UNCHANGED <<logMode, lists, pc, session, said>>

(* QThread::start does nothing while the thread is running *)
Start ==
    /\ Section("start")
    /\ pc' = IF pc = "off" THEN "begin" ELSE pc
    /\ UNCHANGED <<checked, flags, lists, session, said>>

(* debug(), and draw(), of the coach, of a handler or of another thread *)
debug ==
    /\ ~Down /\ ~Locked
    /\ logMode /\ said < TextBound
    /\ said' = said + 1
    /\ LET d == IF debugs = <<>> THEN OpenedList ELSE debugs
       IN  debugs' = [d EXCEPT ![Len(d)] = @ \cup {<<session, said + 1>>}]
    /\ UNCHANGED <<menu, todo, flags, thread, packets, file, fileLogError, session>>

(***************************************************************************)
(* The end of CSoccer::run and the signal handler.  Both wait 20 ms for    *)
(* the mutex and close the files if they get it; the wait for loggerClosed *)
(* that follows changes nothing.  A signal may also find the mutex held by *)
(* the very section, or call of debug(), that it interrupts.               *)
(***************************************************************************)
Stop(locked) ==
    /\ todo' = <<"down">>
    /\ IF locked
       THEN UNCHANGED <<flags, lists, session, said>>
       ELSE /\ closeLogger' = TRUE /\ logMode' = FALSE
            /\ closeLogFiles
            /\ UNCHANGED replayMode
    /\ UNCHANGED <<menu, thread>>

exit == todo = <<>> /\ Stop(Locked)

fullHandle == ~Down /\ \E locked \in BOOLEAN : (Locked => locked) /\ Stop(locked)

-----------------------------------------------------------------------------
(* CGameLogger::run *)

Goes(from, to) == ~Down /\ pc = from /\ pc' = to
Quiet == UNCHANGED <<menu, todo, flags, session, said>>

ClosedKept == loggerClosed          \* plausible bug: the flag is not lowered
ClosedAtBegin == FALSE

RunBegin ==
    /\ Goes("begin", "top")
    /\ loggerClosed' = ClosedAtBegin
    /\ Quiet /\ UNCHANGED lists

(* plausible bug: a thread that records does not look at closeLogger *)
RunsOnWhileLogging == logMode \/ replayMode \/ ~closeLogger
RunsOn == ~closeLogger

RunTop ==
    /\ \/ RunsOn /\ Goes("top", "test")
       \/ ~RunsOn /\ Goes("top", "ended")
    /\ Quiet /\ UNCHANGED <<lists, loggerClosed>>

(* without the mutex; how much time has passed is not in the model *)
RunTest ==
    /\ \/ Goes("test", "top")
       \/ /\ logMode /\ ~fileLogError
          /\ file.packets + packets < FrameBound
          /\ \E next \in {"toAppend", "toWrite"} : Goes("test", next)
    /\ Quiet /\ UNCHANGED <<lists, loggerClosed>>

RunLock ==
    /\ Goes("toAppend", "append") \/ Goes("toWrite", "write")
    /\ Quiet /\ UNCHANGED <<lists, loggerClosed>>

RunAppend ==
    /\ Goes("append", "top")
    /\ packets' = packets + 1
    /\ debugs' = NewFrame(debugs)
    /\ Quiet /\ UNCHANGED <<file, fileLogError, loggerClosed>>

(* writing to files that were closed meanwhile does nothing *)
RunWrite ==
    /\ Goes("write", "top")
    /\ file' = IF fileLogError THEN file ELSE Written(packets + 1)
    /\ packets' = 0 /\ debugs' = NewFrame(<<>>)
    /\ Quiet /\ UNCHANGED <<fileLogError, loggerClosed>>

RunEnd ==
    /\ Goes("ended", "finishing")
    /\ loggerClosed' = TRUE
    /\ Quiet /\ UNCHANGED lists

(* the thread is not running any more: start() will start it again *)
RunFinish ==
    /\ Goes("finishing", "off")
    /\ Quiet /\ UNCHANGED <<lists, loggerClosed>>

run == RunBegin \/ RunTop \/ RunTest \/ RunLock \/ RunAppend \/ RunWrite \/ RunEnd \/ RunFinish

LogNext ==
    \/ \E action \in MenuActions : setLoggerReplayMode(action)
    \/ StartLogfunc
    \/ LogOn \/ LogOff \/ ReplayOn \/ ReplayOff \/ Start
    \/ debug \/ exit \/ fullHandle
    \/ run

LogSpec == LogInit /\ [][LogNext]_logVars

(* The scheduler runs the thread, and the mutex is not held for ever. *)
FairLogSpec == LogSpec /\ WF_logVars(run)

-----------------------------------------------------------------------------
(* Properties *)

(* The type of the state; a thread that was started and has not ended has  *)
(* said so.                                                                *)
LogTypeOK ==
    /\ checked \subseteq MenuActions /\ widgets \in 0..WidgetBound
    /\ todo \in Seq(Sections) /\ Len(todo) <= 3
    /\ {logMode, replayMode, closeLogger, loggerClosed, fileLogError} \subseteq BOOLEAN
    /\ packets \in Nat
    /\ debugs \in Seq(SUBSET ((1..OpenBound) \X (1..TextBound)))
    /\ file \in [packets : Nat, frames : Nat,
                  texts : SUBSET ((1..OpenBound) \X (1..TextBound))]
    /\ pc \in {"off", "begin", "top", "test", "toAppend", "toWrite", "append",
               "write", "ended", "finishing"}
    /\ session \in 0..OpenBound /\ said \in 0..TextBound
    /\ pc \in {"top", "test", "toAppend", "toWrite", "append", "write", "ended"}
            <=> ~loggerClosed

(* Frame n of the debug and draw files belongs to packet n of the log: the *)
(* replay seeks the three of them with one number and only complains if    *)
(* their sizes differ (gamelogger.cpp:237).  A frame decided on before the *)
(* files were closed, and taken after others were opened, must not shift   *)
(* them.                                                                   *)
FramesAgree ==
    /\ ~fileLogError => Len(debugs) = packets + 1
    /\ file.packets = file.frames

(* Whatever is said while the files are open is in the files of that       *)
(* session once they are CLOSED, and nothing of another session is.  What  *)
(* was said since the last write is lost by a crash, and by opening files  *)
(* over those of a log that still runs, as a start from the tag widget     *)
(* does: LogBook names both.                                               *)
Book == INSTANCE LogBook WITH
    Texts <- (1..OpenBound) \X (1..TextBound),
    open <- ~fileLogError /\ ~Down,
    book <- IF fileLogError \/ Down THEN file.texts ELSE file.texts \cup Pending,
    safe <- file.texts
BookKept == Book!Spec

(* A logger that is told to end says that it has, unless it is needed      *)
(* again or the program is gone; the end of the program waits for it.      *)
LoggerEnds == closeLogger ~> (loggerClosed \/ ~closeLogger \/ Down)
=============================================================================
