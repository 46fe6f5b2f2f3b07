---------------------------- MODULE GameLog_proofs ----------------------------
(***************************************************************************)
(* Whatever the operator switches, and whenever the thread gets the mutex  *)
(* it waits for: the state keeps its type, the files keep one frame per    *)
(* packet, and what is said is kept as LogBook promises.                   *)
(*                                                                         *)
(* The number of frames is the length of a list, so FramesAgree needs the  *)
(* lists' types and nothing else of the state: a frame taken late finds    *)
(* lists that fit each other, though they may be another session's.  The   *)
(* type of the lists needs more: a text carries the number of its session, *)
(* so that nobody may speak before the first, and a session is opened only *)
(* while one is left, which depends on what a handler has still to do.     *)
(***************************************************************************)
EXTENDS GameLog, SequenceTheorems, TLAPS

TextPairs == (1..OpenBound) \X (1..TextBound)
Files == [packets : Nat, frames : Nat, texts : SUBSET TextPairs]

ListTypes ==
    /\ fileLogError \in BOOLEAN
    /\ packets \in Nat
    /\ debugs \in Seq(SUBSET TextPairs)
    /\ file \in Files
    /\ session \in 0..OpenBound /\ said \in 0..TextBound

ListInv == ListTypes /\ FramesAgree

-----------------------------------------------------------------------------
(* Lists of frames. *)

(* The lists after opening and after closing.                              *)
LEMMA OneFrame ==
    /\ <<{}>> \in Seq(SUBSET TextPairs) /\ Len(<<{}>>) = 1 /\ <<{}>>[1] = {}
    /\ <<>> \in Seq(SUBSET TextPairs) /\ Len(<<>>) = 0
OBVIOUS

(* The last frame is one of the frames.                                    *)
LEMMA NonEmptyLength ==
    ASSUME NEW S, NEW s \in Seq(S), s # <<>>
    PROVE  Len(s) \in 1..Len(s)
BY EmptySeq, LenProperties

(* A text t put into the last frame is in that frame and in no other.      *)
LEMMA LastFrameGrows ==
    ASSUME NEW S, NEW s \in Seq(SUBSET S), Len(s) \in 1..Len(s), NEW t \in S
    PROVE  /\ [s EXCEPT ![Len(s)] = @ \cup {t}] \in Seq(SUBSET S)
           /\ Len([s EXCEPT ![Len(s)] = @ \cup {t}]) = Len(s)
           /\ \A i \in 1..Len(s) : [s EXCEPT ![Len(s)] = @ \cup {t}][i] =
                  IF i = Len(s) THEN s[Len(s)] \cup {t} ELSE s[i]
<1>1. s[Len(s)] \in SUBSET S
    BY ElementOfSeq
<1>2. s[Len(s)] \cup {t} \in SUBSET S
    BY <1>1
<1> DEFINE f == s[Len(s)] \cup {t}
<1> DEFINE e == [s EXCEPT ![Len(s)] = f]
<1>3. /\ e \in Seq(SUBSET S) /\ Len(e) = Len(s)
      /\ \A i \in 1..Len(s) : e[i] = IF i = Len(s) THEN f ELSE s[i]
    <2> HIDE DEF f
    <2> QED BY <1>2, ExceptSeq DEF f
<1> QED BY <1>3

(* What the lists hold is texts; empty lists hold none.                    *)
LEMMA PendingType ==
    ASSUME ListTypes
    PROVE  Pending \subseteq TextPairs
<1>1. \A i \in 1..Len(debugs) : debugs[i] \in SUBSET TextPairs
    BY ElementOfSeq DEF ListTypes
<1> QED BY <1>1 DEF Pending

(* Empty lists hold no text.                                               *)
LEMMA NothingPends ==
    ASSUME debugs' = <<>> \/ debugs' = <<{}>>
    PROVE  Pending' = {}
<1>1. \A i \in 1..Len(debugs') : debugs'[i] = {}
    BY OneFrame
<1> QED BY <1>1 DEF Pending

-----------------------------------------------------------------------------
(* Each operation on the lists, and what it does to the texts. *)

(* Closing the files writes a packet for the frame that was begun, and all *)
(* that was said.                                                          *)
LEMMA CloseKeepsFrames ==
    ASSUME ListInv, closeLogFiles
    PROVE  /\ ListInv' /\ fileLogError' = TRUE
           /\ file'.texts = IF fileLogError THEN file.texts ELSE file.texts \cup Pending
<1>1. CASE fileLogError
    BY <1>1 DEF ListInv, ListTypes, FramesAgree, closeLogFiles
<1>2. CASE ~fileLogError
    <2>1. /\ file' = Written(packets + 1) /\ packets' = 0 /\ debugs' = <<>>
          /\ fileLogError' = TRUE /\ UNCHANGED <<session, said>>
        BY <1>2 DEF closeLogFiles, ClosingPackets
    <2>2. Len(debugs) = packets + 1 /\ file.packets = file.frames
        BY <1>2 DEF ListInv, FramesAgree
    <2>3. file' = [packets |-> file.packets + (packets + 1),
                   frames  |-> file.frames + Len(debugs),
                   texts   |-> file.texts \cup Pending]
        BY <2>1 DEF Written
    <2>4. file' \in Files
        BY <2>2, <2>3, PendingType DEF ListInv, ListTypes, Files
    <2> QED
        BY <1>2, <2>1, <2>2, <2>3, <2>4, OneFrame DEF ListInv, ListTypes, FramesAgree
<1> QED BY <1>1, <1>2 DEF ListInv, ListTypes

(* Opening files begins with one frame and no packet, or with nothing.     *)
LEMMA OpenKeepsFrames ==
    ASSUME ListInv, openFilesToLog, session < OpenBound
    PROVE  ListInv' /\ file'.texts = {} /\ Pending' = {} /\ session' >= 1
<1>1. /\ session' = session + 1 /\ said' = 0 /\ packets' = 0
      /\ file' = [packets |-> 0, frames |-> 0, texts |-> {}]
      /\ fileLogError' \in BOOLEAN
      /\ debugs' = <<{}>> \/ (fileLogError' = TRUE /\ debugs' = <<>>)
    BY DEF openFilesToLog, OpenedList, EmptyFile
<1>2. debugs' \in Seq(SUBSET TextPairs) /\ (~fileLogError' => Len(debugs') = 1)
    BY <1>1, OneFrame
<1>3. Pending' = {}
    BY <1>1, NothingPends
<1>4. file' \in Files
    BY <1>1 DEF Files
<1>5. OpenBound \in Nat /\ TextBound \in Nat
    BY GameLogAssumption
<1> QED
    BY <1>1, <1>2, <1>3, <1>4, <1>5 DEF ListInv, ListTypes, FramesAgree

(* What the lists do not see changes nothing.                              *)
LEMMA IdleKeepsFrames ==
    ASSUME ListInv, UNCHANGED <<lists, session, said>>
    PROVE  ListInv' /\ Pending' = Pending
BY DEF ListInv, ListTypes, FramesAgree, lists, Pending

(* A text goes into the last frame; it begins one only if no file is open. *)
LEMMA DebugKeepsFrames ==
    ASSUME ListInv, debug, session >= 1
    PROVE  /\ ListInv'
           /\ ~fileLogError => Pending' = Pending \cup {<<session, said + 1>>}
<1> DEFINE d == IF debugs = <<>> THEN OpenedList ELSE debugs
<1> DEFINE t == <<session, said + 1>>
<1>1. /\ debugs' = [d EXCEPT ![Len(d)] = @ \cup {t}]
      /\ said' = said + 1 /\ said < TextBound
      /\ UNCHANGED <<packets, file, fileLogError, session>>
    BY DEF debug
<1>2. d \in Seq(SUBSET TextPairs) /\ Len(d) \in 1..Len(d)
    <2>1. CASE debugs = <<>>
        BY <2>1, OneFrame DEF OpenedList
    <2>2. CASE debugs # <<>>
        BY <2>2, NonEmptyLength DEF ListInv, ListTypes
    <2> QED BY <2>1, <2>2
<1>3. OpenBound \in Nat /\ TextBound \in Nat
    BY GameLogAssumption
<1>4. t \in TextPairs /\ session' \in 0..OpenBound /\ said' \in 0..TextBound
    BY <1>1, <1>3 DEF ListInv, ListTypes, TextPairs
<1>5. /\ debugs' \in Seq(SUBSET TextPairs) /\ Len(debugs') = Len(d)
      /\ \A i \in 1..Len(d) : debugs'[i] = IF i = Len(d) THEN d[Len(d)] \cup {t} ELSE d[i]
    <2> HIDE DEF d, t
    <2> QED BY <1>1, <1>2, <1>4, LastFrameGrows
<1>6. ~fileLogError => d = debugs /\ Len(debugs) = packets + 1
    BY OneFrame DEF ListInv, ListTypes, FramesAgree
<1>7. ListInv'
    <2>1. ~fileLogError' => Len(debugs') = packets' + 1
        <3> HIDE DEF d
        <3> QED BY <1>1, <1>5, <1>6
    <2>2. file'.packets = file'.frames
        BY <1>1 DEF ListInv, FramesAgree
    <2> HIDE DEF d, t
    <2> QED BY <1>1, <1>4, <1>5, <2>1, <2>2 DEF ListInv, ListTypes, FramesAgree
<1>8. ASSUME ~fileLogError PROVE Pending' = Pending \cup {t}
    <2>1. /\ Len(debugs') = Len(debugs) /\ Len(debugs) \in 1..Len(debugs)
          /\ \A i \in 1..Len(debugs) : debugs'[i] =
                IF i = Len(debugs) THEN debugs[Len(debugs)] \cup {t} ELSE debugs[i]
        <3> HIDE DEF d, t
        <3> QED BY <1>2, <1>5, <1>6, <1>8
    <2> HIDE DEF t
    <2>2. Pending' \subseteq Pending \cup {t}
        BY <2>1 DEF Pending
    <2>3. \A i \in 1..Len(debugs) : debugs[i] \subseteq debugs'[i]
        BY <2>1
    <2>4. t \in debugs'[Len(debugs)]
        BY <2>1
    <2>5. Pending \cup {t} \subseteq Pending'
        BY <2>1, <2>3, <2>4 DEF Pending
    <2> QED BY <2>2, <2>5
<1> QED BY <1>7, <1>8

(* A frame taken by the thread adds a packet and begins the next frame.    *)
LEMMA AppendKeepsFrames ==
    ASSUME ListInv, RunAppend
    PROVE  ListInv' /\ Pending' = Pending /\ UNCHANGED <<file, fileLogError>>
<1>1. packets' = packets + 1 /\ debugs' = Append(debugs, {})
      /\ UNCHANGED <<file, fileLogError, session, said>>
    BY DEF RunAppend, NewFrame, Quiet
<1>2. debugs \in Seq(SUBSET TextPairs) /\ {} \in SUBSET TextPairs
    BY DEF ListInv, ListTypes
<1>3. /\ debugs' \in Seq(SUBSET TextPairs) /\ Len(debugs') = Len(debugs) + 1
      /\ \A i \in 1..Len(debugs) : debugs'[i] = debugs[i]
      /\ debugs'[Len(debugs) + 1] = {}
    BY <1>1, <1>2, AppendProperties
<1>4. Pending' = Pending
    <2>1. Len(debugs) \in Nat
        BY <1>2
    <2>2. \A i \in 1..Len(debugs') : i \in 1..Len(debugs) \/ i = Len(debugs) + 1
        BY <1>3, <2>1
    <2>3. \A i \in 1..Len(debugs) : i \in 1..Len(debugs')
        BY <1>3, <2>1
    <2>4. Pending' \subseteq Pending
        BY <1>3, <2>2 DEF Pending
    <2>5. Pending \subseteq Pending'
        BY <1>3, <2>3 DEF Pending
    <2> QED BY <2>4, <2>5
<1> QED
    BY <1>1, <1>3, <1>4 DEF ListInv, ListTypes, FramesAgree

(* Writing adds as many packets as frames, and all that was said, if the   *)
(* files are still open; the lists begin anew in any case.                 *)
LEMMA WriteKeepsFrames ==
    ASSUME ListInv, RunWrite
    PROVE  /\ ListInv' /\ Pending' = {} /\ fileLogError' = fileLogError
           /\ file'.texts = IF fileLogError THEN file.texts ELSE file.texts \cup Pending
<1>1. /\ file' = IF fileLogError THEN file ELSE Written(packets + 1)
      /\ packets' = 0 /\ debugs' = Append(<<>>, {})
      /\ UNCHANGED <<fileLogError, session, said>>
    BY DEF RunWrite, NewFrame, Quiet
<1>2. debugs' = <<{}>>
    BY <1>1
<1>3. debugs' \in Seq(SUBSET TextPairs) /\ Len(debugs') = 1 /\ Pending' = {}
    BY <1>2, OneFrame, NothingPends
<1>4. CASE fileLogError
    BY <1>1, <1>3, <1>4 DEF ListInv, ListTypes, FramesAgree
<1>5. CASE ~fileLogError
    <2>1. file' = [packets |-> file.packets + (packets + 1),
                   frames  |-> file.frames + Len(debugs),
                   texts   |-> file.texts \cup Pending]
        BY <1>1, <1>5 DEF Written
    <2>2. Len(debugs) = packets + 1 /\ file.packets = file.frames
        BY <1>5 DEF ListInv, FramesAgree
    <2>3. file' \in Files
        BY <2>1, <2>2, PendingType DEF ListInv, ListTypes, Files
    <2> QED BY <1>1, <1>3, <1>5, <2>1, <2>2, <2>3 DEF ListInv, ListTypes, FramesAgree
<1> QED BY <1>4, <1>5 DEF ListInv, ListTypes

(***************************************************************************)
(* The type of the whole state.  The bound on the sessions holds because a *)
(* handler opens files at most once, and begins only when one more opening *)
(* is left; and nobody says anything before the first opening.             *)
(***************************************************************************)
OpensOnce(t) ==
    \A i \in 1..Len(t) : t[i] = "logOn" =>
        session < OpenBound /\ \A j \in 1..Len(t) : t[j] = "logOn" => j = i

Handler(t) ==
    /\ t \in Seq(Sections) /\ Len(t) <= 3
    /\ \A i \in 1..Len(t) : t[i] # "down"
    /\ OpensOnce(t)

TodoInv == Down \/ Handler(todo)

(* While a handler runs, the program does.                                 *)
LEMMA HandlerIsUp ==
    ASSUME Handler(todo)'
    PROVE  ~Down'
<1>1. Len(<<"down">>) = 1 /\ <<"down">>[1] = "down"
    OBVIOUS
<1>2. \A i \in 1..Len(todo') : todo'[i] # "down"
    BY DEF Handler
<1> QED BY <1>1, <1>2 DEF Down

(* The handlers that setLoggerReplayMode and StartLogfunc are made of.     *)
LEMMA NoSection == Handler(<<>>)
BY DEF Handler, OpensOnce

(* A handler of one section, opening files only if an opening is left.     *)
LEMMA OneSection ==
    ASSUME NEW s \in Sections \ {"down"}, s = "logOn" => session < OpenBound
    PROVE  Handler(<<s>>)
<1>1. <<s>> \in Seq(Sections) /\ Len(<<s>>) = 1 /\ <<s>>[1] = s
    OBVIOUS
<1> QED BY <1>1 DEF Handler, OpensOnce

(* The same, with the call of start() after it.                            *)
LEMMA OneSectionAndStart ==
    ASSUME NEW s \in Sections \ {"down", "start"}, s = "logOn" => session < OpenBound
    PROVE  Handler(<<s, "start">>)
<1>1. "start" \in Sections
    BY DEF Sections
<1>2. /\ <<s, "start">> \in Seq(Sections) /\ Len(<<s, "start">>) = 2
      /\ <<s, "start">>[1] = s /\ <<s, "start">>[2] = "start"
    BY <1>1
<1>3. \A i \in 1..2 : i = 1 \/ i = 2
    OBVIOUS
<1> QED BY <1>2, <1>3 DEF Handler, OpensOnce

(* A section that switches the other mode off may come first.              *)
LEMMA OffFirst ==
    ASSUME NEW s \in {"logOff", "replayOff"}, NEW u \in {<<>>, <<s>>},
           NEW t, Handler(t), Len(t) <= 2
    PROVE  Handler(u \o t)
<1>1. u \in Seq(Sections) /\ Len(u) \in 0..1 /\ (Len(u) = 1 => u[1] = s)
    <2>1. <<s>> \in Seq(Sections) /\ Len(<<s>>) = 1 /\ <<s>>[1] = s
        BY DEF Sections
    <2>2. <<>> \in Seq(Sections) /\ Len(<<>>) = 0
        OBVIOUS
    <2>3. CASE u = <<s>>
        BY <2>1, <2>3
    <2>4. CASE u = <<>>
        BY <2>2, <2>4
    <2> QED BY <2>3, <2>4
<1>2. t \in Seq(Sections) /\ Len(t) \in Nat
    BY DEF Handler
<1> DEFINE h == u \o t
<1>3. h \in Seq(Sections) /\ Len(h) = Len(u) + Len(t)
    BY <1>1, <1>2, ConcatProperties
<1>4. \A i \in 1..Len(h) : h[i] = IF i <= Len(u) THEN u[i] ELSE t[i - Len(u)]
    BY <1>1, <1>2, <1>3, ConcatProperties
<1> HIDE DEF h
<1>5. \A i \in 1..Len(h) : \/ h[i] = s
                           \/ i - Len(u) \in 1..Len(t) /\ h[i] = t[i - Len(u)]
    BY <1>1, <1>2, <1>3, <1>4
<1>6. \A i \in 1..Len(h) : h[i] # "down"
    BY <1>5 DEF Handler
<1>7. OpensOnce(h)
    <2> SUFFICES ASSUME NEW i \in 1..Len(h), h[i] = "logOn"
                 PROVE  session < OpenBound /\ \A j \in 1..Len(h) : h[j] = "logOn" => j = i
        BY DEF OpensOnce
    <2>1. i - Len(u) \in 1..Len(t) /\ t[i - Len(u)] = "logOn"
        BY <1>5
    <2>2. session < OpenBound
        BY <2>1 DEF Handler, OpensOnce
    <2>3. ASSUME NEW j \in 1..Len(h), h[j] = "logOn" PROVE j = i
        <3>1. j - Len(u) \in 1..Len(t) /\ t[j - Len(u)] = "logOn"
            BY <1>5, <2>3
        <3>2. j - Len(u) = i - Len(u)
            BY <2>1, <3>1 DEF Handler, OpensOnce
        <3> QED BY <3>2, <1>1, <1>3, <1>2
    <2> QED BY <2>2, <2>3
<1>8. Len(h) <= 3
    <2>1. ASSUME NEW m \in 0..1, NEW n \in Nat, n <= 2 PROVE m + n <= 3
        BY <2>1
    <2> QED BY <1>1, <1>2, <1>3, <2>1
<1>9. Handler(h)
    BY <1>3, <1>6, <1>7, <1>8 DEF Handler
<1> QED BY <1>9 DEF h

(* A section done leaves the rest of its handler; one that opens files has *)
(* an opening left, and no other comes after it.                           *)
LEMMA HandlerGoesOn ==
    ASSUME TodoInv, NEW s \in Sections \ {"down"}, Section(s),
           session' = session \/ s = "logOn"
    PROVE  ~Down /\ Handler(todo)' /\ (s = "logOn" => session < OpenBound)
<1>1. todo # <<>> /\ Head(todo) = s /\ todo' = Tail(todo)
    BY DEF Section
<1>2. ~Down /\ Handler(todo)
    <2>1. Head(<<"down">>) = "down"
        OBVIOUS
    <2> QED BY <1>1, <2>1 DEF TodoInv, Down
<1>3. todo \in Seq(Sections) /\ Len(todo) \in 1..3
    <2>1. todo \in Seq(Sections) /\ Len(todo) <= 3
        BY <1>2 DEF Handler
    <2>2. Len(todo) \in Nat \ {0}
        BY <1>1, <2>1, EmptySeq
    <2>3. ASSUME NEW n \in Nat \ {0}, n <= 3 PROVE n \in 1..3
        BY <2>3
    <2> QED BY <2>1, <2>2, <2>3
<1>4. s = todo[1]
    BY <1>1, <1>3
<1> DEFINE t == Tail(todo)
<1>5. /\ t \in Seq(Sections) /\ Len(t) = Len(todo) - 1
      /\ \A i \in 1..Len(t) : i + 1 \in 1..Len(todo) /\ t[i] = todo[i + 1]
    BY <1>1, <1>3, HeadTailProperties
<1> HIDE DEF t
<1>6. s = "logOn" => session < OpenBound /\ \A i \in 1..Len(t) : t[i] # "logOn"
    <2> SUFFICES ASSUME s = "logOn"
                 PROVE  session < OpenBound /\ \A i \in 1..Len(t) : t[i] # "logOn"
        OBVIOUS
    <2>1. 1 \in 1..Len(todo) /\ todo[1] = "logOn"
        BY <1>3, <1>4
    <2>2. session < OpenBound /\ \A j \in 1..Len(todo) : todo[j] = "logOn" => j = 1
        BY <1>2, <2>1 DEF Handler, OpensOnce
    <2>3. \A i \in 1..Len(t) : i + 1 # 1
        BY <1>3, <1>5
    <2> QED BY <1>5, <2>2, <2>3
<1>7. (\A i \in 1..Len(t) : t[i] # "down") /\ Len(t) <= 3
    BY <1>2, <1>3, <1>5 DEF Handler
<1>8. OpensOnce(t)
    <2> SUFFICES ASSUME NEW i \in 1..Len(t), t[i] = "logOn"
                 PROVE  session < OpenBound /\ \A j \in 1..Len(t) : t[j] = "logOn" => j = i
        BY DEF OpensOnce
    <2>1. i + 1 \in 1..Len(todo) /\ todo[i + 1] = "logOn"
        BY <1>5
    <2>2. session < OpenBound /\ \A j \in 1..Len(todo) : todo[j] = "logOn" => j = i + 1
        BY <1>2, <2>1 DEF Handler, OpensOnce
    <2>3. \A j \in 1..Len(t) : t[j] = "logOn" => j + 1 = i + 1
        BY <1>5, <2>2
    <2> QED BY <1>3, <1>5, <2>2, <2>3
<1>9. todo' = t
    BY <1>1 DEF t
<1>10. Handler(todo)'
    BY <1>5, <1>6, <1>7, <1>8, <1>9 DEF Handler, OpensOnce
<1> QED BY <1>2, <1>6, <1>10

(* What the menu begins is a handler.                                      *)
LEMMA HandlerBegins ==
    ASSUME NEW action \in MenuActions, setLoggerReplayMode(action)
    PROVE  Handler(todo)'
<1> DEFINE on == action \notin checked
<1> DEFINE logs == If(checked \cap {"Log", "LogTag"} # {}, "logOff")
<1> DEFINE replays == If("Replay" \in checked, "replayOff")
<1>0. logs \in {<<>>, <<"logOff">>} /\ replays \in {<<>>, <<"replayOff">>}
    BY DEF If
<1>1. action = "Log" /\ on => session < OpenBound
    BY DEF setLoggerReplayMode
<1>2. session' = session
    BY DEF setLoggerReplayMode
<1>3. CASE action = "Replay" /\ on
    <2> DEFINE t == <<"replayOn", "start">>
    <2>1. todo' = logs \o t
        BY <1>3 DEF setLoggerReplayMode
    <2>2. Handler(t) /\ Len(t) <= 2
        BY OneSectionAndStart DEF Sections
    <2>3. Handler(todo')
        <3> HIDE DEF logs, replays, t
        <3> QED BY <1>0, <2>1, <2>2, OffFirst
    <2> QED BY <1>2, <2>3 DEF Handler, OpensOnce
<1>4. CASE action = "Replay" /\ ~on
    <2> DEFINE t == <<"replayOff">>
    <2>1. todo' = logs \o t
        BY <1>4 DEF setLoggerReplayMode
    <2>2. Handler(t) /\ Len(t) <= 2
        BY OneSection DEF Sections
    <2>3. Handler(todo')
        <3> HIDE DEF logs, replays, t
        <3> QED BY <1>0, <2>1, <2>2, OffFirst
    <2> QED BY <1>2, <2>3 DEF Handler, OpensOnce
<1>5. CASE action # "Replay" /\ ~on
    <2> DEFINE t == <<"logOff">>
    <2>1. todo' = replays \o t
        BY <1>5 DEF setLoggerReplayMode
    <2>2. Handler(t) /\ Len(t) <= 2
        BY OneSection DEF Sections
    <2>3. Handler(todo')
        <3> HIDE DEF logs, replays, t
        <3> QED BY <1>0, <2>1, <2>2, OffFirst
    <2> QED BY <1>2, <2>3 DEF Handler, OpensOnce
<1>6. CASE action = "Log" /\ on
    <2> DEFINE t == <<"logOn", "start">>
    <2>1. todo' = replays \o t
        BY <1>6 DEF setLoggerReplayMode
    <2>2. Handler(t) /\ Len(t) <= 2
        BY <1>1, <1>6, OneSectionAndStart DEF Sections
    <2>3. Handler(todo')
        <3> HIDE DEF logs, replays, t
        <3> QED BY <1>0, <2>1, <2>2, OffFirst
    <2> QED BY <1>2, <2>3 DEF Handler, OpensOnce
<1>7. CASE action = "LogTag" /\ on
    <2> DEFINE t == <<>>
    <2>1. todo' = replays \o t
        BY <1>7 DEF setLoggerReplayMode
    <2>2. Handler(t) /\ Len(t) <= 2
        BY NoSection
    <2>3. Handler(todo')
        <3> HIDE DEF logs, replays, t
        <3> QED BY <1>0, <2>1, <2>2, OffFirst
    <2> QED BY <1>2, <2>3 DEF Handler, OpensOnce
<1> QED BY <1>3, <1>4, <1>5, <1>6, <1>7 DEF MenuActions

-----------------------------------------------------------------------------
(* Every step of the operator, the threads and the end of the program. *)

MenuType == checked \subseteq MenuActions /\ widgets \in 0..WidgetBound

ThreadType ==
    /\ logMode \in BOOLEAN /\ replayMode \in BOOLEAN
    /\ closeLogger \in BOOLEAN /\ loggerClosed \in BOOLEAN
    /\ pc \in {"off", "begin", "top", "test", "toAppend", "toWrite", "append",
               "write", "ended", "finishing"}
    /\ pc \in {"top", "test", "toAppend", "toWrite", "append", "write", "ended"}
            <=> ~loggerClosed

SpeaksInSession == logMode => session >= 1

LogInv == ListInv /\ MenuType /\ ThreadType /\ TodoInv /\ SpeaksInSession

(* The parts of the invariant give the type of the state.                  *)
LEMMA LogInvGivesType ==
    ASSUME LogInv
    PROVE  LogTypeOK
<1>1. todo \in Seq(Sections) /\ Len(todo) <= 3
    <2>1. <<"down">> \in Seq(Sections) /\ Len(<<"down">>) = 1
        BY DEF Sections
    <2>2. CASE Down
        BY <2>1, <2>2 DEF Down
    <2>3. CASE Handler(todo)
        BY <2>3 DEF Handler
    <2> QED BY <2>2, <2>3 DEF LogInv, TodoInv
<1> QED BY <1>1 DEF LogInv, ListInv, ListTypes, MenuType, ThreadType, LogTypeOK, Files, TextPairs

(* No step is taken after the end.                                         *)
LEMMA NothingAfterDown ==
    ASSUME Down
    PROVE  ~LogNext
<1>1. Head(<<"down">>) = "down" /\ <<"down">> # <<>>
    OBVIOUS
<1> QED
    BY <1>1 DEF Down, LogNext, setLoggerReplayMode, StartLogfunc, LogOn, LogOff, ReplayOn,
                ReplayOff, Start, Section, debug, exit, fullHandle, run, RunBegin, RunTop,
                RunTest, RunLock, RunAppend, RunWrite, RunEnd, RunFinish, Goes

(* The end of the program: the mutex was held, or the files were closed.   *)
LEMMA StopEffect ==
    ASSUME exit \/ fullHandle
    PROVE  /\ todo' = <<"down">> /\ UNCHANGED <<menu, thread>>
           /\ \/ UNCHANGED <<flags, lists, session, said>>
              \/ /\ closeLogger' = TRUE /\ logMode' = FALSE
                 /\ closeLogFiles
                 /\ UNCHANGED replayMode
<1>1. CASE exit
    BY <1>1 DEF exit, Stop
<1>2. CASE fullHandle
    BY <1>2 DEF fullHandle, Stop
<1> QED BY <1>1, <1>2

(* The rest of the program leaves the handler as it is.                    *)
LEMMA TodoUnchanged ==
    ASSUME TodoInv, UNCHANGED <<todo, session>>
    PROVE  TodoInv'
BY DEF TodoInv, Down, Handler, OpensOnce

(* Every step keeps the invariant.                                         *)
LEMMA StepKeepsLogInv ==
    ASSUME LogInv, [LogNext]_logVars
    PROVE  LogInv'
<1> USE DEF LogInv
<1>0. session \in 0..OpenBound /\ WidgetBound \in Nat
    BY GameLogAssumption DEF ListInv, ListTypes
<1>1. ASSUME NEW action \in MenuActions, setLoggerReplayMode(action)
      PROVE  LogInv'
    <2>1. ListInv'
        BY <1>1, IdleKeepsFrames DEF setLoggerReplayMode
    <2>2. TodoInv'
        BY <1>1, HandlerBegins DEF TodoInv
    <2>3. MenuType'
        <3>1. checked' \subseteq MenuActions
            BY <1>1 DEF setLoggerReplayMode, MenuType
        <3>2. widgets' \in {widgets, widgets + 1} /\ widgets' <= WidgetBound
            BY <1>1 DEF setLoggerReplayMode
        <3> QED BY <1>0, <3>1, <3>2 DEF MenuType
    <2>4. ThreadType' /\ SpeaksInSession'
        BY <1>1 DEF setLoggerReplayMode, flags, thread, ThreadType, SpeaksInSession
    <2> QED BY <2>1, <2>2, <2>3, <2>4
<1>2. CASE StartLogfunc
    <2>1. ListInv'
        BY <1>2, IdleKeepsFrames DEF StartLogfunc
    <2>2. TodoInv'
        <3> DEFINE t == <<"logOn", "start">>
        <3>1. Handler(t)
            BY <1>2, OneSectionAndStart DEF StartLogfunc, Sections
        <3>2. todo' = t /\ session' = session
            BY <1>2 DEF StartLogfunc
        <3> HIDE DEF t
        <3> QED BY <3>1, <3>2 DEF TodoInv, Handler, OpensOnce
    <2>3. MenuType'
        BY <1>0, <1>2 DEF StartLogfunc, MenuType
    <2>4. ThreadType' /\ SpeaksInSession'
        BY <1>2 DEF StartLogfunc, flags, thread, ThreadType, SpeaksInSession
    <2> QED BY <2>1, <2>2, <2>3, <2>4
<1>3. CASE LogOn
    <2>1. Section("logOn") /\ openFilesToLog /\ session' = session + 1
        BY <1>3 DEF LogOn, openFilesToLog
    <2>2. TodoInv' /\ session < OpenBound
        BY <1>0, <2>1, HandlerGoesOn DEF Sections, TodoInv
    <2>3. ListInv' /\ session' >= 1
        BY <2>1, <2>2, OpenKeepsFrames
    <2>4. MenuType' /\ ThreadType'
        BY <1>3 DEF LogOn, Section, MenuType, ThreadType
    <2> QED BY <2>2, <2>3, <2>4 DEF SpeaksInSession
<1>4. CASE LogOff
    <2>1. Section("logOff") /\ closeLogFiles /\ session' = session /\ logMode' = FALSE
        BY <1>4 DEF LogOff, closeLogFiles
    <2>2. TodoInv'
        BY <1>0, <2>1, HandlerGoesOn DEF Sections, TodoInv
    <2>3. ListInv'
        BY <2>1, CloseKeepsFrames
    <2>4. MenuType' /\ ThreadType' /\ SpeaksInSession'
        BY <1>4 DEF LogOff, Section, MenuType, ThreadType, SpeaksInSession
    <2> QED BY <2>2, <2>3, <2>4
<1>5. CASE ReplayOn \/ ReplayOff \/ Start
    <2>1. ListInv' /\ session' = session
        BY <1>5, IdleKeepsFrames DEF ReplayOn, ReplayOff, Start
    <2>2. TodoInv'
        <3>1. \E s \in {"replayOn", "replayOff", "start"} : Section(s)
            BY <1>5 DEF ReplayOn, ReplayOff, Start
        <3> QED BY <2>1, <3>1, HandlerGoesOn DEF Sections, TodoInv
    <2>3. MenuType'
        BY <1>5 DEF ReplayOn, ReplayOff, Start, Section, MenuType
    <2>4. SpeaksInSession'
        BY <1>5, <2>1 DEF ReplayOn, ReplayOff, Start, flags, SpeaksInSession
    <2>5. ThreadType'
        <3>1. CASE ReplayOn
            BY <3>1 DEF ReplayOn, Section, ThreadType
        <3>2. CASE ReplayOff
            BY <3>2 DEF ReplayOff, Section, ThreadType
        <3>3. CASE Start
            BY <3>3 DEF Start, Section, flags, ThreadType
        <3> QED BY <1>5, <3>1, <3>2, <3>3
    <2> QED BY <2>1, <2>2, <2>3, <2>4, <2>5
<1>6. CASE debug
    <2>1. session >= 1 /\ UNCHANGED <<menu, todo, flags, thread, session>>
        BY <1>6 DEF debug, SpeaksInSession
    <2>2. ListInv'
        BY <1>6, <2>1, DebugKeepsFrames
    <2>3. TodoInv'
        BY <2>1, TodoUnchanged
    <2> QED BY <2>1, <2>2, <2>3 DEF menu, flags, thread, MenuType, ThreadType, SpeaksInSession
<1>7. CASE exit \/ fullHandle
    <2>1. ListInv'
        BY <1>7, StopEffect, IdleKeepsFrames, CloseKeepsFrames
    <2>2. TodoInv'
        BY <1>7, StopEffect DEF TodoInv, Down
    <2>3. MenuType'
        BY <1>7, StopEffect DEF menu, MenuType
    <2>4. ThreadType'
        <3>1. pc' = pc /\ loggerClosed' = loggerClosed /\ replayMode' = replayMode
            BY <1>7, StopEffect DEF thread, flags
        <3>2. logMode' \in BOOLEAN /\ closeLogger' \in BOOLEAN
            <4>1. CASE UNCHANGED flags
                BY <4>1 DEF flags, ThreadType
            <4>2. CASE closeLogger' = TRUE /\ logMode' = FALSE
                BY <4>2
            <4> QED BY <1>7, <4>1, <4>2, StopEffect
        <3> QED BY <3>1, <3>2 DEF ThreadType
    <2>5. SpeaksInSession'
        BY <1>7, StopEffect DEF flags, SpeaksInSession
    <2> QED BY <2>1, <2>2, <2>3, <2>4, <2>5
<1>8. CASE run
    <2>1. Quiet
        BY <1>8 DEF run, RunBegin, RunTop, RunTest, RunLock, RunAppend, RunWrite, RunEnd, RunFinish
    <2>2. TodoInv' /\ MenuType' /\ SpeaksInSession'
        BY <2>1, TodoUnchanged DEF Quiet, menu, flags, MenuType, SpeaksInSession
    <2>3. ListInv'
        <3>1. CASE RunAppend
            BY <3>1, AppendKeepsFrames
        <3>2. CASE RunWrite
            BY <3>2, WriteKeepsFrames
        <3>3. CASE RunBegin \/ RunTop \/ RunTest \/ RunLock \/ RunEnd \/ RunFinish
            BY <2>1, <3>3, IdleKeepsFrames
               DEF RunBegin, RunTop, RunTest, RunLock, RunEnd, RunFinish, Quiet
        <3> QED BY <1>8, <3>1, <3>2, <3>3 DEF run
    <2>4. ThreadType'
        <3>1. UNCHANGED <<logMode, replayMode, closeLogger>>
            BY <2>1 DEF Quiet, flags
        <3>2. CASE RunBegin
            BY <3>1, <3>2 DEF RunBegin, Goes, ThreadType, ClosedAtBegin
        <3>3. CASE RunEnd
            BY <3>1, <3>3 DEF RunEnd, Goes, ThreadType
        <3>4. CASE RunFinish
            BY <3>1, <3>4 DEF RunFinish, Goes, ThreadType
        <3>5. CASE RunTop
            BY <3>1, <3>5 DEF RunTop, Goes, ThreadType
        <3>6. CASE RunTest \/ RunLock
            BY <3>1, <3>6 DEF RunTest, RunLock, Goes, ThreadType
        <3>7. CASE RunAppend \/ RunWrite
            BY <3>1, <3>7 DEF RunAppend, RunWrite, Goes, ThreadType
        <3> QED BY <1>8, <3>2, <3>3, <3>4, <3>5, <3>6, <3>7 DEF run
    <2> QED BY <2>2, <2>3, <2>4
<1>9. CASE UNCHANGED logVars
    <2>1. ListInv'
        BY <1>9, IdleKeepsFrames DEF logVars
    <2>2. TodoInv'
        BY <1>9, TodoUnchanged DEF logVars
    <2> QED
        BY <1>9, <2>1, <2>2 DEF logVars, menu, flags, thread, MenuType, ThreadType, SpeaksInSession
<1> QED
    BY <1>1, <1>2, <1>3, <1>4, <1>5, <1>6, <1>7, <1>8, <1>9 DEF LogNext

(* The invariant holds from the start.                                     *)
LEMMA LogInvHolds == LogSpec => []LogInv
<1>1. LogInit => LogInv
    <2> SUFFICES ASSUME LogInit PROVE LogInv
        OBVIOUS
    <2>1. ListInv
        BY GameLogAssumption, OneFrame
           DEF LogInit, ListInv, ListTypes, FramesAgree, EmptyFile, Files
    <2>2. TodoInv
        BY NoSection DEF LogInit, TodoInv
    <2>3. MenuType
        BY GameLogAssumption DEF LogInit, MenuType
    <2>4. ThreadType /\ SpeaksInSession
        BY DEF LogInit, ThreadType, SpeaksInSession
    <2> QED BY <2>1, <2>2, <2>3, <2>4 DEF LogInv
<1>2. LogInv /\ [LogNext]_logVars => LogInv'
    BY StepKeepsLogInv
<1> QED BY <1>1, <1>2, PTL DEF LogSpec

(* The state of the logger keeps its type: a thread that was started and   *)
(* has not ended has said so, and no text belongs to a session that was    *)
(* never opened.                                                           *)
THEOREM LogTypeCorrect == LogSpec => []LogTypeOK
<1>1. LogInv => LogTypeOK
    BY LogInvGivesType
<1> QED BY <1>1, LogInvHolds, PTL

(* Packet n of a log always has frame n of its debug and draw files, for   *)
(* every number of sessions, frames and texts, and wherever a stop or a    *)
(* switch of the operator falls into the thread's round.                   *)
THEOREM FramesAlwaysAgree == LogSpec => []FramesAgree
<1>1. LogInv => FramesAgree
    BY DEF LogInv, ListInv
<1> QED BY <1>1, LogInvHolds, PTL

-----------------------------------------------------------------------------
(***************************************************************************)
(* The logger keeps the book LogBook describes.  Opening files maps to     *)
(* Open, or to OpenOverOpen while others are open, a call of debug() to    *)
(* Say, the thread's write to Save, closing to Close and an end that finds *)
(* the mutex held to Crash; when no file is open, and for every other      *)
(* step, the book does not move.                                           *)
(***************************************************************************)

(* A step that changes neither the texts nor the files.                    *)
LEMMA BookStutters ==
    ASSUME ~Down, ~Down', Pending' = Pending, UNCHANGED <<file, fileLogError>>
    PROVE  UNCHANGED Book!bookVars
BY DEF Book!bookVars

(* Only the end of the program takes it down.                              *)
LEMMA OthersKeepRunning ==
    ASSUME ~Down, todo' = todo
    PROVE  ~Down'
BY DEF Down

(* No section of a handler does.                                           *)
LEMMA SectionsKeepRunning ==
    ASSUME LogInv, NEW s \in Sections \ {"down"}, Section(s),
           session' = session \/ s = "logOn"
    PROVE  ~Down /\ ~Down'
<1>1. ~Down /\ Handler(todo)'
    BY HandlerGoesOn DEF LogInv, ListInv, ListTypes
<1> QED BY <1>1, HandlerIsUp DEF Down

(* The files opened begin an empty page, whatever was open before.         *)
LEMMA BookOpens ==
    ASSUME LogInv, LogOn
    PROVE  Book!Open \/ Book!OpenOverOpen
<1>1. Section("logOn") /\ openFilesToLog /\ session' = session + 1
    BY DEF LogOn, openFilesToLog
<1>2. session < OpenBound
    BY <1>1, HandlerGoesOn DEF Sections, LogInv, ListInv, ListTypes
<1>3. file'.texts = {} /\ Pending' = {}
    BY <1>1, <1>2, OpenKeepsFrames DEF LogInv
<1> QED BY <1>3 DEF Book!Open, Book!OpenOverOpen

(* Closing open files saves the page; closing closed ones does nothing.    *)
LEMMA BookCloses ==
    ASSUME LogInv, closeLogFiles, ~Down
    PROVE  Book!Close \/ UNCHANGED Book!bookVars
<1>1. /\ fileLogError' = TRUE
      /\ file'.texts = IF fileLogError THEN file.texts ELSE file.texts \cup Pending
    BY CloseKeepsFrames DEF LogInv
<1>2. CASE fileLogError
    BY <1>1, <1>2 DEF Book!bookVars
<1>3. CASE ~fileLogError
    BY <1>1, <1>3 DEF Book!Close
<1> QED BY <1>2, <1>3

(* A text goes on the open page.                                           *)
LEMMA BookIsSpokenTo ==
    ASSUME LogInv, debug
    PROVE  (\E t \in TextPairs : Book!Say(t)) \/ UNCHANGED Book!bookVars
<1>1. ~Down /\ ~Down' /\ UNCHANGED <<file, fileLogError>> /\ session >= 1 /\ said < TextBound
    <2>1. ~Down /\ todo' = todo
        BY DEF debug
    <2>2. UNCHANGED <<file, fileLogError>> /\ session >= 1 /\ said < TextBound
        BY DEF debug, LogInv, SpeaksInSession
    <2> QED BY <2>1, <2>2, OthersKeepRunning
<1>2. CASE fileLogError
    BY <1>1, <1>2 DEF Book!bookVars
<1>3. CASE ~fileLogError
    <2> DEFINE t == <<session, said + 1>>
    <2>1. t \in TextPairs
        BY <1>1, GameLogAssumption DEF TextPairs, LogInv, ListInv, ListTypes
    <2>2. Pending' = Pending \cup {t}
        BY <1>1, <1>3, DebugKeepsFrames DEF LogInv
    <2> HIDE DEF t
    <2>3. Book!Say(t)
        BY <1>1, <1>3, <2>2 DEF Book!Say
    <2> QED BY <2>1, <2>3
<1> QED BY <1>2, <1>3

(* The thread's write saves the page, if the files are open.               *)
LEMMA BookIsSaved ==
    ASSUME LogInv, RunWrite
    PROVE  Book!Save \/ UNCHANGED Book!bookVars
<1>1. ~Down /\ ~Down'
    BY OthersKeepRunning DEF RunWrite, Goes, Quiet
<1>2. /\ Pending' = {} /\ fileLogError' = fileLogError
      /\ file'.texts = IF fileLogError THEN file.texts ELSE file.texts \cup Pending
    BY WriteKeepsFrames DEF LogInv
<1>3. CASE fileLogError
    BY <1>1, <1>2, <1>3 DEF Book!bookVars
<1>4. CASE ~fileLogError
    BY <1>1, <1>2, <1>4 DEF Book!Save
<1> QED BY <1>3, <1>4

(* The end of the program closes the book or leaves what was safe.         *)
LEMMA BookAtTheEnd ==
    ASSUME LogInv, exit \/ fullHandle
    PROVE  Book!Close \/ Book!Crash \/ UNCHANGED Book!bookVars
<1>1. ~Down /\ Down'
    BY StopEffect, NothingAfterDown DEF Down, LogNext
<1>2. CASE closeLogFiles
    BY <1>1, <1>2, BookCloses
<1>3. CASE UNCHANGED lists
    <2>1. CASE fileLogError
        BY <1>1, <1>3, <2>1 DEF lists, Book!bookVars
    <2>2. CASE ~fileLogError
        BY <1>1, <1>3, <2>2 DEF lists, Book!Crash
    <2> QED BY <2>1, <2>2
<1> QED BY <1>2, <1>3, StopEffect

(* Every step is one of the book's, or none.                               *)
LEMMA StepKeepsBook ==
    ASSUME LogInv, [LogNext]_logVars
    PROVE  [Book!Next]_(Book!bookVars)
<1>1. ASSUME NEW action \in MenuActions, setLoggerReplayMode(action)
      PROVE  UNCHANGED Book!bookVars
    <2>1. ~Down /\ ~Down'
        BY <1>1, HandlerBegins, HandlerIsUp, NothingAfterDown DEF LogNext, Down
    <2>2. UNCHANGED <<lists, session, said>>
        BY <1>1 DEF setLoggerReplayMode
    <2> QED BY <2>1, <2>2, IdleKeepsFrames, BookStutters DEF LogInv, lists
<1>2. CASE StartLogfunc
    <2>1. ~Down /\ ~Down'
        <3>1. <<>> # <<"down">> /\ <<"logOn", "start">> # <<"down">>
            OBVIOUS
        <3> QED BY <1>2, <3>1 DEF StartLogfunc, Down
    <2>2. UNCHANGED <<lists, session, said>>
        BY <1>2 DEF StartLogfunc
    <2> QED BY <2>1, <2>2, IdleKeepsFrames, BookStutters DEF LogInv, lists
<1>3. CASE LogOn
    BY <1>3, BookOpens DEF Book!Next
<1>4. CASE LogOff
    <2>1. Section("logOff") /\ closeLogFiles /\ session' = session
        BY <1>4 DEF LogOff, closeLogFiles
    <2> QED BY <2>1, SectionsKeepRunning, BookCloses DEF Sections, Book!Next
<1>5. CASE ReplayOn \/ ReplayOff \/ Start
    <2>1. UNCHANGED <<lists, session, said>>
        BY <1>5 DEF ReplayOn, ReplayOff, Start
    <2>2. \E s \in {"replayOn", "replayOff", "start"} : Section(s)
        BY <1>5 DEF ReplayOn, ReplayOff, Start
    <2>3. ~Down /\ ~Down'
        BY <2>1, <2>2, SectionsKeepRunning DEF Sections
    <2> QED BY <2>1, <2>3, IdleKeepsFrames, BookStutters DEF LogInv, lists
<1>6. CASE debug
    BY <1>6, BookIsSpokenTo DEF Book!Next, TextPairs
<1>7. CASE exit \/ fullHandle
    BY <1>7, BookAtTheEnd DEF Book!Next
<1>8. CASE run
    <2>1. ~Down /\ ~Down'
        <3>1. ~Down /\ Quiet
            BY <1>8 DEF run, RunBegin, RunTop, RunTest, RunLock, RunAppend, RunWrite, RunEnd,
                        RunFinish, Goes
        <3> QED BY <3>1, OthersKeepRunning DEF Quiet
    <2>2. CASE RunAppend
        BY <2>1, <2>2, AppendKeepsFrames, BookStutters DEF LogInv
    <2>3. CASE RunWrite
        BY <2>3, BookIsSaved DEF Book!Next
    <2>4. CASE RunBegin \/ RunTop \/ RunTest \/ RunLock \/ RunEnd \/ RunFinish
        <3>1. UNCHANGED <<lists, session, said>>
            BY <2>4 DEF RunBegin, RunTop, RunTest, RunLock, RunEnd, RunFinish, Quiet
        <3> QED BY <2>1, <3>1, IdleKeepsFrames, BookStutters DEF LogInv, lists
    <2> QED BY <1>8, <2>2, <2>3, <2>4 DEF run
<1>9. CASE UNCHANGED logVars
    BY <1>9 DEF logVars, lists, Book!bookVars, Down, Pending
<1> QED
    BY <1>1, <1>2, <1>3, <1>4, <1>5, <1>6, <1>7, <1>8, <1>9 DEF LogNext

(* Whatever is said while the files are open is in the files of that       *)
(* session once they are closed, and nothing of another session is; only a *)
(* crash, and an opening over a log that still runs, lose what was said    *)
(* since the last write: the logger implements LogBook.                    *)
THEOREM LoggerKeepsBook == LogSpec => BookKept
<1>1. LogInit => Book!Init
    <2>1. <<>> # <<"down">>
        OBVIOUS
    <2> QED BY <2>1 DEF LogInit, Book!Init, EmptyFile
<1>2. LogInv /\ [LogNext]_logVars => [Book!Next]_(Book!bookVars)
    BY StepKeepsBook
<1> QED BY <1>1, <1>2, LogInvHolds, PTL DEF LogSpec, BookKept, Book!Spec
=============================================================================
