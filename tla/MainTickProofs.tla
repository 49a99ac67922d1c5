---------------------------- MODULE MainTickProofs ----------------------------
(***************************************************************************)
(* Proofs about MainTick: types, and that nothing of a channel that was    *)
(* left is shown, nor spoken unless it was on screen at the change, for    *)
(* any channels, settings, rings, speech queue and panel.                  *)
(*                                                                         *)
(* What waits in a ring, in the panel and in the speech queue is of the    *)
(* channel that is set: rings and queue because they are emptied with the  *)
(* change, the panel because the change makes the next report repaint it.  *)
(* The queue's exception is the message that is put back from the screen.  *)
(***************************************************************************)
EXTENDS MainTick, SequenceTheorems, TLAPS

MessagesOf(o) == [from : {o}, kind : AllKinds]

(* What can be popped is of the channel that is read, or from the helper. *)
RingsOwn ==
  /\ chatFor = sChannel
  /\ chatFor # NoChannel => chatRing \in Seq(MessagesOf(chatFor))
  /\ helperRing \in Seq(MessagesOf(Helper))

(* The panel shows the channel's lines, or the report that is due will blank it. *)
PanelOwn ==
  sChannel # NoChannel /\ (pc = "report" => sLastState # "unset")
  => log \in Seq({sChannel, Helper})

IInv == TypeOK /\ RingsOwn /\ PanelOwn /\ SpeechOwnChannel

-----------------------------------------------------------------------------
(* The types in parts: the panel, the frame, the readers. *)
PanelTyped == OverlayTypeOK

FrameTyped ==
  /\ config \in Configs /\ settings \in Configs
  /\ sFrame \in 0..(ChannelPoll - 1) /\ drained \in 0..PerFrame
  /\ pc \in {"frame", "settings", "channel", "report", "drain"}
  /\ sLastLines \in Nat /\ sOverlayVisible \in BOOLEAN
  /\ sRedemptionsWanted \in {-1, 0, 1}
  /\ sChannel \in Names /\ sPendingChannel \in Names
  /\ sLastState \in States \cup {"unset"}

ReadersTyped ==
  /\ chatFor \in Names /\ chatState \in States
  /\ chatRing \in Seq(Messages) /\ Len(chatRing) <= RingSize
  /\ helperOn \in BOOLEAN /\ helperRing \in Seq(Messages) /\ Len(helperRing) <= RingSize

SpeechTyped ==
  /\ speech \in Seq(Origins) /\ Len(speech) <= SpeechSize
  /\ showing \in Origins \cup {Nothing} /\ leftShowing \in Origins \cup {Nothing}

LEMMA Parts == TypeOK <=> PanelTyped /\ FrameTyped /\ ReadersTyped /\ SpeechTyped
BY DEF TypeOK, PanelTyped, FrameTyped, ReadersTyped, SpeechTyped

LEMMA ConfigFields ==
  ASSUME NEW c \in Configs
  PROVE  /\ c.channel \in Names /\ c.trigger \in Triggers /\ c.lines \in Nat
         /\ c.anyone \in BOOLEAN /\ c.hide \in BOOLEAN /\ c.enabled \in BOOLEAN
BY ConfigsAssumption DEF Names

(* What a ring of one origin's messages holds after a push and after a pop. *)
LEMMA RingPushed ==
  ASSUME NEW S, NEW ring \in Seq(S), NEW m \in S, Len(ring) <= RingSize
  PROVE  Pushed(ring, m) \in Seq(S) /\ Len(Pushed(ring, m)) <= RingSize
<1>1. CASE Len(ring) = RingSize
  <2>1. Tail(ring) \in Seq(S) /\ Len(Tail(ring)) = RingSize - 1
    BY <1>1, RingSizeAssumption
  <2> QED
    BY <1>1, <2>1, RingSizeAssumption DEF Pushed
<1>2. CASE Len(ring) # RingSize
  BY <1>2, RingSizeAssumption DEF Pushed
<1> QED
  BY <1>1, <1>2

LEMMA RingPopped ==
  ASSUME NEW S, NEW ring \in Seq(S), ring # <<>>
  PROVE  Head(ring) \in S /\ Tail(ring) \in Seq(S) /\ Len(Tail(ring)) = Len(ring) - 1 /\ Len(ring) \in Nat
OBVIOUS

(* Where the entries of the speech queue were before each operation on it. *)
LEMMA EnqueuedFrom ==
  ASSUME NEW q \in Seq(Origins), Len(q) <= SpeechSize, NEW o \in Origins
  PROVE  /\ Waiting!Enqueue(q, o) \in Seq(Origins) /\ Len(Waiting!Enqueue(q, o)) <= SpeechSize
         /\ \A i \in 1..Len(Waiting!Enqueue(q, o)) :
              \/ Waiting!Enqueue(q, o)[i] = o
              \/ i \in 1..Len(q) /\ Waiting!Enqueue(q, o)[i] = q[i]
              \/ i + 1 \in 1..Len(q) /\ Waiting!Enqueue(q, o)[i] = q[i + 1]
<1> DEFINE rest == IF Waiting!Full(q) THEN Tail(q) ELSE q
<1>1. SpeechSize \in Nat \ {0} /\ Len(q) \in Nat
  BY FramesAssumption
<1>2. /\ rest \in Seq(Origins) /\ Len(rest) < SpeechSize
      /\ \A i \in 1..Len(rest) :
           \/ i \in 1..Len(q) /\ rest[i] = q[i]
           \/ i + 1 \in 1..Len(q) /\ rest[i] = q[i + 1]
  <2>1. CASE Waiting!Full(q)
    <3>1. q # <<>>
      BY <1>1, <2>1 DEF Waiting!Full
    <3>2. /\ Tail(q) \in Seq(Origins) /\ Len(Tail(q)) = Len(q) - 1
          /\ \A i \in 1..Len(Tail(q)) : Tail(q)[i] = q[i + 1]
      BY <3>1, HeadTailProperties
    <3> QED
      BY <1>1, <2>1, <3>2
  <2>2. CASE ~Waiting!Full(q)
    <3>1. Len(q) < SpeechSize /\ rest = q
      BY <1>1, <2>2 DEF Waiting!Full
    <3> QED
      BY <3>1
  <2> QED
    BY <2>1, <2>2
<1>3. Waiting!Enqueue(q, o) = Append(rest, o)
  BY DEF Waiting!Enqueue
<1> HIDE DEF rest
<1>4. /\ Append(rest, o) \in Seq(Origins) /\ Len(Append(rest, o)) = Len(rest) + 1
      /\ \A i \in 1..Len(rest) : Append(rest, o)[i] = rest[i]
      /\ Append(rest, o)[Len(rest) + 1] = o
  BY <1>2, AppendProperties
<1>5. Len(rest) \in Nat
  BY <1>2, LenProperties
<1> QED
  BY <1>1, <1>2, <1>3, <1>4, <1>5

LEMMA RequeuedFrom ==
  ASSUME NEW q \in Seq(Origins), Len(q) <= SpeechSize, NEW o \in Origins
  PROVE  /\ Waiting!RequeueFront(q, o) \in Seq(Origins) /\ Len(Waiting!RequeueFront(q, o)) <= SpeechSize
         /\ \A i \in 1..Len(Waiting!RequeueFront(q, o)) :
              \/ i = 1 /\ Waiting!RequeueFront(q, o)[i] = o
              \/ i - 1 \in 1..Len(q) /\ Waiting!RequeueFront(q, o)[i] = q[i - 1]
<1> DEFINE n    == Len(q) - 1
           rest == IF Waiting!Full(q) THEN SubSeq(q, 1, n) ELSE q
<1>1. SpeechSize \in Nat \ {0} /\ Len(q) \in Nat
  BY FramesAssumption
<1>2. /\ rest \in Seq(Origins) /\ Len(rest) < SpeechSize /\ Len(rest) <= Len(q)
      /\ \A i \in 1..Len(rest) : rest[i] = q[i]
  <2>1. CASE Waiting!Full(q)
    <3>1. n \in Nat /\ n < SpeechSize /\ n <= Len(q)
      BY <1>1, <2>1 DEF Waiting!Full
    <3>2. \A i \in 1..n : q[i] \in Origins
      BY <3>1
    <3> HIDE DEF n
    <3>3. /\ SubSeq(q, 1, n) \in Seq(Origins)
          /\ Len(SubSeq(q, 1, n)) = IF 1 <= n THEN n - 1 + 1 ELSE 0
          /\ \A i \in 1..(n - 1 + 1) : SubSeq(q, 1, n)[i] = q[1 + i - 1]
      <4>1. n \in Int /\ 1 \in Int
        BY <3>1
      <4> QED
        BY <3>2, <4>1, SubSeqProperties
    <3>4. Len(SubSeq(q, 1, n)) = n /\ \A i \in 1..n : 1 + i - 1 = i /\ i \in 1..(n - 1 + 1)
      BY <3>1, <3>3
    <3> QED
      BY <2>1, <3>1, <3>3, <3>4
  <2>2. CASE ~Waiting!Full(q)
    BY <1>1, <2>2 DEF Waiting!Full
  <2> QED
    BY <2>1, <2>2
<1>3. Waiting!RequeueFront(q, o) = <<o>> \o rest
  BY DEF Waiting!RequeueFront
<1> HIDE DEF rest
<1>4. <<o>> \in Seq(Origins) /\ Len(<<o>>) = 1 /\ <<o>>[1] = o
  OBVIOUS
<1>5. /\ <<o>> \o rest \in Seq(Origins) /\ Len(<<o>> \o rest) = 1 + Len(rest)
      /\ \A i \in 1..(1 + Len(rest)) : (<<o>> \o rest)[i] = IF i <= 1 THEN <<o>>[i] ELSE rest[i - 1]
  BY <1>2, <1>4, ConcatProperties
<1>6. Len(rest) \in Nat
  BY <1>2, LenProperties
<1>7. \A i \in 1..(1 + Len(rest)) : i = 1 \/ (i - 1 \in 1..Len(rest) /\ i - 1 \in 1..Len(q))
  BY <1>1, <1>2, <1>6
<1> QED
  BY <1>1, <1>2, <1>3, <1>4, <1>5, <1>6, <1>7

LEMMA ClearedIs ==
  ASSUME NEW q \in Seq(Origins), Len(q) <= SpeechSize, NEW r \in Waiting!RedemptionsOf(q)
  PROVE  /\ r \in Seq(Origins) /\ Len(r) <= SpeechSize
         /\ \A i \in 1..Len(r) : r[i] = Helper
<1> DEFINE kept == {i \in 1..Len(q) : q[i] \notin Channels}
<1>0. PICK n \in 0..Len(q) : \E f \in Waiting!InOrder(kept, n) : r = [j \in 1..n |-> q[f[j]]]
  BY DEF Waiting!RedemptionsOf
<1>1. PICK f \in Waiting!InOrder(kept, n) : r = [j \in 1..n |-> q[f[j]]]
  BY <1>0
<1>2. \A j \in 1..n : f[j] \in 1..Len(q) /\ q[f[j]] \notin Channels
  BY <1>1 DEF Waiting!InOrder
<1>3. \A j \in 1..n : q[f[j]] \in Origins /\ q[f[j]] = Helper
  BY <1>2 DEF Origins
<1>4. n \in Nat /\ n <= SpeechSize
  BY FramesAssumption
<1> QED
  BY <1>1, <1>3, <1>4

-----------------------------------------------------------------------------
(* The panel. *)

LEMMA ClampRange == ASSUME NEW n \in Nat PROVE Clamp(n) \in 1..MaxLines
BY MaxLinesAssumption DEF Clamp

LEMMA RefreshedTyped ==
  ASSUME PanelTyped, NEW used \in 0..(2 * MaxLines), NEW count \in 0..MaxLines,
         NEW lines \in [Slots -> Lines \cup {Blank}]
  PROVE  Refreshed(used, lines, count) \in [1..MaxLines -> Lines \cup {Blank, Status}]
<1>1. ASSUME NEW i \in 1..MaxLines, NEW x \in Nat
      PROVE  lines[x % MaxLines] \in Lines \cup {Blank}
  BY <1>1, MaxLinesAssumption DEF Slots
<1>2. FirstShown(used, count) \in Nat
  BY MaxLinesAssumption DEF FirstShown
<1>3. ASSUME NEW i \in 1..MaxLines PROVE FirstShown(used, count) + i - 1 \in Nat
  BY <1>2, MaxLinesAssumption
<1> QED
  BY <1>1, <1>3 DEF Refreshed, PanelTyped, OverlayTypeOK

(* The lines the panel may hold are of some set; what is pushed is in it. *)
LEMMA PushTyped ==
  ASSUME PanelTyped, NEW l \in Lines, overlay_push_line(l), UNCHANGED sShown
  PROVE  PanelTyped' /\ \A S : l \in S /\ log \in Seq(S) => log' \in Seq(S)
<1> USE MaxLinesAssumption DEF PanelTyped, OverlayTypeOK
<1>1. sLines' \in [Slots -> Lines \cup {Blank}] /\ sUsed' \in 0..(2 * MaxLines - 1)
  <2>1. sLines' = [sLines EXCEPT ![sUsed % MaxLines] = l] /\ sUsed' = Counted(sUsed)
    BY DEF overlay_push_line
  <2>2. [sLines EXCEPT ![sUsed % MaxLines] = l] \in [Slots -> Lines \cup {Blank}]
    OBVIOUS
  <2>3. Counted(sUsed) \in 0..(2 * MaxLines - 1)
    BY DEF Counted
  <2> QED
    BY <2>1, <2>2, <2>3
<1>2. rows' \in [1..MaxLines -> Lines \cup {Blank, Status}]
  <2>1. sUsed + 1 \in 0..(2 * MaxLines)
    OBVIOUS
  <2>2. rows' = Refreshed(sUsed + 1, sLines', lineCount)
    BY DEF overlay_push_line
  <2> QED
    BY <2>1, <2>2, <1>1, RefreshedTyped
<1>3. ASSUME NEW S, l \in S, log \in Seq(S) PROVE log' \in Seq(S) /\ Len(log') <= MaxLines
  <2>1. Append(log, l) \in Seq(S) /\ Len(Append(log, l)) = Len(log) + 1 /\ Append(log, l) # <<>>
    BY <1>3
  <2>2. Tail(Append(log, l)) \in Seq(S) /\ Len(Tail(Append(log, l))) = Len(log)
    BY <2>1
  <2>3. log' = IF Len(Append(log, l)) > MaxLines THEN Tail(Append(log, l)) ELSE Append(log, l)
    BY DEF overlay_push_line
  <2>4. Len(log) \in Nat /\ Len(log) <= MaxLines
    OBVIOUS
  <2> QED
    BY <2>1, <2>2, <2>3, <2>4
<1>4. log' \in Seq(Lines) /\ Len(log') <= MaxLines
  BY <1>3
<1> QED
  BY <1>1, <1>2, <1>3, <1>4 DEF overlay_push_line

LEMMA LaidOutTyped ==
  ASSUME PanelTyped, NEW n \in Nat, sShown' \in BOOLEAN,
         overlay_create(n) \/ overlay_apply_settings(n)
  PROVE  PanelTyped' /\ UNCHANGED log
<1>1. Clamp(n) \in 0..MaxLines /\ sUsed \in 0..(2 * MaxLines)
  BY ClampRange, MaxLinesAssumption DEF PanelTyped, OverlayTypeOK
<1>2. Refreshed(sUsed, sLines, Clamp(n)) \in [1..MaxLines -> Lines \cup {Blank, Status}]
  BY <1>1, RefreshedTyped DEF PanelTyped, OverlayTypeOK
<1> QED
  BY <1>1, <1>2 DEF PanelTyped, OverlayTypeOK, overlay_create, overlay_apply_settings

LEMMA StatusTyped ==
  ASSUME PanelTyped, overlay_set_status, UNCHANGED sShown
  PROVE  PanelTyped' /\ log' = <<>>
BY MaxLinesAssumption DEF PanelTyped, OverlayTypeOK, overlay_set_status

-----------------------------------------------------------------------------
LEMMA Bounds ==
  /\ MaxLines \in Nat \ {0} /\ SettingsPoll \in Nat \ {0} /\ ChannelPoll \in Nat \ {0}
  /\ PerFrame \in Nat \ {0} /\ RingSize \in Nat \ {0}
  /\ NoChannel \notin Channels /\ Lines = Channels \cup {Helper} /\ Kinds \subseteq AllKinds
BY MaxLinesAssumption, FramesAssumption, RingSizeAssumption, NamesAssumption, KindsAssumption

LEMMA InitIInv == Init => IInv
<1> SUFFICES ASSUME Init PROVE IInv
  OBVIOUS
<1>1. PanelTyped
  <2>1. [s \in Slots |-> Blank] \in [Slots -> Lines \cup {Blank}]
    OBVIOUS
  <2>2. [i \in 1..MaxLines |-> Blank] \in [1..MaxLines -> Lines \cup {Blank, Status}]
    OBVIOUS
  <2>3. <<>> \in Seq(Lines) /\ Len(<<>>) <= MaxLines /\ 0 \in 0..MaxLines /\ 0 \in 0..(2 * MaxLines - 1)
    BY MaxLinesAssumption
  <2> QED
    BY <2>1, <2>2, <2>3 DEF Init, OverlayInit, PanelTyped, OverlayTypeOK
<1>2. FrameTyped
  <2>1. 0 \in 0..(ChannelPoll - 1) /\ 0 \in 0..PerFrame
    BY FramesAssumption
  <2>2. config \in Configs /\ config.channel \in Names
    BY ConfigFields DEF Init
  <2> QED
    BY <2>1, <2>2 DEF Init, FrameTyped, Names
<1>3. ReadersTyped
  <2>1. <<>> \in Seq(Messages) /\ Len(<<>>) <= RingSize
    BY RingSizeAssumption
  <2> QED
    BY <2>1 DEF Init, ReadersTyped, ChatInit, FeedInit, Names, States
<1>4. SpeechTyped /\ SpeechOwnChannel
  <2>1. <<>> \in Seq(Origins) /\ Len(<<>>) <= SpeechSize /\ Len(<<>>) = 0
    BY FramesAssumption
  <2> QED
    BY <2>1 DEF Init, SpeechTyped, SpeechOwnChannel, Left
<1>5. RingsOwn /\ PanelOwn
  BY Bounds DEF Init, ChatInit, FeedInit, OverlayInit, RingsOwn, PanelOwn
<1> QED
  BY <1>1, <1>2, <1>3, <1>4, <1>5, Parts DEF IInv

(* The panel keeps its type, and its lines unless one is pushed or it is blanked. *)
LEMMA NextPanel ==
  ASSUME IInv, [Next]_vars
  PROVE  /\ PanelTyped'
         /\ \/ UNCHANGED log
            \/ report_state /\ log' = <<>>
            \/ DrainOne /\ \E o \in Lines :
                 /\ o = Helper \/ (sChannel # NoChannel => o = sChannel)
                 /\ \A S : o \in S /\ log \in Seq(S) => log' \in Seq(S)
<1> USE DEF IInv
<1>p. PanelTyped /\ FrameTyped /\ ReadersTyped
  BY Parts
<1>1. CASE BeginFrame
  <2>1. config.lines \in Nat /\ config.enabled \in BOOLEAN
    BY <1>p, ConfigFields DEF FrameTyped
  <2>2. sShown' \in BOOLEAN
    BY <1>1, <1>p DEF BeginFrame, ApplyVisibility, overlay_show, overlay_hide, PanelTyped, OverlayTypeOK, overlayVars
  <2>3. CASE created
    BY <1>1, <1>p, <2>3 DEF BeginFrame, overlayVars, panelVars, PanelTyped, OverlayTypeOK
  <2>4. CASE ~created
    BY <1>1, <1>p, <2>1, <2>2, <2>4, LaidOutTyped DEF BeginFrame
  <2> QED
    BY <2>3, <2>4
<1>2. CASE PollSettings
  <2>1. config.lines \in Nat /\ config.enabled \in BOOLEAN
    BY <1>p, ConfigFields DEF FrameTyped
  <2>2. sShown' \in BOOLEAN
    BY <1>2, <1>p DEF PollSettings, ApplyVisibility, overlay_show, overlay_hide, PanelTyped, OverlayTypeOK, overlayVars
  <2>3. CASE UNCHANGED panelVars
    BY <1>p, <2>2, <2>3 DEF panelVars, PanelTyped, OverlayTypeOK
  <2>4. CASE overlay_apply_settings(config.lines)
    BY <1>p, <2>1, <2>2, <2>4, LaidOutTyped
  <2> QED
    BY <1>2, <2>3, <2>4 DEF PollSettings, ApplyLines, overlayVars
<1>3. CASE report_state
  BY <1>3, <1>p, StatusTyped DEF report_state, panelVars, PanelTyped, OverlayTypeOK
<1>4. CASE DrainOne
  <2>1. ASSUME NEW m \in Messages, Deliver(m), m.from = Helper \/ (sChannel # NoChannel => m.from = sChannel)
        PROVE  /\ PanelTyped'
               /\ \/ UNCHANGED log
                  \/ \E o \in Lines : /\ o = Helper \/ (sChannel # NoChannel => o = sChannel)
                                      /\ \A S : o \in S /\ log \in Seq(S) => log' \in Seq(S)
    <3>1. m.from \in Lines
      BY Bounds DEF Messages, Origins
    <3>2. UNCHANGED sShown
      BY <1>4 DEF DrainOne
    <3>3. CASE UNCHANGED panelVars
      BY <1>p, <3>2, <3>3 DEF panelVars, PanelTyped, OverlayTypeOK
    <3>4. CASE overlay_push_line(m.from)
      BY <1>p, <2>1, <3>1, <3>2, <3>4, PushTyped
    <3> QED
      BY <2>1, <3>3, <3>4 DEF Deliver
  <2>2. CASE FeedPopped /\ Deliver(Head(helperRing))
    <3>1. Head(helperRing) \in Messages /\ Head(helperRing) \in MessagesOf(Helper)
      BY <1>p, <2>2 DEF FeedPopped, ReadersTyped, RingsOwn
    <3> QED
      BY <1>4, <2>1, <2>2, <3>1 DEF MessagesOf
  <2>3. CASE Popped /\ Deliver(Head(chatRing))
    <3>1. Head(chatRing) \in Messages /\ (sChannel # NoChannel => Head(chatRing) \in MessagesOf(sChannel))
      BY <1>p, <2>3 DEF Popped, ReadersTyped, RingsOwn
    <3> QED
      BY <1>4, <2>1, <2>3, <3>1 DEF MessagesOf
  <2> QED
    BY <1>4, <2>2, <2>3 DEF DrainOne
<1>5. CASE PollChannel \/ EndFrame \/ RedemptionArrives \/ GameInterrupts \/ UNCHANGED vars
  BY <1>5, <1>p DEF PollChannel, EndFrame, RedemptionArrives, GameInterrupts, vars, overlayVars, panelVars, PanelTyped, OverlayTypeOK
<1>6. ASSUME NEW c \in Configs, ChangeSettings(c) PROVE PanelTyped' /\ UNCHANGED log
  BY <1>6, <1>p DEF ChangeSettings, overlayVars, panelVars, PanelTyped, OverlayTypeOK
<1>7. ASSUME NEW k \in Kinds, ChatArrives(k) PROVE PanelTyped' /\ UNCHANGED log
  BY <1>7, <1>p DEF ChatArrives, overlayVars, panelVars, PanelTyped, OverlayTypeOK
<1>8. ASSUME NEW s \in States, ChatStateChanges(s) PROVE PanelTyped' /\ UNCHANGED log
  BY <1>8, <1>p DEF ChatStateChanges, overlayVars, panelVars, PanelTyped, OverlayTypeOK
<1> QED
  BY <1>1, <1>2, <1>3, <1>4, <1>5, <1>6, <1>7, <1>8 DEF Next, Tick, overlayVars, panelVars

LEMMA NextFrame == FrameTyped /\ ReadersTyped /\ [Next]_vars => FrameTyped'
<1> SUFFICES ASSUME FrameTyped, ReadersTyped, [Next]_vars PROVE FrameTyped'
  OBVIOUS
<1> USE DEF FrameTyped
<1>c. config.channel \in Names /\ config.lines \in Nat /\ config.enabled \in BOOLEAN
  BY ConfigFields
<1>1. CASE BeginFrame
  <2>1. (sFrame + 1) % ChannelPoll \in 0..(ChannelPoll - 1)
    BY FramesAssumption
  <2> QED
    BY <1>1, <1>c, <2>1 DEF BeginFrame, ApplyVisibility
<1>2. CASE PollSettings
  <2>1. Wanted \in {0, 1}
    BY DEF Wanted
  <2> QED
    BY <1>2, <1>c, <2>1 DEF PollSettings, ApplyVisibility, RunRedemptions, ApplyLines
<1>3. CASE PollChannel
  BY <1>3, <1>c DEF PollChannel, ChangeChannel, NotePending, ForgetLastState
<1>4. CASE report_state
  BY <1>4 DEF report_state, ReadersTyped
<1>5. CASE DrainOne
  BY <1>5, FramesAssumption DEF DrainOne, mainVars
<1>6. CASE EndFrame
  BY <1>6, FramesAssumption DEF EndFrame, mainVars
<1>7. ASSUME NEW c \in Configs, ChangeSettings(c) PROVE FrameTyped'
  BY <1>7 DEF ChangeSettings, frameVars, mainVars
<1>8. CASE RedemptionArrives \/ GameInterrupts \/ UNCHANGED vars
  BY <1>8 DEF RedemptionArrives, GameInterrupts, vars, frameVars, mainVars
<1>9. ASSUME NEW k \in Kinds, ChatArrives(k) PROVE FrameTyped'
  BY <1>9 DEF ChatArrives, frameVars, mainVars
<1>10. ASSUME NEW s \in States, ChatStateChanges(s) PROVE FrameTyped'
  BY <1>10 DEF ChatStateChanges, frameVars, mainVars
<1> QED
  BY <1>1, <1>2, <1>3, <1>4, <1>5, <1>6, <1>7, <1>8, <1>9, <1>10 DEF Next, Tick

(* The rings keep their types and their origins. *)
LEMMA NextReaders == IInv /\ [Next]_vars => (ReadersTyped /\ RingsOwn)'
<1> SUFFICES ASSUME IInv, [Next]_vars PROVE (ReadersTyped /\ RingsOwn)'
  OBVIOUS
<1> USE DEF IInv
<1>p. PanelTyped /\ FrameTyped /\ ReadersTyped
  BY Parts
<1>e. \A S : <<>> \in Seq(S) /\ Len(<<>>) <= RingSize
  BY RingSizeAssumption
<1>1. CASE UNCHANGED <<chatVars, helperVars, sChannel>>
  BY <1>p, <1>1 DEF chatVars, helperVars, ReadersTyped, RingsOwn
<1>2. CASE PollSettings
  <2>1. UNCHANGED <<chatVars, sChannel>>
    BY <1>2 DEF PollSettings
  <2>2. UNCHANGED helperVars \/ twitch_redemptions_start \/ twitch_redemptions_stop
    BY <1>2 DEF PollSettings, RunRedemptions, helperVars
  <2>3. /\ helperOn' \in BOOLEAN
        /\ helperRing' = helperRing \/ helperRing' = <<>>
    BY <1>p, <2>2 DEF twitch_redemptions_start, twitch_redemptions_stop, helperVars, ReadersTyped
  <2> QED
    BY <1>p, <1>e, <2>1, <2>3 DEF chatVars, ReadersTyped, RingsOwn
<1>3. CASE PollChannel
  <2>1. CASE ChangeChannel /\ Settled
    <3>1. config.channel \in Names /\ config.channel # sChannel
      BY <1>p, <2>1, ConfigFields DEF FrameTyped, Settled
    <3>2. /\ chatFor' = config.channel /\ chatState' \in States
          /\ IF config.channel = NoChannel THEN chatRing' = chatRing ELSE chatRing' = <<>>
      BY <1>p, <2>1, <3>1 DEF ChangeChannel, twitch_chat_start, twitch_chat_stop, RingsOwn, States
    <3>3. sChannel' = config.channel /\ UNCHANGED helperVars
      BY <1>3, <2>1 DEF ChangeChannel, PollChannel
    <3>4. ReadersTyped'
      BY <1>p, <1>e, <3>1, <3>2, <3>3 DEF ReadersTyped, helperVars
    <3>5. RingsOwn'
      BY <1>e, <3>2, <3>3 DEF RingsOwn, helperVars
    <3> QED
      BY <3>4, <3>5
  <2> QED
    BY <1>1, <1>3, <2>1 DEF PollChannel, helperVars
<1>4. CASE DrainOne
  <2>2. UNCHANGED sChannel
    BY <1>4 DEF DrainOne, mainVars
  <2>3. CASE FeedPopped /\ Deliver(Head(helperRing)) /\ UNCHANGED chatVars
    <3>1. /\ Head(helperRing) \in MessagesOf(Helper) /\ Tail(helperRing) \in Seq(MessagesOf(Helper))
          /\ Tail(helperRing) \in Seq(Messages) /\ Len(Tail(helperRing)) = Len(helperRing) - 1
      BY <1>p, <2>3, RingPopped DEF FeedPopped, ReadersTyped, RingsOwn
    <3>3. Len(helperRing) \in Nat /\ Len(helperRing) - 1 <= RingSize
      BY <1>p, RingSizeAssumption DEF ReadersTyped
    <3> QED
      BY <1>p, <2>2, <2>3, <3>1, <3>3
      DEF FeedPopped, chatVars, ReadersTyped, RingsOwn
  <2>4. CASE Popped /\ Deliver(Head(chatRing)) /\ UNCHANGED helperVars
    <3>1. /\ Head(chatRing) \in Messages /\ Tail(chatRing) \in Seq(Messages)
          /\ Len(Tail(chatRing)) = Len(chatRing) - 1
          /\ chatFor # NoChannel =>
               Head(chatRing) \in MessagesOf(chatFor) /\ Tail(chatRing) \in Seq(MessagesOf(chatFor))
      BY <1>p, <2>4, RingPopped DEF Popped, ReadersTyped, RingsOwn
    <3>3. Len(chatRing) \in Nat /\ Len(chatRing) - 1 <= RingSize
      BY <1>p, RingSizeAssumption DEF ReadersTyped
    <3> QED
      BY <1>p, <2>2, <2>4, <3>1, <3>3
      DEF Popped, helperVars, ReadersTyped, RingsOwn
  <2> QED
    BY <1>4, <2>3, <2>4 DEF DrainOne
<1>5. CASE EndFrame
  <2>1. UNCHANGED <<chatVars, helperVars, sChannel>>
    BY <1>5 DEF EndFrame, mainVars
  <2> QED
    BY <1>p, <2>1 DEF chatVars, helperVars, ReadersTyped, RingsOwn
<1>6. ASSUME NEW k \in Kinds, ChatArrives(k) PROVE (ReadersTyped /\ RingsOwn)'
  <2>1. /\ UNCHANGED <<chatFor, chatState, helperVars, sChannel>> /\ chatFor # NoChannel
        /\ chatRing' = Pushed(chatRing, [from |-> chatFor, kind |-> k])
    BY <1>6 DEF ChatArrives, ChatPushed, mainVars
  <2>2. /\ [from |-> chatFor, kind |-> k] \in Messages
        /\ [from |-> chatFor, kind |-> k] \in MessagesOf(chatFor)
    BY <1>p, <2>1, Bounds DEF ReadersTyped, Names, Origins, Messages, MessagesOf
  <2>3. /\ chatRing' \in Seq(Messages) /\ Len(chatRing') <= RingSize
        /\ chatRing' \in Seq(MessagesOf(chatFor))
    BY <1>p, <2>1, <2>2, RingPushed DEF ReadersTyped, RingsOwn
  <2> QED
    BY <1>p, <2>1, <2>3 DEF helperVars, ReadersTyped, RingsOwn
<1>7. ASSUME NEW s \in States, ChatStateChanges(s) PROVE (ReadersTyped /\ RingsOwn)'
  BY <1>p, <1>7
  DEF ChatStateChanges, StateChanged, mainVars, helperVars, ReadersTyped, RingsOwn
<1>8. CASE RedemptionArrives
  <2>1. /\ UNCHANGED <<helperOn, chatVars, sChannel>>
        /\ helperRing' = Pushed(helperRing, Redemption)
    BY <1>8 DEF RedemptionArrives, FeedPushed, mainVars
  <2>2. Redemption \in Messages /\ Redemption \in MessagesOf(Helper)
    BY DEF Redemption, Messages, MessagesOf, Origins, AllKinds
  <2>3. /\ helperRing' \in Seq(Messages) /\ Len(helperRing') <= RingSize
        /\ helperRing' \in Seq(MessagesOf(Helper))
    BY <1>p, <2>1, <2>2, RingPushed DEF ReadersTyped, RingsOwn
  <2> QED
    BY <1>p, <2>1, <2>3 DEF chatVars, ReadersTyped, RingsOwn
<1>9. CASE BeginFrame \/ report_state \/ GameInterrupts \/ UNCHANGED vars
  BY <1>1, <1>9 DEF BeginFrame, report_state, GameInterrupts, vars, mainVars
<1>10. ASSUME NEW c \in Configs, ChangeSettings(c)
       PROVE  (ReadersTyped /\ RingsOwn)'
  BY <1>1, <1>10 DEF ChangeSettings, mainVars
<1> QED
  BY <1>2, <1>3, <1>4, <1>5, <1>6, <1>7, <1>8, <1>9, <1>10 DEF Next, Tick

(* What is taken on is of the channel that is set, a change empties the queue of
   chat, and what was put back is at the head until it is on screen again. *)
LEMMA NextSpeech == IInv /\ [Next]_vars => (SpeechTyped /\ SpeechOwnChannel)'
<1> SUFFICES ASSUME IInv, [Next]_vars PROVE (SpeechTyped /\ SpeechOwnChannel)'
  OBVIOUS
<1> USE DEF IInv
<1>p. ReadersTyped /\ SpeechTyped
  BY Parts
<1>n. Nothing \notin Origins
  BY NamesAssumption DEF Origins
<1>1. CASE UNCHANGED <<speechVars, sChannel>>
  BY <1>p, <1>1 DEF speechVars, SpeechTyped, SpeechOwnChannel, Left
<1>2. CASE PutBack /\ UNCHANGED <<leftShowing, sChannel>>
  <2>1. showing \in Origins /\ speech' = Waiting!RequeueFront(speech, showing) /\ showing' = Nothing
    BY <1>p, <1>2 DEF PutBack, SpeechTyped
  <2>2. /\ speech' \in Seq(Origins) /\ Len(speech') <= SpeechSize
        /\ \A i \in 1..Len(speech') :
             \/ i = 1 /\ speech'[i] = showing
             \/ i - 1 \in 1..Len(speech) /\ speech'[i] = speech[i - 1]
    <3> DEFINE r == Waiting!RequeueFront(speech, showing)
    <3>1. speech \in Seq(Origins) /\ Len(speech) <= SpeechSize
      BY <1>p DEF SpeechTyped
    <3>2. /\ r \in Seq(Origins) /\ Len(r) <= SpeechSize
          /\ \A i \in 1..Len(r) :
               \/ i = 1 /\ r[i] = showing
               \/ i - 1 \in 1..Len(speech) /\ r[i] = speech[i - 1]
      BY <2>1, <3>1, RequeuedFrom
    <3> HIDE DEF r
    <3> QED
      BY <2>1, <3>2 DEF r
  <2>3. sChannel # NoChannel => \A i \in 1..Len(speech) : ~Left(speech[i])
    BY <1>n, <2>1 DEF SpeechOwnChannel
  <2>4. SpeechTyped'
    BY <1>p, <1>2, <2>1, <2>2 DEF SpeechTyped
  <2>5. SpeechOwnChannel'
    BY <1>2, <2>1, <2>2, <2>3 DEF SpeechOwnChannel, Left
  <2> QED
    BY <2>4, <2>5
<1>3. CASE EndFrame
  <2>1. UNCHANGED <<leftShowing, sChannel>>
    BY <1>3 DEF EndFrame, speak_tick, mainVars
  <2>2. CASE showing' \in {showing, Nothing} /\ UNCHANGED speech
    BY <1>p, <2>1, <2>2 DEF SpeechTyped, SpeechOwnChannel, Left
  <2>3. CASE /\ showing = Nothing /\ speech # <<>>
             /\ speech' = Tail(speech) /\ showing' \in {Head(speech), Nothing}
    <3>1. /\ speech' \in Seq(Origins) /\ Len(speech') = Len(speech) - 1 /\ Len(speech) \in Nat \ {0}
          /\ Head(speech) = speech[1] /\ Head(speech) \in Origins
      BY <1>p, <2>3 DEF SpeechTyped
    <3>2. \A i \in 1..Len(speech') : i + 1 \in 1..Len(speech) /\ i + 1 # 1 /\ speech'[i] = speech[i + 1]
      BY <1>p, <2>3, <3>1 DEF SpeechTyped
    <3>3. SpeechTyped'
      BY <1>p, <2>1, <2>3, <3>1, FramesAssumption DEF SpeechTyped
    <3>4. 1 \in 1..Len(speech)
      BY <3>1
    <3>5. SpeechOwnChannel'
      BY <2>1, <2>3, <3>1, <3>2, <3>4 DEF SpeechOwnChannel, Left
    <3> QED
      BY <3>3, <3>5
  <2> QED
    BY <1>2, <1>3, <2>1, <2>2, <2>3 DEF EndFrame, speak_tick
<1>4. CASE PollChannel
  <2>1. CASE ChangeChannel
    <3>1. /\ speech' \in Waiting!RedemptionsOf(speech)
          /\ leftShowing' = showing /\ showing' = showing
      BY <2>1 DEF ChangeChannel, speak_clear_chat
    <3>2. /\ speech' \in Seq(Origins) /\ Len(speech') <= SpeechSize
          /\ \A i \in 1..Len(speech') : speech'[i] = Helper
      BY <1>p, <3>1, ClearedIs DEF SpeechTyped
    <3> QED
      BY <1>p, <3>1, <3>2 DEF SpeechTyped, SpeechOwnChannel, Left
  <2> QED
    BY <1>1, <1>4, <2>1 DEF PollChannel
<1>5. CASE DrainOne
  <2>1. UNCHANGED sChannel
    BY <1>5 DEF DrainOne, mainVars
  <2>2. ASSUME NEW m, Deliver(m), m.from \in Origins, m.from = Helper \/ (sChannel # NoChannel => m.from = sChannel)
        PROVE  (SpeechTyped /\ SpeechOwnChannel)'
    <3>1. CASE UNCHANGED speech
      BY <1>1, <2>1, <2>2, <3>1 DEF Deliver, speechVars
    <3>2. CASE speech' = Waiting!Enqueue(speech, m.from)
      <4>1. /\ speech' \in Seq(Origins) /\ Len(speech') <= SpeechSize
            /\ \A i \in 1..Len(speech') :
                 \/ speech'[i] = m.from
                 \/ i \in 1..Len(speech) /\ speech'[i] = speech[i]
                 \/ i + 1 \in 1..Len(speech) /\ speech'[i] = speech[i + 1]
        <5> DEFINE r == Waiting!Enqueue(speech, m.from)
        <5>1. speech \in Seq(Origins) /\ Len(speech) <= SpeechSize
          BY <1>p DEF SpeechTyped
        <5>2. /\ r \in Seq(Origins) /\ Len(r) <= SpeechSize
              /\ \A i \in 1..Len(r) :
                   \/ r[i] = m.from
                   \/ i \in 1..Len(speech) /\ r[i] = speech[i]
                   \/ i + 1 \in 1..Len(speech) /\ r[i] = speech[i + 1]
          BY <2>2, <5>1, EnqueuedFrom
        <5> QED
          BY <3>2, <5>2
      <4>2. UNCHANGED <<showing, leftShowing>>
        BY <2>2 DEF Deliver
      <4>3. \A i \in 1..Len(speech') : i \in Nat \ {0} /\ i + 1 # 1
        BY <4>1
      <4>4. ASSUME sChannel # NoChannel, NEW i \in 1..Len(speech'), Left(speech'[i])
            PROVE  i = 1 /\ speech'[i] = leftShowing /\ showing = Nothing
        <5>1. speech'[i] # m.from
          BY <2>2, <4>4 DEF Left
        <5> QED
          BY <4>1, <4>3, <4>4, <5>1 DEF SpeechOwnChannel
      <4>5. SpeechOwnChannel'
        BY <2>1, <4>2, <4>4 DEF SpeechOwnChannel, Left
      <4> QED
        BY <1>p, <4>1, <4>2, <4>5 DEF SpeechTyped
    <3> QED
      BY <2>2, <3>1, <3>2 DEF Deliver
  <2>3. CASE FeedPopped /\ Deliver(Head(helperRing))
    <3>1. Head(helperRing) \in MessagesOf(Helper)
      BY <2>3, RingPopped DEF FeedPopped, RingsOwn
    <3> QED
      BY <2>2, <2>3, <3>1 DEF MessagesOf, Origins
  <2>4. CASE Popped /\ Deliver(Head(chatRing))
    <3>1. /\ Head(chatRing) \in Messages
          /\ sChannel # NoChannel => Head(chatRing) \in MessagesOf(sChannel)
      BY <1>p, <2>4, RingPopped DEF Popped, ReadersTyped, RingsOwn
    <3> QED
      BY <2>2, <2>4, <3>1 DEF Messages, MessagesOf
  <2> QED
    BY <1>5, <2>3, <2>4 DEF DrainOne
<1>6. CASE GameInterrupts
  BY <1>2, <1>6 DEF GameInterrupts, mainVars
<1>7. CASE BeginFrame \/ PollSettings \/ report_state \/ RedemptionArrives \/ UNCHANGED vars
  BY <1>1, <1>7 DEF BeginFrame, PollSettings, report_state, RedemptionArrives, vars, mainVars
<1>8. ASSUME NEW c \in Configs, ChangeSettings(c) PROVE (SpeechTyped /\ SpeechOwnChannel)'
  BY <1>1, <1>8 DEF ChangeSettings, mainVars
<1>9. ASSUME NEW k \in Kinds, ChatArrives(k) PROVE (SpeechTyped /\ SpeechOwnChannel)'
  BY <1>1, <1>9 DEF ChatArrives, mainVars
<1>10. ASSUME NEW s \in States, ChatStateChanges(s) PROVE (SpeechTyped /\ SpeechOwnChannel)'
  BY <1>1, <1>10 DEF ChatStateChanges, mainVars
<1> QED
  BY <1>3, <1>4, <1>5, <1>6, <1>7, <1>8, <1>9, <1>10 DEF Next, Tick

(* A change of channel leaves a report due that blanks the panel. *)
LEMMA NextPanelOwn == IInv /\ [Next]_vars => PanelOwn'
<1> SUFFICES ASSUME IInv, [Next]_vars PROVE PanelOwn'
  OBVIOUS
<1> USE DEF IInv
<1>p. PanelTyped /\ FrameTyped /\ ReadersTyped
  BY Parts
<1>1. CASE report_state
  <2>1. CASE chatState = sLastState
    <3>1. sLastState # "unset" /\ UNCHANGED <<log, sChannel>>
      BY <1>1, <1>p, <2>1 DEF report_state, ReadersTyped, States, panelVars
    <3> QED
      BY <3>1 DEF PanelOwn
  <2>2. CASE chatState # sLastState
    <3>1. log' = <<>>
      BY <1>1, <2>2 DEF report_state, overlay_set_status
    <3> QED
      BY <3>1 DEF PanelOwn
  <2> QED
    BY <2>1, <2>2
<1>2. CASE PollChannel
  <2>1. CASE ChangeChannel
    BY <1>2, <2>1 DEF PollChannel, ChangeChannel, ForgetLastState, PanelOwn
  <2>2. CASE UNCHANGED <<sChannel, sLastState>>
    BY <1>2, <2>2 DEF PollChannel, overlayVars, panelVars, PanelOwn
  <2> QED
    BY <1>2, <2>1, <2>2 DEF PollChannel
<1>3. CASE DrainOne
  <2>1. PICK o \in Lines : /\ o = Helper \/ (sChannel # NoChannel => o = sChannel)
                           /\ (\A S : o \in S /\ log \in Seq(S) => log' \in Seq(S)) \/ UNCHANGED log
    <3>1. CASE UNCHANGED log
      <4>1. Helper \in Lines
        BY Bounds
      <4> QED
        BY <3>1, <4>1
    <3> QED
      BY <1>3, <3>1, NextPanel DEF DrainOne, report_state
  <2>2. UNCHANGED <<pc, sChannel, sLastState>> /\ pc = "drain"
    BY <1>3 DEF DrainOne, mainVars
  <2> QED
    BY <2>1, <2>2 DEF PanelOwn
<1>4. CASE BeginFrame \/ PollSettings \/ EndFrame
  <2>1. UNCHANGED log
    BY <1>4, NextPanel DEF BeginFrame, PollSettings, EndFrame, DrainOne, report_state
  <2> QED
    BY <1>4, <2>1 DEF BeginFrame, PollSettings, EndFrame, mainVars, PanelOwn
<1>5. CASE UNCHANGED <<log, pc, sChannel, sLastState>>
  BY <1>5 DEF PanelOwn
<1>6. ASSUME NEW c \in Configs, ChangeSettings(c) PROVE PanelOwn'
  BY <1>5, <1>6 DEF ChangeSettings, frameVars, mainVars, overlayVars, panelVars
<1>7. ASSUME NEW k \in Kinds, ChatArrives(k) PROVE PanelOwn'
  BY <1>5, <1>7 DEF ChatArrives, frameVars, mainVars, overlayVars, panelVars
<1>8. ASSUME NEW s \in States, ChatStateChanges(s) PROVE PanelOwn'
  BY <1>5, <1>8 DEF ChatStateChanges, frameVars, mainVars, overlayVars, panelVars
<1>9. CASE RedemptionArrives \/ GameInterrupts \/ UNCHANGED vars
  BY <1>5, <1>9 DEF RedemptionArrives, GameInterrupts, vars, frameVars, mainVars, overlayVars, panelVars
<1> QED
  BY <1>1, <1>2, <1>3, <1>4, <1>6, <1>7, <1>8, <1>9 DEF Next, Tick

LEMMA NextIInv == IInv /\ [Next]_vars => IInv'
<1> SUFFICES ASSUME IInv, [Next]_vars PROVE IInv'
  OBVIOUS
<1>1. PanelTyped' /\ PanelOwn'
  BY NextPanel, NextPanelOwn
<1>2. FrameTyped'
  BY NextFrame, Parts DEF IInv
<1>3. (ReadersTyped /\ RingsOwn /\ SpeechTyped /\ SpeechOwnChannel)'
  BY NextReaders, NextSpeech
<1>4. TypeOK'
  BY <1>1, <1>2, <1>3 DEF TypeOK, PanelTyped, FrameTyped, ReadersTyped, SpeechTyped
<1> QED
  BY <1>1, <1>3, <1>4 DEF IInv

LEMMA IInvHolds == Spec => []IInv
BY InitIInv, NextIInv, PTL DEF Spec

(* Frame, settings, rings and panel keep to their domains: no ring holds more than
   its capacity, and the panel's ring is not indexed past its end. *)
THEOREM TickTyped == Spec => []TypeOK
<1>1. IInv => TypeOK
  BY DEF IInv
<1> QED
  BY <1>1, IInvHolds, PTL

(* Of a channel that was left only the message that was on screen at the change is
   ever spoken again, and it waits, if it does, at the head of the queue. *)
THEOREM SpeaksOwnChannel == Spec => []SpeechOwnChannel
<1>1. IInv => SpeechOwnChannel
  BY DEF IInv
<1> QED
  BY <1>1, IInvHolds, PTL

(* Nor does the panel show it, once the change has been reported. *)
THEOREM ShowsOwnChannel == Spec => []OverlayOwnChannel
<1>1. IInv => OverlayOwnChannel
  BY DEF IInv, PanelOwn, OverlayOwnChannel
<1> QED
  BY <1>1, IInvHolds, PTL

-----------------------------------------------------------------------------
(* The panel's ring holds the log: the k-th of its lines is where the count says. *)
Holds(used, lines, l) ==
  /\ Len(l) = IF used < MaxLines THEN used ELSE MaxLines
  /\ \A i \in 1..Len(l) : l[i] = lines[(used - Len(l) + i - 1) % MaxLines]

LEMMA Wraps ==
  ASSUME NEW x \in 0..(2 * MaxLines)
  PROVE  /\ x < MaxLines => x % MaxLines = x
         /\ x >= MaxLines /\ x < 2 * MaxLines => x % MaxLines = x - MaxLines
<1>1. CASE x < MaxLines
  BY <1>1, MaxLinesAssumption
<1>2. CASE x >= MaxLines /\ x < 2 * MaxLines
  <2>1. x - MaxLines \in 0..(MaxLines - 1)
    BY <1>2, MaxLinesAssumption
  <2>2. x = MaxLines + (x - MaxLines)
    BY MaxLinesAssumption
  <2> QED
    BY <1>2, <2>1, <2>2, MaxLinesAssumption
<1> QED
  BY <1>1, <1>2, MaxLinesAssumption

(* Rows laid out from a ring that holds the log show its newest lines. *)
LEMMA RefreshedShows ==
  ASSUME NEW used \in 0..(2 * MaxLines), NEW lines, NEW l \in Seq(Lines), NEW count \in 0..MaxLines,
         Holds(used, lines, l), NEW i \in 1..count
  PROVE  LET shown == IF Len(l) < count THEN Len(l) ELSE count
         IN Refreshed(used, lines, count)[i] = IF i <= shown THEN l[Len(l) - shown + i] ELSE Blank
<1> DEFINE shown == IF Len(l) < count THEN Len(l) ELSE count
           line  == FirstShown(used, count) + i - 1
<1> USE MaxLinesAssumption
<1>1. i \in 1..MaxLines /\ ~(i > count)
  OBVIOUS
<1>2. Refreshed(used, lines, count)[i] = IF line < used THEN lines[line % MaxLines] ELSE Blank
  BY <1>1 DEF Refreshed
<1>3. Len(l) \in Nat /\ Len(l) = IF used < MaxLines THEN used ELSE MaxLines
  BY DEF Holds
<1>4. shown \in Nat /\ (line < used <=> i <= shown)
  BY <1>3 DEF FirstShown
<1>5. ASSUME i <= shown PROVE l[Len(l) - shown + i] = lines[line % MaxLines]
  <2>1. Len(l) - shown + i \in 1..Len(l)
    BY <1>3, <1>4, <1>5
  <2>2. used - Len(l) + (Len(l) - shown + i) - 1 = line
    BY <1>3, <1>4, <1>5 DEF FirstShown
  <2>3. l[Len(l) - shown + i] = lines[(used - Len(l) + (Len(l) - shown + i) - 1) % MaxLines]
    BY <2>1 DEF Holds
  <2> QED
    BY <2>2, <2>3
<1> QED
  BY <1>2, <1>4, <1>5

LEMMA PushHolds ==
  ASSUME PanelTyped, Holds(sUsed, sLines, log), NEW l \in Lines, overlay_push_line(l)
  PROVE  Holds(sUsed + 1, sLines', log') /\ Holds(sUsed', sLines', log')
<1> USE MaxLinesAssumption
<1>1. /\ sUsed \in 0..(2 * MaxLines - 1) /\ sLines \in [Slots -> Lines \cup {Blank}]
      /\ log \in Seq(Lines) /\ Len(log) \in Nat /\ Len(log) <= MaxLines
  BY DEF PanelTyped, OverlayTypeOK
<1>2. /\ sLines' = [sLines EXCEPT ![sUsed % MaxLines] = l] /\ sUsed' = Counted(sUsed)
      /\ log' = IF Len(Append(log, l)) > MaxLines THEN Tail(Append(log, l)) ELSE Append(log, l)
  BY DEF overlay_push_line
<1>3. /\ Append(log, l) \in Seq(Lines) /\ Len(Append(log, l)) = Len(log) + 1
      /\ \A i \in 1..(Len(log) + 1) : Append(log, l)[i] = IF i = Len(log) + 1 THEN l ELSE log[i]
  BY <1>1
<1>4. sUsed % MaxLines = IF sUsed < MaxLines THEN sUsed ELSE sUsed - MaxLines
  BY <1>1, Wraps
<1>5. sLines'[sUsed % MaxLines] = l /\ \A s \in Slots : s # sUsed % MaxLines => sLines'[s] = sLines[s]
  BY <1>1, <1>2, <1>4 DEF Slots
<1>6. Holds(sUsed + 1, sLines', log')
  <2>1. CASE sUsed < MaxLines
    <3>1. Len(log) = sUsed /\ \A i \in 1..Len(log) : log[i] = sLines[(i - 1) % MaxLines]
      BY <1>1, <2>1 DEF Holds
    <3>2. log' = Append(log, l) /\ Len(log') = sUsed + 1
      BY <1>2, <1>3, <2>1, <3>1
    <3>3. ASSUME NEW i \in 1..(sUsed + 1) PROVE log'[i] = sLines'[(i - 1) % MaxLines]
      <4>1. (i - 1) \in Slots /\ (i - 1) % MaxLines = i - 1
        BY <1>1, <2>1, Wraps DEF Slots
      <4>2. CASE i = sUsed + 1
        BY <1>3, <1>5, <3>1, <3>2, <4>2, <1>1
      <4>3. CASE i # sUsed + 1
        BY <1>1, <1>3, <1>4, <1>5, <2>1, <3>1, <3>2, <4>1, <4>3
      <4> QED
        BY <4>2, <4>3
    <3>4. \A i \in 1..(sUsed + 1) : (sUsed + 1) - (sUsed + 1) + i - 1 = i - 1
      BY <1>1
    <3> QED
      BY <1>1, <2>1, <3>2, <3>3, <3>4 DEF Holds
  <2>2. CASE sUsed >= MaxLines
    <3>1. Len(log) = MaxLines /\ \A i \in 1..MaxLines : log[i] = sLines[(sUsed - MaxLines + i - 1) % MaxLines]
      BY <1>1, <2>2 DEF Holds
    <3>2. /\ log' = Tail(Append(log, l)) /\ Len(log') = MaxLines
          /\ \A i \in 1..MaxLines : log'[i] = Append(log, l)[i + 1]
      BY <1>2, <1>3, <3>1
    <3>3. ASSUME NEW i \in 1..MaxLines PROVE log'[i] = sLines'[(sUsed - MaxLines + i) % MaxLines]
      <4>1. sUsed - MaxLines + i \in 0..(2 * MaxLines) /\ sUsed - MaxLines + i < 2 * MaxLines
        BY <1>1, <2>2
      <4>2. CASE i = MaxLines
        <5>1. sUsed - MaxLines + i = sUsed
          BY <1>1, <4>2
        <5> QED
          BY <1>3, <1>5, <3>1, <3>2, <4>2, <5>1
      <4>3. CASE i # MaxLines
        <5>1. /\ (sUsed - MaxLines + i) % MaxLines \in Slots
              /\ (sUsed - MaxLines + i) % MaxLines # sUsed % MaxLines
          BY <1>1, <1>4, <2>2, <4>1, <4>3, Wraps DEF Slots
        <5>2. log'[i] = log[i + 1] /\ i + 1 \in 1..MaxLines /\ sUsed - MaxLines + (i + 1) - 1 = sUsed - MaxLines + i
          BY <1>1, <1>3, <3>1, <3>2, <4>3
        <5> QED
          BY <1>5, <3>1, <5>1, <5>2
      <4> QED
        BY <4>2, <4>3
    <3>4. \A i \in 1..MaxLines : (sUsed + 1) - MaxLines + i - 1 = sUsed - MaxLines + i
      BY <1>1
    <3>5. \A i \in 1..MaxLines : log'[i] = sLines'[((sUsed + 1) - MaxLines + i - 1) % MaxLines]
      BY <3>3, <3>4
    <3>6. ~(sUsed + 1 < MaxLines)
      BY <1>1, <2>2
    <3> QED
      BY <3>2, <3>5, <3>6 DEF Holds
  <2> QED
    BY <1>1, <2>1, <2>2
<1>7. CASE sUsed # 2 * MaxLines - 1
  BY <1>2, <1>6, <1>7 DEF Counted
(* The count goes back by a whole turn of the ring. *)
<1>8. CASE sUsed = 2 * MaxLines - 1
  <2>1. sUsed' = MaxLines /\ Len(log') = MaxLines
    BY <1>1, <1>2, <1>6, <1>8 DEF Counted, Holds
  <2>2. ASSUME NEW i \in 1..MaxLines PROVE log'[i] = sLines'[(MaxLines - MaxLines + i - 1) % MaxLines]
    <3>1. log'[i] = sLines'[(2 * MaxLines - MaxLines + i - 1) % MaxLines]
      BY <1>6, <1>8, <2>1 DEF Holds
    <3>2. (2 * MaxLines - MaxLines + i - 1) % MaxLines = i - 1 /\ (MaxLines - MaxLines + i - 1) % MaxLines = i - 1
      <4>1. /\ 2 * MaxLines - MaxLines + i - 1 = MaxLines + i - 1 /\ MaxLines - MaxLines + i - 1 = i - 1
            /\ MaxLines + i - 1 \in 0..(2 * MaxLines) /\ i - 1 \in 0..(2 * MaxLines)
        OBVIOUS
      <4> QED
        BY <4>1, Wraps
    <3> QED
      BY <3>1, <3>2
  <2> QED
    BY <1>6, <2>1, <2>2 DEF Holds
<1> QED
  BY <1>6, <1>7, <1>8

(* Nothing but a push, a report and a new layout touches what is shown. *)
Shows == Holds(sUsed, sLines, log) /\ ShownIsNewest

LEMMA LaidOutShows ==
  ASSUME PanelTyped, Shows, NEW n \in Nat, overlay_create(n) \/ overlay_apply_settings(n)
  PROVE  Shows'
<1>1. /\ Clamp(n) \in 0..MaxLines /\ lineCount' = Clamp(n) /\ UNCHANGED <<sUsed, sLines, log>>
      /\ rows' = Refreshed(sUsed, sLines, Clamp(n))
  BY ClampRange, MaxLinesAssumption DEF overlay_create, overlay_apply_settings
<1>2. sUsed \in 0..(2 * MaxLines) /\ log \in Seq(Lines) /\ Holds(sUsed, sLines, log)
  BY MaxLinesAssumption DEF PanelTyped, OverlayTypeOK, Shows
<1>3. ASSUME NEW i \in 1..Clamp(n)
      PROVE  LET shown == IF Len(log) < Clamp(n) THEN Len(log) ELSE Clamp(n)
             IN rows'[i] = IF i <= shown THEN log[Len(log) - shown + i] ELSE Blank
  BY <1>1, <1>2, RefreshedShows
<1> QED
  BY <1>1, <1>2, <1>3 DEF Shows, ShownIsNewest

LEMMA PushShows ==
  ASSUME PanelTyped, Shows, PanelTyped', NEW l \in Lines, overlay_push_line(l)
  PROVE  Shows'
<1>1. /\ UNCHANGED lineCount /\ lineCount \in 0..MaxLines
      /\ rows' = Refreshed(sUsed + 1, sLines', lineCount)
  BY DEF PanelTyped, OverlayTypeOK, overlay_push_line
<1>2. /\ sUsed + 1 \in 0..(2 * MaxLines) /\ log' \in Seq(Lines)
      /\ Holds(sUsed + 1, sLines', log') /\ Holds(sUsed', sLines', log')
  BY PushHolds, MaxLinesAssumption DEF PanelTyped, OverlayTypeOK, Shows
<1>3. ASSUME NEW i \in 1..lineCount
      PROVE  LET shown == IF Len(log') < lineCount THEN Len(log') ELSE lineCount
             IN rows'[i] = IF i <= shown THEN log'[Len(log') - shown + i] ELSE Blank
  BY <1>1, <1>2, RefreshedShows
<1> QED
  BY <1>1, <1>2, <1>3 DEF Shows, ShownIsNewest

LEMMA NextShows == IInv /\ IInv' /\ Shows /\ [Next]_vars => Shows'
<1> SUFFICES ASSUME IInv, IInv', Shows, [Next]_vars PROVE Shows'
  OBVIOUS
<1>p. PanelTyped /\ PanelTyped' /\ config.lines \in Nat
  BY ConfigFields DEF IInv, TypeOK, PanelTyped
<1>1. CASE UNCHANGED panelVars
  BY <1>1 DEF panelVars, Shows, Holds, ShownIsNewest
<1>2. CASE BeginFrame
  <2>1. UNCHANGED panelVars \/ overlay_create(config.lines)
    BY <1>2 DEF BeginFrame, overlayVars
  <2> QED
    BY <1>p, <1>1, <2>1, LaidOutShows
<1>3. CASE PollSettings
  <2>1. UNCHANGED panelVars \/ overlay_apply_settings(config.lines)
    BY <1>3 DEF PollSettings, ApplyLines, overlayVars
  <2> QED
    BY <1>p, <1>1, <2>1, LaidOutShows
<1>4. CASE report_state
  <2>1. CASE overlay_set_status
    BY <2>1, MaxLinesAssumption DEF overlay_set_status, Shows, Holds, ShownIsNewest
  <2> QED
    BY <1>1, <1>4, <2>1 DEF report_state
<1>5. CASE DrainOne
  <2>1. ASSUME NEW m \in Messages, Deliver(m) PROVE Shows'
    <3>1. m.from \in Lines
      BY Bounds DEF Messages, Origins
    <3> QED
      BY <1>p, <1>1, <2>1, <3>1, PushShows DEF Deliver
  <2>2. /\ helperRing # <<>> => Head(helperRing) \in Messages
        /\ chatRing # <<>> => Head(chatRing) \in Messages
    BY DEF IInv, TypeOK
  <2> QED
    BY <1>5, <2>1, <2>2 DEF DrainOne, FeedPopped, Popped
<1>6. CASE PollChannel \/ EndFrame \/ RedemptionArrives \/ GameInterrupts \/ UNCHANGED vars
  BY <1>1, <1>6 DEF PollChannel, EndFrame, RedemptionArrives, GameInterrupts, vars, overlayVars
<1>7. ASSUME NEW c \in Configs, ChangeSettings(c) PROVE Shows'
  BY <1>1, <1>7 DEF ChangeSettings, overlayVars
<1>8. ASSUME NEW k \in Kinds, ChatArrives(k) PROVE Shows'
  BY <1>1, <1>8 DEF ChatArrives, overlayVars
<1>9. ASSUME NEW s \in States, ChatStateChanges(s) PROVE Shows'
  BY <1>1, <1>9 DEF ChatStateChanges, overlayVars
<1> QED
  BY <1>2, <1>3, <1>4, <1>5, <1>6, <1>7, <1>8, <1>9 DEF Next, Tick

(* The rows are the newest lines, oldest first, whatever the panel's height became
   and however often its ring wrapped. *)
THEOREM ShowsNewest == Spec => []ShownIsNewest
<1>1. Init => Shows
  BY MaxLinesAssumption DEF Init, OverlayInit, Shows, Holds, ShownIsNewest
<1>2. Shows => ShownIsNewest
  BY DEF Shows
<1> QED
  BY <1>1, <1>2, NextShows, IInvHolds, PTL DEF Spec
=============================================================================
