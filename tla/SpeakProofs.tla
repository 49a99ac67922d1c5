----------------------------- MODULE SpeakProofs -----------------------------
(***************************************************************************)
(* Proofs about Speak: all of its safety properties, for any messages,     *)
(* requests, maps and sizes.                                               *)
(*                                                                         *)
(* They are proved together, because each leans on the others: that a box  *)
(* shows live text rests on the state a call of ours is in, that on the    *)
(* phase it was made in, and so on.                                        *)
(***************************************************************************)
EXTENDS Speak, SequenceProofs

Injecting == call.caller = "inject"

(* What is known while the mod's own request is under way, from TickInjects to
   InjectReturns, and that nothing redirects the loader at other times. *)
InFlight ==
  /\ sInjecting <=> Injecting
  /\ sHijack <=> Injecting /\ call.stage # "shown"
  /\ call.stage \in {"shown", "refused"} => Injecting

CallOfOurs ==
  Injecting =>
    /\ call.req = Carrier /\ sQueue # <<>> /\ sBlobs[sBlobIndex] = Head(sQueue)
    /\ sDeferred = NoAsk /\ ~sOursShowing
    /\ phase = "play" /\ map = sLastMap
    /\ IF call.stage = "shown" THEN box.owner = "mod" /\ box.text = sBlobIndex ELSE box = NoBox

(* A box of ours that has been opened and returned to speak_tick. *)
Showing ==
  /\ sOursShowing => sShowing \in Messages
  /\ call.stage # "shown" =>
       /\ box.owner = "mod" => sBlobs[box.text] = sShowing
       /\ OursOpen => sOursShowing /\ map = sLastMap

(* Once a tick has run in a transition nothing of ours is left over from before. *)
Yielded == phase = "faded" => sDeferred = NoAsk /\ ~sOursShowing

(* A request that reaches the hook was made in this world. *)
HookFresh == call.stage = "hook" /\ ~Injecting => fate[call.req] # "gone"

Control == /\ InFlight /\ CallOfOurs /\ Showing /\ Yielded /\ HookFresh
           /\ OwnTextOnly /\ StoryFirst /\ DeferredFresh

IInv == TypeOK /\ Control /\ NoDuplicate

-----------------------------------------------------------------------------
(* What an interruption makes of the queue: see GiveWay. *)
LEMMA Requeued ==
  ASSUME TypeOK, Showing, sOursShowing
  PROVE  LET q == RequeueFront(sQueue, sShowing)
         IN  /\ q \in Seq(Messages) /\ Len(q) <= QueueSize
             /\ q # <<>> /\ Head(q) = sShowing
             /\ NoDuplicate => Distinct(q)
<1>1. sQueue \in Seq(Messages) /\ sShowing \in Messages /\ Len(sQueue) <= QueueSize
  BY DEF TypeOK, Showing
<1>2. \A s \in Seq(Messages), m \in Messages :
        /\ RequeueFront(s, m) \in Seq(Messages)
        /\ RequeueFront(s, m) # <<>> /\ Head(RequeueFront(s, m)) = m
        /\ Len(s) <= QueueSize => Len(RequeueFront(s, m)) <= QueueSize
  BY RequeueFrontIs, RequeueFrontHead
<1>3. \A s \in Seq(Messages), m \in Messages :
        m \notin Queued(s) /\ Distinct(s) => Distinct(RequeueFront(s, m))
  BY RequeueFrontDistinct
<1>4. NoDuplicate => sShowing \notin Queued(sQueue) /\ Distinct(sQueue)
  BY DEF NoDuplicate, Distinct
<1> QED
  BY <1>1, <1>2, <1>3, <1>4

(* A call that has begun goes on to another stage, or is over. *)
LEMMA CallStages ==
  ASSUME call \in Calls, call.stage # "none"
  PROVE  /\ call.req \in Asks /\ NoCall \in Calls
         /\ \A s \in {"hook", "body", "load", "shown", "refused"} :
              [call EXCEPT !.stage = s] \in Calls
<1>1. call \in [caller : {"inject", "reissue", "game", "replay"}, req : Asks,
                stage : {"hook", "body", "load", "shown", "refused"}]
  BY DEF Calls, NoCall
<1> QED
  BY <1>1 DEF Calls

LEMMA BoxCloses == box \in Boxes /\ CloseDialogue => box' \in Boxes
BY DEF Boxes, CloseDialogue

LEMMA InitIInv == Init => IInv
<1> SUFFICES ASSUME Init PROVE IInv
  OBVIOUS
<1> USE NoMessageAssumption, AsksAssumption, IdleFramesAssumption, MapsAssumption,
        QueueSizeAssumption DEF Init, NoCall, NoBox, AssetText
<1>1. sQueue \in Seq(Messages) /\ Len(sQueue) = 0 /\ gameQueue \in Seq(Asks)
  OBVIOUS
<1>2. Len(sQueue) <= QueueSize /\ sIdleFrames \in 0..IdleFrames
  BY <1>1
<1>3. sBlobs \in [Buffers -> Messages \cup {NoMessage}] /\ sBlobIndex \in Buffers
  BY DEF Buffers
<1>4. box \in Boxes /\ call \in Calls /\ phase \in Phases
  BY DEF Boxes, Calls, Phases
<1>5. fate \in [Asks -> {"unasked", "asked", "shown", "gone"}]
  OBVIOUS
<1>6. TypeOK
  BY <1>1, <1>2, <1>3, <1>4, <1>5 DEF TypeOK
<1>7. Control
  BY DEF Control, InFlight, CallOfOurs, Showing, Yielded, HookFresh, Injecting, OursOpen,
         OwnTextOnly, StoryFirst, DeferredFresh, Buffers
<1>8. NoDuplicate
  BY <1>1 DEF NoDuplicate
<1> QED
  BY <1>6, <1>7, <1>8 DEF IInv

(* Every action keeps the variables in their domains. *)
LEMMA NextTyped == TypeOK /\ Control /\ [Next]_vars => TypeOK'
<1> SUFFICES ASSUME TypeOK, Control, [Next]_vars PROVE TypeOK'
  OBVIOUS
<1> USE NoMessageAssumption, AsksAssumption, IdleFramesAssumption, MapsAssumption,
        QueueSizeAssumption
    DEF queueVars, blobVars, tickVars, worldVars, NoCall, Idle
<1>a. call \in Calls /\ box \in Boxes
  BY DEF TypeOK
<1>1. CASE speak_yield_to_game
  <2>1. call' \in Calls /\ call.req \in Asks
    BY <1>1, <1>a, CallStages DEF speak_yield_to_game
  <2>2. CASE MustYield
    <3>1. sQueue' \in Seq(Messages) /\ Len(sQueue') <= QueueSize
      BY <1>1, <2>2, Requeued DEF speak_yield_to_game, MustYield, GiveWay, Control
    <3>2. box' \in Boxes
      BY <1>1, <1>a, <2>2, BoxCloses DEF speak_yield_to_game, GiveWay
    <3> QED BY <1>1, <2>1, <2>2, <3>1, <3>2 DEF speak_yield_to_game, GiveWay, TypeOK
  <2>3. CASE ~MustYield
    BY <1>1, <2>1, <2>3 DEF speak_yield_to_game, TypeOK
  <2> QED BY <2>2, <2>3
<1>2. CASE GameRefuses
  <2>1. call' \in Calls
    BY <1>2, <1>a, CallStages DEF GameRefuses, Returned
  <2> QED BY <1>2, <2>1 DEF GameRefuses, TypeOK
<1>3. CASE GameQueues
  <2>1. call' \in Calls /\ call.req \in Asks
    BY <1>3, <1>a DEF GameQueues, Calls
  <2>2. gameQueue' \in Seq(Asks)
    BY <1>3, <2>1 DEF GameQueues, TypeOK
  <2> QED BY <1>3, <2>1, <2>2 DEF GameQueues, TypeOK
<1>4. CASE GameLoads
  <2>1. call' \in Calls
    BY <1>4, <1>a, CallStages DEF GameLoads
  <2> QED BY <1>4, <2>1 DEF GameLoads, TypeOK
<1>5. CASE dialogBin_get
  <2>1. call' \in Calls /\ call.req \in Asks
    BY <1>5, <1>a, CallStages DEF dialogBin_get, Returned
  <2>2. box' \in Boxes
    BY <1>5 DEF dialogBin_get, Boxes, TypeOK, Buffers, AssetText
  <2>3. fate' \in [Asks -> {"unasked", "asked", "shown", "gone"}]
    BY <1>5 DEF dialogBin_get, TypeOK
  <2>4. sHijack' \in BOOLEAN
    BY <1>5 DEF dialogBin_get
  <2> QED BY <1>5, <2>1, <2>2, <2>3, <2>4 DEF dialogBin_get, TypeOK
<1>6. CASE InjectReturns
  <2>1. call' \in Calls
    BY <1>6 DEF InjectReturns, Calls
  <2>2. /\ sQueue' \in Seq(Messages) /\ Len(sQueue') <= QueueSize
        /\ sShowing' \in Messages \cup {NoMessage}
    <3>1. sQueue # <<>>
      BY <1>6 DEF InjectReturns, Control, InFlight, CallOfOurs
    <3>2. /\ Head(sQueue) \in Messages /\ Tail(sQueue) \in Seq(Messages)
          /\ Len(Tail(sQueue)) = Len(sQueue) - 1 /\ Len(sQueue) \in Nat
      BY <3>1, HeadTailProperties DEF TypeOK
    <3>3. Len(Tail(sQueue)) <= QueueSize
      BY <3>2 DEF TypeOK
    <3> QED BY <1>6, <3>2, <3>3 DEF InjectReturns, TypeOK
  <2>3. sBlobIndex' \in Buffers
    BY <1>6 DEF InjectReturns, Buffers, TypeOK
  <2>4. sOursShowing' \in BOOLEAN /\ sHijack' \in BOOLEAN /\ sInjecting' \in BOOLEAN
    BY <1>6 DEF InjectReturns, EndInjection, TypeOK
  <2>5. sIdleFrames' \in 0..IdleFrames
    BY <1>6 DEF InjectReturns
  <2> QED BY <1>6, <2>1, <2>2, <2>3, <2>4, <2>5 DEF InjectReturns, TypeOK
<1>7. ASSUME NEW m \in Messages, speak_queue(m) PROVE TypeOK'
  <2>1. sQueue' \in Seq(Messages) /\ Len(sQueue') <= QueueSize
    <3>1. sQueue \in Seq(Messages) /\ Len(sQueue) <= QueueSize /\ Len(sQueue) \in Nat
      BY LenProperties DEF TypeOK
    <3>2. /\ Enqueue(sQueue, m) \in Seq(Messages)
          /\ Len(Enqueue(sQueue, m)) = IF Full(sQueue) THEN Len(sQueue) ELSE Len(sQueue) + 1
      BY <3>1, EnqueueIs
    <3> QED BY <1>7, <3>1, <3>2 DEF speak_queue, Full
  <2> QED BY <1>7, <2>1 DEF speak_queue, TypeOK
<1>8. CASE speak_clear_chat
  <2>1. sQueue' \in Seq(Messages) /\ Len(sQueue') <= Len(sQueue)
    BY <1>8, RedemptionsAre DEF speak_clear_chat, TypeOK
  <2>2. Len(sQueue') <= QueueSize
    BY <2>1, LenProperties DEF TypeOK
  <2> QED BY <1>8, <2>1, <2>2 DEF speak_clear_chat, TypeOK
<1>9. CASE TickOutsideGame
  <2>1. sIdleFrames' \in 0..IdleFrames /\ sOursShowing' \in BOOLEAN
    BY <1>9 DEF TickOutsideGame, Ours, DialogueUp
  <2> QED BY <1>9, <2>1 DEF TickOutsideGame, TypeOK
<1>10. CASE TickInTransition
  <2>1. sIdleFrames' \in 0..IdleFrames /\ phase' \in Phases
    BY <1>10 DEF TickInTransition, Phases
  <2>2. CASE Ours
    <3>1. sQueue' \in Seq(Messages) /\ Len(sQueue') <= QueueSize
      BY <1>10, <2>2, Requeued DEF TickInTransition, Ours, GiveWay, Control
    <3>2. box' \in Boxes
      BY <1>10, <1>a, <2>2, BoxCloses DEF TickInTransition, GiveWay
    <3> QED BY <1>10, <2>1, <2>2, <3>1, <3>2 DEF TickInTransition, DropDeferred, GiveWay, TypeOK
  <2>3. CASE ~Ours
    BY <1>10, <2>1, <2>3 DEF TickInTransition, DropDeferred, TypeOK
  <2> QED BY <2>2, <2>3
<1>11. CASE TickOnNewMap
  <2>1. sIdleFrames' \in 0..IdleFrames
    BY <1>11 DEF TickOnNewMap
  <2> QED BY <1>11, <2>1 DEF TickOnNewMap, NoteMap, DropDeferred, TypeOK
<1>12. CASE TickBusy
  <2>1. sIdleFrames' \in 0..IdleFrames /\ sOursShowing' \in BOOLEAN
    BY <1>12 DEF TickBusy, Ours, DialogueUp
  <2> QED BY <1>12, <2>1 DEF TickBusy, TypeOK
<1>13. CASE TickReissues
  <2>1. sIdleFrames' \in 0..IdleFrames
    BY <1>13 DEF TickReissues
  <2>2. call' \in Calls
    BY <1>13 DEF TickReissues, Calls, TypeOK
  <2> QED BY <1>13, <2>1, <2>2 DEF TickReissues, TypeOK
<1>14. CASE TickWaits
  <2>1. sIdleFrames' \in 0..IdleFrames
    BY <1>14 DEF TickWaits, TypeOK
  <2> QED BY <1>14, <2>1 DEF TickWaits, TypeOK
<1>15. CASE TickDropsUnprintable
  <2>1. /\ Head(sQueue) \in Messages /\ Tail(sQueue) \in Seq(Messages)
        /\ Len(Tail(sQueue)) = Len(sQueue) - 1 /\ Len(sQueue) \in Nat
    BY <1>15, HeadTailProperties DEF TickDropsUnprintable, Ready, TypeOK
  <2>2. Len(Tail(sQueue)) <= QueueSize
    BY <2>1 DEF TypeOK
  <2>3. sBlobs' \in [Buffers -> Messages \cup {NoMessage}]
    BY <1>15, <2>1 DEF TickDropsUnprintable, BuildBlob, TypeOK
  <2> QED BY <1>15, <2>1, <2>2, <2>3 DEF TickDropsUnprintable, TypeOK
<1>16. CASE TickInjects
  <2>1. Head(sQueue) \in Messages
    BY <1>16, HeadTailProperties DEF TickInjects, Ready, TypeOK
  <2>2. sBlobs' \in [Buffers -> Messages \cup {NoMessage}]
    BY <1>16, <2>1 DEF TickInjects, BuildBlob, TypeOK
  <2>3. call' \in Calls
    BY <1>16 DEF TickInjects, Calls
  <2> QED BY <1>16, <2>2, <2>3 DEF TickInjects, TypeOK
<1>17. ASSUME NEW a \in Asks, GameAsks(a) PROVE TypeOK'
  <2>1. call' \in Calls
    BY <1>17 DEF GameAsks, Calls
  <2> QED BY <1>17, <2>1 DEF GameAsks, TypeOK
<1>18. CASE GameReplays
  <2>1. Head(gameQueue) \in Asks /\ gameQueue' \in Seq(Asks)
    BY <1>18, HeadTailProperties DEF GameReplays, TypeOK
  <2>2. call' \in Calls
    BY <1>18, <2>1 DEF GameReplays, Calls
  <2> QED BY <1>18, <2>1, <2>2 DEF GameReplays, TypeOK
<1>19. CASE DialogueEnds
  <2>1. box' \in Boxes
    BY <1>19 DEF DialogueEnds, Boxes, NoBox
  <2> QED BY <1>19, <2>1 DEF DialogueEnds, TypeOK
<1>20. CASE LeavePlay
  BY <1>20 DEF LeavePlay, MoveTo, Phases, TypeOK
<1>21. CASE ResumePlay
  BY <1>21 DEF ResumePlay, MoveTo, Phases, TypeOK
<1>22. CASE BeginTransition
  BY <1>22 DEF BeginTransition, MoveTo, Phases, TypeOK
<1>23. ASSUME NEW m \in Maps, LoadMap(m) PROVE TypeOK'
  <2>1. box' \in Boxes /\ gameQueue' \in Seq(Asks) /\ phase' \in Phases
    BY <1>23 DEF LoadMap, Boxes, NoBox, Phases
  <2>2. fate' \in [Asks -> {"unasked", "asked", "shown", "gone"}]
    BY <1>23 DEF LoadMap
  <2> QED BY <1>23, <2>1, <2>2 DEF LoadMap, TypeOK
<1>24. ASSUME NEW b \in BOOLEAN, SetRefusing(b) PROVE TypeOK'
  BY <1>24 DEF SetRefusing, TypeOK
<1>25. CASE UNCHANGED vars
  BY <1>25 DEF vars, TypeOK
<1> QED
  BY <1>1, <1>2, <1>3, <1>4, <1>5, <1>6, <1>7, <1>8, <1>9, <1>10, <1>11, <1>12, <1>13,
     <1>14, <1>15, <1>16, <1>17, <1>18, <1>19, <1>20, <1>21, <1>22, <1>23, <1>24, <1>25
     DEF Next, CallProceeds, Body, Mod, Tick, Game

(* Every action keeps the relations between the flags, the call that is under way,
   the box and the phase. *)
LEMMA NextControl == TypeOK /\ Control /\ [Next]_vars => Control'
<1> SUFFICES ASSUME TypeOK, Control, [Next]_vars PROVE Control'
  OBVIOUS
<1> USE NoMessageAssumption, AsksAssumption, MapsAssumption
    DEF TypeOK, Control, InFlight, CallOfOurs, Showing, Yielded, HookFresh, Injecting,
        OwnTextOnly, StoryFirst, DeferredFresh, OursOpen,
        queueVars, blobVars, tickVars, worldVars, Buffers, AssetText, NoBox, Boxes,
        DialogueUp, NoCall, Calls, Idle, Phases
<1>1. CASE speak_yield_to_game
  BY <1>1 DEF speak_yield_to_game, MustYield, GiveWay, CloseDialogue
<1>2. CASE GameRefuses
  BY <1>2 DEF GameRefuses, Returned
<1>3. CASE GameQueues
  BY <1>3 DEF GameQueues
<1>4. CASE GameLoads
  BY <1>4 DEF GameLoads
<1>5. CASE dialogBin_get
  BY <1>5 DEF dialogBin_get, Returned, ServesBlob
<1>6. CASE InjectReturns
  BY <1>6 DEF InjectReturns, EndInjection
<1>7. ASSUME NEW m \in Messages, speak_queue(m) PROVE Control'
  BY <1>7 DEF speak_queue
<1>8. CASE speak_clear_chat
  BY <1>8 DEF speak_clear_chat
<1>9. CASE TickOutsideGame
  BY <1>9 DEF TickOutsideGame, InGame, Ours
<1>10. CASE TickInTransition
  BY <1>10 DEF TickInTransition, Ours, GiveWay, CloseDialogue, DropDeferred, Changing
<1>11. CASE TickOnNewMap
  BY <1>11 DEF TickOnNewMap, NoteMap, DropDeferred
<1>12. CASE TickBusy
  BY <1>12 DEF TickBusy, Ours
<1>13. CASE TickReissues
  BY <1>13 DEF TickReissues, MaySpeak, Settled
<1>14. CASE TickWaits
  BY <1>14 DEF TickWaits, Clear, MaySpeak, Settled
<1>15. CASE TickDropsUnprintable
  BY <1>15 DEF TickDropsUnprintable, Ready, Clear, MaySpeak, Settled, BuildBlob
<1>16. CASE TickInjects
  BY <1>16 DEF TickInjects, Ready, Clear, MaySpeak, Settled, BuildBlob
<1>17. ASSUME NEW a \in Asks, GameAsks(a) PROVE Control'
  BY <1>17 DEF GameAsks
<1>18. CASE GameReplays
  BY <1>18 DEF GameReplays
<1>19. CASE DialogueEnds
  BY <1>19 DEF DialogueEnds
<1>20. CASE LeavePlay
  BY <1>20 DEF LeavePlay, MoveTo
<1>21. CASE ResumePlay
  BY <1>21 DEF ResumePlay, MoveTo
<1>22. CASE BeginTransition
  BY <1>22 DEF BeginTransition, MoveTo
<1>23. ASSUME NEW m \in Maps, LoadMap(m) PROVE Control'
  BY <1>23 DEF LoadMap
<1>24. ASSUME NEW b \in BOOLEAN, SetRefusing(b) PROVE Control'
  BY <1>24 DEF SetRefusing
<1>25. CASE UNCHANGED vars
  BY <1>25 DEF vars, TypeOK
<1> QED
  BY <1>1, <1>2, <1>3, <1>4, <1>5, <1>6, <1>7, <1>8, <1>9, <1>10, <1>11, <1>12, <1>13,
     <1>14, <1>15, <1>16, <1>17, <1>18, <1>19, <1>20, <1>21, <1>22, <1>23, <1>24, <1>25
     DEF Next, CallProceeds, Body, Mod, Tick, Game

(* A message is in one place, whatever is done to the queue and to our box. *)
LEMMA NextDuplicate == IInv /\ [Next]_vars => NoDuplicate'
<1> SUFFICES ASSUME IInv, [Next]_vars PROVE NoDuplicate'
  OBVIOUS
<1> USE DEF IInv, queueVars
<1>a. /\ sQueue \in Seq(Messages) /\ Distinct(sQueue)
      /\ sOursShowing => sShowing \notin Queued(sQueue)
  BY DEF TypeOK, NoDuplicate, Distinct
<1> DEFINE Kept == Distinct(sQueue') /\ (sOursShowing' => sShowing' \notin Queued(sQueue'))
<1> SUFFICES Kept
  BY DEF NoDuplicate, Distinct
<1>1. CASE speak_yield_to_game
  <2>1. CASE MustYield
    BY <1>1, <2>1, Requeued DEF speak_yield_to_game, MustYield, GiveWay, Control
  <2>2. CASE ~MustYield
    BY <1>1, <1>a, <2>2 DEF speak_yield_to_game
  <2> QED BY <2>1, <2>2
<1>2. CASE GameRefuses
  BY <1>2, <1>a DEF GameRefuses
<1>3. CASE GameQueues
  BY <1>3, <1>a DEF GameQueues
<1>4. CASE GameLoads
  BY <1>4, <1>a DEF GameLoads
<1>5. CASE dialogBin_get
  BY <1>5, <1>a DEF dialogBin_get
<1>6. CASE InjectReturns
  <2>1. CASE call.stage = "shown"
    <3>1. sQueue # <<>>
      BY <1>6 DEF InjectReturns, Control, InFlight, CallOfOurs
    <3>2. Distinct(Tail(sQueue)) /\ Head(sQueue) \notin Queued(Tail(sQueue))
      BY <1>a, <3>1, TailDistinct
    <3> QED BY <1>6, <2>1, <3>2 DEF InjectReturns
  <2>2. CASE call.stage # "shown"
    BY <1>6, <1>a, <2>2 DEF InjectReturns
  <2> QED BY <2>1, <2>2
<1>7. ASSUME NEW m \in Messages, speak_queue(m) PROVE Kept
  <2>1. m \notin Queued(sQueue) /\ m # sShowing
    BY <1>7 DEF speak_queue
  <2>2. /\ Distinct(Enqueue(sQueue, m))
        /\ Queued(Enqueue(sQueue, m)) \subseteq Queued(sQueue) \cup {m}
    BY <1>a, <2>1, EnqueueDistinct
  <2> QED BY <1>7, <1>a, <2>1, <2>2 DEF speak_queue
<1>8. CASE speak_clear_chat
  <2>1. Distinct(sQueue') /\ Queued(sQueue') \subseteq Queued(sQueue)
    BY <1>8, <1>a, RedemptionsDistinct DEF speak_clear_chat
  <2> QED BY <1>8, <1>a, <2>1 DEF speak_clear_chat
<1>9. CASE TickOutsideGame
  BY <1>9, <1>a DEF TickOutsideGame, Ours
<1>10. CASE TickInTransition
  <2>1. CASE Ours
    BY <1>10, <2>1, Requeued DEF TickInTransition, Ours, GiveWay, Control
  <2>2. CASE ~Ours
    BY <1>10, <1>a, <2>2 DEF TickInTransition
  <2> QED BY <2>1, <2>2
<1>11. CASE TickOnNewMap
  BY <1>11, <1>a DEF TickOnNewMap
<1>12. CASE TickBusy
  BY <1>12, <1>a DEF TickBusy, Ours
<1>13. CASE TickReissues
  BY <1>13, <1>a DEF TickReissues
<1>14. CASE TickWaits
  BY <1>14, <1>a DEF TickWaits
<1>15. CASE TickDropsUnprintable
  <2>1. sQueue # <<>>
    BY <1>15 DEF TickDropsUnprintable, Ready
  <2>2. Distinct(Tail(sQueue))
    BY <1>a, <2>1, TailDistinct
  <2> QED BY <1>15, <2>2 DEF TickDropsUnprintable
<1>16. CASE TickInjects
  BY <1>16, <1>a DEF TickInjects
<1>17. ASSUME NEW a \in Asks, GameAsks(a) PROVE Kept
  BY <1>17, <1>a DEF GameAsks
<1>18. CASE GameReplays
  BY <1>18, <1>a DEF GameReplays
<1>19. CASE DialogueEnds
  BY <1>19, <1>a DEF DialogueEnds
<1>20. CASE LeavePlay
  BY <1>20, <1>a DEF LeavePlay, MoveTo
<1>21. CASE ResumePlay
  BY <1>21, <1>a DEF ResumePlay, MoveTo
<1>22. CASE BeginTransition
  BY <1>22, <1>a DEF BeginTransition, MoveTo
<1>23. ASSUME NEW m \in Maps, LoadMap(m) PROVE Kept
  BY <1>23, <1>a DEF LoadMap
<1>24. ASSUME NEW b \in BOOLEAN, SetRefusing(b) PROVE Kept
  BY <1>24, <1>a DEF SetRefusing
<1>25. CASE UNCHANGED vars
  BY <1>25, <1>a DEF vars
<1> QED
  BY <1>1, <1>2, <1>3, <1>4, <1>5, <1>6, <1>7, <1>8, <1>9, <1>10, <1>11, <1>12, <1>13,
     <1>14, <1>15, <1>16, <1>17, <1>18, <1>19, <1>20, <1>21, <1>22, <1>23, <1>24, <1>25
     DEF Next, CallProceeds, Body, Mod, Tick, Game
-----------------------------------------------------------------------------
LEMMA IInvHolds == Spec => []IInv
<1>1. IInv /\ [Next]_vars => IInv'
  BY NextTyped, NextControl, NextDuplicate DEF IInv
<1> QED
  BY InitIInv, <1>1, PTL DEF Spec

(* Every variable keeps to its domain, and the queue to SPEAK_QUEUE_SIZE. *)
THEOREM SpeakTyped == Spec => []TypeOK
<1>1. IInv => TypeOK
  BY DEF IInv
<1> QED
  BY <1>1, IInvHolds, PTL

(* A box of the game shows the game's text, and a box of ours one of our blobs. *)
THEOREM BoxesShowTheirOwnText == Spec => []OwnTextOnly
<1>1. IInv => OwnTextOnly
  BY DEF IInv, Control
<1> QED
  BY <1>1, IInvHolds, PTL

(* Nothing redirects the text loader outside the mod's own request. *)
THEOREM HijackStaysConfined == Spec => []HijackConfined
<1>1. IInv => HijackConfined
  BY DEF IInv, Control, InFlight, Injecting, HijackConfined
<1> QED
  BY <1>1, IInvHolds, PTL

(* No message waits twice, or waits while it is on screen. *)
THEOREM MessagesInOnePlace == Spec => []NoDuplicate
<1>1. IInv => NoDuplicate
  BY DEF IInv
<1> QED
  BY <1>1, IInvHolds, PTL

(* The buffer that a box of ours points into holds the message on screen. *)
THEOREM BoxTextLives == Spec => []LiveText
<1>1. IInv => LiveText
  BY DEF IInv, Control, InFlight, Showing, Injecting, LiveText, Idle, NoCall
<1> QED
  BY <1>1, IInvHolds, PTL

(* While a captured request waits, no box of ours stays open. *)
THEOREM StoryComesFirst == Spec => []StoryFirst
<1>1. IInv => StoryFirst
  BY DEF IInv, Control
<1> QED
  BY <1>1, IInvHolds, PTL

(* A captured request does not outlive the world it was made in. *)
THEOREM DeferredStaysFresh == Spec => []DeferredFresh
<1>1. IInv => DeferredFresh
  BY DEF IInv, Control
<1> QED
  BY <1>1, IInvHolds, PTL

(* No box of ours is left open when a map is loaded over its text. *)
THEOREM TransitionsYield == Spec => []TransitionYields
<1>1. IInv => TransitionYields
  BY DEF IInv, Control, Showing, Yielded, TransitionYields, Idle, NoCall
<1> QED
  BY <1>1, IInvHolds, PTL

(* The message of a box that is told to close is the next one to be spoken. *)
THEOREM InterruptedIsKept == Spec => InterruptedKept
<1>1. IInv /\ [Next]_vars => [OursOpen /\ box'.closing => Head(sQueue') = sBlobs[box.text]]_vars
  <2> SUFFICES ASSUME IInv, Next, OursOpen, box'.closing
               PROVE  Head(sQueue') = sBlobs[box.text]
    OBVIOUS
  <2>1. ~box.closing
    BY DEF OursOpen
  <2>2. call.stage # "shown" => sOursShowing /\ sBlobs[box.text] = sShowing
    BY DEF IInv, Control, Showing, OursOpen
  <2>3. CASE speak_yield_to_game
    <3>1. MustYield
      BY <2>1, <2>3 DEF speak_yield_to_game
    <3> QED
      BY <2>2, <2>3, <3>1, Requeued DEF speak_yield_to_game, GiveWay, IInv, Control
  <2>4. CASE TickInTransition
    <3>1. Ours
      BY <2>1, <2>4 DEF TickInTransition
    <3> QED
      BY <2>2, <2>4, <3>1, Requeued DEF TickInTransition, GiveWay, IInv, Control, Idle, NoCall
  <2>5. CASE dialogBin_get
    BY <2>5 DEF dialogBin_get
  <2>6. CASE DialogueEnds \/ \E m \in Maps : LoadMap(m)
    BY <2>6 DEF DialogueEnds, LoadMap, NoBox
  <2>7. CASE UNCHANGED box
    BY <2>1, <2>7
  <2>8. \/ speak_yield_to_game \/ TickInTransition \/ dialogBin_get
        \/ DialogueEnds \/ (\E m \in Maps : LoadMap(m)) \/ UNCHANGED box
    BY DEF Next, CallProceeds, Body, Mod, Tick, Game, GameRefuses, GameQueues, GameLoads,
           InjectReturns, speak_queue, speak_clear_chat, TickOutsideGame, TickOnNewMap, TickBusy,
           TickReissues, TickWaits, TickDropsUnprintable, TickInjects, GameAsks, GameReplays,
           LeavePlay, ResumePlay, BeginTransition, MoveTo, SetRefusing
  <2> QED
    BY <2>3, <2>4, <2>5, <2>6, <2>7, <2>8
<1> QED
  BY <1>1, IInvHolds, PTL DEF Spec, InterruptedKept
=============================================================================
