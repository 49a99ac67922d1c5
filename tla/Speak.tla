-------------------------------- MODULE Speak --------------------------------
(***************************************************************************)
(* Speaking chat messages through the game's own dialogue boxes:           *)
(* src/src/speak.c between the queue and the screen.                       *)
(*                                                                         *)
(* Everything runs on the game thread.  What interleaves is the order of   *)
(* calls: the mod's tick, the game's own requests for a box (which the mod *)
(* hooks), the dialogue system's updates, and map changes.  A request is a *)
(* nest of synchronous calls, hook -> showDialogConditional ->             *)
(* dialogBin_get, and each function is an action of its own; while one is  *)
(* under way (call # NoCall) nothing else runs.                            *)
(*                                                                         *)
(* The dialogue system, the map and the game's actors are the game's, not  *)
(* the mod's: they are modelled from how speak.c uses them.                *)
(***************************************************************************)
EXTENDS QueueOps

CONSTANTS
  NoMessage,     \* sShowing before anything was shown, and an unused buffer
  Printable,     \* the messages of which build_blob draws at least one character
  Asks,          \* the requests for a box the game makes, each at most once
  SelfQueues,    \* those with 0x04 or 0x20 in arg1, which the game queues itself
  Carrier,       \* the request for SPEAK_CARRIER_ASSET: Blubber's own line
  NoAsk,
  IdleFrames,    \* SPEAK_IDLE_FRAMES
  Maps, NoMap,   \* NoMap is the -1 sLastMap starts with
  SafeMaps       \* the maps is_safe_map accepts

ASSUME NoMessageAssumption == NoMessage \notin Messages
ASSUME AsksAssumption ==
  /\ SelfQueues \subseteq Asks
  /\ Carrier \in Asks
  /\ NoAsk \notin Asks
ASSUME IdleFramesAssumption == IdleFrames \in Nat
ASSUME MapsAssumption == NoMap \notin Maps /\ SafeMaps \subseteq Maps

VARIABLES
  sQueue, sShowing, sOursShowing, sDeferred, sHijack, sInjecting, sIdleFrames,
  sLastMap, sBlobs, sBlobIndex,              \* the file statics of speak.c
  box,         \* the dialogue on screen
  gameQueue,   \* g_Dialog.unk148, the requests the game queued
  phase,       \* whether the game is in normal play, and its map transitions
  map,         \* map_get()
  refusing,    \* VOLATILE_FLAG_1 and the like: showDialogConditional returns 0
  fate,        \* what became of each request of the game (history)
  call         \* the dialogue request that is under way

queueVars == <<sQueue, sShowing, sOursShowing>>
blobVars  == <<sHijack, sInjecting, sBlobs, sBlobIndex>>
tickVars  == <<sIdleFrames, sLastMap>>
worldVars == <<phase, map, refusing>>
vars == <<queueVars, sDeferred, blobVars, tickVars, box, gameQueue, worldVars, fate, call>>

-----------------------------------------------------------------------------
(* A box is opened by the mod or by the game and reads its text from one of
   the two blobs or from the asset the game loaded. *)
Buffers   == {0, 1}
AssetText == 2
NoBox     == [owner |-> "none", text |-> AssetText, closing |-> FALSE]
Boxes     == [owner : {"none", "mod", "game"}, text : Buffers \cup {AssetText},
              closing : BOOLEAN]

(* gcdialog_hasCurrentTextId *)
DialogueUp == box # NoBox

(* func_803114D0 asks the dialogue on screen, whoever opened it, to close. *)
CloseDialogue == box' = [box EXCEPT !.closing = TRUE]

(* "inject" is speak_tick's own call, "reissue" its call on behalf of the game,
   "game" a request of the game and "replay" one out of its queue. *)
NoCall == [caller |-> "none", req |-> NoAsk, stage |-> "none"]
Calls  == {NoCall} \cup
          [caller : {"inject", "reissue", "game", "replay"}, req : Asks,
           stage : {"hook", "body", "load", "shown", "refused"}]
Idle   == call = NoCall

(* Normal play, the two halves of a transition (before and after a tick has run
   in it: a transition lasts many frames), and everything in which D_8027A130 or
   getGameMode() says the game is not in normal play. *)
Phases   == {"play", "fading", "faded", "other"}
InGame   == phase # "other"
Changing == phase \in {"fading", "faded"}

TypeOK ==
  /\ sQueue \in Seq(Messages) /\ Len(sQueue) <= QueueSize
  /\ sShowing \in Messages \cup {NoMessage}
  /\ sOursShowing \in BOOLEAN
  /\ sDeferred \in Asks \cup {NoAsk}
  /\ sHijack \in BOOLEAN /\ sInjecting \in BOOLEAN
  /\ sIdleFrames \in 0..IdleFrames
  /\ sLastMap \in Maps \cup {NoMap}
  /\ sBlobs \in [Buffers -> Messages \cup {NoMessage}] /\ sBlobIndex \in Buffers
  /\ box \in Boxes
  /\ gameQueue \in Seq(Asks)
  /\ phase \in Phases /\ map \in Maps /\ refusing \in BOOLEAN
  /\ fate \in [Asks -> {"unasked", "asked", "shown", "gone"}]
  /\ call \in Calls

Init ==
  /\ sQueue = <<>> /\ sShowing = NoMessage /\ sOursShowing = FALSE
  /\ sDeferred = NoAsk
  /\ sHijack = FALSE /\ sInjecting = FALSE
  /\ sIdleFrames = 0 /\ sLastMap = NoMap
  /\ sBlobs = [i \in Buffers |-> NoMessage] /\ sBlobIndex = 0
  /\ box = NoBox /\ gameQueue = <<>>
  /\ phase = "other" /\ map \in Maps /\ refusing = FALSE
  /\ fate = [a \in Asks |-> "unasked"]
  /\ call = NoCall

-----------------------------------------------------------------------------
(* Our message goes back to the front of the queue and our box is told to
   close; both places that interrupt a message do these three things. *)
GiveWay_LeavesOpen ==
  sQueue' = RequeueFront(sQueue, sShowing) /\ sOursShowing' = FALSE /\ UNCHANGED box

GiveWay_StaysOurs ==
  sQueue' = RequeueFront(sQueue, sShowing) /\ CloseDialogue /\ UNCHANGED sOursShowing

GiveWay ==
  sQueue' = RequeueFront(sQueue, sShowing) /\ sOursShowing' = FALSE /\ CloseDialogue

(* A request we captured belongs to the area that is being left behind. *)
DropDeferred_Keeps == UNCHANGED sDeferred

DropDeferred == sDeferred' = NoAsk

(* The queue's other callers: twitch_chat_tick.  A message is one request, so
   one that is waiting or was last shown does not arrive again. *)

speak_queue(m) ==
  /\ Idle /\ m \notin Queued(sQueue) \cup {sShowing}
  /\ sQueue' = Enqueue(sQueue, m)
  /\ UNCHANGED <<sShowing, sOursShowing, sDeferred, blobVars, tickVars, box,
                 gameQueue, worldVars, fate, call>>

speak_clear_chat ==
  /\ Idle
  /\ sQueue' \in RedemptionsOf(sQueue)
  /\ UNCHANGED <<sShowing, sOursShowing, sDeferred, blobVars, tickVars, box,
                 gameQueue, worldVars, fate, call>>

-----------------------------------------------------------------------------
(* speak_tick, one action for each place it returns at.  It first forgets our
   box if nothing is on screen: Ours is sOursShowing after that. *)

Ours == sOursShowing /\ DialogueUp

TickOutsideGame ==
  /\ Idle /\ ~InGame
  /\ sOursShowing' = Ours /\ sIdleFrames' = 0
  /\ UNCHANGED <<sQueue, sShowing, sDeferred, blobVars, sLastMap, box,
                 gameQueue, worldVars, fate, call>>

TickInTransition ==
  /\ Idle /\ Changing
  /\ IF Ours THEN GiveWay ELSE sOursShowing' = FALSE /\ UNCHANGED <<sQueue, box>>
  /\ DropDeferred /\ sIdleFrames' = 0
  /\ phase' = "faded"
  /\ UNCHANGED <<sShowing, blobVars, sLastMap, gameQueue, map, refusing, fate, call>>

NoteMap_Forgets == UNCHANGED sLastMap

NoteMap == sLastMap' = map

TickOnNewMap ==
  /\ Idle /\ phase = "play" /\ map # sLastMap
  /\ NoteMap
  /\ sOursShowing' = FALSE /\ DropDeferred /\ sIdleFrames' = 0
  /\ UNCHANGED <<sQueue, sShowing, blobVars, box, gameQueue, worldVars, fate, call>>

Settled == phase = "play" /\ map = sLastMap

MaySpeak == ~DialogueUp /\ map \in SafeMaps

TickBusy ==
  /\ Idle /\ Settled /\ ~MaySpeak
  /\ sOursShowing' = Ours /\ sIdleFrames' = 0
  /\ UNCHANGED <<sQueue, sShowing, sDeferred, blobVars, sLastMap, box,
                 gameQueue, worldVars, fate, call>>

TickReissues ==
  /\ Idle /\ Settled /\ MaySpeak /\ sDeferred # NoAsk
  /\ sOursShowing' = FALSE /\ sDeferred' = NoAsk /\ sIdleFrames' = 0
  /\ call' = [caller |-> "reissue", req |-> sDeferred, stage |-> "hook"]
  /\ UNCHANGED <<sQueue, sShowing, blobVars, sLastMap, box, gameQueue, worldVars, fate>>

Clear_IgnoresDeferred == Settled /\ MaySpeak

Clear == Settled /\ MaySpeak /\ sDeferred = NoAsk

(* Counts the quiet frames, and then finds nothing to say. *)
TickWaits ==
  /\ Idle /\ Clear /\ (sIdleFrames < IdleFrames \/ sQueue = <<>>)
  /\ sOursShowing' = FALSE
  /\ sIdleFrames' = IF sIdleFrames < IdleFrames THEN sIdleFrames + 1 ELSE sIdleFrames
  /\ UNCHANGED <<sQueue, sShowing, sDeferred, blobVars, sLastMap, box, gameQueue,
                 worldVars, fate, call>>

Ready_OffByOne == Clear /\ sIdleFrames > IdleFrames /\ sQueue # <<>>

Ready == Clear /\ sIdleFrames = IdleFrames /\ sQueue # <<>>

(* build_blob has written the buffer before it turns out to hold nothing. *)
BuildBlob_WrongBuffer == sBlobs' = [sBlobs EXCEPT ![1 - sBlobIndex] = Head(sQueue)]

BuildBlob == sBlobs' = [sBlobs EXCEPT ![sBlobIndex] = Head(sQueue)]

TickDropsUnprintable ==
  /\ Idle /\ Ready /\ Head(sQueue) \notin Printable
  /\ BuildBlob
  /\ sQueue' = Tail(sQueue) /\ sOursShowing' = FALSE
  /\ UNCHANGED <<sShowing, sDeferred, sHijack, sInjecting, sBlobIndex, tickVars, box,
                 gameQueue, worldVars, fate, call>>

TickInjects ==
  /\ Idle /\ Ready /\ Head(sQueue) \in Printable
  /\ BuildBlob
  /\ sHijack' = TRUE /\ sInjecting' = TRUE /\ sOursShowing' = FALSE
  /\ call' = [caller |-> "inject", req |-> Carrier, stage |-> "hook"]
  /\ UNCHANGED <<sQueue, sShowing, sDeferred, sBlobIndex, tickVars, box, gameQueue,
                 worldVars, fate>>

(* Our call is over, whether or not its text was loaded. *)
EndInjection_LeavesHijack == sInjecting' = FALSE /\ UNCHANGED sHijack

EndInjection == sInjecting' = FALSE /\ sHijack' = FALSE

(* gcdialog_showDialog has returned: the rest of speak_tick. *)
InjectReturns ==
  /\ call.stage \in {"shown", "refused"}
  /\ EndInjection /\ sIdleFrames' = 0 /\ call' = NoCall
  /\ IF call.stage = "shown"
     THEN /\ sOursShowing' = TRUE /\ sShowing' = Head(sQueue)
          /\ sBlobIndex' = 1 - sBlobIndex
          /\ sQueue' = Tail(sQueue)
     ELSE UNCHANGED <<queueVars, sBlobIndex>>
  /\ UNCHANGED <<sDeferred, sBlobs, sLastMap, box, gameQueue, worldVars, fate>>

Tick == \/ TickOutsideGame \/ TickInTransition \/ TickOnNewMap \/ TickBusy
        \/ TickReissues \/ TickWaits \/ TickDropsUnprintable \/ TickInjects

-----------------------------------------------------------------------------
(* The hook that runs before every gcdialog_showDialogConditional: a request of
   the game that finds our box up is remembered, our message goes back in the
   queue and our box is told to close. *)

MustYield == ~sInjecting /\ sOursShowing /\ sDeferred = NoAsk /\ DialogueUp

speak_yield_to_game ==
  /\ call.stage = "hook"
  /\ call' = [call EXCEPT !.stage = "body"]
  /\ IF MustYield
     THEN sDeferred' = call.req /\ GiveWay
     ELSE UNCHANGED <<sDeferred, sQueue, sOursShowing, box>>
  /\ UNCHANGED <<sShowing, blobVars, tickVars, gameQueue, worldVars, fate>>

(* The replacement for the game's dialogBin_get: the blob for our own call, the
   asset that was asked for in every other case. *)
ServesBlob_ById == call.req = Carrier

ServesBlob == sHijack /\ sInjecting /\ call.req = Carrier

Returned(result) ==
  IF call.caller = "inject" THEN [call EXCEPT !.stage = result] ELSE NoCall

dialogBin_get ==
  /\ call.stage = "load"
  /\ box' = [owner   |-> IF call.caller = "inject" THEN "mod" ELSE "game",
             text    |-> IF ServesBlob THEN sBlobIndex ELSE AssetText,
             closing |-> FALSE]
  /\ sHijack' = (sHijack /\ ~ServesBlob)
  /\ fate' = IF call.caller = "inject" THEN fate ELSE [fate EXCEPT ![call.req] = "shown"]
  /\ call' = Returned("shown")
  /\ UNCHANGED <<queueVars, sDeferred, sInjecting, sBlobs, sBlobIndex, tickVars,
                 gameQueue, worldVars>>

-----------------------------------------------------------------------------
(* The game.  showDialogConditional itself has the three outcomes DEVELOPING.md
   lists: refused, shown at once (which loads the text within the call), or,
   while a dialogue is up, queued if the caller asked for that and lost if not. *)

GameRefuses ==
  /\ call.stage = "body"
  /\ refusing \/ (DialogueUp /\ (call.caller = "inject" \/ call.req \notin SelfQueues))
  /\ call' = Returned("refused")
  /\ UNCHANGED <<queueVars, sDeferred, blobVars, tickVars, box, gameQueue, worldVars, fate>>

GameQueues ==
  /\ call.stage = "body"
  /\ ~refusing /\ DialogueUp /\ call.caller # "inject" /\ call.req \in SelfQueues
  /\ gameQueue' = Append(gameQueue, call.req)
  /\ call' = NoCall
  /\ UNCHANGED <<queueVars, sDeferred, blobVars, tickVars, box, worldVars, fate>>

GameLoads ==
  /\ call.stage = "body"
  /\ ~refusing /\ ~DialogueUp
  /\ call' = [call EXCEPT !.stage = "load"]
  /\ UNCHANGED <<queueVars, sDeferred, blobVars, tickVars, box, gameQueue, worldVars, fate>>

(* An NPC or a script asks for a box, whenever it likes. *)
GameAsks(a) ==
  /\ Idle /\ fate[a] = "unasked"
  /\ fate' = [fate EXCEPT ![a] = "asked"]
  /\ call' = [caller |-> "game", req |-> a, stage |-> "hook"]
  /\ UNCHANGED <<queueVars, sDeferred, blobVars, tickVars, box, gameQueue, worldVars>>

(* The dialogue system's update replays what it queued once it is free; that
   does not go through showDialogConditional, so the hook does not see it. *)
GameReplays ==
  /\ Idle /\ gameQueue # <<>> /\ ~DialogueUp
  /\ gameQueue' = Tail(gameQueue)
  /\ call' = [caller |-> "replay", req |-> Head(gameQueue), stage |-> "load"]
  /\ UNCHANGED <<queueVars, sDeferred, blobVars, tickVars, box, worldVars, fate>>

(* A dialogue comes to its end, or has closed as it was asked to. *)
DialogueEnds ==
  /\ Idle /\ DialogueUp
  /\ box' = NoBox
  /\ UNCHANGED <<queueVars, sDeferred, blobVars, tickVars, gameQueue, worldVars, fate, call>>

(* Pausing, cutscenes and the like leave normal play and come back to it; a
   transition begins; the map it leads to is loaded, and with the old one go its
   dialogue and whatever it had asked for. *)
MoveTo(p) ==
  /\ phase' = p
  /\ UNCHANGED <<queueVars, sDeferred, blobVars, tickVars, box, gameQueue, map,
                 refusing, fate, call>>

LeavePlay       == Idle /\ phase = "play" /\ MoveTo("other")
ResumePlay      == Idle /\ phase = "other" /\ MoveTo("play")
BeginTransition == Idle /\ phase \in {"play", "other"} /\ MoveTo("fading")

LoadMap(m) ==
  /\ Idle /\ phase = "faded"
  /\ phase' \in {"play", "other"} /\ map' = m
  /\ box' = NoBox /\ gameQueue' = <<>>
  /\ fate' = [a \in Asks |-> IF fate[a] = "unasked" THEN "unasked" ELSE "gone"]
  /\ UNCHANGED <<queueVars, sDeferred, blobVars, tickVars, refusing, call>>

SetRefusing(b) ==
  /\ Idle /\ refusing # b /\ refusing' = b
  /\ UNCHANGED <<queueVars, sDeferred, blobVars, tickVars, box, gameQueue, phase, map,
                 fate, call>>

-----------------------------------------------------------------------------
Body == GameRefuses \/ GameQueues \/ GameLoads

(* A call that has begun runs to its end. *)
CallProceeds == speak_yield_to_game \/ Body \/ dialogBin_get \/ InjectReturns

Mod == \/ \E m \in Messages : speak_queue(m)
       \/ speak_clear_chat
       \/ Tick

Game == \/ \E a \in Asks : GameAsks(a)
        \/ GameReplays \/ DialogueEnds
        \/ LeavePlay \/ ResumePlay \/ BeginTransition
        \/ \E m \in Maps : LoadMap(m)
        \/ \E b \in BOOLEAN : SetRefusing(b)

Next == CallProceeds \/ Mod \/ Game

Spec == Init /\ [][Next]_vars

(* mainLoop runs the tick on every frame and the dialogue system's update after
   it; a call returns.  A dialogue ends because its text runs out, its reader
   presses a button, or it was told to close.  Nothing makes the player move on,
   chat speak or the game ask. *)
Fairness == /\ WF_vars(CallProceeds) /\ WF_vars(Tick)
            /\ WF_vars(GameReplays) /\ WF_vars(DialogueEnds)

FairSpec == Spec /\ Fairness

-----------------------------------------------------------------------------
(* Safety. *)

OursOpen == box.owner = "mod" /\ ~box.closing

(* A box the game opened shows the game's text and a box of ours shows one of
   our blobs: the carrier is one of Blubber's lines, and he never reads out a
   chat message in place of it (dialogBin_get, sHijack, sInjecting). *)
OwnTextOnly == box.owner = "mod" <=> box.text \in Buffers

(* The flags that redirect the text loader are set only while our own request is
   in flight, whatever became of it (speak_tick clears both on every path). *)
HijackConfined == call.caller # "inject" => ~sHijack /\ ~sInjecting

(* A message is in one place: nothing waits twice, and the message on screen is
   not also waiting, however its box was interrupted (speak_yield_to_game and
   speak_tick both put it back, and must not both do so). *)
NoDuplicate ==
  /\ \A i, j \in 1..Len(sQueue) : sQueue[i] = sQueue[j] => i = j
  /\ sOursShowing => sShowing \notin Queued(sQueue)

(* The box keeps pointers into the buffer it was opened on: for as long as it is
   on screen that buffer holds the very message that would be put back if it were
   interrupted (sBlobs, sBlobIndex, sShowing). *)
LiveText == box.owner = "mod" /\ Idle => sBlobs[box.text] = sShowing

(* Story dialogue always wins: while a request of the game waits for us to get
   out of the way, no chat box is open unless it has been told to close. *)
StoryFirst == sDeferred # NoAsk => ~OursOpen

(* A captured request is never carried into a world it does not belong to. *)
DeferredFresh == sDeferred # NoAsk => fate[sDeferred] # "gone"

(* Once a tick has seen the transition, no box of ours is left open across the
   map load that frees the heap its text was allocated from. *)
TransitionYields == phase = "faded" /\ Idle => ~OursOpen

(* The message of a box that is told to close is the next one to be spoken, even
   when the queue is full. *)
InterruptedKept ==
  [][OursOpen /\ box'.closing => Head(sQueue') = sBlobs[box.text]]_vars

-----------------------------------------------------------------------------
(* Liveness. *)

(* If the player goes on playing, a request that was captured is made again, or
   the map it was made in is left. *)
DeferredAnswered ==
  <>[](phase = "play") =>
    \A a \in Asks : sDeferred = a ~> \/ call.caller = "reissue" /\ call.req = a
                                     \/ Changing

(* Where speaking is allowed and stays allowed, no message waits for ever. *)
Calm == phase = "play" /\ map \in SafeMaps /\ ~refusing

QueueDrains == <>[]Calm => \A m \in Messages : []<>(m \notin Queued(sQueue))

-----------------------------------------------------------------------------
(* What the comments of speak.c claim and the code does not keep. *)

(* A message that was interrupted stays at the head of the queue until it is
   spoken, or the channel is left. *)
InterruptedSpoken ==
  [][sQueue # <<>> /\ Head(sQueue) = sShowing /\ sQueue' # sQueue
     => \/ sQueue' # <<>> /\ Head(sQueue') = sShowing
        \/ sQueue' = Tail(sQueue) /\ sOursShowing'
        \/ sQueue' \in RedemptionsOf(sQueue)]_vars
=============================================================================
