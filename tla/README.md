# Verification of the Twitch chat mod

The mod shows a Twitch channel's chat in a corner of Banjo-Kazooie: Recompiled
and lets the game's characters speak chosen messages in the game's own dialogue
boxes. This directory holds TLA+ models of its concurrent and stateful parts,
the TLC configurations that check them on small instances, and TLAPS proofs
about them for every size.

Paths below are relative to the repository, without the leading `src/` of this
checkout where that is unambiguous (`speak.c` is `src/src/speak.c`).

## 1. The system

Four flows of control take part:

| flow | code | runs |
|---|---|---|
| game thread | `main.c`, `speak.c`, `overlay.c`, and the game itself | the mod's tick once a frame, the game's requests for dialogue at any time in between |
| chat reader | `native/irc_client.cpp` | connects to Twitch's IRC, receives, sleeps between attempts |
| redemption reader | `native/redemption_client.cpp` | the same against the helper on 127.0.0.1 |
| helper | `helper/twitch_redemptions.py` | a Python process: polls Twitch, feeds the mod, fulfils redemptions, renames the reward |

Data goes one way: Twitch → (chat reader | helper → redemption reader) → ring
of messages → `twitch_chat_tick` → panel and speech queue → a dialogue box.
Settings go the other way: `refresh_settings` and `refresh_channel` start and
stop the readers, resize the panel, and send the reward's name to the helper.

### Inventory

| component | state it keeps | operations | meets | what makes it correct |
|---|---|---|---|---|
| speech queue, `speak.c` | `sQueue[16]`, `sQueueHead`, `sQueueCount` | `speak_queue`, `requeue_front`, `speak_clear_chat`, taking the head | called by tick and hook | is a bounded queue; a wrapped ring is compacted without reading a stale slot |
| dialogue injection, `speak.c` | `sShowing`, `sOursShowing`, `sDeferred`, `sHijack`, `sInjecting`, `sIdleFrames`, `sLastMap`, `sBlobs`, `sBlobIndex` | `speak_tick`, the hook `speak_yield_to_game`, the patched `dialogBin_get` | the game's dialogue system, its map transitions | story dialogue wins; the game's boxes never show chat; text on screen is never overwritten; nothing crosses a map load; nothing is lost or doubled; everything is spoken in the end |
| text building, `speak.c`, `twitch_str.h` | none | the request of `speak_queue`, `speak_lookup_portrait`, `build_blob`, `ascii_fold` | called by the tick | the blob is one the game's loader can walk; the box shows what was written |
| main tick, `main.c` | `sFrame`, `sLastSettings`, `sChannel`, `sPendingChannel`, `sLastState`, `sRedemptionsWanted`, ... | `twitch_chat_tick`: settings, channel, status, draining | every other component | the mod ends up doing what the settings say; nothing of a channel that was left is shown or spoken |
| overlay, `overlay.c` | ring of lines, rows, status, shown or hidden | push, status, apply settings, show, hide | main tick | rows are the newest lines, oldest first |
| chat reader, `irc_client.cpp` | `running_`, `state_`, `queue_`, `active_socket_`, `wake_mutex_`, the thread, its socket | `start`, `stop`, `pop`, `run` | game thread, network | stop returns at once; no descriptor is shut down after its close; only the current channel's messages; a silent connection is noticed |
| IRC line parsing, `irc_client.cpp` | the line that is not complete yet | cutting the stream, `handle_line`, tags, badges, `sanitize_text` | in the reader | the same messages however the stream was cut; names and texts are made of whole sequences of bytes, without ASCII control characters |
| redemption reader, `redemption_client.cpp` | as the chat reader, and `reward_title_` | `start`, `stop`, `pop`, `set_reward_title`, `run` | game thread, helper | as the chat reader; a change of the name reaches the helper |
| native ABI, `twitch_chat.cpp` | none | argument marshalling | game and readers | redemptions are popped before chat |
| helper, `twitch_redemptions.py` | config file, `Feed.clients`, wanted and pending title, batch | start-up, poll loop, accept and reader threads | Twitch, the mod | nothing paid for is thrown away; redeemed order; one reward, known by its id; a mod that stays connected gets it in the end; the reward has the name that is set |
| helper authorisation, `twitch_redemptions.py` | tokens in the config file, and main's copy of it | device flow, `call` with its renewal, every save of config | Twitch's identity service | the login on file survives failures and restarts; calls come to work again |
| boot map, build and release, vendored headers | - | - | - | left out, see section 8 |

What is hard in this code: a hook that the game calls in the middle of anything;
a cached view of the dialogue system refreshed once a frame; two threads around
one socket and one condition variable; a game thread that must never wait; a
helper that may end between any two effects on Twitch, the file and the feed;
and settings that change while they are polled. `PROJECT.json` lists each of
these places, at its line, with the properties that watch it.

## 2. Modules

| module | models | composed with |
|---|---|---|
| `Utf8` | what a byte of UTF-8 is: how many a first byte claims, what continues one | used by `ChatStream` and `DialogueText` |
| `ChatStream` | `run`'s buffer, `handle_line`, tags and `sanitize_text`: from what `recv` returns to the messages that are pushed | in `SpeechQueue` |
| `DialogueText` | from a message to a request and its blob: `speak_queue` up to the ring, `build_blob`, `ascii_fold` | operators, used in `SpeechQueue` |
| `QueueOps` | the four operations on the speech queue, as operators on sequences | used by `RequestQueue`, `RequestRing`, `Speak` and `MainTick` |
| `RequestQueue` | the abstract bounded queue: what `speak.c` wants of its ring | - |
| `RequestRing` | the ring with head and count, operation by operation | implements `RequestQueue` by a refinement mapping |
| `SpeechQueue` | a chat message's way: the stream, the request and blob made of it, and the ring beside it | extends `RequestRing`, `ChatStream` and `DialogueText` |
| `Speak` | `speak.c` between queue and screen, with the game's dialogue system and maps | uses `QueueOps` (the ring's contract, which `RequestRing` meets) |
| `SpeakChannel` | `Speak` and the change of channel that `main.c` reports to it | extends `Speak` |
| `MessageRing` | the ring both readers push to, as a sequence that drops its oldest | base of the two contracts |
| `ChatReader` | the contract of the chat reader: what the game thread can call and see | base of `MainTick` |
| `FeedReader` | the contract of the redemption reader | base of `MainTick` |
| `IrcClient` | both threads of the chat reader | implements `ChatReader` by a refinement mapping |
| `RedemptionClient` | both threads of the redemption reader | implements `FeedReader` by a refinement mapping |
| `RedemptionHelper` | the helper's threads, the file, the feed, Twitch, and a mod at the other end | - |
| `HelperAuth` | the helper's login: device flow, config file, renewal of tokens, through failures and restarts | - |
| `Overlay` | the panel: ring of lines, rows, status | - |
| `MainTick` | one frame of `main.c`, step by step, with the player, the two readers as their contracts, and the speech queue with what is on screen | extends `Overlay`, `ChatReader` and `FeedReader`, uses `QueueOps` |
| `ChannelDebounce` | `MainTick` and what the channel poll read the time before | extends `MainTick` |
| `MC...` | the values TLC gives to the constants | |
| `...Proofs` | theorems about the module of that name | |
| `SequenceProofs` | lemmas about sequences, loops and the queue's operators | used by `SpeechQueueProofs` and `SpeakProofs` |

Larger models use the contract of smaller ones rather than their steps: `Speak`
has a sequence where the code has a ring, and `MainTick` has `ChatReader` and `FeedReader`,
each a queue and little more, where the code has readers with two threads. All three contracts are
shown to be met: `ImplementsQueue`, `ImplementsReader` and `ImplementsFeed` are checked and proved.

### How they correspond to the code

**RequestRing.** `sQueue`, `sQueueHead`, `sQueueCount` as in the code, `NoMessage`
in slots never written. `speak_queue`, `requeue_front`, `speak_clear_chat` and the
dequeue of `speak_tick` are actions with the same index arithmetic.

**ChatStream.** `Recv` is one turn of the reader's loop with data: append, take out
the complete lines, handle each, keep the rest unless it is too long (`Kept`). A loop of the
code is a function of the number of turns, so that it can be reasoned about: `Reading(in)[k]`
is where `run`'s inner loop is after `k` bytes (`Byte` is one of them), `CleanTurns(in, max_len)[k]` where
`sanitize_text`'s is after `k` turns. `CleanTurn` has the code's six ways on: a byte that starts nothing, a
sequence the input does not hold, one that is not well encoded, a blank, a character with room
for it, and one without. A byte is a number. What stands before the text of a line is one
symbol whose meaning, `login`, `command` and tags, `HeadOf` gives; a line whose
head is not shaped like that of a message has another `command`.

**DialogueText.** `RequestFor` is `speak_queue` up to the ring (name prefix, portrait, cut
to the buffer). `DrawTurn` is a turn of `build_blob`'s loop: decode (`Taken`, `CodePoint`), fold (`Glyph`),
break the word if it is too long, write, with the same tests for room; `build_blob` is the
bytes it lays out. `ascii_fold`'s tables are given by their runs. What the properties compare with says
nothing of how a text is made: `WholeSequences` and `Clean` look at each byte's neighbours,
`Glyphs` at each character by itself, `WellFormed` walks the blob as the game's loader does.

**Speak.** Everything runs on the game thread, so what interleaves is the order
of calls. A request for a box is a nest of synchronous calls: hook →
`showDialogConditional` → `dialogBin_get` → return. `call` records who makes the
request that is under way and how far it has come, each function is an action,
and nothing else runs until it is over. `speak_tick` is one action for each
place it returns at (`TickOutsideGame` ... `TickInjects`), with the code's order of tests;
`InjectReturns` is the rest of it after `gcdialog_showDialog`. The game is external:
`box` is the dialogue on screen, `gameQueue` the requests the game queued itself,
`GameRefuses`/`GameQueues`/`GameLoads` the three outcomes DEVELOPING.md lists, and
`phase`/`map` normal play and transitions. `fate` is a history variable.

**IrcClient, RedemptionClient.** `rpc` and `gpc` say where the reader and the
game thread are. A step is what lies between two points at which the other
thread can come in: an atomic load or store, a critical section, a blocking
call. `condition_variable::wait_for` is the four steps it has: take `wake_mutex_`,
test the predicate, go to sleep while releasing the mutex, wake up and take it
again. After the receive loop the steps are: unpublish the socket, close it, look at `running_`, store the
state; the game thread may read `Connected` between the close and the store. A descriptor is `open`, `shut` or `none`; in `RedemptionClient` the game
thread's copy of it may have gone stale (`fd = "closed"`). The network refuses,
delivers, falls silent or closes at any time.

**ChatReader.** `chatFor` is the channel read, `chatState` what `twitch_chat_get_state`
returns, `chatRing` what can be popped. In `IrcClient` a channel counts as read from the end of
`start` to the `join` of its thread, a thread that has said `Idle` on its way out still as
connecting, and the socket, the backoff and the mutex are not seen at all. `FeedReader` is the same
for redemptions: `helperOn` while there is a thread, `helperRing` as many redemptions as `queue_` counts.

**HelperAuth.** A token is the number of the grant it came with; Twitch knows which
it accepts. A step is what happens between two requests, saves or sleeps. `mem`
is main's `config`, `file` what `save_config` last wrote: `LoginKept` is about how far apart
they may be. `spoiled` is a history variable that names the losses the code cannot
prevent, and the one it can: a save in a run with `--token`.

**RedemptionHelper.** The main thread is start-up (`Launch`, `EnsureReward`,
`SaveReward`) and the poll loop (`top` → `rename` → `renamed` → `check` → `fetch` → `send` →
`fulfil`). A failed call is one in which Twitch did nothing or did it after all.
`Crash` may come between any two steps. Connections have a life of their own: the
mod can be gone long before `Feed.clients` knows. The mod at the other end has the two threads of
`redemption_client.cpp` as far as the name is concerned: the reader (`modStep`) connects, publishes the
socket, copies the name and sends the copy, the game thread (`gameStep`) stores the name, looks for the
socket and writes, and either may come in between any two steps of the other. The streamer may rename any reward of the
helper's in Twitch's dashboard at any time, also one whose id is not on file yet (`RenameInDashboard`).

**MainTick, Overlay.** `pc` walks through a frame: settings, channel, status
report, draining. The player changes settings between steps. A message is where
it came from and what kind it is, so `speakable` and the bot filter are decided as
in the code. Of `speak.c` there are the queue, as the origins of what waits, and `showing`, the origin of
what is on screen: `speak_tick` shows the head, or finds the box gone, or puts the message back for a transition, and
`GameInterrupts`, the hook, puts it back between two frames. `leftShowing` is a history variable: what was on
screen when the channel was changed last.

`PROJECT.json`'s `map` names the source lines of every definition.

## 3. Runs

| run | instance | shows |
|---|---|---|
| `speech_queue` | stream: up to 8 symbols in 13 chunks, buffer of 6, names of 3 and texts of 5 bytes, blobs of 5 characters with words of 2; ring: 3 slots, 2 chat messages, 2 redemptions; 2.7 million states | `Reassembled`, `CleanTexts`, `BlobWellFormed`, `BoxShowsText`; the ring implements the abstract queue (`ImplementsQueue`) |
| `speak` | queue of 2, 3 messages one of them unprintable, 2 requests one of them the carrier and one that queues itself, 2 maps one of them safe; 388 thousand states, fairness | `OwnTextOnly`, `HijackConfined`, `NoDuplicate`, `LiveText`, `StoryFirst`, `DeferredFresh`, `TransitionYields`, `InterruptedKept`, `DeferredAnswered`, `QueueDrains` |
| `irc` | 2 channels, ring of 2, 2 lines in a recv, silence limit 3, fairness | `NoMissedWakeup`, `PublishedIsOpen`, `OnlyCurrentChannel`, `StatusHonest`, `ImplementsReader`, `StopReturnsPromptly`, `SilenceNoticed` |
| `redemption_client` | 2 names, ring of 2, 3 changes, fairness | `NoMissedWakeup`, `PublishedIsOpen`, `NoTitleMissed`, `ImplementsFeed`, `GameReturns` |
| `helper` | redemptions: 3 in pages of 2; names: 2, 1 change, 1 renaming elsewhere; for both 2 connections, 1 failure, 1 restart; 404 thousand states, fairness | `NoneThrownAway`, `RedeemedOrder`, `DeliveredOnce`, `EventuallyServed`, `OneReward`, `TitleApplied`, `NameNotLost` |
| `helper_auth` | polled every second, a code valid for 3; 2 expired or withdrawn tokens, 2 faults, 2 crashes, 2 launches with options; 448 thousand states, fairness | `LoginKept`, `CallsRecover` |
| `main_tick` | 2 channels, 3 settings, panel of up to 2 lines, rings of 1, no box shown; 829 thousand states, fairness | `ShownIsNewest`, `OverlayOwnChannel`, `SettingsApply` |
| `main_tick_spoken` | 2 channels, chat of both and redemptions spoken, speech queue of 2; 2.1 million states | `SpeechOwnChannel` |
| `interrupted_spoken` | as `speak` | violated: an interrupted message can still be thrown away |
| `left_channel` | 1 chat message, 1 redemption | violated: the message on screen when the channel changes can come back |
| `redemption_last_title` | 2 names, 2 changes | violated: the helper may hear the old name last |
| `channel_debounce` | channel polled every second settings poll | violated: a name is acted on that was not read twice in a row |

Every property of a passing run has a mutant in `PROJECT.json`: a plausible slip
in one mapped definition (`..._Unlocked`, `..._Forgets`, `..._OffByOne`, each next to the
definition it is a mutant of) under which TLC finds that property violated. Type
invariants that are proved are not run as well.

`speech_queue` explores two halves in one run (`MCNext`): the ring with the stream at rest, and
the stream with the ring at rest. They share nothing but the message itself, and `SpeechSpec`, which
the theorems are about, lets them interleave. `helper` does the same with redemptions and names: there are
redemptions only where no name is given to the reward but the default (`MCNext`). `main_tick` leaves
what is queued to wait (`MCPanelNext`); `main_tick_spoken` has the boxes.

### Why the bounds are enough

- **Queue and ring sizes.** What the code distinguishes is empty, full, wrapped, and
  full and wrapped; 3 slots give all of these with the head anywhere, 2 give full
  with one message to lose at either end. The proofs lift this to every size.
- **Messages.** One more than the queue holds, so that overflow happens; one of
  each kind that an operation tells apart (chat or redemption, printable or not).
- **Requests of the game.** The carrier, because the loader looks for it, and one
  that queues itself, because the dialogue system treats it differently. Each is
  made at most once, which bounds the run; a request that arrives while another
  waits is covered by there being two.
- **Stream.** 8 symbols hold two short lines and the start of a third, or one line with
  a cut before, in and after each character; a buffer of 6 is exceeded by a line
  that does not end. The bytes are one of each kind `sanitize_text` and `handle_line` tell apart:
  letter, blank, control byte, first byte of two and of three, stray continuation, CR,
  LF, colon, the marker of `/me`. A text of 5 and a name of 3 bytes end within a character.
  Boxes of 5 characters with words of 2 put the forced break at the edge of the buffer.
  `IntRange` 256 stands for 2^32, so that three digits wrap.
- **Threads.** The code has one reader at a time per client; interleavings are not
  bounded. `MaxChanges = 3` lets a name be changed, changed back, and changed once
  more around a reconnection.
- **Helper.** 3 redemptions in pages of 2 make two polls necessary and leave a
  remainder. One failure and one restart may come at any step, and together;
  two connections are an old one the feed has not given up and the new one. Names are the
  default and another; a single change and a single renaming elsewhere may each race the setting
  up of either connection, the launch, and the renaming of the reward.
- **Login.** A grant, an expiry and a renewal are what the code tells apart; with two of
  each kind of disturbance a second one may strike while the first is repaired.
  Three polls fit into a code's life, and `slow_down` makes the last come too late.
- **Main tick.** The poll intervals matter by which poll runs with which, so the
  shortest ones with that pattern are used: every frame in `main_tick` and `main_tick_spoken`, every
  second settings poll in `channel_debounce`. In a speech queue of 2 a message can be put back before another, and also
  when the queue is full.

`CHECK_DEADLOCK` is on but for `speech_queue`, whose stream ends at its bound: no other model may stop.

## 4. Fairness

| module | assumed | because |
|---|---|---|
| `Speak` | the call under way, the tick, the game's replay of its queue and the end of a dialogue each happen if they stay possible | the game calls its main loop every frame and dialogue ends by itself, by a button, or because it was closed. Nothing is assumed of the player, of chat or of when the game asks; `DeferredAnswered` and `QueueDrains` say under which calm they hold |
| `IrcClient`, `RedemptionClient` | both threads are scheduled, `connect` returns, and a `recv` on a socket that was shut down returns | OS scheduler, connect timeout, the contract of `shutdown`. No timer of the code and nothing the far end does is counted on: that is what "promptly" means. `SilenceNoticed` adds, as its own hypothesis, that receive timeouts happen (`SO_RCVTIMEO`) |
| `RedemptionHelper` | main, accept and reader threads are scheduled, the mod's reader sends and reads what it was sent and its game thread finishes `set_reward_title`, a helper that ended is started again | the threads are the OS scheduler's; the last is up to the streamer. That the mod connects or stays is not assumed. Failures and restarts are finite by the bounds |
| `HelperAuth` | the main thread is scheduled, and a helper that ended is started again without options | faults, crashes, expiries and launches with options are finite by the bounds; a mod stays connected, so that calls are made |
| `MainTick` | the tick | the game's main loop |

## 5. Proofs

Everything is proved for all values of the constants, from the `ASSUME`s of the
modules alone: sizes are positive, the "none" values are no members of the sets
they mark the absence of, the carrier is one of the requests, and the like. For the texts they say that
what arrives are symbols, those for heads and PING no bytes (`StreamAssumption`); that names are strings
of bytes (`NameAssumption`); that a box's text fits the one byte that gives its length, and a portrait the seven
bits it has (`TextAssumption`); and that the default portrait is one (`PortraitAssumption`, `main.c:111`). TLC evaluates
those assumptions for the instances of the runs.

| module | proves |
|---|---|
| `SequenceProofs` | lemmas: induction over sequences and over the turns of a loop; `SubSeq` and `\o` position by position; what `Enqueue`, `RequeueFront` and `RedemptionsOf` return position by position, and that they keep a queue free of repetitions and within its size |
| `SpeechQueueProofs` | `RingTyped`, `RingEnclosesMessages`, `RingImplementsQueue`: every step of the ring is a step of the abstract queue, or a stutter; and all four text invariants of the run `speech_queue`: `NothingLostInChunks`, `OnlyCleanTexts`, `BlobsWellFormed`, `BoxesShowText` |
| `SpeakProofs` | type correctness and the seven safety invariants of the run `speak`, and its action property `InterruptedKept` |
| `IrcClientProofs` | type correctness and the four safety invariants of the run `irc`, and that `IrcClient` implements `ChatReader` (`ClientImplementsReader`) |
| `HelperAuthProofs` | type correctness and `LoginKept` |
| `RedemptionClientProofs` | type correctness and the three safety invariants of the run `redemption_client`, and that `RedemptionClient` implements `FeedReader` (`ClientImplementsFeed`) |
| `MainTickProofs` | type correctness and the safety invariants of the runs `main_tick` and `main_tick_spoken` |
| `RedemptionHelperProofs` | type correctness (`HelperTyped`), the three safety invariants of the run `helper` (`NothingThrownAway`, `ComesInOrder`, `ComesOnce`), `OneReward`, and `NameNotLost` (`NameKept`), the safety half of `TitleApplied` |

**The ring.** The mapping takes the ring to the sequence of the `sQueueCount` slots
from `sQueueHead` on, modulo the size. The invariant is that head and count are in
range and that those slots hold messages. The laborious part is `speak_clear_chat`,
which compacts in place.

**Loops.** What `sanitize_text`, `run` and `build_blob` compute is a function defined by recursion on
the number of turns. `LoopRuns` says that such a definition has the value at 0 and the step it is
written with, and `LoopInd` and `SeqInd` that what the first turn has and each turn keeps, all have. The
library's induction theorems take a predicate as a parameter, which the installed provers
cannot instantiate; so these are about the *set* of the indices for which a thing holds, and
rest on `SetInd`, which is the well-foundedness of strict inclusion among finite sets.

**The stream.** `Reassembled` follows from `ReadSoFar`: as long as no line was too long, the reader is
where reading the whole stream at once would be. A step keeps it by `ReadJoin`: reading `in \o more`
is reading `more` where `in` was left, which is reading the unfinished line of `in` and then `more`,
after what `in` gave. `Kept` drops nothing then, since the unfinished line is the end of the
stream from its last newline on (`IsTail`). `CleanTexts` is one invariant of `sanitize_text`'s
loop (`Neat`): the output so far consists of whole sequences, has no ASCII control character, is within its bound and single-spaced, and
may only end in a space. It says as much about validity as the code does, which goes by the
first byte alone: section 8 has what passes. Each turn appends a space or one whole character, so it remains to show that
whole texts put together are whole (`WholeConcat`, `NeatChar`). `StreamInv` joins the two.

**The blob.** `build_blob`'s loop keeps `Wraps`: the run is the distance from the last space, no
stretch of `SPEAK_MAX_WORD + 1` characters is without one, and the output has room for its terminator. With the
lengths the blob has then, `BlobIs` reads it back the way the loader does. For `BoxShowsText` the
invariant of the loop is `Shown`: what can be seen of the output is what can be seen of the
characters before the place the loop has reached, which is the first byte of a character (once the buffer
is full, of some beginning of them). That a cut
shows a beginning of the whole is `SeeingPrefix` and `GlyphsSame`: a character that lies within the cut is
the same one in the whole text. That is why `BoxShowsText` has to assume that the buffer does
not end within a character; section 8 says what the code does otherwise.

**Speak.** None of the properties is inductive: that a box shows live text
rests on what is known of the call in which it was opened, and that on the phase
the tick was in. The invariant `IInv` therefore has, besides the properties,
`InFlight` (the two flags say exactly how far a call of ours has come), `CallOfOurs`
(during it the buffer to be shown holds the head of the queue, nothing is
captured, the map is the current one and no box is up until the text is
loaded), `Showing` (an open box of ours that has been returned to the tick is
remembered, on this map, with its message), `Yielded` (once a tick has run in a
transition nothing of ours is left) and `HookFresh` (a request in the hook was
made in this world). It is kept by every action in three groups: domains
(`NextTyped`), relations (`NextControl`), and repetitions (`NextDuplicate`, which rests
on the lemmas about the queue).

**The readers.** The invariants pin each shared variable to the places of the
two threads: the mutex is held exactly while the reader is at `predicate` or
`descending`, the socket is published only inside the receive loop, `running_` is false
once `stop` has exchanged it. From these follow that no wakeup is lost and that no
closed descriptor is shut down. `StatusHonest` says what the game thread may be told: `Connected` as long as there
is a connection, and without one only from its close to the store that follows the look at `running_` (`rpc` is
`closed` or `report`), neither of which waits for anything; and `Idle` once `stop` is through, because the reader
stores that on its way out, whichever way that is (`LeftIdle`). `NoTitleMissed` needs the argument worth reading:
`ReaderTells` says that unless the game thread is about to send the name on this
very connection, the reader has sent it or is about to, because the reader
publishes its socket before it reads the name and the game thread stores the
name before it looks for the socket. A stale descriptor counts as not about to
send, since the reader connected again after the name was stored.

**The reader's contract.** A step of either thread is a step of `ChatReader` or leaves
`chatFor`, `chatState` and `chatRing` as they are. Besides the invariants of the client this needs
`Told`: while there is a connection the state says so, and it says `Idle` only without a
reader that is wanted. The mapping adds to each channel in the ring the one kind of message that
`IrcClient` has, and two lemmas (`PlainTail`, `PlainAppend`) say that this commutes with pushing
and popping.

The proof for `FeedReader` is the same with a count for a ring.

**The main tick.** `RingsOwn` says that every message in the chat ring is of the channel that is read,
which is the one main.c last acted on, and every one in the helper's ring from the helper: the first because
`start` empties the ring, the second because nothing else pushes. A change of channel drops what
chat has queued, but not what is on screen. `SpeechOwnChannel` therefore allows one message of a channel that was left,
the one that was on screen at the change (`leftShowing`), and says where it can be: on screen, or at the
head of the queue with nothing on screen. It is inductive as it stands: putting back moves the message
from the screen to the head (`RequeuedFrom`), what arrives goes to the other end and is of the channel that is set
(`EnqueuedFrom`), and what a full queue pushes out can only be that message or one behind it; showing the head takes it out of the
queue, and another change finds it at one place or the other, on screen, where it is the new
exception, or in the queue, where it is dropped (`ClearedIs`). For the panel the invariant is `PanelOwn`: its lines are of the channel that is set
*unless* a report is due that differs from every state; that is what `sLastState = -1` is for.
`ShownIsNewest` needs `Holds`: the i-th line of the log is in the slot `used - Len(log) + i - 1` of the ring, modulo
its size, in the count before it is brought back by a turn (`sUsed + 1`) as well as after.

**One reward.** Once the file names a reward no launch looks for one (`Identified`). Until it does,
the reward that an interrupted launch left behind can only be found by its title. The helper renames
by id, so only the dashboard can have changed it; as long as it did not (`dashboard = 0`), the title is still the one the next launch asks for
(`Findable`), and there is one reward at most (`Single`). With a renaming in that gap there are two, and the
property says no more than that none is created once an id is on file.

**The feed.** What the mod has received and what is on its way to it is one sequence, `Stream`. Accepting,
reading and marking do not change it; only a lost connection cuts it, and after that `Intact` is
false for good. While it holds, `AllInStream` says that whatever is fulfilled, or sent and not yet
fulfilled, is in `Stream`, which gives `NoneThrownAway`. It needs `BatchGood` (what is unsent is the end of
the batch, the batch is oldest first and not fulfilled) and `Heard`: from the check for clients to the
fulfilment somebody listens, because a client is only taken off when a write to it fails, and
that is a lost connection. `RedeemedOrder` needs `Dense`: whatever is older than something in `Stream` stands before it there.
A poll keeps it because a page leaves out nothing older than
what it takes on (`PageFacts`, from ranks in a finite set). For `DeliveredOnce` the invariant `Once` counts over
all connections: without a failure or a restart, what was ever sent is fulfilled or is the part of the batch that is sent.

**The name.** `NameNotLost` says of every moment what `TitleApplied` says of the end: once neither
thread of the mod has it still to send (`NameSent`), the name set in the mod is the last of those on their
way. It holds for the runs in which `Undisturbed` always holds, so the
step of its invariant (`NameSafe`) may use `Undisturbed` before and after it. The invariant is stronger in one
place: the name is ahead already when the game thread still has to write it, if what it found is the socket of an
earlier connection (`AllSent`), because the reader has sent a copy on the present one. It is a copy of the present name by
`Undisturbed`, which leaves out a change between the copying and the sending on connect: there the older name
may come last (`LastTitleWins`). Besides, the
invariant says that the file and Twitch agree on the title except between a renaming and its
saving: that is what makes it right to drop a name that the file has already.

**The login.** `LoginKept` is about the file, which is only ever a copy of `mem`. So the
invariant is about `mem` (`CopyGood`): past the login it holds a refresh token that Twitch
accepts, unless it came from `--token` or the loss is one that `spoiled` names. A renewal
makes `mem` good and the file bad at once; only `saveTokens` lies between that and the save.

## 6. Checked, not proved

- All liveness properties (`DeferredAnswered`, `QueueDrains`, `StopReturnsPromptly`, `SilenceNoticed`, `GameReturns`,
  `EventuallyServed`, `TitleApplied`, `CallsRecover`, `SettingsApply`): they need fairness and ENABLED, which the
  prover does not handle.
- The four violated claims, which are counterexamples.

Every invariant, every action property and every refinement that a run checks is also proved.

## 7. What the models assume

- Every map load happens under a transition that a tick sees in normal mode
  (a transition lasts many frames).
- A request of the game is made at most once; two messages are never the same request.
- A game request under way is not interrupted; the replay of the game's own queue
  does not pass through the hook (it calls no `showDialogConditional`), and may
  take several ticks.
- `connect` and `getaddrinfo` return in the end; how long they take is outside the
  models. Spurious wakeups of the condition variable are left out: they only
  shorten a backoff, which may expire at any time anyway. Data the kernel had
  buffered may still be read after a shutdown.
- Twitch returns the oldest page of redemptions first and applies a call at most
  once. In `RedemptionHelper` writing the config file does not fail (`HelperAuth` lets it). `--reward-title` is the same at
  every launch.
- In `RedemptionHelper` the titles of a channel's rewards are unique, as Twitch requires; a name
  sent on a connection that has ended is lost. A write of the mod to a descriptor that was closed is lost or reaches the next connection.
- In `MainTick` what comes on screen, and when, is freer than `speak.c` makes it: the head may be shown at any tick
  with nothing on screen, and the game may interrupt between any two frames.
- Settings may change between any two steps of a frame.
- A message's `color`, and so `parse_hex_color`, is layout. `set_field` never cuts: what
  `sanitize_text` returns is at most 32 and 240 bytes, its fields hold 39 and 255.
- The ring of the redemption reader starts empty whenever it is started.
- Twitch refuses a device code once it has expired, takes a refresh token until it
  was replaced or consent was withdrawn, and may or may not replace it. `--token` is
  good for the API the run points at, or is not.
- `sUsed` of the overlay's ring is kept modulo its size, which is all the code uses of it.

## 8. What disagrees with the text, and limits

Checked, as findings with a run each:

1. The repository's `README.md:62-63` says an interrupted message "is spoken afterwards rather than
   thrown away"; put back at the head it becomes the oldest, and a full queue
   drops its oldest first (`speak.c:683`).
2. `speak.h:21-22` says clearing is for "the channel you just left does not keep
   talking"; the message on screen is not cleared and comes back if interrupted
   (`speak.c:309`).
3. `redemption_client.h:38-40` says a name is sent "immediately if already
   connected"; two threads send from copies, and the old one may come last
   (`redemption_client.cpp:184`).
4. `main.c:120-121` says a channel must be read "twice in a row"; the pending name
   is not forgotten when the field goes back to the current channel (`main.c:146`).

Met while modelling. The models keep these behaviours as the code has them and
no property denies them:

- `stop` leaves the ring of messages as it is, although `twitch_chat.h:19` says it
  clears them; the properties speak of the time a channel is set.
- `start` waits in `join` for a reader that is in `getaddrinfo` or `connect`, although
  `twitch_chat.h:15-16` says it returns immediately.
- A request that queues itself is both queued by the game and captured
  (`speak.c:798-801`), and may be shown twice.
- `sOursShowing` is refreshed once a frame (`speak.c:740`); a request of the game
  that comes in the same frame as the end of our box can close the game's own box.
- Only one request is captured at a time; a second one that does not queue itself
  is refused by the game. A captured one is made again once, and lost if that is refused.
- The helper sends redemptions again after a failed fulfilment, although its
  header (lines 22-23) promises otherwise: that is the price of `NoneThrownAway`.
- A client that has left is still in `Feed.clients` until a write to it fails; what
  is redeemed meanwhile is sent to nobody and fulfilled, although `twitch_redemptions.py:470` says "Only consume
  redemptions when the mod is actually listening". So a redemption can be lost, not only delayed, while
  the mod is away; `EventuallyServed` speaks of a mod whose connection the feed has taken.
- `ensure_reward` finds a reward by its title (`twitch_redemptions.py:221-225`). If the helper ended between creating the reward
  and saving its id, and the reward was renamed in the dashboard before the next launch, that launch creates a
  second one, and the first stays on the channel unwatched. `OneReward` makes that exception.
- `irc_client.h:28` says that invalid sequences "are dropped rather than passed through", but `sanitize_text` goes by
  the first byte and asks only that continuation bytes follow: overlong forms (C0 80), surrogates (ED A0 80) and numbers
  past the last character (F4 90, F5 to F7) pass. And of the control characters, which line 24 says "become spaces",
  only the ASCII ones do: C2 80 to C2 9F pass. `CleanTexts` is about whole sequences and ASCII controls.
- The game thread is told of a connection for a moment longer than it lasts: `state_` is stored after
  the close (`irc_client.cpp:437-440`, `redemption_client.cpp:274-275`). `StatusHonest` allows that moment.
- A renaming that failed is forgotten until the mod connects again
  (`helper/README.md:35`); one made in the dashboard is not undone (`:37-38`); one
  whose saving was cut off leaves the file with the old title. The reader threads of two
  connections run in no order, so a name from the older one may come last.
- `twitch_chat_init` never starts a connection: the debounce makes the first read
  only pending (`main.c:228-235`).
- A character of three bytes that the request's buffer cuts after two is decoded as one
  of two bytes (`speak.c:582-591`): E3 81 becomes U+00C1 and shows as "A", although `speak.c:477-478`
  says that what has no stand-in "is dropped".
- `--token` is "deliberately not written to the config file"
  (`twitch_redemptions.py:385-386`), but every later save writes the whole of config, with the token and without
  the refresh token; only `--reauthorise` helps then.
- A line that is too long is dropped only as far as it had come: its tail is taken for a line.
- `sanitize_text` breaks off at a sequence the input does not hold to its end, and drops
  what stands behind the byte that claimed it.
- The index of `#<digits>` is an `int` and wraps (`speak.c:407-412`): many digits may name a portrait.
- The device code is polled once more after it expired, so that the streamer gets
  Twitch's error and not the message that it timed out.
- `start` of the redemption reader drops redemptions that were fulfilled and not
  yet spoken. A change of the panel's settings blanks the status line.

Not modelled:

- The native ABI: marshalling. What its calls do is in `ChatReader` and `FeedReader`, its one decision,
  redemptions first, in `MainTick`.
- Boot map (debugging aid, one hook), build and release scripts, vendored headers.
- Fonts, colours and layout of the panel; wording of logs.

## 9. Plan

Done: the speech queue with its refinement, a message's way from the stream to the
blob, the dialogue injection, both readers and their contracts with the refinements,
the helper and its login, the overlay and the main tick, and the proofs of section 5.

Next: `RedemptionClient` and `RedemptionHelper` joined over one connection, for the name's
way from the setting to Twitch: which of the disturbances that `TitleApplied` excludes
(`Undisturbed`) the next change of the name repairs.
