-------------------------- MODULE RedemptionClient --------------------------
(***************************************************************************)
(* The mod's end of the redemption feed: twitch::RedemptionClient of       *)
(* src/native/redemption_client.cpp.                                       *)
(*                                                                         *)
(* The game thread starts and stops the reader thread, pops redemptions    *)
(* and names the reward; the reader connects to the helper on this         *)
(* machine, tells it the name and receives redemptions.  The name can      *)
(* change at any moment of that, and both threads write on one socket.     *)
(* Each step is one the other thread can come between.                     *)
(***************************************************************************)
EXTENDS Integers, Sequences

CONSTANTS
  Titles,         \* reward names, as truncated to reward_title_
  NoTitle,        \* the empty name: nothing configured
  RingSize,       \* the capacity of MessageRing
  MaxChanges      \* bound: changes of the name

ASSUME NoTitleAssumption == NoTitle \notin Titles
ASSUME SizesAssumption == RingSize \in Nat \ {0} /\ MaxChanges \in Nat

VARIABLES
  running_, state_, queue_,   \* queue_: how many redemptions are in the ring
  active_socket_,             \* whether the reader's descriptor is published
  reward_title_,
  wakeMutex,                  \* who holds wake_mutex_
  rpc, socket,                \* the reader thread and its descriptor
  line,                       \* the name the reader has formatted but not yet sent
  gpc, fd,                    \* the game thread, and the descriptor it took a copy of
  told,                       \* the names the helper was sent on this connection
  changes

shared == <<running_, state_, queue_, active_socket_, reward_title_, wakeMutex>>
reader == <<rpc, socket, line>>
game   == <<gpc, fd, changes>>
vars   == <<shared, reader, game, told>>

MaybeTitle == Titles \cup {NoTitle}

Attached == {"publish", "format", "send", "check", "recv", "unpublish", "close"}
ReaderAt == Attached \cup {"none", "loop", "connecting", "closed", "retry", "locking", "predicate",
                           "descending", "asleep", "waking", "leaving", "exited"}
GameAt   == {"ready", "interrupt", "notify", "join", "socket", "write"}

TypeOK ==
  /\ running_ \in BOOLEAN /\ state_ \in {"Idle", "Connecting", "Connected"}
  /\ queue_ \in 0..RingSize /\ active_socket_ \in BOOLEAN
  /\ reward_title_ \in MaybeTitle /\ wakeMutex \in {"free", "reader"}
  /\ rpc \in ReaderAt /\ socket \in {"none", "open", "shut"} /\ line \in MaybeTitle
  /\ gpc \in GameAt /\ fd \in {"none", "live", "closed"}
  /\ told \in Seq(Titles) /\ changes \in 0..MaxChanges

Init ==
  /\ running_ = FALSE /\ state_ = "Idle" /\ queue_ = 0 /\ active_socket_ = FALSE
  /\ reward_title_ = NoTitle /\ wakeMutex = "free"
  /\ rpc = "none" /\ socket = "none" /\ line = NoTitle
  /\ gpc = "ready" /\ fd = "none" /\ told = <<>> /\ changes = 0

-----------------------------------------------------------------------------
(* The reader thread: RedemptionClient::run. *)

ReaderAtTop ==
  /\ rpc = "loop"
  /\ rpc' = IF running_ THEN "connecting" ELSE "leaving"
  /\ UNCHANGED <<shared, socket, line, game, told>>

(* connect_loopback: a helper that is not running refuses. *)
ConnectFails ==
  /\ rpc = "connecting"
  /\ rpc' = "retry" /\ state_' = "Idle"
  /\ UNCHANGED <<running_, queue_, active_socket_, reward_title_, wakeMutex, socket, line,
                 game, told>>

ConnectSucceeds ==
  /\ rpc = "connecting"
  /\ rpc' = "publish" /\ state_' = "Connected" /\ socket' = "open" /\ told' = <<>>
  /\ UNCHANGED <<running_, queue_, active_socket_, reward_title_, wakeMutex, line, game>>

PublishSocket_SkipsTitle ==
  /\ rpc = "publish"
  /\ active_socket_' = TRUE /\ rpc' = "check"
  /\ UNCHANGED <<running_, state_, queue_, reward_title_, wakeMutex, socket, line, game, told>>

PublishSocket ==
  /\ rpc = "publish"
  /\ active_socket_' = TRUE /\ rpc' = "format"
  /\ UNCHANGED <<running_, state_, queue_, reward_title_, wakeMutex, socket, line, game, told>>

(* send_reward_title: the name is copied under title_mutex_ and written after the
   mutex is released. *)
FormatTitle ==
  /\ rpc = "format"
  /\ line' = reward_title_ /\ rpc' = "send"
  /\ UNCHANGED <<shared, socket, game, told>>

Told(t) == IF t = NoTitle \/ socket # "open" THEN told ELSE Append(told, t)

SendTitle ==
  /\ rpc = "send"
  /\ told' = Told(line) /\ line' = NoTitle /\ rpc' = "check"
  /\ UNCHANGED <<shared, socket, game>>

CheckRunning ==
  /\ rpc = "check"
  /\ rpc' = IF running_ THEN "recv" ELSE "unpublish"
  /\ UNCHANGED <<shared, socket, line, game, told>>

Pushed == IF queue_ = RingSize THEN queue_ ELSE queue_ + 1

(* Data; part of a line, a line that is not a redemption, or one. *)
RecvLine ==
  /\ rpc = "recv"
  /\ queue_' \in {queue_, Pushed} /\ rpc' = "check"
  /\ UNCHANGED <<running_, state_, active_socket_, reward_title_, wakeMutex, socket, line,
                 game, told>>

(* The helper exited, or stop shut the socket down. *)
RecvEnds ==
  /\ rpc = "recv"
  /\ rpc' = "unpublish"
  /\ UNCHANGED <<shared, socket, line, game, told>>

RecvTimesOut ==
  /\ rpc = "recv" /\ socket = "open"
  /\ rpc' = "check"
  /\ UNCHANGED <<shared, socket, line, game, told>>

UnpublishSocket_Forgets == UNCHANGED active_socket_

UnpublishSocket == active_socket_' = FALSE

Unpublish ==
  /\ rpc = "unpublish"
  /\ UnpublishSocket /\ rpc' = "close"
  /\ UNCHANGED <<running_, state_, queue_, reward_title_, wakeMutex, socket, line, game, told>>

(* A copy of the descriptor the game thread took is one of a closed file now. *)
CloseSocket ==
  /\ rpc = "close"
  /\ socket' = "none" /\ rpc' = "closed" /\ told' = <<>>
  /\ fd' = (IF fd = "live" THEN "closed" ELSE fd)
  /\ UNCHANGED <<shared, line, gpc, changes>>

AfterClose ==
  /\ rpc = "closed"
  /\ state_' = "Idle" /\ rpc' = "retry"
  /\ UNCHANGED <<running_, queue_, active_socket_, reward_title_, wakeMutex, socket, line,
                 game, told>>

(* Between attempts: wait_for tests running_ with wake_mutex_ held, and releases it
   only as it goes to sleep. *)
BeforeBackoff ==
  /\ rpc = "retry"
  /\ rpc' = IF running_ THEN "locking" ELSE "leaving"
  /\ UNCHANGED <<shared, socket, line, game, told>>

LockWake ==
  /\ rpc = "locking" /\ wakeMutex = "free"
  /\ wakeMutex' = "reader" /\ rpc' = "predicate"
  /\ UNCHANGED <<running_, state_, queue_, active_socket_, reward_title_, socket, line, game, told>>

TestPredicate_Missing ==
  /\ rpc = "predicate"
  /\ rpc' = "descending"
  /\ UNCHANGED <<shared, socket, line, game, told>>

TestPredicate ==
  /\ rpc = "predicate"
  /\ IF running_ THEN rpc' = "descending" /\ UNCHANGED wakeMutex
                 ELSE rpc' = "loop" /\ wakeMutex' = "free"
  /\ UNCHANGED <<running_, state_, queue_, active_socket_, reward_title_, socket, line, game, told>>

FallAsleep ==
  /\ rpc = "descending"
  /\ rpc' = "asleep" /\ wakeMutex' = "free"
  /\ UNCHANGED <<running_, state_, queue_, active_socket_, reward_title_, socket, line, game, told>>

BackoffExpires ==
  /\ rpc = "asleep"
  /\ rpc' = "waking"
  /\ UNCHANGED <<shared, socket, line, game, told>>

WakeUp ==
  /\ rpc = "waking" /\ wakeMutex = "free"
  /\ rpc' = "loop"
  /\ UNCHANGED <<shared, socket, line, game, told>>

ReaderLeaves ==
  /\ rpc = "leaving"
  /\ rpc' = "exited" /\ state_' = "Idle"
  /\ UNCHANGED <<running_, queue_, active_socket_, reward_title_, wakeMutex, socket, line,
                 game, told>>

-----------------------------------------------------------------------------
(* The game thread. *)

(* start: nothing if it runs; stop has nothing left to join. *)
Start_KeepsRing ==
  /\ gpc = "ready" /\ ~running_ /\ rpc = "none"
  /\ running_' = TRUE /\ state_' = "Connecting" /\ rpc' = "loop"
  /\ UNCHANGED <<queue_, active_socket_, reward_title_, wakeMutex, socket, line, game, told>>

Start ==
  /\ gpc = "ready" /\ ~running_ /\ rpc = "none"
  /\ queue_' = 0 /\ running_' = TRUE /\ state_' = "Connecting" /\ rpc' = "loop"
  /\ UNCHANGED <<active_socket_, reward_title_, wakeMutex, socket, line, game, told>>

(* stop, from running_.exchange(false) on. *)
Stop ==
  /\ gpc = "ready" /\ running_
  /\ running_' = FALSE /\ gpc' = "interrupt"
  /\ UNCHANGED <<state_, queue_, active_socket_, reward_title_, wakeMutex, reader, fd,
                 changes, told>>

StopInterrupts ==
  /\ gpc = "interrupt"
  /\ socket' = IF active_socket_ THEN "shut" ELSE socket
  /\ gpc' = "notify"
  /\ UNCHANGED <<shared, rpc, line, fd, changes, told>>

MayNotify_Unlocked == TRUE

MayNotify == wakeMutex = "free"

StopNotifies ==
  /\ gpc = "notify" /\ MayNotify
  /\ rpc' = IF rpc = "asleep" THEN "waking" ELSE rpc
  /\ gpc' = "join"
  /\ UNCHANGED <<shared, socket, line, fd, changes, told>>

StopJoins ==
  /\ gpc = "join" /\ rpc = "exited"
  /\ rpc' = "none" /\ state_' = "Idle" /\ gpc' = "ready"
  /\ UNCHANGED <<running_, queue_, active_socket_, reward_title_, wakeMutex, socket, line,
                 fd, changes, told>>

Pop ==
  /\ gpc = "ready" /\ queue_ > 0
  /\ queue_' = queue_ - 1
  /\ UNCHANGED <<running_, state_, active_socket_, reward_title_, wakeMutex, reader, game, told>>

(* set_reward_title with a name that differs; with the same one it returns. *)
SetRewardTitle(t) ==
  /\ gpc = "ready" /\ changes < MaxChanges /\ t # reward_title_
  /\ reward_title_' = t /\ gpc' = "socket" /\ changes' = changes + 1
  /\ UNCHANGED <<running_, state_, queue_, active_socket_, wakeMutex, reader, fd, told>>

ReadActiveSocket ==
  /\ gpc = "socket"
  /\ IF active_socket_ THEN fd' = "live" /\ gpc' = "write"
                       ELSE fd' = "none" /\ gpc' = "ready"
  /\ UNCHANGED <<shared, reader, changes, told>>

(* send on a descriptor closed meanwhile fails, unless its number was given out
   again: to the reader's next connection, or to another file of the process. *)
SendChangedTitle ==
  /\ gpc = "write"
  /\ told' \in (IF fd = "live" THEN {Told(reward_title_)} ELSE {told, Told(reward_title_)})
  /\ fd' = "none" /\ gpc' = "ready"
  /\ UNCHANGED <<shared, reader, changes>>

-----------------------------------------------------------------------------
Connect == ConnectFails \/ ConnectSucceeds

ReaderRuns == \/ ReaderAtTop \/ PublishSocket \/ FormatTitle \/ SendTitle \/ CheckRunning
              \/ Unpublish \/ CloseSocket \/ AfterClose \/ BeforeBackoff \/ LockWake
              \/ TestPredicate \/ FallAsleep \/ WakeUp \/ ReaderLeaves

GameFinishes == \/ StopInterrupts \/ StopNotifies \/ StopJoins
                \/ ReadActiveSocket \/ SendChangedTitle

Next == \/ ReaderRuns \/ Connect
        \/ RecvLine \/ RecvEnds \/ RecvTimesOut \/ BackoffExpires
        \/ GameFinishes \/ Start \/ Stop \/ Pop
        \/ \E t \in MaybeTitle : SetRewardTitle(t)

Spec == Init /\ [][Next]_vars

(* Both threads are scheduled, connect on the loopback returns, and so does a recv
   on a socket that was shut down.  No timer is counted on, nor the helper. *)
Fairness == /\ WF_vars(ReaderRuns) /\ WF_vars(Connect) /\ WF_vars(GameFinishes)
            /\ WF_vars(RecvEnds /\ socket = "shut")

FairSpec == Spec /\ Fairness

-----------------------------------------------------------------------------
(* While the game thread waits in join the reader is not asleep in its backoff. *)
NoMissedWakeup == gpc = "join" => rpc \notin {"asleep", "descending"}

(* What stop may shut down is a descriptor that has not been closed. *)
PublishedIsOpen == active_socket_ => socket # "none"

(* The reader publishes its socket before it reads the name and set_reward_title
   stores the name before it looks for the socket, so a change made while a
   connection is being set up is sent by one of them, if not by both. *)
NoTitleMissed ==
  /\ rpc = "recv" /\ socket = "open" /\ gpc \in {"ready", "interrupt"} /\ reward_title_ # NoTitle
  => \E i \in 1..Len(told) : told[i] = reward_title_

(* stop, and set_reward_title, return without a timer and without the helper. *)
GameReturns == gpc # "ready" ~> gpc = "ready"

(* For the game thread the two threads are the reader that MainTick is built on: it
   reads from the start of the thread to the join. *)
Redemptions(n) == [i \in 1..n |-> [from |-> "helper", kind |-> "plain"]]

Feed == INSTANCE FeedReader WITH
  Helper <- "helper", helperOn <- rpc # "none", helperRing <- Redemptions(queue_)

ImplementsFeed == Feed!FeedSpec

-----------------------------------------------------------------------------
(* What the comments say and the code does not do. *)

(* "Sent on the next connect, and immediately if already connected": whichever
   thread sent it, the last name the helper hears is the one that is set. *)
LastTitleWins ==
  rpc = "recv" /\ socket = "open" /\ gpc = "ready" /\ reward_title_ # NoTitle
  => told # <<>> /\ told[Len(told)] = reward_title_
=============================================================================
