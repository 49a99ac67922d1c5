------------------------------ MODULE IrcClient ------------------------------
(***************************************************************************)
(* The Twitch reader: twitch::IrcClient of src/native/irc_client.cpp.      *)
(*                                                                         *)
(* Two threads share it.  The game thread calls start, stop and pop; a     *)
(* reader thread, at most one at a time, connects, receives, and sleeps    *)
(* between attempts.  Each step below is one that the other thread can     *)
(* come between: an atomic, a critical section, or a blocking call.        *)
(* The network is the environment: a connection may be refused, carry      *)
(* messages, fall silent or be closed by the far end at any time.          *)
(***************************************************************************)
EXTENDS Integers, Sequences

CONSTANTS
  Channels,       \* names that survive normalize_channel
  NoChannel,      \* the empty name: start does what stop does
  RingSize,       \* the capacity of MessageRing
  MaxLines,       \* chat messages one recv may bring
  SilenceLimit    \* receive timeouts in a row before the connection is given up

ASSUME NoChannelAssumption == NoChannel \notin Channels
ASSUME RingSizeAssumption == RingSize \in Nat \ {0}
ASSUME MaxLinesAssumption == MaxLines \in Nat
ASSUME SilenceLimitAssumption == SilenceLimit \in Nat \ {0}

VARIABLES
  running_, state_,
  channel_,
  queue_,          \* the channel of each message in the ring, oldest first
  active_socket_,  \* whether the reader's socket is published to stop()
  wakeMutex,       \* who holds wake_mutex_
  socket,          \* the reader's descriptor
  lines,           \* lines received and not yet handled
  silent,          \* timeouts since the last data on this connection
  joined,          \* the channel this reader thread was started for
  rpc,             \* where the reader thread is
  gpc,             \* where the game thread is inside start or stop
  target           \* the channel start goes on to, NoChannel for stop

shared == <<running_, state_, channel_, queue_, active_socket_, wakeMutex>>
reader == <<socket, lines, silent, joined, rpc>>
vars   == <<shared, reader, gpc, target>>

States == {"Idle", "Connecting", "Connected", "Error"}

(* "none": no thread.  "exited": run has returned and the thread can be joined. *)
Attached == {"publish", "check", "recv", "lines", "unpublish", "close"}
ReaderAt == {"none", "loop", "connecting", "closed", "report", "retry", "locking", "predicate", "descending",
             "asleep", "waking", "leaving", "exited"} \cup Attached
GameAt   == {"ready", "stopping", "interrupt", "notify", "join", "stopped"}

TypeOK ==
  /\ running_ \in BOOLEAN /\ state_ \in States
  /\ channel_ \in Channels \cup {NoChannel} /\ joined \in Channels \cup {NoChannel}
  /\ queue_ \in Seq(Channels) /\ Len(queue_) <= RingSize
  /\ active_socket_ \in BOOLEAN
  /\ wakeMutex \in {"free", "reader"}
  /\ socket \in {"none", "open", "shut"}
  /\ lines \in 0..MaxLines /\ silent \in 0..SilenceLimit
  /\ rpc \in ReaderAt /\ gpc \in GameAt
  /\ target \in Channels \cup {NoChannel}

Init ==
  /\ running_ = FALSE /\ state_ = "Idle" /\ channel_ = NoChannel /\ queue_ = <<>>
  /\ active_socket_ = FALSE /\ wakeMutex = "free"
  /\ socket = "none" /\ lines = 0 /\ silent = 0 /\ joined = NoChannel /\ rpc = "none"
  /\ gpc = "ready" /\ target = NoChannel

-----------------------------------------------------------------------------
(* The reader thread: IrcClient::run. *)

ReaderAtTop ==
  /\ rpc = "loop"
  /\ IF running_ THEN rpc' = "connecting" /\ state_' = "Connecting"
                 ELSE rpc' = "leaving" /\ UNCHANGED state_
  /\ UNCHANGED <<running_, channel_, queue_, active_socket_, wakeMutex,
                 socket, lines, silent, joined, gpc, target>>

(* getaddrinfo, connect or the handshake fails. *)
ConnectFails ==
  /\ rpc = "connecting"
  /\ rpc' = "retry" /\ state_' = "Error"
  /\ UNCHANGED <<running_, channel_, queue_, active_socket_, wakeMutex,
                 socket, lines, silent, joined, gpc, target>>

ConnectSucceeds ==
  /\ rpc = "connecting"
  /\ rpc' = "publish" /\ state_' = "Connected" /\ socket' = "open" /\ silent' = 0
  /\ UNCHANGED <<running_, channel_, queue_, active_socket_, wakeMutex,
                 lines, joined, gpc, target>>

(* set_active_socket(fd).  The loop's own test of running_ comes after it. *)
PublishSocket_SkipsCheck ==
  /\ rpc = "publish"
  /\ active_socket_' = TRUE /\ rpc' = "recv"
  /\ UNCHANGED <<running_, state_, channel_, queue_, wakeMutex, socket, lines, silent,
                 joined, gpc, target>>

PublishSocket ==
  /\ rpc = "publish"
  /\ active_socket_' = TRUE /\ rpc' = "check"
  /\ UNCHANGED <<running_, state_, channel_, queue_, wakeMutex, socket, lines, silent,
                 joined, gpc, target>>

CheckRunning ==
  /\ rpc = "check"
  /\ rpc' = IF running_ THEN "recv" ELSE "unpublish"
  /\ UNCHANGED <<shared, socket, lines, silent, joined, gpc, target>>

(* Data, which may still be buffered after the socket was shut down: some
   number of chat messages, none if the lines were pings or anything else. *)
RecvLines ==
  /\ rpc = "recv"
  /\ lines' \in 0..MaxLines /\ silent' = 0 /\ rpc' = "lines"
  /\ UNCHANGED <<shared, socket, joined, gpc, target>>

(* The far end closed, or stop() shut the socket down. *)
RecvEnds ==
  /\ rpc = "recv"
  /\ rpc' = "unpublish"
  /\ UNCHANGED <<shared, socket, lines, silent, joined, gpc, target>>

CountSilence_Restarts == silent' = 1

CountSilence == silent' = silent + 1

RecvTimesOut ==
  /\ rpc = "recv" /\ socket = "open"
  /\ CountSilence
  /\ rpc' = IF silent' >= SilenceLimit THEN "unpublish" ELSE "check"
  /\ UNCHANGED <<shared, socket, lines, joined, gpc, target>>

(* MessageRing::push: a full ring drops its oldest message. *)
Pushed_Unbounded(m) == Append(queue_, m)

Pushed(m) == Append(IF Len(queue_) = RingSize THEN Tail(queue_) ELSE queue_, m)

(* handle_line reaching push, under mutex_. *)
HandleLine ==
  /\ rpc = "lines" /\ lines > 0
  /\ lines' = lines - 1 /\ queue_' = Pushed(joined)
  /\ UNCHANGED <<running_, state_, channel_, active_socket_, wakeMutex,
                 socket, silent, joined, rpc, gpc, target>>

LinesHandled ==
  /\ rpc = "lines" /\ lines = 0
  /\ rpc' = "check"
  /\ UNCHANGED <<shared, socket, lines, silent, joined, gpc, target>>

(* set_active_socket(-1), before the descriptor is closed. *)
UnpublishSocket_Forgets == UNCHANGED active_socket_

UnpublishSocket == active_socket_' = FALSE

Unpublish ==
  /\ rpc = "unpublish"
  /\ UnpublishSocket /\ rpc' = "close"
  /\ UNCHANGED <<running_, state_, channel_, queue_, wakeMutex, socket, lines, silent,
                 joined, gpc, target>>

CloseSocket ==
  /\ rpc = "close"
  /\ socket' = "none" /\ silent' = 0 /\ rpc' = "closed"
  /\ UNCHANGED <<shared, lines, joined, gpc, target>>

(* A reader that is still wanted says that it is connecting again; the state is
   stored in a step of its own, and stop may have come in between. *)
AfterClose_Silent ==
  /\ rpc = "closed"
  /\ rpc' = "retry"
  /\ UNCHANGED <<shared, socket, lines, silent, joined, gpc, target>>

AfterClose ==
  /\ rpc = "closed"
  /\ rpc' = IF running_ THEN "report" ELSE "retry"
  /\ UNCHANGED <<shared, socket, lines, silent, joined, gpc, target>>

ReportConnecting ==
  /\ rpc = "report"
  /\ state_' = "Connecting" /\ rpc' = "retry"
  /\ UNCHANGED <<running_, channel_, queue_, active_socket_, wakeMutex, socket, lines, silent,
                 joined, gpc, target>>

(* Between attempts: running_ again, then wake_mutex_ and the wait.  wait_for
   tests its predicate with the mutex held, and releases the mutex only as it
   goes to sleep. *)
BeforeBackoff ==
  /\ rpc = "retry"
  /\ rpc' = IF running_ THEN "locking" ELSE "leaving"
  /\ UNCHANGED <<shared, socket, lines, silent, joined, gpc, target>>

LockWake ==
  /\ rpc = "locking" /\ wakeMutex = "free"
  /\ wakeMutex' = "reader" /\ rpc' = "predicate"
  /\ UNCHANGED <<running_, state_, channel_, queue_, active_socket_, socket, lines, silent,
                 joined, gpc, target>>

TestPredicate ==
  /\ rpc = "predicate"
  /\ IF running_ THEN rpc' = "descending" /\ UNCHANGED wakeMutex
                 ELSE rpc' = "loop" /\ wakeMutex' = "free"
  /\ UNCHANGED <<running_, state_, channel_, queue_, active_socket_, socket, lines, silent,
                 joined, gpc, target>>

FallAsleep ==
  /\ rpc = "descending"
  /\ rpc' = "asleep" /\ wakeMutex' = "free"
  /\ UNCHANGED <<running_, state_, channel_, queue_, active_socket_, socket, lines, silent,
                 joined, gpc, target>>

BackoffExpires ==
  /\ rpc = "asleep"
  /\ rpc' = "waking"
  /\ UNCHANGED <<shared, socket, lines, silent, joined, gpc, target>>

(* wait_for takes the mutex again to return; it is released at the end of the
   loop's body. *)
WakeUp ==
  /\ rpc = "waking" /\ wakeMutex = "free"
  /\ rpc' = "loop"
  /\ UNCHANGED <<shared, socket, lines, silent, joined, gpc, target>>

ReaderLeaves ==
  /\ rpc = "leaving"
  /\ rpc' = "exited" /\ state_' = "Idle"
  /\ UNCHANGED <<running_, channel_, queue_, active_socket_, wakeMutex, socket, lines,
                 silent, joined, gpc, target>>

-----------------------------------------------------------------------------
(* The game thread.  start with the channel that is already running returns at
   once; otherwise it stops the reader and goes on to start a new one. *)

Start(c) ==
  /\ gpc = "ready" /\ ~(running_ /\ channel_ = c)
  /\ target' = c /\ gpc' = "stopping"
  /\ UNCHANGED <<shared, reader>>

Stop ==
  /\ gpc = "ready"
  /\ target' = NoChannel /\ gpc' = "stopping"
  /\ UNCHANGED <<shared, reader>>

(* running_.exchange(false); if it was false there is only a thread to join. *)
StopExchanges ==
  /\ gpc = "stopping"
  /\ running_' = FALSE
  /\ IF running_ THEN gpc' = "interrupt" /\ UNCHANGED rpc
                 ELSE /\ rpc \in {"none", "exited"}
                      /\ gpc' = "stopped" /\ rpc' = "none"
  /\ UNCHANGED <<state_, channel_, queue_, active_socket_, wakeMutex, socket, lines, silent,
                 joined, target>>

(* interrupt_active_socket, under socket_mutex_. *)
StopInterrupts ==
  /\ gpc = "interrupt"
  /\ socket' = IF active_socket_ THEN "shut" ELSE socket
  /\ gpc' = "notify"
  /\ UNCHANGED <<shared, lines, silent, joined, rpc, target>>

MayNotify_Unlocked == TRUE

MayNotify == wakeMutex = "free"

(* notify_all, holding wake_mutex_. *)
StopNotifies ==
  /\ gpc = "notify" /\ MayNotify
  /\ rpc' = IF rpc = "asleep" THEN "waking" ELSE rpc
  /\ gpc' = "join"
  /\ UNCHANGED <<shared, socket, lines, silent, joined, target>>

StopJoins ==
  /\ gpc = "join" /\ rpc = "exited"
  /\ rpc' = "none" /\ state_' = "Idle" /\ gpc' = "stopped"
  /\ UNCHANGED <<running_, channel_, queue_, active_socket_, wakeMutex, socket, lines,
                 silent, joined, target>>

StopReturns ==
  /\ gpc = "stopped" /\ target = NoChannel
  /\ gpc' = "ready"
  /\ UNCHANGED <<shared, reader, target>>

ClearQueue_Forgets == UNCHANGED queue_

ClearQueue == queue_' = <<>>

(* The rest of start, with no reader alive. *)
StartReader ==
  /\ gpc = "stopped" /\ target # NoChannel
  /\ channel_' = target /\ ClearQueue
  /\ running_' = TRUE /\ state_' = "Connecting"
  /\ rpc' = "loop" /\ joined' = target
  /\ gpc' = "ready" /\ target' = NoChannel
  /\ UNCHANGED <<active_socket_, wakeMutex, socket, lines, silent>>

Pop ==
  /\ gpc = "ready" /\ queue_ # <<>>
  /\ queue_' = Tail(queue_)
  /\ UNCHANGED <<running_, state_, channel_, active_socket_, wakeMutex, reader, gpc, target>>

-----------------------------------------------------------------------------
Connect == ConnectFails \/ ConnectSucceeds

(* What the reader does on its own, without the network or a timer. *)
ReaderRuns == \/ ReaderAtTop \/ PublishSocket \/ CheckRunning
              \/ HandleLine \/ LinesHandled \/ Unpublish \/ CloseSocket
              \/ AfterClose \/ ReportConnecting \/ BeforeBackoff \/ LockWake \/ TestPredicate \/ FallAsleep
              \/ WakeUp \/ ReaderLeaves

GameFinishes == \/ StopExchanges \/ StopInterrupts \/ StopNotifies \/ StopJoins
                \/ StopReturns \/ StartReader

Next == \/ ReaderRuns \/ Connect
        \/ RecvLines \/ RecvEnds \/ RecvTimesOut \/ BackoffExpires
        \/ GameFinishes \/ Stop \/ Pop
        \/ \E c \in Channels : Start(c)

Spec == Init /\ [][Next]_vars

(* Both threads are scheduled, a call of connect returns in the end, and a recv
   on a socket that was shut down returns.  Neither the backoff nor the receive
   timeout is counted on, nor anything the far end does. *)
Fairness == /\ WF_vars(ReaderRuns) /\ WF_vars(Connect) /\ WF_vars(GameFinishes)
            /\ WF_vars(RecvEnds /\ socket = "shut")

FairSpec == Spec /\ Fairness

-----------------------------------------------------------------------------
(* While the game thread waits in join, the reader is not asleep in its backoff:
   the notification cannot fall between its test of running_ and its wait. *)
NoMissedWakeup == gpc = "join" => rpc \notin {"asleep", "descending"}

(* What stop() may shut down is a descriptor the reader has not closed yet, so
   it is never one that something else has been given since. *)
PublishedIsOpen == active_socket_ => socket # "none"

(* After a change of channel only the new channel's messages are delivered:
   nothing the old reader still pushed while it was being stopped is left. *)
OnlyCurrentChannel ==
  gpc = "ready" /\ running_ => \A i \in 1..Len(queue_) : queue_[i] = channel_

(* What the game thread is told of the connection.  While there is one the state is
   "Connected".  A reader that is wanted has just closed it and is about to say so
   if it is "Connected" without one: the two steps from the close to the store are
   all the time that can be seen, never a backoff or the next attempt.  A reader
   that is not wanted, and that no call waits for, is "Idle": nothing it stored on
   its way out is left. *)
StatusHonest ==
  /\ rpc \in Attached => state_ = "Connected"
  /\ running_ /\ state_ = "Connected" => rpc \in Attached \cup {"closed", "report"}
  /\ gpc = "ready" /\ ~running_ => state_ = "Idle"

(* A call of start or stop returns without waiting for a timer or for the far
   end to say something. *)
StopReturnsPromptly == gpc # "ready" ~> gpc = "ready"

(* A connection that has gone quiet either brings something again or is given up:
   it is not listened to for ever (silent_seconds, which starts over with every
   connection and with every recv that brings data).  SO_RCVTIMEO makes recv return. *)
SilenceNoticed == WF_vars(RecvTimesOut) => (silent > 0 ~> silent = 0)

(* What the game thread sees of all this is the reader that main.c is written for:
   between the calls it makes, a state and a ring that change only as ChatReader
   says, whatever the two threads, the socket and the network do.  A reader that
   is about to leave has a state nobody can ask for. *)
Plain(ring) == [i \in 1..Len(ring) |-> [from |-> ring[i], kind |-> "plain"]]

Reader == INSTANCE ChatReader WITH
  Kinds     <- {"plain"},
  chatFor   <- IF rpc = "none" THEN NoChannel ELSE joined,
  chatState <- IF rpc # "none" /\ state_ = "Idle" THEN "Connecting" ELSE state_,
  chatRing  <- Plain(queue_)

ImplementsReader == Reader!ChatSpec
=============================================================================
