--------------------------- MODULE IrcClientProofs ---------------------------
(***************************************************************************)
(* Proofs about IrcClient: its safety invariants, for any number of        *)
(* channels and any sizes.                                                 *)
(*                                                                         *)
(* None of the invariants a run checks is inductive on its own; together   *)
(* with where each thread may be while a shared variable has a value they  *)
(* are.                                                                    *)
(***************************************************************************)
EXTENDS IrcClient, TLAPS

(* The reader holds wake_mutex_ from the test of its predicate until it sleeps. *)
MutexHeld == wakeMutex = "reader" <=> rpc \in {"predicate", "descending"}

(* The socket is published only while the reader uses it. *)
Published == active_socket_ => rpc \in {"check", "recv", "lines", "unpublish"}

SocketOpen == socket # "none" <=> rpc \in Attached

(* Inside stop, running_ is false once it was exchanged, and start goes on only
   when no thread is left. *)
Stopping == /\ gpc \in {"interrupt", "notify", "join", "stopped"} => ~running_
            /\ gpc = "stopped" => rpc = "none"

(* The reader pushes for the channel that start stored. *)
Joined == joined = channel_ /\ (rpc # "none" => joined \in Channels)

(* The silence on a connection in use is below the limit. *)
Quiet == rpc \in {"publish", "check", "recv", "lines"} => silent < SilenceLimit

Delivered == running_ => \A i \in 1..Len(queue_) : queue_[i] = channel_

(* A reader that has left, or was joined, left the state "Idle"; and there is none
   when no call of stop is under way and none is wanted. *)
LeftIdle == /\ rpc \in {"none", "exited"} => state_ = "Idle"
            /\ gpc = "ready" /\ ~running_ => rpc = "none"

IInv == /\ TypeOK /\ MutexHeld /\ Published /\ SocketOpen /\ Stopping
        /\ NoMissedWakeup /\ Joined /\ Quiet /\ Delivered /\ StatusHonest /\ LeftIdle

-----------------------------------------------------------------------------
(* The initial state satisfies the invariant. *)
LEMMA InitIInv == Init => IInv
<1> SUFFICES ASSUME Init PROVE IInv
  OBVIOUS
<1> USE NoChannelAssumption, RingSizeAssumption, MaxLinesAssumption, SilenceLimitAssumption
    DEF Init
<1>1. queue_ \in Seq(Channels) /\ Len(queue_) = 0
  OBVIOUS
<1>2. Len(queue_) <= RingSize /\ lines \in 0..MaxLines /\ silent \in 0..SilenceLimit
  <2>1. Len(queue_) <= RingSize
    BY <1>1
  <2>2. lines \in 0..MaxLines
    OBVIOUS
  <2>3. silent \in 0..SilenceLimit
    OBVIOUS
  <2> QED
    BY <2>1, <2>2, <2>3
<1>3. state_ \in States /\ rpc \in ReaderAt /\ gpc \in GameAt
  BY DEF States, ReaderAt, GameAt
<1>4. TypeOK
  BY <1>1, <1>2, <1>3 DEF TypeOK
<1>5. MutexHeld /\ Published /\ SocketOpen /\ Stopping
  BY DEF MutexHeld, Published, SocketOpen, Stopping, Attached
<1>6. NoMissedWakeup /\ Joined /\ Quiet /\ Delivered /\ StatusHonest /\ LeftIdle
  BY <1>1 DEF NoMissedWakeup, Joined, Quiet, Delivered, StatusHonest, LeftIdle, Attached
<1> QED
  BY <1>4, <1>5, <1>6 DEF IInv

(* Every step of either thread, and of the network, keeps the invariant. *)
LEMMA NextIInv == IInv /\ [Next]_vars => IInv'
<1> SUFFICES ASSUME IInv, [Next]_vars PROVE IInv'
  OBVIOUS
<1> USE NoChannelAssumption, RingSizeAssumption, MaxLinesAssumption, SilenceLimitAssumption
    DEF IInv, TypeOK, MutexHeld, Published, SocketOpen, Stopping, NoMissedWakeup, Joined,
        Quiet, Delivered, StatusHonest, LeftIdle, States, ReaderAt, Attached, GameAt, shared, reader
<1>1. CASE ReaderAtTop
  BY <1>1 DEF ReaderAtTop
<1>2. CASE ConnectFails
  BY <1>2 DEF ConnectFails
<1>3. CASE ConnectSucceeds
  BY <1>3 DEF ConnectSucceeds
<1>4. CASE PublishSocket
  BY <1>4 DEF PublishSocket
<1>5. CASE CheckRunning
  BY <1>5 DEF CheckRunning
<1>6. CASE RecvLines
  BY <1>6 DEF RecvLines
<1>7. CASE RecvEnds
  BY <1>7 DEF RecvEnds
<1>8. CASE RecvTimesOut
  BY <1>8 DEF RecvTimesOut, CountSilence
<1>9. CASE LinesHandled
  BY <1>9 DEF LinesHandled
<1>10. CASE Unpublish
  BY <1>10 DEF Unpublish, UnpublishSocket
<1>11. CASE CloseSocket \/ AfterClose \/ ReportConnecting
  BY <1>11 DEF CloseSocket, AfterClose, ReportConnecting
<1>12. CASE BeforeBackoff
  BY <1>12 DEF BeforeBackoff
<1>13. CASE LockWake
  BY <1>13 DEF LockWake
<1>14. CASE TestPredicate
  BY <1>14 DEF TestPredicate
<1>15. CASE FallAsleep
  BY <1>15 DEF FallAsleep
<1>16. CASE BackoffExpires
  BY <1>16 DEF BackoffExpires
<1>17. CASE WakeUp
  BY <1>17 DEF WakeUp
<1>18. CASE ReaderLeaves
  BY <1>18 DEF ReaderLeaves
<1>19. CASE Stop
  BY <1>19 DEF Stop
<1>20. CASE StopExchanges
  BY <1>20 DEF StopExchanges
<1>21. CASE StopInterrupts
  BY <1>21 DEF StopInterrupts
<1>22. CASE StopNotifies
  BY <1>22 DEF StopNotifies, MayNotify
<1>23. CASE StopJoins
  BY <1>23 DEF StopJoins
<1>24. CASE StopReturns
  BY <1>24 DEF StopReturns
<1>25. CASE StartReader
  BY <1>25 DEF StartReader, ClearQueue
<1>26. CASE HandleLine
  BY <1>26 DEF HandleLine, Pushed
<1>27. CASE Pop
  BY <1>27 DEF Pop
<1>28. ASSUME NEW c \in Channels, Start(c) PROVE IInv'
  BY <1>28 DEF Start
<1>29. CASE UNCHANGED vars
  BY <1>29 DEF vars
<1> QED
  BY <1>1, <1>2, <1>3, <1>4, <1>5, <1>6, <1>7, <1>8, <1>9, <1>10, <1>11, <1>12, <1>13, <1>14, <1>15, <1>16, <1>17, <1>18, <1>19, <1>20, <1>21, <1>22, <1>23, <1>24, <1>25, <1>26, <1>27, <1>28, <1>29 DEF Next, ReaderRuns, Connect, GameFinishes
-----------------------------------------------------------------------------
LEMMA IInvHolds == Spec => []IInv
BY InitIInv, NextIInv, PTL DEF Spec

(* Every variable keeps to its domain: the ring to its capacity, the silence to its
   limit, and both threads to the places of the code. *)
THEOREM ClientTyped == Spec => []TypeOK
<1>1. IInv => TypeOK
  BY DEF IInv
<1> QED
  BY <1>1, IInvHolds, PTL

(* While the game thread waits in join, the reader is not asleep in its backoff and
   not about to be: stop does not wait out a backoff. *)
THEOREM WakeupNotMissed == Spec => []NoMissedWakeup
<1>1. IInv => NoMissedWakeup
  BY DEF IInv
<1> QED
  BY <1>1, IInvHolds, PTL

(* The socket that stop shuts down is one the reader has not closed. *)
THEOREM ShutsOpenSocket == Spec => []PublishedIsOpen
<1>1. IInv => PublishedIsOpen
  BY DEF IInv, Published, SocketOpen, Attached, PublishedIsOpen
<1> QED
  BY <1>1, IInvHolds, PTL

(* What the game is given after a change of channel is the new channel's. *)
THEOREM DeliversCurrentChannel == Spec => []OnlyCurrentChannel
<1>1. IInv => OnlyCurrentChannel
  BY DEF IInv, Delivered, OnlyCurrentChannel
<1> QED
  BY <1>1, IInvHolds, PTL

(* The state says Connected while the reader has a connection, and without one only
   until the reader has said otherwise, which it does before it waits or tries again;
   and it is Idle when no reader is wanted and no call waits for one. *)
THEOREM ShowsHonestStatus == Spec => []StatusHonest
<1>1. IInv => StatusHonest
  BY DEF IInv
<1> QED
  BY <1>1, IInvHolds, PTL

-----------------------------------------------------------------------------
(* What the game thread can ask for tells it where the reader is: a connection is
   reported for as long as there is one, and "Idle" only without a reader that is
   wanted. *)
Told == /\ rpc \in Attached => state_ = "Connected"
        /\ rpc \in {"none", "exited"} => state_ = "Idle"
        /\ rpc \in {"none", "leaving", "exited"} => ~running_
        /\ running_ => state_ # "Idle"

LEMMA ToldHolds == Spec => []Told
<1>1. Init => Told
  BY DEF Init, Told, Attached
<1>2. IInv /\ Told /\ [Next]_vars => Told'
  <2> SUFFICES ASSUME IInv, Told, [Next]_vars PROVE Told'
    OBVIOUS
  <2> USE NoChannelAssumption DEF IInv, TypeOK, Stopping, Told, States, ReaderAt, GameAt, Attached, shared, reader
  <2>1. CASE ReaderRuns
    BY <2>1 DEF ReaderRuns, ReaderAtTop, PublishSocket, CheckRunning, HandleLine, LinesHandled, Unpublish,
                CloseSocket, AfterClose, ReportConnecting, BeforeBackoff, LockWake, TestPredicate, FallAsleep, WakeUp, ReaderLeaves
  <2>2. CASE Connect
    BY <2>2 DEF Connect, ConnectFails, ConnectSucceeds
  <2>3. CASE RecvLines \/ RecvEnds \/ RecvTimesOut \/ BackoffExpires
    BY <2>3 DEF RecvLines, RecvEnds, RecvTimesOut, BackoffExpires
  <2>4. CASE GameFinishes
    BY <2>4 DEF GameFinishes, StopExchanges, StopInterrupts, StopNotifies, StopJoins, StopReturns, StartReader
  <2>5. CASE Stop \/ Pop
    BY <2>5 DEF Stop, Pop
  <2>6. ASSUME NEW c \in Channels, Start(c) PROVE Told'
    BY <2>6 DEF Start
  <2>7. CASE UNCHANGED vars
    BY <2>7 DEF vars
  <2> QED
    BY <2>1, <2>2, <2>3, <2>4, <2>5, <2>6, <2>7 DEF Next
<1> QED
  BY <1>1, <1>2, IInvHolds, PTL DEF Spec

(* Labelling the messages of a ring commutes with what is done to rings. *)
LEMMA PlainTail ==
  ASSUME NEW C, NEW ring \in Seq(C), ring # <<>>
  PROVE  Plain(ring) # <<>> /\ Plain(Tail(ring)) = Tail(Plain(ring))
<1>1. /\ Len(ring) \in Nat \ {0}
      /\ Tail(ring) \in Seq(C) /\ Len(Tail(ring)) = Len(ring) - 1
      /\ \A i \in 1..(Len(ring) - 1) : Tail(ring)[i] = ring[i + 1]
  OBVIOUS
<1>2. Plain(ring) \in Seq([from : C, kind : {"plain"}]) /\ Len(Plain(ring)) = Len(ring)
  BY <1>1 DEF Plain
<1>3. /\ Len(Tail(Plain(ring))) = Len(ring) - 1 /\ Tail(Plain(ring)) \in Seq([from : C, kind : {"plain"}])
      /\ \A i \in 1..(Len(ring) - 1) : Tail(Plain(ring))[i] = Plain(ring)[i + 1]
  BY <1>1, <1>2
<1>4. \A i \in 1..(Len(ring) - 1) : Plain(ring)[i + 1] = [from |-> ring[i + 1], kind |-> "plain"]
  BY <1>1 DEF Plain
<1>5. /\ Plain(Tail(ring)) \in Seq([from : C, kind : {"plain"}]) /\ Len(Plain(Tail(ring))) = Len(ring) - 1
      /\ \A i \in 1..(Len(ring) - 1) : Plain(Tail(ring))[i] = [from |-> ring[i + 1], kind |-> "plain"]
  BY <1>1 DEF Plain
<1>6. Plain(ring) # <<>>
  BY <1>1, <1>2
<1>7. \A i \in 1..(Len(ring) - 1) : Plain(Tail(ring))[i] = Tail(Plain(ring))[i]
  BY <1>3, <1>4, <1>5
<1>8. Plain(Tail(ring)) = Tail(Plain(ring))
  BY <1>1, <1>3, <1>5, <1>7
<1> QED
  BY <1>6, <1>8

LEMMA PlainAppend ==
  ASSUME NEW C, NEW ring \in Seq(C), NEW c \in C
  PROVE  Plain(Append(ring, c)) = Append(Plain(ring), [from |-> c, kind |-> "plain"])
<1>1. /\ Append(ring, c) \in Seq(C) /\ Len(Append(ring, c)) = Len(ring) + 1 /\ Len(ring) \in Nat
      /\ \A i \in 1..(Len(ring) + 1) : Append(ring, c)[i] = IF i = Len(ring) + 1 THEN c ELSE ring[i]
  OBVIOUS
<1>2. /\ Plain(ring) \in Seq([from : C, kind : {"plain"}]) /\ Len(Plain(ring)) = Len(ring)
      /\ \A i \in 1..Len(ring) : Plain(ring)[i] = [from |-> ring[i], kind |-> "plain"]
  BY <1>1 DEF Plain
<1>3. /\ Plain(Append(ring, c)) \in Seq([from : C, kind : {"plain"}])
      /\ Len(Plain(Append(ring, c))) = Len(ring) + 1
      /\ \A i \in 1..(Len(ring) + 1) :
           Plain(Append(ring, c))[i] = [from |-> Append(ring, c)[i], kind |-> "plain"]
  BY <1>1 DEF Plain
<1> QED
  BY <1>1, <1>2, <1>3

-----------------------------------------------------------------------------
(* The two threads are the reader that main.c is written for: every step of either
   is a step of ChatReader, or one that the game thread cannot see. *)
THEOREM ClientImplementsReader == Spec => ImplementsReader
<1>1. Init => Reader!ChatInit
  BY DEF Init, Reader!ChatInit, Plain
<1>2. IInv /\ IInv' /\ Told /\ Told' /\ [Next]_vars => [Reader!ChatNext]_(Reader!chatVars)
  <2> SUFFICES ASSUME IInv, IInv', Told, Told', [Next]_vars
               PROVE  [Reader!ChatNext]_(Reader!chatVars)
    OBVIOUS
  <2> DEFINE for   == IF rpc = "none" THEN NoChannel ELSE joined
             state == IF rpc # "none" /\ state_ = "Idle" THEN "Connecting" ELSE state_
             Seen  == <<for, state, Plain(queue_)>>
  <2>0. /\ state \in Reader!States /\ state' \in Reader!States
        /\ rpc # "none" => for \in Channels /\ for # NoChannel
        /\ rpc' # "none" => for' \in Channels /\ for' # NoChannel
    BY NoChannelAssumption DEF IInv, TypeOK, Joined, States, Reader!States
  (* A change of the state alone, with a reader at work. *)
  <2>1. ASSUME rpc # "none", rpc' # "none", UNCHANGED <<joined, queue_>>
        PROVE  [Reader!ChatNext]_(Reader!chatVars)
    <3>1. state' # "Idle" /\ for' = for /\ Plain(queue_)' = Plain(queue_)
      BY <2>1 DEF Plain
    <3>2. state' # state => Reader!StateChanged(state')
      BY <3>1, <2>0, <2>1 DEF Reader!StateChanged
    <3>3. state' = state => UNCHANGED Reader!chatVars
      BY <3>1 DEF Reader!chatVars
    <3> QED
      BY <2>0, <3>2, <3>3 DEF Reader!ChatNext
  (* Nothing the game thread can see. *)
  <2>2. ASSUME UNCHANGED <<joined, queue_, state_>>, (rpc = "none") = (rpc' = "none")
        PROVE  [Reader!ChatNext]_(Reader!chatVars)
    BY <2>2 DEF Reader!chatVars, Plain
  <2> USE DEF shared, reader
  <2>3. CASE ReaderAtTop
    BY <2>3, <2>1 DEF ReaderAtTop
  <2>4. CASE ConnectFails \/ ConnectSucceeds
    BY <2>4, <2>1 DEF ConnectFails, ConnectSucceeds
  <2>5. CASE PublishSocket \/ CheckRunning \/ LinesHandled \/ Unpublish \/ CloseSocket \/ AfterClose \/ BeforeBackoff
    BY <2>5, <2>2 DEF PublishSocket, CheckRunning, LinesHandled, Unpublish, CloseSocket, AfterClose, BeforeBackoff
  <2>6. CASE ReportConnecting \/ ReaderLeaves
    BY <2>6, <2>1 DEF ReportConnecting, ReaderLeaves
  <2>7. CASE LockWake \/ TestPredicate \/ FallAsleep \/ BackoffExpires \/ WakeUp
    BY <2>7, <2>2 DEF LockWake, TestPredicate, FallAsleep, BackoffExpires, WakeUp
  <2>8. CASE RecvLines \/ RecvEnds \/ RecvTimesOut
    BY <2>8, <2>2 DEF RecvLines, RecvEnds, RecvTimesOut
  <2>9. CASE HandleLine
    <3>1. /\ rpc = "lines" /\ UNCHANGED <<rpc, joined, state_>> /\ queue_' = Pushed(joined)
          /\ state_ = "Connected" /\ queue_ \in Seq(Channels) /\ joined \in Channels
      BY <2>9, <2>0 DEF HandleLine, Told, Attached, IInv, TypeOK
    <3>2. Len(Plain(queue_)) = Len(queue_) /\ Len(queue_) \in Nat
      BY <3>1 DEF Plain
    <3>3. Plain(queue_)' = Reader!Pushed(Plain(queue_), [from |-> for, kind |-> "plain"])
      <4>1. Plain(Pushed(joined)) = Reader!Pushed(Plain(queue_), [from |-> joined, kind |-> "plain"])
        <5>1. CASE Len(queue_) = RingSize
          <6>1. queue_ # <<>> /\ Tail(queue_) \in Seq(Channels)
            BY <3>1, <5>1, RingSizeAssumption
          <6>2. Plain(Tail(queue_)) = Tail(Plain(queue_))
            BY <3>1, <6>1, PlainTail
          <6>3. Plain(Append(Tail(queue_), joined)) = Append(Plain(Tail(queue_)), [from |-> joined, kind |-> "plain"])
            BY <3>1, <6>1, PlainAppend
          <6> QED
            BY <3>2, <5>1, <6>2, <6>3 DEF Pushed, Reader!Pushed
        <5>2. CASE Len(queue_) # RingSize
          BY <3>1, <3>2, <5>2, PlainAppend DEF Pushed, Reader!Pushed
        <5> QED
          BY <5>1, <5>2
      <4>2. Plain(queue_)' = Plain(Pushed(joined))
        BY <3>1 DEF Plain
      <4> QED
        BY <3>1, <4>1, <4>2
    <3>4. for # NoChannel /\ state = "Connected" /\ for' = for /\ state' = state
      BY <3>1, <2>0
    <3>5. Reader!ChatPushed("plain")
      BY <3>3, <3>4 DEF Reader!ChatPushed
    <3> QED
      BY <3>5 DEF Reader!ChatNext
  <2>10. CASE Stop \/ StopInterrupts \/ StopNotifies \/ StopReturns
    BY <2>10, <2>2 DEF Stop, StopInterrupts, StopNotifies, StopReturns
  <2>11. ASSUME NEW c \in Channels, Start(c) PROVE [Reader!ChatNext]_(Reader!chatVars)
    BY <2>11, <2>2 DEF Start
  <2>12. ASSUME rpc' = "none", state_' = "Idle", UNCHANGED queue_
         PROVE  [Reader!ChatNext]_(Reader!chatVars)
    <3>1. Reader!twitch_chat_stop
      BY <2>12 DEF Reader!twitch_chat_stop, Plain
    <3> QED
      BY <3>1 DEF Reader!ChatNext
  <2>13. CASE StopExchanges
    <3>1. CASE running_
      BY <2>13, <2>2, <3>1 DEF StopExchanges
    <3>2. CASE ~running_
      BY <2>13, <2>12, <3>2 DEF StopExchanges, Told
    <3> QED
      BY <3>1, <3>2
  <2>14. CASE StopJoins
    BY <2>14, <2>12 DEF StopJoins
  <2>15. CASE StartReader
    <3>1. /\ rpc = "none" /\ target \in Channels /\ target # NoChannel
          /\ for' = target /\ state' = "Connecting" /\ Plain(queue_)' = <<>>
      BY <2>15 DEF StartReader, ClearQueue, Plain, IInv, TypeOK, Stopping
    <3>2. Reader!twitch_chat_start(target)
      BY <3>1 DEF Reader!twitch_chat_start
    <3> QED
      BY <3>1, <3>2 DEF Reader!ChatNext
  <2>16. CASE Pop
    <3>1. /\ queue_ # <<>> /\ queue_ \in Seq(Channels) /\ queue_' = Tail(queue_)
          /\ UNCHANGED <<rpc, joined, state_>>
      BY <2>16 DEF Pop, IInv, TypeOK
    <3>2. Plain(queue_) # <<>> /\ Plain(Tail(queue_)) = Tail(Plain(queue_))
      BY <3>1, PlainTail
    <3>3. Plain(queue_)' = Plain(Tail(queue_))
      BY <3>1 DEF Plain
    <3>4. Reader!Popped
      BY <3>1, <3>2, <3>3 DEF Reader!Popped
    <3> QED
      BY <3>4 DEF Reader!ChatNext
  <2>17. CASE UNCHANGED vars
    BY <2>17, <2>2 DEF vars
  <2> QED
    BY <2>3, <2>4, <2>5, <2>6, <2>7, <2>8, <2>9, <2>10, <2>11, <2>13, <2>14, <2>15, <2>16, <2>17
       DEF Next, ReaderRuns, Connect, GameFinishes
<1> QED
  BY <1>1, <1>2, IInvHolds, ToldHolds, PTL DEF Spec, ImplementsReader, Reader!ChatSpec
=============================================================================
