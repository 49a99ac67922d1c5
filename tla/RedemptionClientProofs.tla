----------------------- MODULE RedemptionClientProofs -----------------------
(***************************************************************************)
(* Proofs about RedemptionClient: its safety invariants, for any names and *)
(* any sizes.                                                              *)
(*                                                                         *)
(* That no change of the name is missed is the one that needs an argument: *)
(* either thread may be the one that tells the helper, and the invariant   *)
(* says, for each place both may be at, which of them will.                *)
(***************************************************************************)
EXTENDS RedemptionClient, TLAPS

(* The reader holds wake_mutex_ from the test of its predicate until it sleeps. *)
MutexHeld == wakeMutex = "reader" <=> rpc \in {"predicate", "descending"}

Published == active_socket_ <=> rpc \in Attached \ {"publish", "close"}

SocketOpen == socket # "none" <=> rpc \in Attached

Stopping == gpc \in {"interrupt", "notify", "join"} => ~running_

(* The game thread has a copy of the descriptor only between reading it and
   writing to it, and it is of a file the reader still has published, or one it is
   about to close, or one it closed meanwhile. *)
CopyOfSocket == /\ fd # "none" <=> gpc = "write"
                /\ fd = "live" => rpc \in Attached \ {"publish"}

Heard == reward_title_ = NoTitle \/ \E i \in 1..Len(told) : told[i] = reward_title_

(* Unless set_reward_title is about to send the name on this very connection, the
   reader has told the helper, or is about to. *)
ReaderTells ==
  socket = "open" /\ (gpc \notin {"socket", "write"} \/ fd = "closed")
  => /\ rpc \in {"check", "recv"} => Heard
     /\ rpc = "send" => line = reward_title_ \/ Heard

IInv == /\ TypeOK /\ MutexHeld /\ Published /\ SocketOpen /\ Stopping
        /\ NoMissedWakeup /\ CopyOfSocket /\ ReaderTells

-----------------------------------------------------------------------------
(* A name that is sent is heard, and what was heard stays heard. *)
LEMMA ToldHears ==
  ASSUME told \in Seq(Titles), NEW t \in MaybeTitle
  PROVE  /\ Told(t) \in Seq(Titles)
         /\ \A i \in 1..Len(told) : i \in 1..Len(Told(t)) /\ Told(t)[i] = told[i]
         /\ socket = "open" /\ t # NoTitle => \E i \in 1..Len(Told(t)) : Told(t)[i] = t
<1>1. CASE t = NoTitle \/ socket # "open"
  BY <1>1 DEF Told
<1>2. CASE ~(t = NoTitle \/ socket # "open")
  <2>1. Told(t) = Append(told, t) /\ t \in Titles
    BY <1>2 DEF Told, MaybeTitle
  <2>2. /\ Append(told, t) \in Seq(Titles)
        /\ Len(Append(told, t)) = Len(told) + 1
        /\ Append(told, t)[Len(told) + 1] = t
        /\ \A i \in 1..Len(told) : Append(told, t)[i] = told[i]
    BY <2>1
  <2>3. Len(told) \in Nat
    OBVIOUS
  <2> HIDE DEF Told
  <2>4. Len(told) + 1 \in 1..Len(Told(t)) /\ Told(t)[Len(told) + 1] = t
    BY <2>1, <2>2, <2>3
  <2>5. \A i \in 1..Len(told) : i \in 1..Len(Told(t)) /\ Told(t)[i] = told[i]
    BY <2>1, <2>2, <2>3
  <2> QED
    BY <2>1, <2>2, <2>4, <2>5
<1> QED
  BY <1>1, <1>2

(* The initial state satisfies the invariant. *)
LEMMA InitIInv == Init => IInv
<1> SUFFICES ASSUME Init PROVE IInv
  OBVIOUS
<1> USE NoTitleAssumption, SizesAssumption DEF Init
<1>1. told \in Seq(Titles) /\ queue_ \in 0..RingSize /\ changes \in 0..MaxChanges
  OBVIOUS
<1>2. rpc \in ReaderAt /\ gpc \in GameAt /\ reward_title_ \in MaybeTitle /\ line \in MaybeTitle
  BY DEF ReaderAt, GameAt, MaybeTitle
<1>3. TypeOK
  BY <1>1, <1>2 DEF TypeOK
<1>4. MutexHeld /\ Published /\ SocketOpen /\ Stopping /\ NoMissedWakeup /\ CopyOfSocket
  BY DEF MutexHeld, Published, SocketOpen, Stopping, NoMissedWakeup, CopyOfSocket, Attached
<1>5. ReaderTells
  BY DEF ReaderTells
<1> QED
  BY <1>3, <1>4, <1>5 DEF IInv

(* Every step of either thread, and of the helper's end, keeps the invariant. *)
LEMMA NextIInv == IInv /\ [Next]_vars => IInv'
<1> SUFFICES ASSUME IInv, [Next]_vars PROVE IInv'
  OBVIOUS
<1> USE NoTitleAssumption, SizesAssumption
    DEF IInv, TypeOK, MutexHeld, Published, SocketOpen, Stopping, NoMissedWakeup,
        CopyOfSocket, ReaderTells, Heard, ReaderAt, Attached, GameAt, MaybeTitle,
        shared, reader, game
<1>1. CASE ReaderAtTop
  BY <1>1 DEF ReaderAtTop
<1>2. CASE ConnectFails
  BY <1>2 DEF ConnectFails
<1>3. CASE ConnectSucceeds
  BY <1>3 DEF ConnectSucceeds
<1>4. CASE PublishSocket
  BY <1>4 DEF PublishSocket
<1>5. CASE FormatTitle
  BY <1>5 DEF FormatTitle
<1>6. CASE SendTitle
  <2>1. line \in MaybeTitle
    OBVIOUS
  <2>2. /\ Told(line) \in Seq(Titles)
        /\ \A i \in 1..Len(told) : i \in 1..Len(Told(line)) /\ Told(line)[i] = told[i]
        /\ socket = "open" /\ line # NoTitle => \E i \in 1..Len(Told(line)) : Told(line)[i] = line
    BY <2>1, ToldHears
  <2> QED
    BY <1>6, <2>2 DEF SendTitle
<1>7. CASE CheckRunning
  BY <1>7 DEF CheckRunning
<1>8. CASE RecvLine
  BY <1>8 DEF RecvLine, Pushed
<1>9. CASE RecvEnds
  BY <1>9 DEF RecvEnds
<1>10. CASE RecvTimesOut
  BY <1>10 DEF RecvTimesOut
<1>11. CASE Unpublish
  BY <1>11 DEF Unpublish, UnpublishSocket
<1>12. CASE CloseSocket
  BY <1>12 DEF CloseSocket
<1>13. CASE BeforeBackoff
  BY <1>13 DEF BeforeBackoff
<1>14. CASE LockWake
  BY <1>14 DEF LockWake
<1>15. CASE TestPredicate
  BY <1>15 DEF TestPredicate
<1>16. CASE FallAsleep
  BY <1>16 DEF FallAsleep
<1>17. CASE BackoffExpires
  BY <1>17 DEF BackoffExpires
<1>18. CASE WakeUp
  BY <1>18 DEF WakeUp
<1>19. CASE ReaderLeaves
  BY <1>19 DEF ReaderLeaves
<1>20. CASE Start
  BY <1>20 DEF Start
<1>21. CASE Stop
  BY <1>21 DEF Stop
<1>22. CASE StopInterrupts
  BY <1>22 DEF StopInterrupts
<1>23. CASE StopNotifies
  BY <1>23 DEF StopNotifies, MayNotify
<1>24. CASE StopJoins
  BY <1>24 DEF StopJoins
<1>25. CASE Pop
  BY <1>25 DEF Pop
<1>26. ASSUME NEW t \in MaybeTitle, SetRewardTitle(t) PROVE IInv'
  BY <1>26 DEF SetRewardTitle
<1>27. CASE ReadActiveSocket
  BY <1>27 DEF ReadActiveSocket
<1>28. CASE SendChangedTitle
  <2>1. reward_title_ \in MaybeTitle
    OBVIOUS
  <2>2. /\ Told(reward_title_) \in Seq(Titles)
        /\ \A i \in 1..Len(told) : /\ i \in 1..Len(Told(reward_title_))
                                   /\ Told(reward_title_)[i] = told[i]
        /\ socket = "open" /\ reward_title_ # NoTitle
           => \E i \in 1..Len(Told(reward_title_)) : Told(reward_title_)[i] = reward_title_
    BY <2>1, ToldHears
  <2> QED
    BY <1>28, <2>2 DEF SendChangedTitle
<1>29. CASE AfterClose
  BY <1>29 DEF AfterClose
<1>30. CASE UNCHANGED vars
  BY <1>30 DEF vars
<1> QED
  BY <1>1, <1>2, <1>3, <1>4, <1>5, <1>6, <1>7, <1>8, <1>9, <1>10, <1>11, <1>12, <1>13, <1>14,
     <1>15, <1>16, <1>17, <1>18, <1>19, <1>20, <1>21, <1>22, <1>23, <1>24, <1>25, <1>26,
     <1>27, <1>28, <1>29, <1>30 DEF Next, ReaderRuns, Connect, GameFinishes
-----------------------------------------------------------------------------
LEMMA IInvHolds == Spec => []IInv
BY InitIInv, NextIInv, PTL DEF Spec

(* Every variable keeps to its domain: the ring to its capacity, the descriptors and
   both threads to the states of the code. *)
THEOREM RedemptionClientTyped == Spec => []TypeOK
<1>1. IInv => TypeOK
  BY DEF IInv
<1> QED
  BY <1>1, IInvHolds, PTL

(* stop does not wait out the reader's backoff: no notification is lost between its
   test of running_ and its sleep. *)
THEOREM WakeupNotMissed == Spec => []NoMissedWakeup
<1>1. IInv => NoMissedWakeup
  BY DEF IInv
<1> QED
  BY <1>1, IInvHolds, PTL

(* The socket that stop shuts down is one the reader has not closed. *)
THEOREM ShutsOpenSocket == Spec => []PublishedIsOpen
<1>1. IInv => PublishedIsOpen
  BY DEF IInv, Published, SocketOpen, Attached, PublishedIsOpen
<1> QED
  BY <1>1, IInvHolds, PTL

(* Whenever the reader waits for redemptions and the game thread is not inside
   set_reward_title, the helper has been sent the name that is set. *)
THEOREM TitleHeard == Spec => []NoTitleMissed
<1>1. IInv => NoTitleMissed
  BY DEF IInv, ReaderTells, Heard, NoTitleMissed
<1> QED
  BY <1>1, IInvHolds, PTL

-----------------------------------------------------------------------------
(* Adding to the count is pushing to the ring, and taking from it is popping. *)
LEMMA RedemptionsSeq ==
  ASSUME NEW n \in Nat
  PROVE  /\ Redemptions(n) \in Seq({[from |-> "helper", kind |-> "plain"]}) /\ Len(Redemptions(n)) = n
         /\ \A i \in 1..n : Redemptions(n)[i] = [from |-> "helper", kind |-> "plain"]
BY DEF Redemptions

LEMMA RedemptionsPushed ==
  ASSUME NEW n \in Nat
  PROVE  Redemptions(n + 1) = Append(Redemptions(n), [from |-> "helper", kind |-> "plain"])
<1>1. Redemptions(n + 1) \in Seq({[from |-> "helper", kind |-> "plain"]}) /\ Len(Redemptions(n + 1)) = n + 1
      /\ \A i \in 1..(n + 1) : Redemptions(n + 1)[i] = [from |-> "helper", kind |-> "plain"]
  BY DEF Redemptions
<1>2. /\ Redemptions(n) \in Seq({[from |-> "helper", kind |-> "plain"]}) /\ Len(Redemptions(n)) = n
      /\ \A i \in 1..n : Redemptions(n)[i] = [from |-> "helper", kind |-> "plain"]
  BY DEF Redemptions
<1> QED
  BY <1>1, <1>2

LEMMA RedemptionsPopped ==
  ASSUME NEW n \in Nat \ {0}
  PROVE  Redemptions(n) # <<>> /\ Redemptions(n - 1) = Tail(Redemptions(n))
<1>1. n - 1 \in Nat /\ (n - 1) + 1 = n
  OBVIOUS
<1>2. Redemptions(n) = Append(Redemptions(n - 1), [from |-> "helper", kind |-> "plain"])
  BY <1>1, RedemptionsPushed
<1>3. Len(Redemptions(n)) = n /\ Redemptions(n) \in Seq({[from |-> "helper", kind |-> "plain"]})
  BY RedemptionsSeq
<1>4. /\ Tail(Redemptions(n)) \in Seq({[from |-> "helper", kind |-> "plain"]})
      /\ Len(Tail(Redemptions(n))) = n - 1 /\ Redemptions(n) # <<>>
      /\ \A i \in 1..(n - 1) : Tail(Redemptions(n))[i] = Redemptions(n)[i + 1]
  BY <1>3
<1>5. \A i \in 1..(n - 1) : Redemptions(n)[i + 1] = [from |-> "helper", kind |-> "plain"]
  BY RedemptionsSeq
<1>6. /\ Redemptions(n - 1) \in Seq({[from |-> "helper", kind |-> "plain"]})
      /\ Len(Redemptions(n - 1)) = n - 1
      /\ \A i \in 1..(n - 1) : Redemptions(n - 1)[i] = [from |-> "helper", kind |-> "plain"]
  BY <1>1, RedemptionsSeq
<1> QED
  BY <1>4, <1>5, <1>6

(* The two threads are the reader that main.c is written for: every step of either
   is a step of FeedReader, or one that the game thread cannot see. *)
THEOREM ClientImplementsFeed == Spec => ImplementsFeed
<1>1. Init => Feed!FeedInit
  BY DEF Init, Feed!FeedInit, Redemptions
<1>2. IInv /\ [Next]_vars => [Feed!FeedNext]_(Feed!helperVars)
  <2> SUFFICES ASSUME IInv, [Next]_vars PROVE [Feed!FeedNext]_(Feed!helperVars)
    OBVIOUS
  <2>0. queue_ \in Nat /\ queue_ <= RingSize /\ RingSize \in Nat \ {0}
    BY SizesAssumption DEF IInv, TypeOK
  (* Nothing the game thread can see. *)
  <2>1. ASSUME UNCHANGED queue_, (rpc = "none") = (rpc' = "none")
        PROVE  [Feed!FeedNext]_(Feed!helperVars)
    BY <2>1 DEF Feed!helperVars, Redemptions
  <2> USE DEF shared, reader
  <2>2. CASE ReaderAtTop \/ PublishSocket \/ FormatTitle \/ SendTitle \/ CheckRunning \/ Unpublish \/ CloseSocket
    BY <2>1, <2>2 DEF ReaderAtTop, PublishSocket, FormatTitle, SendTitle, CheckRunning, Unpublish, CloseSocket
  <2>3. CASE AfterClose \/ BeforeBackoff \/ LockWake \/ TestPredicate \/ FallAsleep \/ WakeUp \/ ReaderLeaves \/ BackoffExpires
    BY <2>1, <2>3 DEF AfterClose, BeforeBackoff, LockWake, TestPredicate, FallAsleep, WakeUp, ReaderLeaves, BackoffExpires
  <2>4. CASE ConnectFails \/ ConnectSucceeds \/ RecvEnds \/ RecvTimesOut
    BY <2>1, <2>4 DEF ConnectFails, ConnectSucceeds, RecvEnds, RecvTimesOut
  <2>5. CASE Stop \/ StopInterrupts \/ StopNotifies \/ ReadActiveSocket \/ SendChangedTitle
    BY <2>1, <2>5 DEF Stop, StopInterrupts, StopNotifies, ReadActiveSocket, SendChangedTitle
  <2>6. ASSUME NEW t \in MaybeTitle, SetRewardTitle(t) PROVE [Feed!FeedNext]_(Feed!helperVars)
    BY <2>1, <2>6 DEF SetRewardTitle
  <2>7. CASE RecvLine
    <3>1. rpc # "none" /\ rpc' # "none" /\ queue_' \in {queue_, Pushed}
      BY <2>7 DEF RecvLine
    <3>2. Redemptions(Pushed) = Feed!Pushed(Redemptions(queue_), Feed!Redemption)
      <4>1. Len(Redemptions(queue_)) = queue_ /\ Feed!Redemption = [from |-> "helper", kind |-> "plain"]
        BY <2>0, RedemptionsSeq DEF Feed!Redemption
      <4>2. CASE queue_ = RingSize
        <5>1. Tail(Redemptions(queue_)) = Redemptions(queue_ - 1) /\ queue_ - 1 \in Nat /\ (queue_ - 1) + 1 = queue_
          BY <2>0, <4>2, RedemptionsPopped
        <5>2. Redemptions(queue_) = Append(Tail(Redemptions(queue_)), Feed!Redemption)
          BY <4>1, <5>1, RedemptionsPushed
        <5> QED
          BY <4>1, <4>2, <5>2 DEF Pushed, Feed!Pushed
      <4>3. CASE queue_ # RingSize
        BY <2>0, <4>1, <4>3, RedemptionsPushed DEF Pushed, Feed!Pushed
      <4> QED
        BY <4>2, <4>3
    <3>3. CASE queue_' = Pushed
      <4>1. Redemptions(queue_)' = Feed!Pushed(Redemptions(queue_), Feed!Redemption)
        BY <3>2, <3>3 DEF Redemptions
      <4>2. Feed!FeedPushed
        BY <3>1, <4>1 DEF Feed!FeedPushed
      <4> QED
        BY <4>2 DEF Feed!FeedNext
    <3> QED
      BY <2>1, <3>1, <3>3
  <2>8. CASE Pop
    <3>1. queue_ \in Nat \ {0} /\ queue_' = queue_ - 1 /\ UNCHANGED rpc
      BY <2>0, <2>8 DEF Pop
    <3>2. Redemptions(queue_) # <<>> /\ Redemptions(queue_)' = Tail(Redemptions(queue_))
      <4>1. Redemptions(queue_)' = Redemptions(queue_ - 1)
        BY <3>1 DEF Redemptions
      <4> QED
        BY <3>1, <4>1, RedemptionsPopped
    <3>3. Feed!FeedPopped
      BY <3>1, <3>2 DEF Feed!FeedPopped
    <3> QED
      BY <3>3 DEF Feed!FeedNext
  <2>9. CASE Start
    <3>1. rpc = "none" /\ rpc' # "none" /\ Redemptions(queue_)' = <<>>
      BY <2>9 DEF Start, Redemptions
    <3>2. Feed!twitch_redemptions_start
      BY <3>1 DEF Feed!twitch_redemptions_start
    <3> QED
      BY <3>2 DEF Feed!FeedNext
  <2>10. CASE StopJoins
    <3>1. rpc' = "none" /\ Redemptions(queue_)' = Redemptions(queue_)
      BY <2>10 DEF StopJoins, Redemptions
    <3>2. Feed!twitch_redemptions_stop
      BY <3>1 DEF Feed!twitch_redemptions_stop
    <3> QED
      BY <3>2 DEF Feed!FeedNext
  <2>11. CASE UNCHANGED vars
    BY <2>1, <2>11 DEF vars
  <2> QED
    BY <2>2, <2>3, <2>4, <2>5, <2>6, <2>7, <2>8, <2>9, <2>10, <2>11
    DEF Next, ReaderRuns, Connect, GameFinishes
<1> QED
  BY <1>1, <1>2, IInvHolds, PTL DEF Spec, ImplementsFeed, Feed!FeedSpec
=============================================================================
