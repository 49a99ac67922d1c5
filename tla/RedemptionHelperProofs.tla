------------------------ MODULE RedemptionHelperProofs ------------------------
(***************************************************************************)
(* Proofs about RedemptionHelper.                                          *)
(*                                                                         *)
(* Once the file names a reward no launch looks for one.  Until then a     *)
(* launch that ended before saving the id has left the reward under the    *)
(* title the next one looks for, unless it was renamed in the dashboard;   *)
(* so the channel gets a second reward in that case only.                  *)
(*                                                                         *)
(* The feed keeps its promises about one sequence, Stream: what the mod    *)
(* has received and what is on its way to it.  While its connection lasts  *)
(* all that is fulfilled or sent is in it, and so is, earlier in it,       *)
(* whatever is older than something in it.                                 *)
(*                                                                         *)
(* The name set in the mod is always the last of those on their way to     *)
(* the reward once neither thread of the mod has it still to send: until   *)
(* then the thread that changed it will look for the connection, or the    *)
(* one that connects will copy it.                                         *)
(***************************************************************************)
EXTENDS RedemptionHelper, FiniteSetTheorems, TLAPS

(* Titles on their way from the mod to Twitch. *)
TitlesTyped ==
  /\ flag \in MaybeTitle /\ wanted \in MaybeTitle /\ pending \in MaybeTitle
  /\ modTitle \in MaybeTitle /\ modLine \in MaybeTitle
  /\ up \in [Conns -> Seq(Titles)]

RewardTyped ==
  /\ rewards \in Seq(Titles)
  /\ config \in [id : Nat, title : MaybeTitle] /\ config.id <= Len(rewards)
  /\ rewardId \in Nat /\ rewardId <= Len(rewards)
  /\ pc \in Starting \cup Polling

(* Where the helper is tells whether the file names the reward. *)
Identified ==
  /\ pc \in {"ensure", "created"} => config.id = 0
  /\ pc = "created" => rewardId # 0
  /\ pc \in Polling => config.id # 0 /\ rewardId = config.id
  /\ pc \in {"rename", "renamed"} => pending \in Titles

(* Without the dashboard there is one reward, and while its id is not on file it has
   the title it was created with. *)
Findable == dashboard = 0 /\ config.id = 0 /\ rewards # <<>> => rewards[1] = FirstTitle
Single   == dashboard = 0 => Len(rewards) <= 1

RewardInv ==
  TitlesTyped /\ RewardTyped /\ dashboard \in Nat /\ Identified /\ Findable /\ Single

-----------------------------------------------------------------------------
LEMMA InitRewardInv == Init => RewardInv
<1> SUFFICES ASSUME Init PROVE RewardInv
  OBVIOUS
<1>1. <<>> \in Seq(Titles) /\ Len(<<>>) = 0
  OBVIOUS
<1>2. TitlesTyped
  BY <1>1 DEF Init, TitlesTyped, MaybeTitle
<1>3. RewardTyped /\ dashboard \in Nat
  BY <1>1 DEF Init, RewardTyped, NoReward, MaybeTitle, Starting
<1>4. Identified /\ Findable /\ Single
  BY <1>1 DEF Init, Identified, Findable, Single, Polling
<1> QED
  BY <1>2, <1>3, <1>4 DEF RewardInv

LEMMA FirstTyped == TitlesTyped => FirstTitle \in Titles
BY NamesAssumption DEF TitlesTyped, FirstTitle, MaybeTitle

(* What has been renamed in the dashboard stays counted. *)
LEMMA DashboardCounts ==
  dashboard \in Nat /\ [Next]_vars => dashboard' \in Nat /\ (dashboard' = 0 => dashboard = 0)
<1> SUFFICES ASSUME dashboard \in Nat, [Next]_vars
             PROVE  dashboard' \in Nat /\ (dashboard' = 0 => dashboard = 0)
  OBVIOUS
<1> USE DEF bounds
<1>1. CASE Launch \/ EnsureReward \/ SaveReward \/ Crash
  BY <1>1 DEF Launch, EnsureReward, SaveReward, Crash
<1>2. CASE TakeTitle \/ RenameReward \/ SaveTitle \/ CheckClients
  BY <1>2 DEF TakeTitle, RenameReward, SaveTitle, CheckClients
<1>3. CASE Fetch \/ Send \/ Fulfil
  BY <1>3 DEF Fetch, Send, Fulfil
<1>4. ASSUME NEW c \in Conns, Accept(c) \/ OnUpstream(c) \/ ModConnects(c) PROVE UNCHANGED dashboard
  BY <1>4 DEF Accept, OnUpstream, ModConnects
<1>5. CASE ModReader \/ ModGame
  BY <1>5 DEF ModReader, ModGame, ModPublishes, ModCopies, ModSends, ModReads, GameLooks, GameWrites
<1>6. ASSUME NEW t \in MaybeTitle, SetRewardTitle(t) PROVE UNCHANGED dashboard
  BY <1>6 DEF SetRewardTitle
<1>7. ASSUME NEW i \in 1..Len(rewards), NEW t \in Titles, RenameInDashboard(i, t)
      PROVE  dashboard' = dashboard + 1
  BY <1>7 DEF RenameInDashboard
<1>8. CASE ModLeaves \/ ModSeesEnd \/ Redeem \/ UNCHANGED vars
  BY <1>8 DEF ModLeaves, ModSeesEnd, Redeem, vars
<1> QED
  BY <1>1, <1>2, <1>3, <1>4, <1>5, <1>6, <1>7, <1>8 DEF Next, Main, Threads, Mod

(* Another name at the end of a connection. *)
LEMMA Telling ==
  ASSUME TitlesTyped, NEW t \in MaybeTitle, Told(t)
  PROVE  up' \in [Conns -> Seq(Titles)]
<1>1. CASE t = NoTitle
  BY <1>1 DEF Told, TitlesTyped
<1>2. CASE t # NoTitle
  <2>1. t \in Titles
    BY <1>2 DEF MaybeTitle
  <2>2. \A c \in Conns : Append(up[c], t) \in Seq(Titles)
    BY <2>1 DEF TitlesTyped
  <2> QED
    BY <2>2 DEF Told, TitlesTyped
<1> QED
  BY <1>1, <1>2

LEMMA NextTitles == RewardInv /\ [Next]_vars => TitlesTyped'
<1> SUFFICES ASSUME RewardInv, [Next]_vars PROVE TitlesTyped'
  OBVIOUS
<1>0. TitlesTyped
  BY DEF RewardInv
<1> USE <1>0 DEF TitlesTyped
<1>1. CASE Launch
  BY <1>1 DEF Launch, AskedFor, RewardInv, RewardTyped, MaybeTitle, netVars, modVars
<1>2. CASE EnsureReward \/ RenameReward \/ SaveTitle \/ CheckClients \/ Fetch \/ Fulfil
  BY <1>2 DEF EnsureReward, RenameReward, SaveTitle, CheckClients, Fetch, Fulfil, netVars, modVars
<1>3. CASE SaveReward
  BY <1>3 DEF SaveReward, MaybeTitle, netVars, modVars
<1>4. CASE TakeTitle
  BY <1>4 DEF TakeTitle, MaybeTitle, netVars, modVars
<1>5. CASE Send
  BY <1>5 DEF Send, modVars
<1>6. CASE Crash
  <2>1. [c \in Conns |-> <<>>] \in [Conns -> Seq(Titles)]
    OBVIOUS
  <2> QED
    BY <1>6, <2>1 DEF Crash, MaybeTitle, modVars
<1>7. ASSUME NEW c \in Conns, Accept(c) \/ OnUpstream(c) PROVE TitlesTyped'
  <2>1. CASE Accept(c)
    BY <2>1 DEF Accept, mainVars, modVars
  <2>2. CASE OnUpstream(c)
    <3>1. up[c] \in Seq(Titles) /\ up[c] # <<>>
      BY <2>2 DEF OnUpstream
    <3>2. Head(up[c]) \in Titles /\ Tail(up[c]) \in Seq(Titles)
      BY <3>1
    <3> QED
      BY <2>2, <3>2 DEF OnUpstream, MaybeTitle, modVars
  <2> QED
    BY <1>7, <2>1, <2>2
<1>8. ASSUME NEW c \in Conns, ModConnects(c) PROVE TitlesTyped'
  BY <1>8 DEF ModConnects, mainVars
<1>9. CASE ModPublishes \/ ModCopies \/ ModReads \/ ModLeaves \/ ModSeesEnd \/ GameLooks
  BY <1>9 DEF ModPublishes, ModCopies, ModReads, ModLeaves, ModSeesEnd, GameLooks, MaybeTitle,
     mainVars, netVars
<1>10. CASE ModSends
  <2>1. up' \in [Conns -> Seq(Titles)]
    BY <1>10, Telling DEF ModSends
  <2> QED
    BY <1>10, <2>1 DEF ModSends, MaybeTitle, mainVars
<1>11. CASE GameWrites
  <2>1. up' \in [Conns -> Seq(Titles)]
    BY <1>11, Telling DEF GameWrites
  <2> QED
    BY <1>11, <2>1 DEF GameWrites, mainVars
<1>12. ASSUME NEW t \in MaybeTitle, SetRewardTitle(t) PROVE TitlesTyped'
  BY <1>12 DEF SetRewardTitle, mainVars, netVars
<1>13. ASSUME NEW i \in 1..Len(rewards), NEW t \in Titles, RenameInDashboard(i, t) PROVE TitlesTyped'
  BY <1>13 DEF RenameInDashboard, mainVars, netVars, modVars
<1>14. CASE Redeem \/ UNCHANGED vars
  BY <1>14 DEF Redeem, vars, mainVars, netVars, modVars
<1> QED
  BY <1>1, <1>2, <1>3, <1>4, <1>5, <1>6, <1>7, <1>8, <1>9, <1>10, <1>11, <1>12, <1>13, <1>14
  DEF Next, Main, Threads, Mod, ModReader, ModGame

(* A renaming leaves as many rewards as there were. *)
LEMMA Renaming ==
  ASSUME RewardTyped, NEW t \in Titles, NEW i, rewards' = [rewards EXCEPT ![i] = t]
  PROVE  rewards' \in Seq(Titles) /\ Len(rewards') = Len(rewards)
<1>1. rewards \in Seq(Titles) /\ Len(rewards) \in Nat
  BY DEF RewardTyped
<1>2. rewards' \in [1..Len(rewards) -> Titles]
  <2> DEFINE D == 1..Len(rewards)
  <2>1. rewards \in [D -> Titles]
    BY <1>1
  <2> HIDE DEF D
  <2>2. [rewards EXCEPT ![i] = t] \in [D -> Titles]
    BY <2>1
  <2> QED
    BY <2>2 DEF D
<1> QED
  BY <1>1, <1>2

LEMMA NextReward == RewardInv /\ [Next]_vars => (RewardTyped /\ Identified /\ Findable /\ Single)'
<1> DEFINE Good == RewardTyped /\ Identified /\ Findable /\ Single
<1> SUFFICES ASSUME RewardInv, [Next]_vars PROVE Good'
  OBVIOUS
<1>0. /\ TitlesTyped /\ RewardTyped /\ Identified /\ Findable /\ Single
      /\ dashboard \in Nat /\ (dashboard' = 0 => dashboard = 0)
  BY DashboardCounts DEF RewardInv
<1> USE <1>0
<1>1. CASE UNCHANGED <<rewards, config, flag, pc, rewardId, pending>>
  BY <1>1 DEF RewardTyped, Identified, Findable, Single, FirstTitle
<1>2. ASSUME UNCHANGED <<rewards, config, flag, rewardId, pending>>, pc' \in Starting \cup Polling,
             pc' \notin {"ensure", "created", "rename", "renamed"},
             pc' \in Polling => config.id # 0 /\ rewardId = config.id
      PROVE  Good'
  BY <1>2 DEF RewardTyped, Identified, Findable, Single, FirstTitle
<1>3. CASE Launch
  <2>1. UNCHANGED <<rewards, config, flag, pending>> /\ pc = "down"
    BY <1>3 DEF Launch, twitchVars
  <2>2. CASE config.id = 0
    <3>1. pc' = "ensure" /\ UNCHANGED rewardId
      BY <1>3, <2>2 DEF Launch, NeedsReward
    <3> QED
      BY <2>1, <2>2, <3>1 DEF RewardTyped, Identified, Findable, Single, FirstTitle, Starting, Polling
  <2>3. CASE config.id # 0
    <3>1. pc' = "top" /\ rewardId' = config.id
      BY <1>3, <2>3 DEF Launch, NeedsReward
    <3> QED
      BY <2>1, <2>3, <3>1 DEF RewardTyped, Identified, Findable, Single, FirstTitle, Starting, Polling
  <2> QED
    BY <2>2, <2>3
<1>4. CASE EnsureReward
  <2>1. config.id = 0 /\ UNCHANGED <<config, flag, pending>> /\ pc' = "created"
    BY <1>4 DEF EnsureReward, Identified
  <2>2. FirstTitle \in Titles
    BY FirstTyped
  <2>3. PICK i \in 1..Len(rewards') : rewards'[i] = FirstTitle /\ rewardId' = i
    BY <1>4 DEF EnsureReward
  <2>4. CASE \E j \in 1..Len(rewards) : rewards[j] = FirstTitle
    <3>1. UNCHANGED rewards
      BY <1>4, <2>4 DEF EnsureReward
    <3>2. RewardTyped'
      BY <2>1, <2>3, <3>1 DEF RewardTyped, Starting
    <3> QED
      BY <2>1, <2>3, <3>1, <3>2 DEF Identified, Findable, Single, FirstTitle, Polling
  <2>5. CASE ~\E j \in 1..Len(rewards) : rewards[j] = FirstTitle
    <3>1. rewards' = Append(rewards, FirstTitle) /\ rewards \in Seq(Titles)
      BY <1>4, <2>5 DEF EnsureReward, RewardTyped
    <3>2. rewards' \in Seq(Titles) /\ Len(rewards') = Len(rewards) + 1 /\ Len(rewards) \in Nat
          /\ rewards'[Len(rewards) + 1] = FirstTitle
      BY <2>2, <3>1
    <3>3. dashboard = 0 => rewards = <<>> /\ Len(rewards) = 0
      <4>1. rewards # <<>> => 1 \in 1..Len(rewards)
        BY <3>1
      <4> QED
        BY <2>1, <2>5, <4>1 DEF Findable
    <3>4. RewardTyped'
      BY <2>1, <2>3, <3>2 DEF RewardTyped, Starting
    <3>5. Findable' /\ Single'
      BY <2>1, <3>2, <3>3 DEF Findable, Single, FirstTitle
    <3> QED
      BY <2>1, <2>3, <3>4, <3>5 DEF Identified, Polling
  <2> QED
    BY <2>4, <2>5
<1>5. CASE SaveReward
  <2>1. config' = [id |-> rewardId, title |-> FirstTitle] /\ rewardId # 0
    BY <1>5 DEF SaveReward, Identified
  <2>2. UNCHANGED <<rewards, flag, rewardId, pending>> /\ pc' = "top" /\ FirstTitle \in MaybeTitle
    BY <1>5, FirstTyped DEF SaveReward, twitchVars, MaybeTitle
  <2>3. config' \in [id : Nat, title : MaybeTitle] /\ config'.id = rewardId
    BY <2>1, <2>2 DEF RewardTyped
  <2> QED
    BY <2>1, <2>2, <2>3 DEF RewardTyped, Identified, Findable, Single, Polling
<1>6. CASE Crash
  <2>1. UNCHANGED <<rewards, config, flag>> /\ pc' = "down" /\ rewardId' = 0
    BY <1>6 DEF Crash, twitchVars
  <2>2. RewardTyped'
    BY <2>1 DEF RewardTyped, Starting
  <2> QED
    BY <2>1, <2>2 DEF Identified, Findable, Single, FirstTitle, Polling
<1>7. CASE TakeTitle
  <2>1. UNCHANGED <<rewards, config, flag, rewardId>> /\ config.id # 0 /\ rewardId = config.id
        /\ pending' = wanted
    BY <1>7 DEF TakeTitle, twitchVars, Identified, Polling
  <2>2. pc' = "check" \/ (pc' = "rename" /\ wanted \in Titles)
    BY <1>7 DEF TakeTitle, TitlesTyped, MaybeTitle
  <2> QED
    BY <2>1, <2>2 DEF RewardTyped, Identified, Findable, Single, Polling
<1>8. CASE RenameReward
  <2>1. /\ config.id # 0 /\ rewardId = config.id /\ pending \in Titles
        /\ UNCHANGED <<config, flag, rewardId, pending>>
    BY <1>8 DEF RenameReward, Identified, Polling
  <2>2. pc' \in {"renamed", "check", "top"}
    BY <1>8 DEF RenameReward, FailedCall
  <2>3. rewards' \in Seq(Titles) /\ Len(rewards') = Len(rewards)
    <3>1. CASE Renamed
      BY <2>1, <3>1, Renaming DEF Renamed
    <3>2. CASE UNCHANGED rewards
      BY <3>2 DEF RewardTyped
    <3> QED
      BY <1>8, <3>1, <3>2 DEF RenameReward
  <2> QED
    BY <2>1, <2>2, <2>3 DEF RewardTyped, Identified, Findable, Single, Polling
<1>9. CASE SaveTitle
  <2>1. /\ config.id # 0 /\ rewardId = config.id /\ pending \in Titles
        /\ UNCHANGED <<rewards, flag, rewardId, pending>> /\ pc' = "check"
        /\ config' = [config EXCEPT !.title = pending]
    BY <1>9 DEF SaveTitle, SavedTitle, Identified, Polling, twitchVars
  <2>2. config' \in [id : Nat, title : MaybeTitle] /\ config'.id = config.id
    BY <2>1 DEF RewardTyped, MaybeTitle
  <2> QED
    BY <2>1, <2>2 DEF RewardTyped, Identified, Findable, Single, Polling
<1>10. CASE CheckClients \/ Fetch \/ Send \/ Fulfil
  <2>1. /\ pc \in Polling /\ UNCHANGED <<rewards, config, flag, rewardId, pending>>
        /\ pc' \in {"fetch", "top", "send", "fulfil"}
    BY <1>10 DEF CheckClients, Fetch, Send, SendTo, Fulfil, FailedCall, twitchVars, Polling
  <2> QED
    BY <1>2, <2>1 DEF Identified, Polling
<1>11. ASSUME NEW c \in Conns, Accept(c) \/ OnUpstream(c) \/ ModConnects(c) PROVE Good'
  BY <1>1, <1>11 DEF Accept, OnUpstream, ModConnects, mainVars, twitchVars
<1>12. ASSUME NEW t \in MaybeTitle, SetRewardTitle(t) PROVE Good'
  BY <1>1, <1>12 DEF SetRewardTitle, mainVars, twitchVars
<1>13. CASE ModReader \/ ModGame \/ ModLeaves \/ ModSeesEnd \/ Redeem \/ UNCHANGED vars
  BY <1>1, <1>13 DEF ModReader, ModGame, ModPublishes, ModCopies, ModSends, ModReads, GameLooks,
     GameWrites, ModLeaves, ModSeesEnd, Redeem, vars, mainVars, twitchVars
<1>14. ASSUME NEW i \in 1..Len(rewards), NEW t \in Titles, RenameInDashboard(i, t) PROVE Good'
  <2>1. dashboard' # 0 /\ UNCHANGED <<config, flag, pc, rewardId, pending>>
    BY <1>14 DEF RenameInDashboard, mainVars
  <2>2. rewards' \in Seq(Titles) /\ Len(rewards') = Len(rewards)
    BY <1>14, Renaming DEF RenameInDashboard
  <2> QED
    BY <2>1, <2>2 DEF RewardTyped, Identified, Findable, Single
<1> QED
  BY <1>3, <1>4, <1>5, <1>6, <1>7, <1>8, <1>9, <1>10, <1>11, <1>12, <1>13, <1>14
  DEF Next, Main, Threads, Mod

(* Types, and what is known of the file's reward, hold throughout. *)
THEOREM RewardHolds == Spec => []RewardInv
<1>1. RewardInv /\ [Next]_vars => RewardInv'
  BY NextTitles, NextReward, DashboardCounts DEF RewardInv
<1> QED
  BY <1>1, InitRewardInv, PTL DEF Spec

(* A step that adds a reward is a launch's, while none is on file. *)
LEMMA CreatedOnlyAtFirst ==
  RewardInv /\ [Next]_vars => [config.id # 0 => Len(rewards') = Len(rewards)]_vars
<1> SUFFICES ASSUME RewardInv, Next, config.id # 0 PROVE Len(rewards') = Len(rewards)
  OBVIOUS
<1>1. RewardTyped /\ Identified
  BY DEF RewardInv
<1>2. CASE UNCHANGED rewards
  BY <1>2
<1>3. CASE EnsureReward
  BY <1>1, <1>3 DEF EnsureReward, Identified
<1>4. CASE RenameReward
  <2>1. pending \in Titles
    BY <1>1, <1>4 DEF RenameReward, Identified
  <2>2. CASE Renamed
    BY <1>1, <2>1, <2>2, Renaming DEF Renamed
  <2> QED
    BY <1>2, <1>4, <2>2 DEF RenameReward
<1>5. ASSUME NEW i \in 1..Len(rewards), NEW t \in Titles, RenameInDashboard(i, t)
      PROVE  Len(rewards') = Len(rewards)
  BY <1>1, <1>5, Renaming DEF RenameInDashboard
<1>6. CASE Launch \/ SaveReward \/ Crash \/ TakeTitle \/ SaveTitle \/ CheckClients \/ Fetch \/ Send
           \/ Fulfil \/ Redeem
  BY <1>2, <1>6 DEF Launch, SaveReward, Crash, TakeTitle, SaveTitle, CheckClients, Fetch, Send,
     Fulfil, Redeem, twitchVars
<1>7. ASSUME NEW c \in Conns, Accept(c) \/ OnUpstream(c) \/ ModConnects(c) PROVE UNCHANGED rewards
  BY <1>7 DEF Accept, OnUpstream, ModConnects, twitchVars
<1>8. CASE ModReader \/ ModGame \/ ModLeaves \/ ModSeesEnd
  BY <1>2, <1>8 DEF ModReader, ModGame, ModPublishes, ModCopies, ModSends, ModReads, GameLooks,
     GameWrites, ModLeaves, ModSeesEnd, twitchVars
<1>9. ASSUME NEW t \in MaybeTitle, SetRewardTitle(t) PROVE UNCHANGED rewards
  BY <1>9 DEF SetRewardTitle, twitchVars
<1> QED
  BY <1>2, <1>3, <1>4, <1>5, <1>6, <1>7, <1>8, <1>9 DEF Next, Main, Threads, Mod

(* No launch creates a reward once the id of one is on file, whatever that one is called
   by then; and as long as nobody renames a reward in the dashboard, wherever launches
   end, the channel gets no second one. *)
THEOREM RewardIsOne == Spec => OneReward
<1>1. RewardInv => (dashboard = 0 => Len(rewards) <= 1)
  BY DEF RewardInv, Single
<1> QED
  BY <1>1, RewardHolds, CreatedOnlyAtFirst, PTL DEF Spec, OneReward

-----------------------------------------------------------------------------
(* The feed: from what Twitch has pending to what the mod received. *)

(* How many of a set come no later than r: its place in OldestFirst. *)
Rank(s, r) == Cardinality({q \in s : q <= r})

FeedTyped ==
  /\ redeemed \in 0..MaxRedemptions /\ fulfilled \subseteq 1..redeemed
  /\ batch \in Seq(1..redeemed) /\ unsent \in Seq(1..redeemed)
  /\ Len(unsent) <= Len(batch) /\ Len(batch) <= PageSize
  /\ clients \subseteq Conns /\ link \in [Conns -> LinkStates]
  /\ wire \in [Conns -> Seq(Redemptions)] /\ got \in Seq(Redemptions)
  /\ modConn \in Conns \cup {NoConn}

BoundsTyped ==
  /\ failures \in 0..MaxFailures /\ crashes \in 0..MaxCrashes
  /\ changes \in 0..MaxChanges /\ dashboard \in 0..MaxDashboard

(* The mod has one connection at a time; only on that one is something on its way,
   and the feed holds none that it has found to be dead. *)
OneConnection ==
  /\ \A c \in Conns : link[c] = "open" => c = modConn
  /\ modConn # NoConn => link[modConn] \in {"open", "dead"}
  /\ \A c \in clients : link[c] \in {"open", "left"}
  /\ \A c \in Conns : c # modConn => wire[c] = <<>>

(* What the mod received or will receive, in order. *)
Stream == got \o (IF modConn = NoConn THEN <<>> ELSE wire[modConn])

Occurs(s, r) == \E i \in 1..Len(s) : s[i] = r

Busy == pc \in {"send", "fulfil"}

(* How much of the batch has been sent. *)
SentCount == Len(batch) - Len(unsent)

(* The batch being worked on: what is unsent is its end, it is not fulfilled yet and
   in order, and nothing older is left out. *)
BatchGood ==
  /\ pc = "send" => unsent # <<>>
  /\ pc = "fulfil" => unsent = <<>>
  /\ Busy => /\ \A i \in 1..Len(unsent) : unsent[i] = batch[SentCount + i]
             /\ \A m, n \in 1..Len(batch) : m < n => batch[m] < batch[n]
             /\ \A n \in 1..Len(batch) : batch[n] \notin fulfilled
             /\ \A n \in 1..Len(batch), r \in Redemptions :
                  r < batch[n] => r \in fulfilled \/ \E m \in 1..(n - 1) : batch[m] = r

(* While no connection was lost: somebody listens, all that is fulfilled or sent was
   sent to the mod, and after whatever was redeemed before. *)
Heard == pc \in {"fetch", "send", "fulfil"} => clients # {}
AllInStream ==
  /\ \A r \in fulfilled : Occurs(Stream, r)
  /\ Busy => \A n \in 1..SentCount : Occurs(Stream, batch[n])
Dense ==
  \A i \in 1..Len(Stream), r \in Redemptions :
    r < Stream[i] => \E k \in 1..(i - 1) : Stream[k] = r

Served == Intact => Heard /\ AllInStream /\ Dense

(* The mod's threads: the reader has a connection exactly while it is not out. *)
ThreadsTyped ==
  /\ modStep \in ModSteps /\ gameStep \in GameSteps /\ gameFd \in Conns \cup {NoConn}
  /\ modStep = "out" <=> modConn = NoConn

(* What was sent is fulfilled, or about to be. *)
Accounted(r) == r \in fulfilled \/ (Busy /\ \E n \in 1..SentCount : batch[n] = r)

Once ==
  failures = 0 /\ crashes = 0 =>
    /\ \A i, j \in 1..Len(Stream) : Stream[i] = Stream[j] => i = j
    /\ \A i \in 1..Len(Stream) : Accounted(Stream[i])

FeedInv ==
  FeedTyped /\ ThreadsTyped /\ BoundsTyped /\ OneConnection /\ BatchGood /\ Served /\ Once

(* The steps that only the name takes. *)
NameStep == \/ ModPublishes \/ ModCopies \/ ModSends \/ ModGame
            \/ \E t \in MaybeTitle : SetRewardTitle(t)
            \/ \E i \in 1..Len(rewards), t \in Titles : RenameInDashboard(i, t)

LEMMA NamesApart ==
  NameStep => UNCHANGED <<redeemed, fulfilled, batch, unsent, pc, clients, link, wire, modConn,
                          got, failures, crashes>>
<1> USE DEF twitchVars, mainVars, netVars, modVars, bounds
<1>1. CASE ModPublishes \/ ModCopies \/ ModSends \/ ModGame
  BY <1>1 DEF ModPublishes, ModCopies, ModSends, ModGame, GameLooks, GameWrites
<1>2. CASE \E t \in MaybeTitle : SetRewardTitle(t)
  BY <1>2 DEF SetRewardTitle
<1>3. CASE \E i \in 1..Len(rewards), t \in Titles : RenameInDashboard(i, t)
  BY <1>3 DEF RenameInDashboard
<1> QED
  BY <1>1, <1>2, <1>3 DEF NameStep

LEMMA NextThreads == FeedInv /\ [Next]_vars => ThreadsTyped'
<1> SUFFICES ASSUME FeedInv, [Next]_vars PROVE ThreadsTyped'
  OBVIOUS
<1>1. ThreadsTyped /\ modConn \in Conns \cup {NoConn}
  BY DEF FeedInv, FeedTyped
<1>2. NoConn \notin Conns
  BY BoundsAssumption DEF NoConn, Conns
<1> USE <1>1, <1>2 DEF ThreadsTyped, ModSteps, GameSteps
<1>3. CASE UNCHANGED modVars
  BY <1>3 DEF modVars
<1>4. CASE Launch \/ Main \/ Crash \/ Redeem \/ UNCHANGED vars
  BY <1>3, <1>4 DEF Launch, Main, EnsureReward, SaveReward, TakeTitle, RenameReward, SaveTitle,
     CheckClients, Fetch, Send, Fulfil, Crash, Redeem, vars
<1>5. ASSUME NEW c \in Conns, Accept(c) \/ OnUpstream(c) PROVE ThreadsTyped'
  BY <1>3, <1>5 DEF Accept, OnUpstream
<1>6. ASSUME NEW c \in Conns, ModConnects(c) PROVE ThreadsTyped'
  BY <1>6 DEF ModConnects
<1>7. CASE ModPublishes \/ ModCopies \/ ModSends \/ ModReads
  BY <1>7 DEF ModPublishes, ModCopies, ModSends, ModReads
<1>8. CASE GameLooks \/ GameWrites
  BY <1>8 DEF GameLooks, GameWrites
<1>9. CASE ModLeaves \/ ModSeesEnd
  BY <1>9 DEF ModLeaves, ModSeesEnd
<1>10. ASSUME NEW t \in MaybeTitle, SetRewardTitle(t) PROVE ThreadsTyped'
  BY <1>10 DEF SetRewardTitle
<1>11. ASSUME NEW i \in 1..Len(rewards), NEW t \in Titles, RenameInDashboard(i, t) PROVE ThreadsTyped'
  BY <1>3, <1>11 DEF RenameInDashboard
<1> QED
  BY <1>4, <1>5, <1>6, <1>7, <1>8, <1>9, <1>10, <1>11 DEF Next, Threads, Mod, ModReader, ModGame

LEMMA RankFacts ==
  ASSUME NEW s \in SUBSET Nat, IsFiniteSet(s)
  PROVE  /\ \A r \in s : Rank(s, r) \in 1..Cardinality(s)
         /\ \A q, r \in s : q < r => Rank(s, q) < Rank(s, r)
         /\ \A i \in 1..Cardinality(s) : \E r \in s : Rank(s, r) = i
<1> DEFINE Upto(r) == {q \in s : q <= r}
<1>1. ASSUME NEW r \in s
      PROVE  IsFiniteSet(Upto(r)) /\ Rank(s, r) \in Nat /\ Rank(s, r) <= Cardinality(s)
  <2>1. Upto(r) \in SUBSET s
    OBVIOUS
  <2>2. IsFiniteSet(Upto(r)) /\ Cardinality(Upto(r)) <= Cardinality(s)
    BY <2>1, FS_Subset
  <2> QED
    BY <2>2, FS_CardinalityType DEF Rank
<1>2. ASSUME NEW r \in s PROVE Rank(s, r) # 0
  <2>1. r \in Upto(r)
    OBVIOUS
  <2>2. Upto(r) # {}
    BY <2>1
  <2> HIDE DEF Upto
  <2>3. Cardinality(Upto(r)) # 0
    BY <1>1, <2>2, FS_EmptySet
  <2> QED
    BY <2>3 DEF Rank, Upto
<1>3. Cardinality(s) \in Nat
  BY FS_CardinalityType
<1>4. ASSUME NEW q \in s, NEW r \in s, q < r PROVE Rank(s, q) < Rank(s, r)
  <2>0. q \in Nat /\ r \in Nat /\ \A p \in s : p \in Nat
    OBVIOUS
  <2>1. Upto(q) \in SUBSET Upto(r)
    <3>1. ASSUME NEW p \in Upto(q) PROVE p \in s /\ p <= r
      BY <2>0, <1>4
    <3> QED
      BY <3>1
  <2>5. r \in Upto(r) /\ r \notin Upto(q)
    BY <2>0, <1>4
  <2>2. Upto(q) # Upto(r)
    BY <2>5
  <2> HIDE DEF Upto
  <2>3. Cardinality(Upto(q)) <= Cardinality(Upto(r)) /\ Cardinality(Upto(q)) # Cardinality(Upto(r))
    BY <1>1, <2>1, <2>2, FS_Subset
  <2>4. Rank(s, q) = Cardinality(Upto(q)) /\ Rank(s, r) = Cardinality(Upto(r))
    BY DEF Rank, Upto
  <2> QED
    BY <1>1, <2>3, <2>4
<1>6. ASSUME NEW r \in s PROVE Rank(s, r) \in 1..Cardinality(s)
  <2>1. Rank(s, r) \in Nat /\ Rank(s, r) <= Cardinality(s) /\ Rank(s, r) # 0
    BY <1>1, <1>2
  <2> QED
    BY <1>3, <2>1
<1>5. \A i \in 1..Cardinality(s) : \E r \in s : Rank(s, r) = i
  <2> DEFINE f == [r \in s |-> Rank(s, r)]
             T == 1..Cardinality(s)
  <2>1. f \in [s -> T]
    BY <1>6
  <2>2. ASSUME NEW q \in s, NEW r \in s, f[q] = f[r] PROVE q = r
    <3>1. q \in Nat /\ r \in Nat
      OBVIOUS
    <3>2. Rank(s, q) = Rank(s, r) /\ Rank(s, q) \in Nat
      BY <1>1, <2>2
    <3>3. ~(q < r) /\ ~(r < q)
      BY <1>4, <3>2
    <3> QED
      BY <3>1, <3>3
  <2>3. f \in Injection(s, T)
    BY <2>1, <2>2 DEF Injection, IsInjective
  <2>4. IsFiniteSet(T) /\ Cardinality(T) = Cardinality(s)
    BY <1>3, FS_Interval
  <2>5. f \in Surjection(s, T)
    <3> HIDE DEF f, T
    <3> QED
      BY <2>3, <2>4, FS_Injection
  <2> QED
    BY <2>5 DEF Surjection
<1> QED
  BY <1>4, <1>5, <1>6

(* The oldest come first, all of them, each once. *)
LEMMA OldestFirstFacts ==
  ASSUME NEW s \in SUBSET Nat, IsFiniteSet(s)
  PROVE  /\ OldestFirst(s) \in Seq(s) /\ Len(OldestFirst(s)) = Cardinality(s)
         /\ \A m, n \in 1..Cardinality(s) : m < n => OldestFirst(s)[m] < OldestFirst(s)[n]
         /\ \A r \in s : \E n \in 1..Cardinality(s) : OldestFirst(s)[n] = r
<1> DEFINE b == OldestFirst(s)
<1>1. Cardinality(s) \in Nat
  BY FS_CardinalityType
<1>2. ASSUME NEW i \in 1..Cardinality(s) PROVE b[i] \in s /\ Rank(s, b[i]) = i
  <2>1. \E r \in s : Rank(s, r) = i
    BY RankFacts
  <2>2. b[i] = CHOOSE r \in s : Rank(s, r) = i
    BY DEF OldestFirst, Rank
  <2> QED
    BY <2>1, <2>2
<1>3. b = [i \in 1..Cardinality(s) |-> b[i]]
  BY DEF OldestFirst
<1> HIDE DEF b
<1>4. b \in Seq(s) /\ Len(b) = Cardinality(s)
  BY <1>1, <1>2, <1>3
<1>5. ASSUME NEW m \in 1..Cardinality(s), NEW n \in 1..Cardinality(s), m < n PROVE b[m] < b[n]
  <2>1. b[m] \in s /\ b[n] \in s /\ Rank(s, b[m]) = m /\ Rank(s, b[n]) = n
    BY <1>2
  <2>4. b[m] \in Nat /\ b[n] \in Nat
    BY <2>1
  <2>2. b[n] < b[m] => n < m
    BY <2>1, RankFacts
  <2>3. b[m] # b[n]
    BY <1>5, <2>1
  <2> QED
    BY <1>5, <2>2, <2>3, <2>4
<1>6. ASSUME NEW r \in s PROVE \E n \in 1..Cardinality(s) : b[n] = r
  <2>1. Rank(s, r) \in 1..Cardinality(s)
    BY RankFacts
  <2>2. PICK n \in 1..Cardinality(s) : Rank(s, r) = n
    BY <2>1
  <2>3. b[n] \in s /\ Rank(s, b[n]) = n
    BY <1>2
  <2>4. ~(b[n] < r) /\ ~(r < b[n])
    <3>1. Rank(s, r) = n /\ Rank(s, b[n]) = n /\ ~(n < n)
      BY <2>2, <2>3
    <3>2. ASSUME b[n] < r PROVE FALSE
      BY <2>3, <3>1, <3>2, RankFacts
    <3>3. ASSUME r < b[n] PROVE FALSE
      BY <2>3, <3>1, <3>3, RankFacts
    <3> QED
      BY <3>2, <3>3
  <2>5. b[n] \in Nat /\ r \in Nat
    BY <2>3
  <2> QED
    BY <2>4, <2>5
<1> QED
  BY <1>4, <1>5, <1>6 DEF b

(* A page is as long as it may be at most, and leaves out nothing that is older. *)
LEMMA PageFacts ==
  ASSUME NEW s \in SUBSET Nat, IsFiniteSet(s)
  PROVE  /\ Page(s) \subseteq s /\ IsFiniteSet(Page(s)) /\ Cardinality(Page(s)) <= PageSize
         /\ \A r \in Page(s), q \in s : q < r => q \in Page(s)
<1> DEFINE p == Page(s)
<1>1. \A r \in s : Rank(s, r) \in 1..Cardinality(s)
  BY RankFacts
<1>2. p = {r \in s : Rank(s, r) <= PageSize}
  BY DEF Page, Rank
<1>3. p \in SUBSET s /\ IsFiniteSet(p) /\ p \in SUBSET Nat
  BY <1>2, FS_Subset
<1>4. Cardinality(s) \in Nat /\ Cardinality(p) \in Nat
  BY <1>3, FS_CardinalityType
<1>5. ASSUME NEW r \in p, NEW q \in s, q < r PROVE q \in p
  <2>1. Rank(s, q) < Rank(s, r) /\ Rank(s, r) <= PageSize
    BY <1>2, <1>5, RankFacts
  <2>2. Rank(s, q) \in Int /\ Rank(s, r) \in Int /\ PageSize \in Int
    BY <1>1, <1>3, BoundsAssumption
  <2>3. Rank(s, q) <= PageSize
    BY <2>1, <2>2
  <2> QED
    BY <1>2, <2>3
<1>6. ASSUME NEW r \in p PROVE Rank(p, r) = Rank(s, r)
  <2>1. ASSUME NEW q \in s, q <= r PROVE q \in p
    <3>1. q \in Nat /\ r \in Nat
      BY <1>3
    <3>2. q = r \/ q < r
      BY <2>1, <3>1
    <3> QED
      BY <1>5, <3>2
  <2>2. {q \in p : q <= r} = {q \in s : q <= r}
    BY <1>3, <2>1
  <2> QED
    BY <2>2 DEF Rank
<1> HIDE DEF p
<1>7. Cardinality(p) <= PageSize
  <2>1. CASE Cardinality(p) = 0
    BY <2>1, BoundsAssumption
  <2>2. CASE Cardinality(p) # 0
    <3>1. Cardinality(p) \in 1..Cardinality(p)
      BY <1>4, <2>2
    <3>2. PICK r \in p : Rank(p, r) = Cardinality(p)
      BY <1>3, <3>1, RankFacts
    <3> QED
      BY <1>2, <1>6, <3>2
  <2> QED
    BY <2>1, <2>2
<1> QED
  BY <1>3, <1>5, <1>7 DEF p
LEMMA SeqOfMore == ASSUME NEW S, NEW T, S \subseteq T, NEW q \in Seq(S) PROVE q \in Seq(T)
OBVIOUS

(* What a poll takes on. *)
LEMMA Fetched ==
  ASSUME FeedTyped, NEW b, b = OldestFirst(Page(Unfulfilled))
  PROVE  /\ b \in Seq(1..redeemed) /\ Len(b) <= PageSize
         /\ \A m, n \in 1..Len(b) : m < n => b[m] < b[n]
         /\ \A n \in 1..Len(b) : b[n] \notin fulfilled
         /\ \A n \in 1..Len(b), r \in Redemptions :
              r < b[n] => r \in fulfilled \/ \E m \in 1..(n - 1) : b[m] = r
<1> DEFINE p == Page(Unfulfilled)
<1>1. redeemed \in Nat /\ MaxRedemptions \in Nat /\ redeemed <= MaxRedemptions
  BY BoundsAssumption DEF FeedTyped
<1>2. Unfulfilled \in SUBSET Nat /\ IsFiniteSet(Unfulfilled)
  <2>1. IsFiniteSet(1..redeemed)
    BY <1>1, FS_Interval
  <2>2. Unfulfilled \in SUBSET (1..redeemed)
    BY DEF Unfulfilled
  <2>3. IsFiniteSet(Unfulfilled)
    BY <2>1, <2>2, FS_Subset
  <2>4. 1..redeemed \subseteq Nat
    BY <1>1
  <2> QED
    BY <2>2, <2>3, <2>4
<1>3. /\ p \subseteq Unfulfilled /\ IsFiniteSet(p) /\ Cardinality(p) <= PageSize
      /\ \A r \in p, q \in Unfulfilled : q < r => q \in p
  BY <1>2, PageFacts
<1>4. p \in SUBSET Nat
  BY <1>2, <1>3
<1> HIDE DEF p
<1>5. /\ b \in Seq(p) /\ Len(b) = Cardinality(p)
      /\ \A m, n \in 1..Cardinality(p) : m < n => b[m] < b[n]
      /\ \A r \in p : \E n \in 1..Cardinality(p) : b[n] = r
  BY <1>3, <1>4, OldestFirstFacts DEF p
<1>6. \A n \in 1..Len(b) : b[n] \in p
  BY <1>5
<1>7. \A n \in 1..Len(b) : b[n] \in 1..redeemed /\ b[n] \notin fulfilled
  BY <1>3, <1>6 DEF Unfulfilled
<1>8. b \in Seq(1..redeemed)
  <2>1. p \subseteq 1..redeemed
    BY <1>3 DEF Unfulfilled
  <2> QED
    BY <1>5, <2>1, SeqOfMore
<1>9. ASSUME NEW n \in 1..Len(b), NEW r \in Redemptions, r < b[n], r \notin fulfilled
      PROVE  \E m \in 1..(n - 1) : b[m] = r
  <2>1. r \in Nat /\ 1 <= r /\ b[n] \in Nat /\ b[n] <= redeemed
    BY <1>1, <1>7 DEF Redemptions
  <2>2. r \in Unfulfilled
    BY <1>1, <1>9, <2>1 DEF Unfulfilled
  <2>3. r \in p
    BY <1>3, <1>6, <1>9, <2>2
  <2>4. PICK m \in 1..Len(b) : b[m] = r
    BY <1>5, <2>3
  <2>5. ~(n < m) /\ m # n
    <3>1. ASSUME n < m PROVE FALSE
      <4>1. b[n] < b[m]
        BY <1>5, <3>1
      <4> QED
        BY <1>9, <2>1, <2>4, <4>1
    <3> QED
      BY <1>9, <2>1, <2>4, <3>1
  <2>6. m \in 1..(n - 1)
    BY <2>5
  <2> QED
    BY <2>4, <2>6
<1> QED
  BY <1>3, <1>5, <1>7, <1>8, <1>9

LEMMA InitFeed == Init => FeedInv
<1> SUFFICES ASSUME Init PROVE FeedInv
  OBVIOUS
<1> USE DEF Init
<1>1. FeedTyped
  BY BoundsAssumption DEF FeedTyped, LinkStates
<1>2. BoundsTyped /\ OneConnection /\ BatchGood /\ ThreadsTyped
  BY BoundsAssumption DEF BoundsTyped, OneConnection, BatchGood, Busy, ThreadsTyped, ModSteps, GameSteps
<1>3. Stream = <<>> /\ Len(Stream) = 0
  BY DEF Stream
<1>4. Served /\ Once
  BY <1>3 DEF Served, Heard, AllInStream, Dense, Once, Busy
<1> QED
  BY <1>1, <1>2, <1>4 DEF FeedInv

LEMMA NextBounds == BoundsTyped /\ [Next]_vars => BoundsTyped'
<1> SUFFICES ASSUME BoundsTyped, [Next]_vars PROVE BoundsTyped'
  OBVIOUS
<1> USE BoundsAssumption DEF BoundsTyped, bounds, FailedCall
<1>1. CASE Launch \/ EnsureReward \/ SaveReward \/ Crash
  BY <1>1 DEF Launch, EnsureReward, SaveReward, Crash
<1>2. CASE TakeTitle \/ RenameReward \/ SaveTitle \/ CheckClients
  BY <1>2 DEF TakeTitle, RenameReward, SaveTitle, CheckClients
<1>3. CASE Fetch \/ Send \/ Fulfil
  BY <1>3 DEF Fetch, Send, Fulfil
<1>4. ASSUME NEW c \in Conns, Accept(c) \/ OnUpstream(c) \/ ModConnects(c) PROVE BoundsTyped'
  BY <1>4 DEF Accept, OnUpstream, ModConnects
<1>5. CASE ModReads \/ ModLeaves \/ ModSeesEnd
  BY <1>5 DEF ModReads, ModLeaves, ModSeesEnd
<1>6. CASE ModPublishes \/ ModCopies \/ ModSends \/ GameLooks \/ GameWrites
  BY <1>6 DEF ModPublishes, ModCopies, ModSends, GameLooks, GameWrites
<1>7. ASSUME NEW t \in MaybeTitle, SetRewardTitle(t) PROVE BoundsTyped'
  BY <1>7 DEF SetRewardTitle
<1>8. ASSUME NEW i \in 1..Len(rewards), NEW t \in Titles, RenameInDashboard(i, t) PROVE BoundsTyped'
  BY <1>8 DEF RenameInDashboard
<1>9. CASE Redeem \/ UNCHANGED vars
  BY <1>9 DEF Redeem, vars
<1> QED
  BY <1>1, <1>2, <1>3, <1>4, <1>5, <1>6, <1>7, <1>8, <1>9
  DEF Next, Main, Threads, Mod, ModReader, ModGame

LEMMA NextFeedTyped == FeedInv /\ [Next]_vars => FeedTyped'
<1> SUFFICES ASSUME FeedInv, [Next]_vars PROVE FeedTyped'
  OBVIOUS
<1>1. redeemed \in Nat /\ redeemed <= MaxRedemptions /\ MaxRedemptions \in Nat
  BY BoundsAssumption DEF FeedInv, FeedTyped
<1>2. 1..redeemed \subseteq Redemptions
  BY <1>1 DEF Redemptions
<1> USE DEF FeedTyped
<1>3. FeedTyped
  BY DEF FeedInv
<1>4. CASE UNCHANGED <<redeemed, fulfilled, batch, unsent, clients, link, wire, modConn, got>>
  BY <1>3, <1>4
<1>5. CASE Launch \/ EnsureReward \/ SaveReward \/ TakeTitle \/ RenameReward \/ SaveTitle \/ CheckClients
  BY <1>4, <1>5 DEF Launch, EnsureReward, SaveReward, TakeTitle, RenameReward, SaveTitle,
     CheckClients, twitchVars, mainVars, netVars, modVars
<1>6. CASE Crash
  <2>1. \A c \in Conns : (IF link[c] = "unused" THEN "unused" ELSE "dead") \in LinkStates
    BY DEF LinkStates
  <2>2. link' \in [Conns -> LinkStates]
    BY <1>6, <2>1 DEF Crash
  <2>3. batch' = <<>> /\ unsent' = <<>> /\ clients' = {}
    BY <1>6 DEF Crash
  <2> QED
    BY <1>3, <1>6, <2>2, <2>3, BoundsAssumption DEF Crash, twitchVars, modVars
<1>7. CASE Fetch
  <2>1. UNCHANGED <<redeemed, fulfilled, clients, link, wire, modConn, got>>
    BY <1>7 DEF Fetch, twitchVars, netVars, modVars
  <2>2. CASE batch' = OldestFirst(Page(Unfulfilled)) /\ unsent' = batch'
    BY <1>3, <2>1, <2>2, Fetched
  <2>3. CASE UNCHANGED <<batch, unsent>>
    BY <1>4, <2>1, <2>3
  <2> QED
    BY <1>7, <2>2, <2>3 DEF Fetch
<1>8. CASE Send
  <2>1. unsent # <<>>
    BY <1>8 DEF Send, FeedInv, BatchGood
  <2>2. Head(unsent) \in Redemptions /\ Tail(unsent) \in Seq(1..redeemed) /\ Len(Tail(unsent)) <= Len(unsent)
    BY <1>2, <1>3, <2>1
  <2>3. UNCHANGED <<redeemed, fulfilled, batch, modConn, got>> /\ unsent' = Tail(unsent)
    BY <1>8 DEF Send, SendTo, twitchVars, modVars
  <2>4. wire' \in [Conns -> Seq(Redemptions)]
    <3>1. \A c \in Conns : (IF c \in clients \ Left THEN Append(wire[c], Head(unsent)) ELSE wire[c])
                             \in Seq(Redemptions)
      BY <1>3, <2>2
    <3> QED
      BY <1>8, <3>1 DEF Send, SendTo
  <2>5. clients' \subseteq Conns /\ link' \in [Conns -> LinkStates]
    <3>1. PICK failed \in SUBSET Left :
            clients' = clients \ failed /\ link' = [c \in Conns |-> IF c \in failed THEN "dead" ELSE link[c]]
      BY <1>8 DEF Send, SendTo
    <3>2. \A c \in Conns : (IF c \in failed THEN "dead" ELSE link[c]) \in LinkStates
      BY <1>3 DEF LinkStates
    <3> QED
      BY <1>3, <3>1, <3>2
  <2>6. Len(unsent') <= Len(batch')
    BY <1>3, <2>1, <2>3
  <2> QED
    BY <1>3, <2>2, <2>3, <2>4, <2>5, <2>6
<1>9. CASE Fulfil
  <2>1. UNCHANGED <<redeemed, batch, unsent, clients, link, wire, modConn, got>>
    BY <1>9 DEF Fulfil, netVars, modVars
  <2>2. {batch[i] : i \in 1..Len(batch)} \subseteq 1..redeemed
    BY <1>3
  <2>3. fulfilled' \subseteq 1..redeemed
    BY <1>3, <1>9, <2>2 DEF Fulfil, Fulfilled
  <2> QED
    BY <1>3, <2>1, <2>3
<1>10. ASSUME NEW c \in Conns, Accept(c) \/ OnUpstream(c) PROVE FeedTyped'
  BY <1>3, <1>10 DEF Accept, OnUpstream, twitchVars, mainVars, modVars
<1>11. ASSUME NEW c \in Conns, ModConnects(c) PROVE FeedTyped'
  BY <1>3, <1>11 DEF ModConnects, LinkStates, twitchVars, mainVars
<1>12. CASE ModReads
  <2>1. modConn \in Conns /\ wire[modConn] \in Seq(Redemptions) /\ wire[modConn] # <<>>
    BY <1>3, <1>12 DEF ModReads, FeedInv, ThreadsTyped
  <2>2. Head(wire[modConn]) \in Redemptions /\ Tail(wire[modConn]) \in Seq(Redemptions)
    BY <2>1
  <2> QED
    BY <1>3, <1>12, <2>1, <2>2 DEF ModReads, twitchVars, mainVars
<1>13. CASE ModLeaves
  <2>1. UNCHANGED <<redeemed, fulfilled, batch, unsent, clients, got>> /\ modConn' = NoConn
    BY <1>13 DEF ModLeaves, twitchVars, mainVars
  <2>2. link' = [link EXCEPT ![modConn] = "left"] /\ wire' = [wire EXCEPT ![modConn] = <<>>]
    BY <1>13 DEF ModLeaves
  <2>3. link' \in [Conns -> LinkStates]
    BY <1>3, <2>2 DEF LinkStates
  <2>4. wire' \in [Conns -> Seq(Redemptions)]
    <3>1. <<>> \in Seq(Redemptions) /\ wire \in [Conns -> Seq(Redemptions)]
      BY <1>3
    <3> QED
      BY <2>2, <3>1
  <2> QED
    BY <1>3, <2>1, <2>3, <2>4
<1>14. CASE ModSeesEnd
  BY <1>3, <1>14 DEF ModSeesEnd, twitchVars, mainVars, netVars
<1>15. CASE NameStep
  BY <1>4, <1>15, NamesApart
<1>16. CASE Redeem
  <2>1. redeemed' = redeemed + 1 /\ redeemed' \in 0..MaxRedemptions
    BY <1>1, <1>16 DEF Redeem
  <2>2. 1..redeemed \subseteq 1..redeemed'
    BY <1>1, <2>1
  <2>3. UNCHANGED <<fulfilled, batch, unsent, clients, link, wire, modConn, got>>
    BY <1>16 DEF Redeem, mainVars, netVars, modVars
  <2>4. fulfilled \subseteq 1..redeemed' /\ batch \in Seq(1..redeemed') /\ unsent \in Seq(1..redeemed')
    BY <1>3, <2>2, SeqOfMore
  <2> QED
    BY <1>3, <2>1, <2>3, <2>4
<1>17. CASE UNCHANGED vars
  BY <1>4, <1>17 DEF vars, twitchVars, mainVars, netVars, modVars
<1> QED
  BY <1>5, <1>6, <1>7, <1>8, <1>9, <1>10, <1>11, <1>12, <1>13, <1>14, <1>15, <1>16, <1>17
  DEF Next, Main, Threads, Mod, ModReader, NameStep

-----------------------------------------------------------------------------
(* What a step does to all this. *)

Quiet == /\ Stream' = Stream /\ UNCHANGED <<fulfilled, batch, unsent>>
         /\ pc' = pc \/ ~(Busy \/ Busy')

(* Marking the batch as fulfilled fails, or seems to. *)
Misses == /\ pc = "fulfil" /\ pc' = "top" /\ failures' # 0
          /\ Stream' = Stream /\ UNCHANGED <<fulfilled, batch, unsent>>

TakesOn == /\ pc = "fetch" /\ batch' = OldestFirst(Page(Unfulfilled)) /\ unsent' = batch'
           /\ pc' = IF batch' = <<>> THEN "top" ELSE "send"
           /\ Stream' = Stream /\ UNCHANGED fulfilled

Sends == /\ pc = "send" /\ unsent' = Tail(unsent)
         /\ pc' = IF unsent' = <<>> THEN "fulfil" ELSE "send"
         /\ \/ Stream' = Append(Stream, Head(unsent))
            \/ Stream' = Stream /\ ~Intact
         /\ UNCHANGED <<fulfilled, batch>>

Fulfils == /\ pc = "fulfil" /\ pc' = "top"
           /\ fulfilled' = fulfilled \cup {batch[n] : n \in 1..Len(batch)}
           /\ Stream' = Stream /\ UNCHANGED <<batch, unsent>>

Cuts == /\ Stream' = got /\ ~Intact'
        /\ UNCHANGED <<fulfilled, batch, unsent, pc>>

Ends == /\ pc' = "down" /\ batch' = <<>> /\ unsent' = <<>> /\ crashes' # 0
        /\ Stream' = Stream /\ UNCHANGED fulfilled

LEMMA HeadMoves ==
  ASSUME NEW S, NEW p \in Seq(S), NEW q \in Seq(S), q # <<>>
  PROVE  Append(p, Head(q)) \o Tail(q) = p \o q
<1> DEFINE a == Append(p, Head(q)) \o Tail(q)
           b == p \o q
<1>1. Len(q) \in Nat \ {0} /\ Len(p) \in Nat /\ Tail(q) \in Seq(S) /\ Len(Tail(q)) = Len(q) - 1
      /\ Append(p, Head(q)) \in Seq(S) /\ Len(Append(p, Head(q))) = Len(p) + 1
  OBVIOUS
<1>2. a \in Seq(S) /\ b \in Seq(S) /\ Len(a) = Len(p) + Len(q) /\ Len(b) = Len(p) + Len(q)
  BY <1>1
<1>3. ASSUME NEW i \in 1..(Len(p) + Len(q)) PROVE a[i] = b[i]
  <2>1. CASE i <= Len(p)
    BY <1>1, <2>1
  <2>2. CASE i = Len(p) + 1
    BY <1>1, <2>2
  <2>3. CASE i > Len(p) + 1
    <3>1. a[i] = Tail(q)[i - Len(p) - 1] /\ b[i] = q[i - Len(p)]
      BY <1>1, <2>3
    <3> QED
      BY <1>1, <2>3, <3>1
  <2> QED
    BY <1>1, <2>1, <2>2, <2>3
<1> HIDE DEF a, b
<1>4. a = b
  BY <1>2, <1>3
<1> QED
  BY <1>4 DEF a, b

LEMMA StreamTyped ==
  ASSUME FeedTyped
  PROVE  /\ Stream \in Seq(Redemptions) /\ Len(got) <= Len(Stream)
         /\ \A i \in 1..Len(got) : got[i] = Stream[i]
<1>1. CASE modConn = NoConn
  <2>1. Stream = got
    BY <1>1 DEF Stream, FeedTyped
  <2> QED
    BY <2>1 DEF FeedTyped
<1>2. CASE modConn # NoConn
  <2>1. wire[modConn] \in Seq(Redemptions) /\ got \in Seq(Redemptions)
    BY <1>2 DEF FeedTyped
  <2>2. Stream = got \o wire[modConn]
    BY <1>2 DEF Stream
  <2> QED
    BY <2>1, <2>2
<1> QED
  BY <1>1, <1>2

LEMMA NextConnection == FeedInv /\ [Next]_vars => OneConnection'
<1> SUFFICES ASSUME FeedInv, [Next]_vars PROVE OneConnection'
  OBVIOUS
<1>1. OneConnection /\ link \in [Conns -> LinkStates] /\ wire \in [Conns -> Seq(Redemptions)]
      /\ modConn \in Conns \cup {NoConn} /\ clients \subseteq Conns /\ ThreadsTyped
  BY DEF FeedInv, FeedTyped
<1> USE DEF OneConnection
<1>2. CASE UNCHANGED <<link, wire, modConn, clients>>
  BY <1>1, <1>2
<1>3. CASE Launch \/ EnsureReward \/ SaveReward \/ TakeTitle \/ RenameReward \/ SaveTitle \/ CheckClients
  BY <1>2, <1>3 DEF Launch, EnsureReward, SaveReward, TakeTitle, RenameReward, SaveTitle,
     CheckClients, netVars, modVars
<1>4. CASE Fetch \/ Fulfil \/ Redeem \/ UNCHANGED vars
  BY <1>2, <1>4 DEF Fetch, Fulfil, Redeem, vars, netVars, modVars
<1>5. CASE NameStep
  BY <1>2, <1>5, NamesApart
<1>6. CASE Crash
  BY <1>1, <1>6 DEF Crash, modVars
<1>7. CASE Send
  <2>1. PICK failed \in SUBSET Left :
          clients' = clients \ failed /\ link' = [c \in Conns |-> IF c \in failed THEN "dead" ELSE link[c]]
    BY <1>7 DEF Send, SendTo
  <2>2. modConn' = modConn /\ wire' = [c \in Conns |-> IF c \in clients \ Left
                                         THEN Append(wire[c], Head(unsent)) ELSE wire[c]]
    BY <1>7 DEF Send, SendTo, modVars
  <2>3. \A c \in failed : link[c] = "left"
    BY DEF Left
  <2>4. \A c \in clients \ Left : c = modConn
    BY <1>1 DEF Left
  <2>5. \A c \in Conns : c # modConn => wire'[c] = <<>>
    BY <1>1, <2>2, <2>4
  <2>6. \A c \in Conns : c \notin failed => link'[c] = link[c]
    BY <2>1
  <2>7. \A c \in failed : c \in Conns => link'[c] = "dead"
    BY <2>1
  <2> QED
    BY <1>1, <2>1, <2>2, <2>3, <2>5, <2>6, <2>7
<1>8. ASSUME NEW c \in Conns, Accept(c) \/ OnUpstream(c) PROVE OneConnection'
  BY <1>1, <1>8 DEF Accept, OnUpstream, modVars
<1>9. ASSUME NEW c \in Conns, ModConnects(c) PROVE OneConnection'
  <2>1. modConn = NoConn /\ link[c] = "unused" /\ modConn' = c /\ link' = [link EXCEPT ![c] = "open"]
        /\ UNCHANGED <<clients, wire>>
    BY <1>1, <1>9 DEF ModConnects, ThreadsTyped
  <2>2. c \notin clients
    BY <1>1, <2>1
  <2>3. NoConn \notin Conns
    BY BoundsAssumption DEF NoConn, Conns
  <2> QED
    BY <1>1, <2>1, <2>2, <2>3
<1>10. CASE ModReads
  BY <1>1, <1>10 DEF ModReads
<1>11. CASE ModLeaves \/ ModSeesEnd
  BY <1>1, <1>11 DEF ModLeaves, ModSeesEnd, netVars
<1> QED
  BY <1>3, <1>4, <1>5, <1>6, <1>7, <1>8, <1>9, <1>10, <1>11
  DEF Next, Main, Threads, Mod, ModReader, NameStep

(* A connection once lost stays lost. *)
LEMMA IntactBefore == FeedInv /\ [Next]_vars /\ Intact' => Intact
<1> SUFFICES ASSUME FeedInv, [Next]_vars, Intact' PROVE Intact
  OBVIOUS
<1>1. link \in [Conns -> LinkStates]
  BY DEF FeedInv, FeedTyped
<1>2. CASE UNCHANGED link
  BY <1>2 DEF Intact
<1>3. CASE Launch \/ EnsureReward \/ SaveReward \/ TakeTitle \/ RenameReward \/ SaveTitle \/ CheckClients
           \/ Fetch \/ Fulfil \/ Redeem \/ ModReads \/ ModSeesEnd \/ UNCHANGED vars
  BY <1>2, <1>3 DEF Launch, EnsureReward, SaveReward, TakeTitle, RenameReward, SaveTitle,
     CheckClients, Fetch, Fulfil, Redeem, ModReads, ModSeesEnd, vars, netVars
<1>4. CASE NameStep
  BY <1>2, <1>4, NamesApart
<1>5. CASE Crash
  BY <1>1, <1>5 DEF Crash, Intact
<1>6. CASE Send
  BY <1>1, <1>6 DEF Send, SendTo, Intact
<1>7. ASSUME NEW c \in Conns, Accept(c) \/ OnUpstream(c) PROVE Intact
  BY <1>2, <1>7 DEF Accept, OnUpstream
<1>8. ASSUME NEW c \in Conns, ModConnects(c) PROVE Intact
  BY <1>1, <1>8 DEF ModConnects, Intact
<1>9. CASE ModLeaves
  BY <1>1, <1>9 DEF ModLeaves, Intact
<1> QED
  BY <1>3, <1>4, <1>5, <1>6, <1>7, <1>8, <1>9 DEF Next, Main, Threads, Mod, ModReader, NameStep

LEMMA FeedSteps ==
  FeedInv /\ [Next]_vars => Quiet \/ Misses \/ TakesOn \/ Sends \/ Fulfils \/ Cuts \/ Ends
<1> SUFFICES ASSUME FeedInv, [Next]_vars PROVE Quiet \/ Misses \/ TakesOn \/ Sends \/ Fulfils \/ Cuts \/ Ends
  OBVIOUS
<1>1. FeedTyped /\ OneConnection /\ ThreadsTyped
  BY DEF FeedInv
<1>2. ASSUME UNCHANGED <<got, modConn, wire>> PROVE Stream' = Stream
  BY <1>2 DEF Stream
<1>3. CASE Launch \/ EnsureReward \/ SaveReward
  <2>1. Stream' = Stream /\ UNCHANGED <<fulfilled, batch, unsent>>
    BY <1>2, <1>3 DEF Launch, EnsureReward, SaveReward, twitchVars, netVars, modVars
  <2> QED
    BY <1>3, <2>1 DEF Launch, EnsureReward, SaveReward, Quiet, Busy
<1>4. CASE TakeTitle \/ RenameReward \/ SaveTitle \/ CheckClients
  <2>1. Stream' = Stream /\ UNCHANGED <<fulfilled, batch, unsent>>
    BY <1>2, <1>4 DEF TakeTitle, RenameReward, SaveTitle, CheckClients, twitchVars, netVars, modVars
  <2> QED
    BY <1>4, <2>1 DEF TakeTitle, RenameReward, SaveTitle, CheckClients, FailedCall, Quiet, Busy
<1>5. CASE Fetch
  <2>1. Stream' = Stream /\ UNCHANGED fulfilled
    BY <1>2, <1>5 DEF Fetch, twitchVars, netVars, modVars
  <2> QED
    BY <1>5, <2>1 DEF Fetch, FailedCall, TakesOn, Quiet, Busy
<1>6. CASE Fulfil
  <2>1. Stream' = Stream /\ UNCHANGED <<batch, unsent>> /\ pc = "fulfil" /\ pc' = "top"
    BY <1>2, <1>6 DEF Fulfil, FailedCall, netVars, modVars
  <2>2. Fulfilled \/ (UNCHANGED fulfilled /\ failures' = failures + 1 /\ failures \in Nat)
    BY <1>6, BoundsAssumption DEF Fulfil, FailedCall, FeedInv, BoundsTyped
  <2> QED
    BY <2>1, <2>2 DEF Fulfilled, Fulfils, Misses
<1>7. CASE Send
  <2>1. /\ pc = "send" /\ UNCHANGED <<fulfilled, batch, got, modConn>> /\ unsent' = Tail(unsent)
        /\ pc' = IF unsent' = <<>> THEN "fulfil" ELSE "send"
        /\ wire' = [c \in Conns |-> IF c \in clients \ Left
                                    THEN Append(wire[c], Head(unsent)) ELSE wire[c]]
    BY <1>7 DEF Send, SendTo, twitchVars, modVars
  <2>2. CASE modConn \in clients \ Left
    <3>1. modConn \in Conns /\ modConn # NoConn
      BY <1>1, <2>2, BoundsAssumption DEF FeedTyped, NoConn, Conns
    <3>2. Stream = got \o wire[modConn] /\ Stream' = got \o Append(wire[modConn], Head(unsent))
      BY <2>1, <2>2, <3>1 DEF Stream
    <3>3. unsent # <<>>
      BY <2>1 DEF FeedInv, BatchGood
    <3>4. got \in Seq(Redemptions) /\ wire[modConn] \in Seq(Redemptions) /\ Head(unsent) \in 1..redeemed
      BY <1>1, <3>1, <3>3 DEF FeedTyped
    <3>5. Stream' = Append(Stream, Head(unsent))
      BY <3>2, <3>4
    <3> QED
      BY <2>1, <3>5 DEF Sends
  <2>3. CASE modConn \notin clients \ Left
    <3>1. Stream' = Stream
      BY <1>1, <2>1, <2>3 DEF Stream, FeedTyped
    <3>2. ASSUME Intact PROVE FALSE
      <4>1. PICK c \in clients : TRUE
        BY <2>1, <3>2 DEF FeedInv, Served, Heard
      <4>2. c \in Conns /\ link[c] \in {"unused", "open"} /\ link[c] \in {"open", "left"}
        BY <1>1, <3>2 DEF FeedTyped, OneConnection, Intact
      <4>3. c = modConn /\ c \notin Left
        BY <1>1, <4>2 DEF OneConnection, Left
      <4> QED
        BY <2>3, <4>1, <4>3
    <3> QED
      BY <2>1, <3>1, <3>2 DEF Sends
  <2> QED
    BY <2>2, <2>3
<1>8. ASSUME NEW c \in Conns, Accept(c) \/ OnUpstream(c) PROVE Quiet
  <2>1. UNCHANGED <<got, modConn, wire, fulfilled, batch, unsent, pc>>
    BY <1>8 DEF Accept, OnUpstream, twitchVars, mainVars, modVars
  <2> QED
    BY <1>2, <2>1 DEF Quiet
<1>9. ASSUME NEW c \in Conns, ModConnects(c) PROVE Quiet
  <2>1. modConn = NoConn /\ modConn' = c /\ UNCHANGED <<got, wire, fulfilled, batch, unsent, pc>>
    BY <1>1, <1>9 DEF ModConnects, ThreadsTyped, twitchVars, mainVars
  <2>2. c # NoConn
    BY BoundsAssumption DEF NoConn, Conns
  <2>3. wire[c] = <<>>
    BY <1>1, <2>1, <2>2 DEF OneConnection
  <2>4. Stream' = Stream
    BY <2>1, <2>2, <2>3 DEF Stream
  <2> QED
    BY <2>1, <2>4 DEF Quiet
<1>10. CASE ModReads
  <2>1. modConn # NoConn /\ modConn \in Conns /\ wire[modConn] \in Seq(Redemptions) /\ wire[modConn] # <<>>
        /\ got \in Seq(Redemptions)
    BY <1>1, <1>10 DEF ModReads, FeedTyped, ThreadsTyped
  <2>2. /\ got' = Append(got, Head(wire[modConn])) /\ wire'[modConn] = Tail(wire[modConn])
        /\ UNCHANGED <<modConn, fulfilled, batch, unsent, pc>>
    BY <1>1, <1>10, <2>1 DEF ModReads, FeedTyped, twitchVars, mainVars
  <2>3. Stream = got \o wire[modConn] /\ Stream' = got' \o wire'[modConn]
    BY <2>1, <2>2 DEF Stream
  <2>4. Stream' = Stream
    BY <2>1, <2>2, <2>3, HeadMoves
  <2> QED
    BY <2>2, <2>4 DEF Quiet
<1>11. CASE ModLeaves
  <2>1. /\ modConn \in Conns /\ modConn' = NoConn /\ link' = [link EXCEPT ![modConn] = "left"]
        /\ UNCHANGED <<got, fulfilled, batch, unsent, pc>>
    BY <1>1, <1>11 DEF ModLeaves, FeedTyped, ThreadsTyped, Published, twitchVars, mainVars
  <2>2. link'[modConn] = "left"
    BY <1>1, <2>1 DEF FeedTyped
  <2>3. ~Intact'
    BY <2>1, <2>2 DEF Intact
  <2>4. Stream' = got
    BY <1>1, <2>1 DEF Stream, FeedTyped
  <2> QED
    BY <2>1, <2>3, <2>4 DEF Cuts
<1>12. CASE ModSeesEnd
  <2>1. /\ modConn # NoConn /\ wire[modConn] = <<>> /\ modConn' = NoConn
        /\ UNCHANGED <<got, wire, fulfilled, batch, unsent, pc>>
    BY <1>1, <1>12 DEF ModSeesEnd, ThreadsTyped, twitchVars, mainVars, netVars
  <2>2. Stream' = Stream
    BY <1>1, <2>1 DEF Stream, FeedTyped
  <2> QED
    BY <2>1, <2>2 DEF Quiet
<1>13. CASE NameStep
  <2>1. UNCHANGED <<got, modConn, wire, fulfilled, batch, unsent, pc>>
    BY <1>13, NamesApart
  <2> QED
    BY <1>2, <2>1 DEF Quiet
<1>14. CASE Redeem \/ UNCHANGED vars
  <2>1. UNCHANGED <<got, modConn, wire, fulfilled, batch, unsent, pc>>
    BY <1>14 DEF Redeem, vars, twitchVars, mainVars, netVars, modVars
  <2> QED
    BY <1>2, <2>1 DEF Quiet
<1>15. CASE Crash
  <2>1. UNCHANGED <<got, modConn, wire, fulfilled>> /\ pc' = "down" /\ batch' = <<>> /\ unsent' = <<>>
        /\ crashes' = crashes + 1 /\ crashes \in Nat
    BY <1>15, BoundsAssumption DEF Crash, twitchVars, modVars, FeedInv, BoundsTyped
  <2> QED
    BY <1>2, <2>1 DEF Ends
<1> QED
  BY <1>3, <1>4, <1>5, <1>6, <1>7, <1>8, <1>9, <1>10, <1>11, <1>12, <1>13, <1>14, <1>15
  DEF Next, Main, Threads, Mod, ModReader, NameStep

LEMMA NextBatch == FeedInv /\ [Next]_vars => BatchGood'
<1> SUFFICES ASSUME FeedInv, [Next]_vars PROVE BatchGood'
  OBVIOUS
<1>1. BatchGood /\ FeedTyped /\ FeedTyped'
  BY NextFeedTyped DEF FeedInv
<1> USE DEF BatchGood, Busy, SentCount
<1>2. CASE Quiet
  BY <1>1, <1>2 DEF Quiet, Busy
<1>3. CASE TakesOn
  <2>1. /\ batch' \in Seq(1..redeemed)
        /\ \A m, n \in 1..Len(batch') : m < n => batch'[m] < batch'[n]
        /\ \A n \in 1..Len(batch') : batch'[n] \notin fulfilled
        /\ \A n \in 1..Len(batch'), r \in Redemptions :
             r < batch'[n] => r \in fulfilled \/ \E m \in 1..(n - 1) : batch'[m] = r
    BY <1>1, <1>3, Fetched DEF TakesOn
  <2>2. \A i \in 1..Len(unsent') : unsent'[i] = batch'[(Len(batch') - Len(unsent')) + i]
    BY <1>3, <2>1 DEF TakesOn
  <2> QED
    BY <1>3, <2>1, <2>2 DEF TakesOn
<1>4. CASE Sends
  <2>1. unsent # <<>> /\ unsent \in Seq(1..redeemed) /\ unsent' = Tail(unsent) /\ UNCHANGED <<batch, fulfilled>>
        /\ Len(batch) \in Nat
    BY <1>1, <1>4 DEF Sends, FeedTyped
  <2>2. Len(unsent') = Len(unsent) - 1 /\ \A i \in 1..Len(unsent') : unsent'[i] = unsent[i + 1]
    BY <2>1
  <2>3. \A i \in 1..Len(unsent') : unsent'[i] = batch'[(Len(batch') - Len(unsent')) + i]
    BY <1>1, <1>4, <2>1, <2>2 DEF Sends
  <2> QED
    BY <1>1, <1>4, <2>1, <2>3 DEF Sends
<1>5. CASE Fulfils \/ Misses \/ Ends
  BY <1>5 DEF Fulfils, Misses, Ends
<1>6. CASE Cuts
  BY <1>1, <1>6 DEF Cuts
<1> QED
  BY <1>2, <1>3, <1>4, <1>5, <1>6, FeedSteps

LEMMA NextHeard ==
  FeedInv /\ [Next]_vars /\ Intact /\ Intact' => Heard'
<1> SUFFICES ASSUME FeedInv, [Next]_vars, Intact, Intact' PROVE Heard'
  OBVIOUS
<1>1. Heard
  BY DEF FeedInv, Served
<1> USE DEF Heard
<1>2. CASE UNCHANGED <<pc, clients>>
  BY <1>1, <1>2
<1>3. CASE Launch \/ EnsureReward \/ SaveReward \/ Crash \/ TakeTitle \/ RenameReward \/ SaveTitle \/ Fulfil
  BY <1>3 DEF Launch, EnsureReward, SaveReward, Crash, TakeTitle, RenameReward, SaveTitle, Fulfil, FailedCall
<1>4. CASE CheckClients
  BY <1>4 DEF CheckClients, HasClients, netVars
<1>5. CASE Fetch
  BY <1>1, <1>5 DEF Fetch, netVars
<1>6. CASE Send
  <2>1. Left = {}
    BY DEF Left, Intact, FeedInv, FeedTyped
  <2>2. clients' = clients
    BY <1>6, <2>1 DEF Send, SendTo
  <2> QED
    BY <1>1, <1>6, <2>2 DEF Send
<1>7. ASSUME NEW c \in Conns, Accept(c) \/ OnUpstream(c) \/ ModConnects(c) PROVE Heard'
  BY <1>1, <1>7 DEF Accept, OnUpstream, ModConnects, mainVars
<1>8. CASE ModReads \/ ModLeaves \/ ModSeesEnd \/ Redeem \/ UNCHANGED vars
  BY <1>2, <1>8 DEF ModReads, ModLeaves, ModSeesEnd, Redeem, vars, mainVars, netVars
<1>9. CASE NameStep
  BY <1>2, <1>9, NamesApart
<1> QED
  BY <1>3, <1>4, <1>5, <1>6, <1>7, <1>8, <1>9 DEF Next, Main, Threads, Mod, ModReader, NameStep

LEMMA NextServed == FeedInv /\ [Next]_vars => Served'
<1> SUFFICES ASSUME FeedInv, [Next]_vars, Intact' PROVE (Heard /\ AllInStream /\ Dense)'
  BY DEF Served
<1>1. Intact /\ Heard' /\ AllInStream /\ Dense /\ BatchGood /\ FeedTyped
  BY IntactBefore, NextHeard DEF FeedInv, Served
<1>2. Stream \in Seq(Redemptions) /\ batch \in Seq(1..redeemed) /\ unsent \in Seq(1..redeemed)
      /\ Len(unsent) <= Len(batch) /\ redeemed \in Nat
  BY <1>1, StreamTyped DEF FeedTyped
<1>3. CASE Quiet
  <2>1. AllInStream'
    BY <1>1, <1>3 DEF Quiet, AllInStream, Occurs, Busy, SentCount
  <2>2. Dense'
    BY <1>1, <1>3 DEF Quiet, Dense
  <2> QED
    BY <1>1, <2>1, <2>2
<1>4. CASE TakesOn
  <2>1. AllInStream'
    <3>1. batch' \in Seq(1..redeemed)
      BY <1>1, <1>4, Fetched DEF TakesOn
    <3>2. 1..SentCount' = {}
      BY <1>4, <3>1 DEF TakesOn, SentCount
    <3> QED
      BY <1>1, <1>4, <3>2 DEF TakesOn, AllInStream, Occurs
  <2>2. Dense'
    BY <1>1, <1>4 DEF TakesOn, Dense
  <2> QED
    BY <1>1, <2>1, <2>2
<1>5. CASE Sends
  <2> DEFINE x == Head(unsent)
  <2>1. /\ Busy /\ unsent # <<>> /\ Stream' = Append(Stream, x) /\ UNCHANGED <<fulfilled, batch>>
        /\ unsent' = Tail(unsent)
    BY <1>1, <1>5 DEF Sends, BatchGood, Busy
  <2>2. SentCount' = SentCount + 1 /\ SentCount + 1 \in 1..Len(batch) /\ SentCount \in Nat
    BY <1>2, <2>1 DEF SentCount
  <2>3. x = batch[SentCount + 1] /\ x \in 1..redeemed
    <3>1. x = unsent[1] /\ 1 \in 1..Len(unsent)
      BY <1>2, <2>1
    <3>2. unsent[1] = batch[SentCount + 1]
      BY <1>1, <2>1, <3>1 DEF BatchGood
    <3> QED
      BY <1>2, <3>1, <3>2
  <2>4. /\ Len(Stream') = Len(Stream) + 1 /\ Stream'[Len(Stream) + 1] = x
        /\ \A i \in 1..Len(Stream) : Stream'[i] = Stream[i]
    BY <1>2, <2>1
  <2> HIDE DEF x
  <2>5. \A r : Occurs(Stream, r) => Occurs(Stream', r)
    BY <1>2, <2>4 DEF Occurs
  <2>6. Occurs(Stream', batch[SentCount + 1])
    <3>1. Len(Stream) + 1 \in 1..Len(Stream')
      BY <1>2, <2>4
    <3> QED
      BY <2>1, <2>2, <2>3, <2>4, <3>1 DEF Occurs
  <2>7. AllInStream'
    <3>1. ASSUME NEW n \in 1..SentCount' PROVE Occurs(Stream', batch[n])
      <4>1. n \in 1..SentCount \/ n = SentCount + 1
        BY <2>2
      <4>2. \A m \in 1..SentCount : Occurs(Stream, batch[m])
        BY <1>1, <2>1 DEF AllInStream
      <4>3. CASE n \in 1..SentCount
        BY <2>1, <2>5, <4>2, <4>3 DEF Occurs
      <4>4. CASE n = SentCount + 1
        BY <2>6, <4>4
      <4> QED
        BY <4>1, <4>3, <4>4
    <3> QED
      BY <1>1, <2>1, <2>5, <3>1 DEF AllInStream
  <2>8. Dense'
    <3>1. ASSUME NEW i \in 1..Len(Stream'), NEW r \in Redemptions, r < Stream'[i]
          PROVE  \E k \in 1..(i - 1) : Stream'[k] = r
      <4>1. CASE i \in 1..Len(Stream)
        <5>1. PICK k \in 1..(i - 1) : Stream[k] = r
          BY <1>1, <2>4, <3>1, <4>1 DEF Dense
        <5>2. k \in 1..Len(Stream)
          BY <1>2, <4>1
        <5> QED
          BY <2>4, <5>1, <5>2
      <4>2. CASE i = Len(Stream) + 1
        <5>1. r \in fulfilled \/ \E m \in 1..SentCount : batch[m] = r
          BY <1>1, <2>1, <2>2, <2>3, <2>4, <3>1, <4>2 DEF BatchGood
        <5>2. Occurs(Stream, r)
          BY <1>1, <2>1, <5>1 DEF AllInStream
        <5>3. PICK k \in 1..Len(Stream) : Stream[k] = r
          BY <5>2 DEF Occurs
        <5>4. k \in 1..(i - 1) /\ Stream'[k] = r
          BY <1>2, <2>4, <4>2, <5>3
        <5> QED
          BY <5>4
      <4> QED
        BY <1>2, <2>4, <4>1, <4>2
    <3> QED
      BY <3>1 DEF Dense
  <2> QED
    BY <1>1, <2>7, <2>8
<1>6. CASE Fulfils
  <2>1. unsent = <<>> /\ Busy /\ SentCount = Len(batch)
    BY <1>1, <1>2, <1>6 DEF Fulfils, BatchGood, Busy, SentCount
  <2>2. AllInStream'
    BY <1>1, <1>6, <2>1 DEF Fulfils, AllInStream, Occurs, Busy
  <2>3. Dense'
    BY <1>1, <1>6 DEF Fulfils, Dense
  <2> QED
    BY <1>1, <2>2, <2>3
<1>7. CASE Misses \/ Ends
  <2>1. AllInStream'
    BY <1>1, <1>7 DEF Misses, Ends, AllInStream, Occurs, Busy
  <2>2. Dense'
    BY <1>1, <1>7 DEF Misses, Ends, Dense
  <2> QED
    BY <1>1, <2>1, <2>2
<1>8. ~Cuts
  BY DEF Cuts
<1> QED
  BY <1>3, <1>4, <1>5, <1>6, <1>7, <1>8, FeedSteps

LEMMA CountsGrow ==
  FeedInv /\ [Next]_vars /\ failures' = 0 /\ crashes' = 0 => failures = 0 /\ crashes = 0
<1> SUFFICES ASSUME FeedInv, [Next]_vars, failures' = 0, crashes' = 0 PROVE failures = 0 /\ crashes = 0
  OBVIOUS
<1>1. failures \in Nat /\ crashes \in Nat
  BY BoundsAssumption DEF FeedInv, BoundsTyped
<1> USE <1>1 DEF bounds, FailedCall
<1>2. CASE Launch \/ EnsureReward \/ SaveReward \/ Crash
  BY <1>2 DEF Launch, EnsureReward, SaveReward, Crash
<1>3. CASE TakeTitle \/ RenameReward \/ SaveTitle \/ CheckClients
  BY <1>3 DEF TakeTitle, RenameReward, SaveTitle, CheckClients
<1>4. CASE Fetch \/ Send \/ Fulfil
  BY <1>4 DEF Fetch, Send, Fulfil
<1>5. ASSUME NEW c \in Conns, Accept(c) \/ OnUpstream(c) \/ ModConnects(c) PROVE failures = 0 /\ crashes = 0
  BY <1>5 DEF Accept, OnUpstream, ModConnects
<1>6. CASE ModReads \/ ModLeaves \/ ModSeesEnd \/ Redeem \/ UNCHANGED vars
  BY <1>6 DEF ModReads, ModLeaves, ModSeesEnd, Redeem, vars
<1>7. CASE NameStep
  BY <1>7, NamesApart
<1> QED
  BY <1>2, <1>3, <1>4, <1>5, <1>6, <1>7 DEF Next, Main, Threads, Mod, ModReader, NameStep

LEMMA NextOnce == FeedInv /\ [Next]_vars => Once'
<1> DEFINE Unique == \A i, j \in 1..Len(Stream) : Stream[i] = Stream[j] => i = j
           Known  == \A i \in 1..Len(Stream) : Accounted(Stream[i])
<1> SUFFICES ASSUME FeedInv, [Next]_vars, failures' = 0, crashes' = 0 PROVE Unique' /\ Known'
  BY DEF Once
<1>1. Unique /\ Known /\ BatchGood /\ FeedTyped
  BY CountsGrow DEF FeedInv, Once
<1>2. Stream \in Seq(Redemptions) /\ batch \in Seq(1..redeemed) /\ unsent \in Seq(1..redeemed)
      /\ Len(unsent) <= Len(batch) /\ redeemed \in Nat
  BY <1>1, StreamTyped DEF FeedTyped
<1>3. CASE Quiet
  BY <1>1, <1>3 DEF Quiet, Accounted, Busy, SentCount
<1>4. CASE TakesOn
  <2>1. \A r : Accounted(r) => r \in fulfilled'
    BY <1>4 DEF TakesOn, Accounted, Busy
  <2> QED
    BY <1>1, <1>4, <2>1 DEF TakesOn, Accounted, Busy, SentCount
<1>5. CASE Sends
  <2> DEFINE x == Head(unsent)
  <2>1. /\ Busy /\ Busy' /\ unsent # <<>> /\ UNCHANGED <<fulfilled, batch>> /\ unsent' = Tail(unsent)
        /\ Stream' = Append(Stream, x) \/ Stream' = Stream
    BY <1>1, <1>5 DEF Sends, BatchGood, Busy
  <2>2. SentCount' = SentCount + 1 /\ SentCount + 1 \in 1..Len(batch) /\ SentCount \in Nat
    BY <1>2, <2>1 DEF SentCount
  <2>3. x = batch[SentCount + 1]
    <3>1. x = unsent[1] /\ 1 \in 1..Len(unsent)
      BY <1>2, <2>1
    <3> QED
      BY <1>1, <2>1, <3>1 DEF BatchGood
  <2> HIDE DEF x
  <2>4. \A r : Accounted(r) => (r \in fulfilled' \/ \E n \in 1..SentCount' : batch'[n] = r)
    BY <2>1, <2>2 DEF Accounted
  <2>5. \E n \in 1..SentCount' : batch'[n] = x
    BY <2>1, <2>2, <2>3
  <2>6. x \notin fulfilled /\ \A n \in 1..SentCount : batch[n] # x
    <3>1. ASSUME NEW n \in 1..SentCount PROVE batch[n] < batch[SentCount + 1]
      BY <1>1, <2>1, <2>2 DEF BatchGood
    <3>2. ASSUME NEW n \in 1..SentCount PROVE batch[n] \in Nat /\ batch[SentCount + 1] \in Nat
      BY <1>2, <2>2
    <3>3. \A n \in 1..SentCount : batch[n] # x
      BY <2>3, <3>1, <3>2
    <3> QED
      BY <1>1, <2>1, <2>2, <2>3, <3>3 DEF BatchGood
  <2>7. \A i \in 1..Len(Stream) : Stream[i] # x
    BY <1>1, <2>6 DEF Accounted
  <2>8. CASE Stream' = Stream
    BY <1>1, <2>1, <2>4, <2>8 DEF Accounted
  <2>9. CASE Stream' = Append(Stream, x)
    <3>1. /\ Len(Stream') = Len(Stream) + 1 /\ Stream'[Len(Stream) + 1] = x /\ Len(Stream) \in Nat
          /\ \A i \in 1..Len(Stream) : Stream'[i] = Stream[i]
      BY <1>2, <2>9
    <3>2. Unique'
      BY <1>1, <2>7, <3>1
    <3>3. Known'
      BY <1>1, <2>1, <2>4, <2>5, <3>1 DEF Accounted
    <3> QED
      BY <3>2, <3>3
  <2> QED
    BY <2>1, <2>8, <2>9
<1>6. CASE Fulfils
  <2>1. \A r : Accounted(r) => r \in fulfilled'
    BY <1>1, <1>2, <1>6 DEF Fulfils, BatchGood, Accounted, SentCount
  <2> QED
    BY <1>1, <1>6, <2>1 DEF Fulfils, Accounted
<1>7. CASE Cuts
  <2>1. Len(got) <= Len(Stream) /\ Len(got) \in Nat /\ Len(Stream) \in Nat
        /\ \A i \in 1..Len(got) : got[i] = Stream[i]
    BY <1>1, <1>2, StreamTyped DEF FeedTyped
  <2> QED
    BY <1>1, <1>7, <2>1 DEF Cuts, Accounted, Busy, SentCount
<1>8. ~Misses /\ ~Ends
  BY DEF Misses, Ends
<1> QED
  BY <1>3, <1>4, <1>5, <1>6, <1>7, <1>8, FeedSteps

-----------------------------------------------------------------------------
(* What is known of the feed holds throughout. *)
THEOREM FeedHolds == Spec => []FeedInv
<1>1. FeedInv /\ [Next]_vars => FeedInv'
  BY NextFeedTyped, NextThreads, NextBounds, NextConnection, NextBatch, NextServed, NextOnce DEF FeedInv
<1> QED
  BY <1>1, InitFeed, PTL DEF Spec

(* Every variable of the helper, the file, the feed and the mod keeps to its domain,
   and no poll takes on more than a page. *)
THEOREM HelperTyped == Spec => []TypeOK
<1>1. FeedInv /\ RewardInv => TypeOK
  <2> SUFFICES ASSUME FeedInv, RewardInv PROVE TypeOK
    OBVIOUS
  <2>1. redeemed \in Nat /\ redeemed <= MaxRedemptions /\ MaxRedemptions \in Nat
    BY BoundsAssumption DEF FeedInv, FeedTyped
  <2>2. 1..redeemed \subseteq Redemptions
    BY <2>1 DEF Redemptions
  <2>3. batch \in Seq(Redemptions) /\ unsent \in Seq(Redemptions)
    BY <2>2, SeqOfMore DEF FeedInv, FeedTyped
  <2>4. config.id \in 0..Len(rewards) /\ config.title \in MaybeTitle /\ rewardId \in 0..Len(rewards)
    BY DEF RewardInv, RewardTyped
  <2> QED
    BY <2>3, <2>4 DEF TypeOK, FeedInv, FeedTyped, ThreadsTyped, BoundsTyped, RewardInv, RewardTyped,
       TitlesTyped
<1> QED
  BY <1>1, FeedHolds, RewardHolds, PTL

(* While the mod stays connected nothing that is marked as fulfilled has been thrown
   away, whatever calls of Twitch's API failed. *)
THEOREM NothingThrownAway == Spec => []NoneThrownAway
<1>1. FeedInv => NoneThrownAway
  <2> SUFFICES ASSUME FeedInv, Intact, NEW r \in fulfilled PROVE Received(r) \/ OnWire(r)
    BY DEF NoneThrownAway
  <2>1. PICK i \in 1..Len(Stream) : Stream[i] = r
    BY DEF FeedInv, Served, AllInStream, Occurs
  <2>2. got \in Seq(Redemptions) /\ wire \in [Conns -> Seq(Redemptions)] /\ modConn \in Conns \cup {NoConn}
    BY DEF FeedInv, FeedTyped
  <2>3. CASE modConn = NoConn
    BY <2>1, <2>2, <2>3 DEF Stream, Received
  <2>4. CASE modConn # NoConn
    <3>1. modConn \in Conns /\ wire[modConn] \in Seq(Redemptions) /\ Stream = got \o wire[modConn]
      BY <2>2, <2>4 DEF Stream
    <3>2. CASE i <= Len(got)
      BY <2>1, <2>2, <3>1, <3>2 DEF Received
    <3>3. CASE i > Len(got)
      <4>1. i - Len(got) \in 1..Len(wire[modConn]) /\ wire[modConn][i - Len(got)] = r
        BY <2>1, <2>2, <3>1, <3>3
      <4> QED
        BY <3>1, <4>1 DEF OnWire
    <3> QED
      BY <2>1, <2>2, <3>2, <3>3
  <2> QED
    BY <2>3, <2>4
<1> QED
  BY <1>1, FeedHolds, PTL

(* On one connection a redemption comes after whatever was redeemed before it. *)
THEOREM ComesInOrder == Spec => []RedeemedOrder
<1>1. FeedInv => RedeemedOrder
  <2> SUFFICES ASSUME FeedInv, Intact, NEW i \in 1..Len(got), NEW j \in 1..Len(got), i < j, got[i] > got[j]
               PROVE  \E k \in 1..(i - 1) : got[k] = got[j]
    BY DEF RedeemedOrder
  <2>1. Dense /\ got \in Seq(Redemptions)
    BY DEF FeedInv, Served, FeedTyped
  <2>2. /\ Stream \in Seq(Redemptions) /\ Len(got) <= Len(Stream)
        /\ \A k \in 1..Len(got) : got[k] = Stream[k]
    BY StreamTyped DEF FeedInv
  <2>3. i \in 1..Len(Stream) /\ got[j] \in Redemptions /\ got[j] < Stream[i]
    <3>1. got[i] \in Redemptions /\ got[j] \in Redemptions /\ i \in 1..Len(Stream)
      BY <2>1, <2>2
    <3>2. got[i] \in Nat /\ got[j] \in Nat
      BY <3>1, BoundsAssumption DEF Redemptions
    <3> QED
      BY <2>2, <3>1, <3>2
  <2>4. PICK k \in 1..(i - 1) : Stream[k] = got[j]
    BY <2>1, <2>2, <2>3 DEF Dense
  <2>5. k \in 1..Len(got)
    BY <2>1
  <2> QED
    BY <2>2, <2>4, <2>5
<1> QED
  BY <1>1, FeedHolds, PTL

(* Without a failed call or a restart no redemption comes twice, over however many
   connections. *)
THEOREM ComesOnce == Spec => []DeliveredOnce
<1>1. FeedInv => DeliveredOnce
  <2> SUFFICES ASSUME FeedInv, failures = 0, crashes = 0,
                      NEW i \in 1..Len(got), NEW j \in 1..Len(got), got[i] = got[j]
               PROVE  i = j
    BY DEF DeliveredOnce
  <2>1. /\ Stream \in Seq(Redemptions) /\ Len(got) <= Len(Stream) /\ Len(got) \in Nat
        /\ \A k \in 1..Len(got) : got[k] = Stream[k]
    BY StreamTyped DEF FeedInv, FeedTyped
  <2>2. i \in 1..Len(Stream) /\ j \in 1..Len(Stream) /\ Stream[i] = Stream[j]
    BY <2>1
  <2> QED
    BY <2>2 DEF FeedInv, Once
<1> QED
  BY <1>1, FeedHolds, PTL

-----------------------------------------------------------------------------
(* The name of the reward: from the mod's setting to Twitch. *)

(* The only title of a sequence is its first. *)
LEMMA OnlyOne ==
  ASSUME NEW S, NEW s \in Seq(S), s # <<>>, Tail(s) = <<>>
  PROVE  Len(s) = 1 /\ Head(s) = s[1] /\ s[1] \in S
<1> DEFINE t == Tail(s)
           n == Len(s)
           m == Len(t)
<1>1. n \in Nat /\ n # 0 /\ m = n - 1 /\ Head(s) = s[1] /\ s[1] \in S
  OBVIOUS
<1>2. Len(<<>>) = 0
  OBVIOUS
<1>3. t = <<>>
  OBVIOUS
<1> HIDE DEF t, n
<1>4. m = 0
  BY <1>2, <1>3
<1> HIDE DEF m
<1>5. n = 1
  BY <1>1, <1>4
<1> QED
  BY <1>1, <1>5 DEF n

(* The reader has sent its copy of the name, and the game thread neither is about to look
   for the connection nor has found the one that the mod has now. *)
AllSent == /\ modStep = "recv" /\ gameStep # "look"
           /\ gameStep = "write" => gameFd # modConn

(* While no call failed: the file has the reward's title except between a renaming and
   its saving, a connection is open only while the helper runs, and once it has been
   sent the name set in the mod is ahead. *)
NameSafe ==
  /\ \A c \in Conns : link[c] = "open" => pc \in Polling
  /\ failures = 0 =>
       /\ config.id # 0 => rewards[config.id] = IF pc = "renamed" THEN pending ELSE config.title
       /\ Listening /\ AllSent /\ modTitle # NoTitle => NameAhead = modTitle

NameInv == RewardInv /\ FeedInv /\ NameSafe

LEMMA InitName == Init => NameSafe
  BY DEF Init, NameSafe, AllSent, NoReward

LEMMA NextName == NameInv /\ [Next]_vars /\ Undisturbed /\ Undisturbed' => NameSafe'
<1> SUFFICES ASSUME NameInv, [Next]_vars, Undisturbed, Undisturbed' PROVE NameSafe'
  OBVIOUS
<1>1. NameSafe /\ RewardInv /\ FeedInv
  BY DEF NameInv
<1>2. /\ TitlesTyped /\ RewardTyped /\ Identified /\ OneConnection /\ failures \in Nat
      /\ modConn \in Conns \cup {NoConn}
  BY <1>1 DEF RewardInv, FeedInv, BoundsTyped, FeedTyped
<1>s. ASSUME UNCHANGED modVars PROVE AllSent' = AllSent
  BY <1>s DEF modVars, AllSent
<1>3. CASE Launch
  <2>1. pc = "down" /\ ~Listening
    BY <1>1, <1>2, <1>3 DEF Launch, Listening, NameSafe, Polling, OneConnection
  <2>2. \A c \in Conns : link[c] # "open"
    BY <1>1, <2>1 DEF NameSafe, Polling
  <2>3. ~Listening'
    BY <1>2, <1>3, <2>2 DEF Launch, Listening, netVars, modVars
  <2> QED
    BY <1>1, <1>3, <2>1, <2>2, <2>3 DEF Launch, NameSafe, netVars, modVars, bounds, twitchVars
<1>4. CASE EnsureReward \/ SaveReward
  <2>1. \A c \in Conns : link[c] # "open"
    BY <1>1, <1>4 DEF EnsureReward, SaveReward, NameSafe, Polling
  <2>2. ~Listening'
    BY <1>2, <1>4, <2>1 DEF EnsureReward, SaveReward, Listening, netVars, modVars
  <2>3. CASE EnsureReward
    BY <1>2, <2>1, <2>2, <2>3 DEF EnsureReward, NameSafe, netVars, Identified
  <2>4. CASE SaveReward
    <3>1. config' = [id |-> rewardId, title |-> FirstTitle] /\ rewardId # 0 /\ config.id = 0
          /\ UNCHANGED <<rewards, link>> /\ pc' = "top"
      BY <1>2, <2>4 DEF SaveReward, Identified, netVars, twitchVars
    <3>2. rewardId = 1 /\ rewards # <<>>
      BY <1>1, <1>2, <3>1 DEF RewardInv, Single, RewardTyped, Undisturbed
    <3>3. rewards[rewardId] = FirstTitle
      BY <1>1, <3>1, <3>2 DEF RewardInv, Findable, Undisturbed
    <3> QED
      BY <2>1, <2>2, <3>1, <3>3 DEF NameSafe
  <2> QED
    BY <1>4, <2>3, <2>4
<1>5. CASE Crash
  <2>1. (\A c \in Conns : link'[c] # "open") /\ pc' = "down" /\ UNCHANGED <<rewards, config, modConn>>
    BY <1>5 DEF Crash, twitchVars, modVars
  <2>2. ~Listening'
    BY <1>2, <2>1 DEF Listening
  <2>3. config'.id # 0 => rewards'[config'.id] = config'.title
    BY <2>1 DEF Undisturbed
  <2> QED
    BY <2>1, <2>2, <2>3 DEF NameSafe
<1>6. CASE TakeTitle
  <2>1. UNCHANGED <<rewards, config, link, modConn, modTitle, up, failures>>
    BY <1>6 DEF TakeTitle, twitchVars, netVars, modVars, bounds
  <2>2. pc = "top" /\ wanted' = NoTitle /\ pending' = wanted
        /\ pc' = IF wanted \notin {NoTitle, config.title} THEN "rename" ELSE "check"
    BY <1>6 DEF TakeTitle
  <2>3. Listening' = Listening
    BY <2>1 DEF Listening
  <2>4. config.id # 0
    BY <1>2, <2>2 DEF Identified, Polling
  <2>5. failures = 0 => NameAhead' = NameAhead
    BY <1>1, <2>1, <2>2, <2>4 DEF NameAhead, NameSafe
  <2>6. AllSent' = AllSent
    BY <1>6, <1>s DEF TakeTitle
  <2> QED
    BY <1>1, <2>1, <2>2, <2>3, <2>5, <2>6 DEF NameSafe, Polling
<1>7. CASE RenameReward
  <2>1. UNCHANGED <<config, link, modConn, modTitle, up, wanted, pending>>
    BY <1>7 DEF RenameReward, netVars, modVars
  <2>2. pc = "rename" /\ pc' \in Polling
    BY <1>7 DEF RenameReward, FailedCall, Polling
  <2>5. config.id \in 1..Len(rewards) /\ rewardId = config.id /\ rewards \in Seq(Titles)
    BY <1>2, <2>2 DEF Identified, RewardTyped, Polling
  <2>9. TitleFree(rewardId, pending)
    <3>1. Len(rewards) <= 1
      BY <1>1 DEF RewardInv, Single, Undisturbed
    <3> QED
      BY <2>5, <3>1 DEF TitleFree
  <2>3. failures' = 0 => failures = 0 /\ Renamed /\ pc' = "renamed"
    BY <1>2, <1>7, <2>9 DEF RenameReward, FailedCall
  <2>4. Listening' = Listening
    BY <2>1 DEF Listening
  <2>6. failures' = 0 => rewards'[config.id] = pending
    BY <2>3, <2>5 DEF Renamed
  <2>7. failures' = 0 => NameAhead' = NameAhead
    BY <2>1, <2>2, <2>3 DEF NameAhead
  <2>8. AllSent' = AllSent
    BY <1>7, <1>s DEF RenameReward
  <2> QED
    BY <1>1, <2>1, <2>2, <2>3, <2>4, <2>6, <2>7, <2>8 DEF NameSafe
<1>8. CASE SaveTitle
  <2>1. UNCHANGED <<rewards, link, modConn, modTitle, up, wanted, pending, failures>>
    BY <1>8 DEF SaveTitle, twitchVars, netVars, modVars, bounds
  <2>2. pc = "renamed" /\ pc' = "check" /\ config' = [config EXCEPT !.title = pending]
    BY <1>8 DEF SaveTitle, SavedTitle
  <2>3. config' = [id |-> config.id, title |-> pending] /\ config.id # 0
    BY <1>2, <2>2 DEF RewardTyped, Identified, Polling
  <2>4. Listening' = Listening
    BY <2>1 DEF Listening
  <2>5. failures = 0 => rewards[config.id] = pending
    BY <1>1, <2>2, <2>3 DEF NameSafe
  <2>6. failures = 0 => NameAhead' = NameAhead
    BY <2>1, <2>2, <2>3, <2>5 DEF NameAhead
  <2>7. AllSent' = AllSent
    BY <1>8, <1>s DEF SaveTitle
  <2> QED
    BY <1>1, <2>1, <2>2, <2>3, <2>4, <2>5, <2>6, <2>7 DEF NameSafe, Polling
<1>9. CASE CheckClients \/ Fetch \/ Send \/ Fulfil \/ UNCHANGED vars
  <2>1. UNCHANGED <<rewards, config, pending, wanted, up, modTitle, modConn>>
    BY <1>9 DEF CheckClients, Fetch, Send, Fulfil, vars, twitchVars, mainVars, netVars, modVars
  <2>2. \A c \in Conns : link'[c] = "open" => link[c] = "open"
    BY <1>9 DEF CheckClients, Fetch, Send, SendTo, Fulfil, vars, netVars
  <2>3. \/ pc' = pc
        \/ pc \in {"check", "fetch", "send", "fulfil"} /\ pc' \in {"top", "fetch", "send", "fulfil"}
    BY <1>9 DEF CheckClients, Fetch, Send, SendTo, Fulfil, FailedCall, vars, mainVars
  <2>4. failures' = 0 => failures = 0
    BY <1>2, <1>9 DEF CheckClients, Fetch, Send, Fulfil, FailedCall, vars, bounds
  <2>5. \A c \in Conns : link'[c] = "open" => link[c] = "open" /\ pc' \in Polling
    BY <1>1, <2>2, <2>3 DEF NameSafe, Polling
  <2>6. Listening' => Listening
    BY <1>2, <2>1, <2>2 DEF Listening
  <2>7. NameAhead' = NameAhead
    BY <2>1, <2>3 DEF NameAhead
  <2>8. AllSent' = AllSent
    BY <1>9, <1>s DEF CheckClients, Fetch, Send, Fulfil, vars
  <2> QED
    BY <1>1, <2>1, <2>3, <2>4, <2>5, <2>6, <2>7, <2>8 DEF NameSafe
<1>10. ASSUME NEW c \in Conns, Accept(c) PROVE NameSafe'
  <2>1. UNCHANGED <<rewards, config, pc, pending, wanted, up, modTitle, modConn, link, failures>>
    BY <1>10 DEF Accept, twitchVars, mainVars, modVars, bounds
  <2>2. AllSent' = AllSent
    BY <1>10, <1>s DEF Accept
  <2> QED
    BY <1>1, <2>1, <2>2 DEF NameSafe, Listening, NameAhead
<1>11. ASSUME NEW c \in Conns, OnUpstream(c) PROVE NameSafe'
  <2>1. UNCHANGED <<rewards, config, pc, pending, modTitle, modConn, link, failures>>
    BY <1>11 DEF OnUpstream, twitchVars, modVars, bounds
  <2>2. up[c] # <<>> /\ wanted' = Head(up[c]) /\ up' = [up EXCEPT ![c] = Tail(up[c])]
    BY <1>11 DEF OnUpstream
  <2>3. up[c] \in Seq(Titles) /\ up'[c] = Tail(up[c])
    BY <1>2, <2>2 DEF TitlesTyped
  <2>4. Listening => c = modConn
    BY <2>2 DEF Undisturbed, Listening
  <2>5. Listening' = Listening
    BY <2>1 DEF Listening
  <2>6. Listening => NameAhead' = NameAhead
    <3>1. SUFFICES ASSUME Listening PROVE NameAhead' = NameAhead
      OBVIOUS
    <3>2. NameAhead = up[c][Len(up[c])]
      BY <2>2, <2>4, <3>1 DEF NameAhead
    <3>3. CASE Tail(up[c]) = <<>>
      <4>1. Len(up[c]) = 1 /\ Head(up[c]) = up[c][1] /\ Head(up[c]) \in Titles
        BY <2>2, <2>3, <3>3, OnlyOne
      <4>2. wanted' # NoTitle
        BY <2>2, <4>1, NamesAssumption
      <4> QED
        BY <2>1, <2>2, <2>3, <2>4, <3>1, <3>2, <3>3, <4>1, <4>2 DEF NameAhead
    <3>4. CASE Tail(up[c]) # <<>>
      <4>1. Tail(up[c])[Len(Tail(up[c]))] = up[c][Len(up[c])]
        BY <2>2, <2>3, <3>4
      <4> QED
        BY <2>1, <2>3, <2>4, <3>1, <3>2, <3>4, <4>1 DEF NameAhead
    <3> QED
      BY <3>3, <3>4
  <2>7. AllSent' = AllSent
    BY <1>11, <1>s DEF OnUpstream
  <2> QED
    BY <1>1, <2>1, <2>5, <2>6, <2>7 DEF NameSafe
<1>12. ASSUME NEW c \in Conns, ModConnects(c) PROVE NameSafe'
  <2>1. UNCHANGED <<rewards, config, pc, pending, failures>> /\ pc \in Polling /\ ~AllSent'
    BY <1>12 DEF ModConnects, AllSent, twitchVars, mainVars, bounds
  <2> QED
    BY <1>1, <2>1 DEF NameSafe
<1>13. CASE ModReads \/ Redeem
  <2>1. UNCHANGED <<rewards, config, pc, pending, wanted, up, modTitle, modConn, link, failures>>
        /\ UNCHANGED <<modStep, gameStep, gameFd>>
    BY <1>13 DEF ModReads, Redeem, twitchVars, mainVars, netVars, modVars, bounds
  <2> QED
    BY <1>1, <2>1 DEF NameSafe, Listening, NameAhead, AllSent
<1>14. CASE ModPublishes \/ ModCopies \/ ModSeesEnd \/ GameLooks
  <2>1. UNCHANGED <<rewards, config, pc, pending, link, failures>>
    BY <1>14 DEF ModPublishes, ModCopies, ModSeesEnd, GameLooks, twitchVars, mainVars, netVars, bounds
  <2>2. ~AllSent'
    <3>1. CASE ModPublishes \/ ModCopies \/ ModSeesEnd
      BY <3>1 DEF ModPublishes, ModCopies, ModSeesEnd, AllSent
    <3>2. CASE GameLooks
      BY <3>2 DEF GameLooks, AllSent, Published
    <3> QED
      BY <1>14, <3>1, <3>2
  <2> QED
    BY <1>1, <2>1, <2>2 DEF NameSafe
<1>15. CASE ModLeaves
  <2>1. UNCHANGED <<rewards, config, pc, pending, failures>> /\ ~AllSent'
        /\ link' = [link EXCEPT ![modConn] = "left"]
    BY <1>15 DEF ModLeaves, AllSent, twitchVars, mainVars, bounds
  <2>2. link \in [Conns -> LinkStates]
    BY <1>1 DEF FeedInv, FeedTyped
  <2>3. \A c \in Conns : link'[c] = "open" => link[c] = "open"
    BY <2>1, <2>2
  <2> QED
    BY <1>1, <2>1, <2>3 DEF NameSafe
<1>16. ASSUME NEW t \in MaybeTitle, SetRewardTitle(t) PROVE NameSafe'
  <2>1. UNCHANGED <<rewards, config, pc, pending, link, failures>> /\ ~AllSent'
    BY <1>16 DEF SetRewardTitle, AllSent, twitchVars, mainVars, netVars
  <2> QED
    BY <1>1, <2>1 DEF NameSafe
<1>17. ASSUME Told(modTitle), Listening, modTitle # NoTitle,
              UNCHANGED <<rewards, config, pc, wanted, pending, modConn, modTitle>>
       PROVE  NameAhead' = modTitle
  <2>1. /\ modConn \in Conns /\ up[modConn] \in Seq(Titles) /\ modTitle \in Titles
        /\ up' = [up EXCEPT ![modConn] = Append(up[modConn], modTitle)]
    BY <1>2, <1>17 DEF Told, Listening, TitlesTyped, MaybeTitle
  <2>2. up'[modConn] = Append(up[modConn], modTitle)
    BY <1>2, <2>1 DEF TitlesTyped
  <2>3. Append(up[modConn], modTitle) # <<>>
        /\ Append(up[modConn], modTitle)[Len(Append(up[modConn], modTitle))] = modTitle
    BY <2>1
  <2> QED
    BY <1>17, <2>2, <2>3 DEF NameAhead
<1>18. CASE ModSends
  <2>1. UNCHANGED <<rewards, config, pc, pending, wanted, modTitle, modConn, link, failures>>
        /\ Told(modLine)
    BY <1>18 DEF ModSends, twitchVars, mainVars, bounds
  <2>2. modLine = modTitle
    BY <1>18 DEF ModSends, Undisturbed
  <2>3. Listening' = Listening
    BY <2>1 DEF Listening
  <2>4. Listening /\ modTitle # NoTitle => NameAhead' = modTitle'
    BY <1>17, <2>1, <2>2
  <2> QED
    BY <1>1, <2>1, <2>3, <2>4 DEF NameSafe
<1>19. CASE GameWrites
  <2>1. UNCHANGED <<rewards, config, pc, pending, wanted, modTitle, modConn, link, failures, modStep>>
    BY <1>19 DEF GameWrites, twitchVars, mainVars, bounds
  <2>2. Listening' = Listening
    BY <2>1 DEF Listening
  <2>3. CASE Told(modTitle)
    <3>1. Listening /\ modTitle # NoTitle => NameAhead' = modTitle'
      BY <1>17, <2>1, <2>3
    <3> QED
      BY <1>1, <2>1, <2>2, <3>1 DEF NameSafe
  <2>4. CASE modConn # gameFd /\ UNCHANGED up
    <3>1. AllSent' => AllSent
      BY <1>19, <2>1, <2>4 DEF GameWrites, AllSent
    <3>2. NameAhead' = NameAhead
      BY <2>1, <2>4 DEF NameAhead
    <3> QED
      BY <1>1, <2>1, <2>2, <3>1, <3>2 DEF NameSafe
  <2> QED
    BY <1>19, <2>3, <2>4 DEF GameWrites
<1>20. ASSUME NEW i \in 1..Len(rewards), NEW t \in Titles, RenameInDashboard(i, t) PROVE FALSE
  <2>1. dashboard' = dashboard + 1 /\ dashboard = 0 /\ dashboard' = 0
    BY <1>20 DEF RenameInDashboard, Undisturbed
  <2> QED
    BY <2>1
<1> QED
  BY <1>3, <1>4, <1>5, <1>6, <1>7, <1>8, <1>9, <1>10, <1>11, <1>12, <1>13, <1>14, <1>15,
     <1>16, <1>18, <1>19, <1>20
  DEF Next, Main, Threads, Mod, ModReader, ModGame

(* With nothing to disturb it, the name set in the mod is never lost on its way. *)
THEOREM NameKept == Spec => NameNotLost
<1>1. Init => NameSafe
  BY InitName
<1>2. RewardInv /\ FeedInv /\ NameSafe /\ [Next]_vars /\ Undisturbed /\ Undisturbed' => NameSafe'
  BY NextName DEF NameInv
<1>3. NameSafe => (Listening /\ NameSent /\ modTitle # NoTitle /\ failures = 0 => NameAhead = modTitle)
  BY DEF NameSafe, NameSent, AllSent
<1> QED
  BY <1>1, <1>2, <1>3, RewardHolds, FeedHolds, PTL DEF Spec, NameNotLost
=============================================================================
