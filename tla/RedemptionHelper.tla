-------------------------- MODULE RedemptionHelper --------------------------
(***************************************************************************)
(* helper/twitch_redemptions.py: the process that polls Twitch for channel *)
(* point redemptions, hands them to the mod over a loopback socket and     *)
(* marks them fulfilled.                                                   *)
(*                                                                         *)
(* Four parties interleave: the helper's main thread, which may be         *)
(* restarted at any point; its accept and reader threads; the mod, whose   *)
(* two threads connect, read, send the reward's name and leave when they   *)
(* like; and Twitch, of which any call may fail.  Twitch is modelled from  *)
(* how the helper uses it, the mod from its redemption_client.cpp.  A step *)
(* of the main thread is what happens between two points at which another  *)
(* party can come in: a lock, an API call, or a sleep.                     *)
(***************************************************************************)
EXTENDS Integers, Sequences, FiniteSets

CONSTANTS
  MaxRedemptions,  \* bound: redemptions are 1..MaxRedemptions, as redeemed_at orders them
  PageSize,        \* "first": the most redemptions one call returns
  MaxConns,        \* bound: connections the mod makes are 1..MaxConns, in that order
  Titles, NoTitle,
  DefaultTitle,    \* DEFAULT_REWARD_TITLE
  MaxFailures,     \* bound: API calls that fail
  MaxCrashes,      \* bound: restarts of the helper
  MaxChanges,      \* bound: changes of the mod's Reward Name setting
  MaxDashboard     \* bound: renamings in Twitch's own dashboard

ASSUME BoundsAssumption ==
  /\ {MaxRedemptions, MaxConns, MaxFailures, MaxCrashes, MaxChanges, MaxDashboard} \subseteq Nat
  /\ PageSize \in Nat \ {0}
ASSUME NamesAssumption == NoTitle \notin Titles /\ DefaultTitle \in Titles

VARIABLES
  redeemed, fulfilled,    \* Twitch: how many were redeemed, and which are fulfilled
  rewards,                \* Twitch: the titles of the rewards the helper created, all different
  config,                 \* the file: the id of the reward, 0 for none, and its title
  flag,                   \* --reward-title, the same at every launch
  pc, rewardId,           \* the main thread; reward_id
  wanted, pending,        \* wanted_title and pending_title
  batch, unsent,          \* the redemptions of this poll and those still to be sent
  clients,                \* Feed.clients
  link,                   \* what has become of each connection
  wire, up,               \* lines on it to the mod, titles on it to the helper
  modConn, modTitle,      \* the mod: its connection and its Reward Name (reward_title_)
  modStep, modLine,       \* its reader thread, and the copy of the name it is to send
  gameStep, gameFd,       \* its game thread in set_reward_title, and the socket it found
  got,                    \* the redemptions the mod received, in order
  failures, crashes, changes, dashboard

twitchVars == <<redeemed, fulfilled, rewards>>
mainVars   == <<pc, rewardId, wanted, pending, batch, unsent>>
netVars    == <<clients, link, wire, up>>
modVars    == <<modConn, modTitle, modStep, modLine, gameStep, gameFd, got>>
bounds     == <<failures, crashes, changes, dashboard>>
vars       == <<twitchVars, config, flag, mainVars, netVars, modVars, bounds>>

Redemptions == 1..MaxRedemptions
Conns       == 1..MaxConns
NoConn      == 0
MaybeTitle  == Titles \cup {NoTitle}
NoReward    == [id |-> 0, title |-> NoTitle]

(* A connection is "open" from the mod's connect on, accepted or not; "left" was
   closed by the mod, "dead" by the helper or by its end. *)
LinkStates == {"unused", "open", "left", "dead"}
Starting   == {"down", "ensure", "created"}
Polling    == {"top", "rename", "renamed", "check", "fetch", "send", "fulfil"}

(* The mod's reader has no connection, or has made one that the game thread does not
   know yet, or is about to copy the name or to send its copy, or waits for lines. *)
ModSteps  == {"out", "publish", "copy", "send", "recv"}
Published == {"copy", "send", "recv"}
GameSteps == {"ready", "look", "write"}

TypeOK ==
  /\ redeemed \in 0..MaxRedemptions /\ fulfilled \subseteq 1..redeemed
  /\ rewards \in Seq(Titles)
  /\ config.id \in 0..Len(rewards) /\ config.title \in MaybeTitle
  /\ flag \in MaybeTitle /\ pc \in Starting \cup Polling /\ rewardId \in 0..Len(rewards)
  /\ wanted \in MaybeTitle /\ pending \in MaybeTitle
  /\ batch \in Seq(Redemptions) /\ unsent \in Seq(Redemptions)
  /\ Len(unsent) <= Len(batch) /\ Len(batch) <= PageSize
  /\ clients \subseteq Conns /\ link \in [Conns -> LinkStates]
  /\ wire \in [Conns -> Seq(Redemptions)] /\ up \in [Conns -> Seq(Titles)]
  /\ modConn \in Conns \cup {NoConn} /\ modTitle \in MaybeTitle
  /\ modStep \in ModSteps /\ modLine \in MaybeTitle
  /\ gameStep \in GameSteps /\ gameFd \in Conns \cup {NoConn}
  /\ got \in Seq(Redemptions)
  /\ failures \in 0..MaxFailures /\ crashes \in 0..MaxCrashes
  /\ changes \in 0..MaxChanges /\ dashboard \in 0..MaxDashboard

Init ==
  /\ redeemed = 0 /\ fulfilled = {} /\ rewards = <<>>
  /\ config = NoReward /\ flag \in MaybeTitle
  /\ pc = "down" /\ rewardId = 0 /\ wanted = NoTitle /\ pending = NoTitle
  /\ batch = <<>> /\ unsent = <<>>
  /\ clients = {} /\ link = [c \in Conns |-> "unused"]
  /\ wire = [c \in Conns |-> <<>>] /\ up = [c \in Conns |-> <<>>]
  /\ modConn = NoConn /\ modTitle \in MaybeTitle /\ modStep = "out" /\ modLine = NoTitle
  /\ gameStep = "ready" /\ gameFd = NoConn /\ got = <<>>
  /\ failures = 0 /\ crashes = 0 /\ changes = 0 /\ dashboard = 0

-----------------------------------------------------------------------------
(* Start-up: main up to the poll loop. *)

(* An explicit --reward-title on a channel that already has the reward asks for
   a renaming. *)
AskedFor(c) == IF flag # NoTitle /\ flag # c.title THEN flag ELSE NoTitle

NeedsReward_TitleDiffers ==
  config.id = 0 \/ config.title # (IF flag = NoTitle THEN DefaultTitle ELSE flag)

NeedsReward == config.id = 0

Launch ==
  /\ pc = "down"
  /\ IF NeedsReward THEN pc' = "ensure" /\ UNCHANGED <<rewardId, wanted>>
                    ELSE pc' = "top" /\ rewardId' = config.id /\ wanted' = AskedFor(config)
  /\ UNCHANGED <<twitchVars, config, flag, pending, batch, unsent, netVars, modVars, bounds>>

FirstTitle == IF flag = NoTitle THEN DefaultTitle ELSE flag

(* ensure_reward finds the reward by its title, or creates it. *)
EnsureReward ==
  /\ pc = "ensure"
  /\ rewards' = IF \E i \in 1..Len(rewards) : rewards[i] = FirstTitle THEN rewards
                ELSE Append(rewards, FirstTitle)
  /\ \E i \in 1..Len(rewards') : rewards'[i] = FirstTitle /\ rewardId' = i
  /\ pc' = "created"
  /\ UNCHANGED <<redeemed, fulfilled, config, flag, wanted, pending, batch, unsent, netVars,
                 modVars, bounds>>

SaveReward ==
  /\ pc = "created"
  /\ config' = [id |-> rewardId, title |-> FirstTitle]
  /\ pc' = "top" /\ wanted' = NoTitle
  /\ UNCHANGED <<twitchVars, flag, rewardId, pending, batch, unsent, netVars, modVars, bounds>>

(* The process ends: interrupted, or by an exception nothing catches.  Its
   sockets go with it; what it had written still reaches the mod. *)
Crash ==
  /\ pc # "down" /\ crashes < MaxCrashes
  /\ pc' = "down" /\ rewardId' = 0 /\ wanted' = NoTitle /\ pending' = NoTitle
  /\ batch' = <<>> /\ unsent' = <<>>
  /\ clients' = {}
  /\ link' = [c \in Conns |-> IF link[c] = "unused" THEN "unused" ELSE "dead"]
  /\ up' = [c \in Conns |-> <<>>]
  /\ crashes' = crashes + 1
  /\ UNCHANGED <<twitchVars, config, flag, wire, modVars, failures, changes, dashboard>>

-----------------------------------------------------------------------------
(* The poll loop.  A call of Twitch's API that fails raises HttpError, in which
   case Twitch did nothing, or OSError, in which case it may have done it; the
   loop sleeps and starts over, except after a renaming Twitch refused. *)

FailedCall(next) ==
  failures < MaxFailures /\ failures' = failures + 1 /\ pc' = next

TakeTitle ==
  /\ pc = "top"
  /\ pending' = wanted /\ wanted' = NoTitle
  /\ pc' = IF wanted \notin {NoTitle, config.title} THEN "rename" ELSE "check"
  /\ UNCHANGED <<twitchVars, config, flag, rewardId, batch, unsent, netVars, modVars, bounds>>

(* Twitch requires the titles of a channel's rewards to be unique. *)
TitleFree(i, t) == \A j \in 1..Len(rewards) : rewards[j] = t => j = i

Renamed == /\ TitleFree(rewardId, pending)
           /\ rewards' = [rewards EXCEPT ![rewardId] = pending]

RenameReward ==
  /\ pc = "rename"
  /\ \/ Renamed /\ pc' = "renamed" /\ UNCHANGED failures
     \/ /\ ~TitleFree(rewardId, pending) /\ pc' = "check"
        /\ UNCHANGED <<rewards, failures>>
     \/ FailedCall("check") /\ UNCHANGED rewards
     \/ FailedCall("top") /\ (Renamed \/ UNCHANGED rewards)
  /\ UNCHANGED <<redeemed, fulfilled, config, flag, rewardId, wanted, pending, batch, unsent, netVars,
                 modVars, crashes, changes, dashboard>>

SaveTitle_Forgets == UNCHANGED config

SavedTitle == config' = [config EXCEPT !.title = pending]

SaveTitle_EmptiesCell ==
  /\ pc = "renamed"
  /\ SavedTitle /\ pc' = "check" /\ wanted' = NoTitle
  /\ UNCHANGED <<twitchVars, flag, rewardId, pending, batch, unsent, netVars, modVars, bounds>>

SaveTitle ==
  /\ pc = "renamed"
  /\ SavedTitle /\ pc' = "check"
  /\ UNCHANGED <<twitchVars, flag, rewardId, wanted, pending, batch, unsent, netVars, modVars, bounds>>

HasClients_Always == TRUE

HasClients == clients # {}

CheckClients ==
  /\ pc = "check"
  /\ pc' = IF HasClients THEN "fetch" ELSE "top"
  /\ UNCHANGED <<twitchVars, config, flag, rewardId, wanted, pending, batch, unsent, netVars,
                 modVars, bounds>>

Unfulfilled == (1..redeemed) \ fulfilled

OldestFirst_Newest(s) ==
  [i \in 1..Cardinality(s) |-> CHOOSE r \in s : Cardinality({q \in s : q >= r}) = i]

(* pending.sort(key=redeemed_at) *)
OldestFirst(s) ==
  [i \in 1..Cardinality(s) |-> CHOOSE r \in s : Cardinality({q \in s : q <= r}) = i]

(* The oldest PageSize of them: what the endpoint returns. *)
Page(s) == {r \in s : Cardinality({q \in s : q <= r}) <= PageSize}

Fetch ==
  /\ pc = "fetch"
  /\ \/ /\ batch' = OldestFirst(Page(Unfulfilled)) /\ unsent' = batch'
        /\ pc' = (IF batch' = <<>> THEN "top" ELSE "send")
        /\ UNCHANGED failures
     \/ FailedCall("top") /\ UNCHANGED <<batch, unsent>>
  /\ UNCHANGED <<twitchVars, config, flag, rewardId, wanted, pending, netVars, modVars,
                 crashes, changes, dashboard>>

(* Feed.send, holding the feed's lock.  The clients the mod has left may take the
   line for a while before sendall notices; those for which it fails are dropped. *)
Left == {c \in clients : link[c] = "left"}

SendTo_GivesUp ==
  IF Left = {} THEN /\ wire' = [c \in Conns |-> IF c \in clients
                                    THEN Append(wire[c], Head(unsent)) ELSE wire[c]]
                    /\ unsent' = Tail(unsent)
                    /\ pc' = (IF unsent' = <<>> THEN "fulfil" ELSE "send")
                    /\ UNCHANGED <<clients, link>>
               ELSE pc' = "top" /\ UNCHANGED <<wire, unsent, clients, link>>

SendTo ==
  /\ wire' = [c \in Conns |-> IF c \in clients \ Left
                              THEN Append(wire[c], Head(unsent)) ELSE wire[c]]
  /\ \E failed \in SUBSET Left :
       /\ clients' = clients \ failed
       /\ link' = [c \in Conns |-> IF c \in failed THEN "dead" ELSE link[c]]
  /\ unsent' = Tail(unsent)
  /\ pc' = (IF unsent' = <<>> THEN "fulfil" ELSE "send")

Send ==
  /\ pc = "send"
  /\ SendTo
  /\ UNCHANGED <<twitchVars, config, flag, rewardId, wanted, pending, batch, up, modVars,
                 bounds>>

Fulfilled_First == fulfilled' = fulfilled \cup {batch[1]}

Fulfilled == fulfilled' = fulfilled \cup {batch[i] : i \in 1..Len(batch)}

Fulfil ==
  /\ pc = "fulfil"
  /\ \/ Fulfilled /\ pc' = "top" /\ UNCHANGED failures
     \/ FailedCall("top") /\ (Fulfilled \/ UNCHANGED fulfilled)
  /\ UNCHANGED <<redeemed, rewards, config, flag, rewardId, wanted, pending, batch, unsent,
                 netVars, modVars, crashes, changes, dashboard>>

-----------------------------------------------------------------------------
(* The accept thread, and the reader thread of each connection: it hands titles
   to the main thread and ends with the connection, but nothing takes the
   connection out of clients. *)

Accept(c) ==
  /\ pc \in Polling /\ link[c] \in {"open", "left"} /\ c \notin clients
  /\ \A b \in 1..(c - 1) : link[b] # "unused" => link[b] = "dead" \/ b \in clients
  /\ clients' = clients \cup {c}
  /\ UNCHANGED <<twitchVars, config, flag, mainVars, link, wire, up, modVars, bounds>>

OnUpstream(c) ==
  /\ c \in clients /\ up[c] # <<>>
  /\ wanted' = Head(up[c]) /\ up' = [up EXCEPT ![c] = Tail(up[c])]
  /\ UNCHANGED <<twitchVars, config, flag, pc, rewardId, pending, batch, unsent, clients,
                 link, wire, modVars, bounds>>

-----------------------------------------------------------------------------
(* The mod: redemption_client.cpp as the helper sees it.  Its reader thread sends the
   name on every connect and its game thread on every change, each from a copy it
   makes first; RedemptionClient has the two threads in full. *)

ModConnects(c) ==
  /\ modStep = "out" /\ pc \in Polling /\ link[c] = "unused"
  /\ \A b \in 1..(c - 1) : link[b] # "unused"
  /\ modConn' = c /\ link' = [link EXCEPT ![c] = "open"] /\ modStep' = "publish"
  /\ UNCHANGED <<twitchVars, config, flag, mainVars, clients, wire, up, modTitle, modLine,
                 gameStep, gameFd, got, bounds>>

ModPublishes ==
  /\ modStep = "publish"
  /\ modStep' = "copy"
  /\ UNCHANGED <<twitchVars, config, flag, mainVars, netVars, modConn, modTitle, modLine,
                 gameStep, gameFd, got, bounds>>

ModCopies ==
  /\ modStep = "copy"
  /\ modLine' = modTitle /\ modStep' = "send"
  /\ UNCHANGED <<twitchVars, config, flag, mainVars, netVars, modConn, modTitle, gameStep,
                 gameFd, got, bounds>>

(* A name reaches the helper unless it is empty or the connection has ended. *)
Told(t) ==
  up' = IF t # NoTitle /\ link[modConn] = "open" THEN [up EXCEPT ![modConn] = Append(@, t)]
        ELSE up

ModSends ==
  /\ modStep = "send"
  /\ Told(modLine) /\ modLine' = NoTitle /\ modStep' = "recv"
  /\ UNCHANGED <<twitchVars, config, flag, mainVars, clients, link, wire, modConn, modTitle,
                 gameStep, gameFd, got, bounds>>

ModReads ==
  /\ modStep = "recv" /\ wire[modConn] # <<>>
  /\ got' = Append(got, Head(wire[modConn]))
  /\ wire' = [wire EXCEPT ![modConn] = Tail(@)]
  /\ UNCHANGED <<twitchVars, config, flag, mainVars, clients, link, up, modConn, modTitle,
                 modStep, modLine, gameStep, gameFd, bounds>>

(* The game is closed, or the trigger is set to something else: the game thread stops
   the client, which ends the connection and waits for the reader to leave.  A reader
   that has not published the connection yet goes on until it has. *)
ModLeaves ==
  /\ modStep \in Published /\ gameStep = "ready" /\ link[modConn] = "open"
  /\ link' = [link EXCEPT ![modConn] = "left"]
  /\ wire' = [wire EXCEPT ![modConn] = <<>>] /\ modConn' = NoConn
  /\ modStep' = "out" /\ modLine' = NoTitle
  /\ UNCHANGED <<twitchVars, config, flag, mainVars, clients, up, modTitle, gameStep, gameFd,
                 got, bounds>>

ModSeesEnd ==
  /\ modStep = "recv" /\ link[modConn] = "dead" /\ wire[modConn] = <<>>
  /\ modConn' = NoConn /\ modStep' = "out"
  /\ UNCHANGED <<twitchVars, config, flag, mainVars, netVars, modTitle, modLine, gameStep,
                 gameFd, got, bounds>>

SetRewardTitle(t) ==
  /\ gameStep = "ready" /\ changes < MaxChanges /\ t # modTitle
  /\ modTitle' = t /\ gameStep' = "look" /\ changes' = changes + 1
  /\ UNCHANGED <<twitchVars, config, flag, mainVars, netVars, modConn, modStep, modLine,
                 gameFd, got, failures, crashes, dashboard>>

GameLooks ==
  /\ gameStep = "look"
  /\ IF modStep \in Published THEN gameFd' = modConn /\ gameStep' = "write"
                               ELSE gameStep' = "ready" /\ UNCHANGED gameFd
  /\ UNCHANGED <<twitchVars, config, flag, mainVars, netVars, modConn, modTitle, modStep,
                 modLine, got, bounds>>

(* If the reader has closed the socket meanwhile its number may be that of the next
   connection. *)
GameWrites ==
  /\ gameStep = "write"
  /\ \/ modConn # NoConn /\ Told(modTitle)
     \/ modConn # gameFd /\ UNCHANGED up
  /\ gameStep' = "ready" /\ gameFd' = NoConn
  /\ UNCHANGED <<twitchVars, config, flag, mainVars, clients, link, wire, modConn, modTitle,
                 modStep, modLine, got, bounds>>

(* Viewers, and the streamer's dashboard on Twitch's web site. *)
Redeem ==
  /\ redeemed < MaxRedemptions /\ rewards # <<>>
  /\ redeemed' = redeemed + 1
  /\ UNCHANGED <<fulfilled, rewards, config, flag, mainVars, netVars, modVars, bounds>>

(* Of any reward, that the helper watches or one it lost sight of. *)
RenameInDashboard(i, t) ==
  /\ dashboard < MaxDashboard /\ rewards[i] # t /\ TitleFree(i, t)
  /\ rewards' = [rewards EXCEPT ![i] = t] /\ dashboard' = dashboard + 1
  /\ UNCHANGED <<redeemed, fulfilled, config, flag, mainVars, netVars, modVars, failures,
                 crashes, changes>>

-----------------------------------------------------------------------------
Main == \/ EnsureReward \/ SaveReward \/ TakeTitle \/ RenameReward \/ SaveTitle
        \/ CheckClients \/ Fetch \/ Send \/ Fulfil

Threads == \E c \in Conns : Accept(c) \/ OnUpstream(c)

(* What either thread of the mod goes on to do without the player or the network. *)
ModReader == ModPublishes \/ ModCopies \/ ModSends \/ ModReads
ModGame   == GameLooks \/ GameWrites

Mod == \/ \E c \in Conns : ModConnects(c)
       \/ ModReader \/ ModGame \/ ModLeaves \/ ModSeesEnd
       \/ \E t \in MaybeTitle : SetRewardTitle(t)

Next == \/ Launch \/ Main \/ Crash \/ Threads \/ Mod
        \/ Redeem
        \/ \E i \in 1..Len(rewards), t \in Titles : RenameInDashboard(i, t)

Spec == Init /\ [][Next]_vars

(* The threads of the helper and of the mod are scheduled, and the helper is started
   again after it ended.  That failures are finite is what MaxFailures and MaxCrashes
   say. *)
Fairness == /\ WF_vars(Launch) /\ WF_vars(Main)
            /\ \A c \in Conns : WF_vars(Accept(c)) /\ WF_vars(OnUpstream(c))
            /\ WF_vars(ModReader) /\ WF_vars(ModGame)

FairSpec == Spec /\ Fairness

-----------------------------------------------------------------------------
(* No connection has been lost so far. *)
Intact == \A c \in Conns : link[c] \in {"unused", "open"}

OnWire(r) == \E c \in Conns : \E i \in 1..Len(wire[c]) : wire[c][i] = r

Received(r) == \E i \in 1..Len(got) : got[i] = r

(* Nothing a viewer paid for is thrown away while the mod stays connected: what is
   fulfilled has reached the mod, or is on its way, whatever calls failed. *)
NoneThrownAway == Intact => \A r \in fulfilled : Received(r) \/ OnWire(r)

(* On one connection redemptions come in the order they were redeemed: one that
   comes after a younger one is a repetition. *)
RedeemedOrder ==
  Intact => \A i, j \in 1..Len(got) :
              i < j /\ got[i] > got[j] => \E k \in 1..(i - 1) : got[k] = got[j]

(* A redemption comes twice only if a call failed or the helper was restarted:
   on its own the poll loop never sends what it has fulfilled already. *)
DeliveredOnce ==
  failures = 0 /\ crashes = 0 => \A i, j \in 1..Len(got) : got[i] = got[j] => i = j

(* The reward's stored id is its identity: once it is on file no launch creates another
   reward, whatever the one it names is called by then.  Until it is on file the title
   identifies the reward, and a launch that ended before saving the id left it with the
   title the next one looks for, unless somebody renamed it in the dashboard. *)
OneReward ==
  /\ [][config.id # 0 => Len(rewards') = Len(rewards)]_vars
  /\ [](dashboard = 0 => Len(rewards) <= 1)

Listening == modConn # NoConn /\ link[modConn] = "open"

(* Once the feed has taken the mod's connection, all that is still unfulfilled then or
   redeemed later comes to the mod as long as the connection lasts, whatever calls fail
   and whatever stale connections the feed still holds.  Before that it may not: with a
   stale one alone in clients the feed consumes what nobody hears. *)
EventuallyServed ==
  \A r \in Redemptions :
    (/\ []Listening /\ modConn \in clients /\ pc \notin {"send", "fulfil"}
     /\ redeemed >= r /\ r \notin fulfilled) ~> Received(r)

(* The reward ends up with the name that is set in the mod, as long as no call to
   Twitch fails, nobody renames it elsewhere, no restart comes between a renaming and
   the saving of it, what the mod sent on one connection has been read before it makes
   the next (the reader threads of two connections run in no order), and the name is not
   changed between the copying and the sending of it on connect (LastTitleWins, in
   RedemptionClient, shows the older name coming last). *)
Undisturbed ==
  /\ modConn # NoConn => \A c \in Conns \ {modConn} : up[c] = <<>>
  /\ pc = "down" /\ config.id # 0 => rewards[config.id] = config.title
  /\ modStep = "send" => modLine = modTitle
  /\ dashboard = 0

OurTitle == modTitle # NoTitle /\ config.id # 0 /\ rewards[config.id] = modTitle

TitleApplied ==
  []Undisturbed /\ <>[](Listening /\ modTitle # NoTitle /\ failures = 0) => <>[]OurTitle

(* The name the reward has once what is on its way has been dealt with. *)
NameAhead ==
  IF up[modConn] # <<>> THEN up[modConn][Len(up[modConn])]
  ELSE IF wanted # NoTitle THEN wanted
  ELSE IF pc \in {"rename", "renamed"} THEN pending
  ELSE rewards[config.id]

(* Neither thread of the mod has the name still to send. *)
NameSent == modStep = "recv" /\ gameStep = "ready"

(* Until the reward has the name that is set in the mod, that name is on its way and no
   other comes after it: on the connection, in the cell that the reader threads share
   with the main thread, or in the main thread's hands.  Whichever thread of the mod
   sends it, the one that connects or the one that changes it, it is sent; and a name
   that comes while the one before is being applied is not lost, whichever of the two
   Twitch has by then. *)
NameNotLost ==
  []Undisturbed =>
    [](Listening /\ NameSent /\ modTitle # NoTitle /\ failures = 0 => NameAhead = modTitle)
=============================================================================
