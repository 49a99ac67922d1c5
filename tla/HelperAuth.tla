----------------------------- MODULE HelperAuth -----------------------------
(***************************************************************************)
(* The login of helper/twitch_redemptions.py: the device flow, the tokens  *)
(* in the config file, and the renewal of an expired access token in the   *)
(* middle of an API call, through failures and restarts of the helper.     *)
(*                                                                         *)
(* A token is the number of the grant it came with; Twitch accepts some    *)
(* and is modelled from how the helper uses it.  A step is what happens    *)
(* between two points at which the process may end or Twitch may act: a    *)
(* request, a save of the config file, a sleep.  What a call is for, and   *)
(* what the poll loop does with it, is RedemptionHelper's subject.         *)
(***************************************************************************)
EXTENDS Integers

CONSTANTS
  Interval, ExpiresIn,    \* "interval" and "expires_in" of a device code
  MaxExpiries,            \* bound: access tokens that expire, and withdrawn consents
  MaxFaults,              \* bound: requests and saves that fail
  MaxCrashes,             \* bound: times the process is ended from outside
  MaxFlagged              \* bound: launches with --token, --reauthorise or --broadcaster-id

ASSUME AuthAssumption ==
  /\ {Interval, ExpiresIn} \subseteq Nat \ {0}
  /\ {MaxExpiries, MaxFaults, MaxCrashes, MaxFlagged} \subseteq Nat

VARIABLES
  access, refreshes,      \* Twitch: the access and the refresh tokens it accepts
  minted,                 \* Twitch: how many grants it has made
  file, mem,              \* the config file, and main's copy of it
  pc,                     \* the main thread
  interval, waited,       \* authorise: time between two polls, and since the code was given
  spoiled,                \* history: something no code prevents has cost the login on file
  expiries, faults, crashes, flagged

twitchVars == <<access, refreshes, minted>>
flowVars   == <<interval, waited>>
bounds     == <<expiries, faults, crashes, flagged>>
vars       == <<twitchVars, file, mem, pc, flowVars, spoiled, bounds>>

NoToken  == 0
Supplied == -1           \* the token given with --token
Grants   == 1..minted

(* user: broadcaster_id is set; reward: reward_id is. *)
Config   == [access : Grants \cup {NoToken, Supplied}, refresh : Grants \cup {NoToken},
             user : BOOLEAN, reward : BOOLEAN]
NoConfig == [access |-> NoToken, refresh |-> NoToken, user |-> FALSE, reward |-> FALSE]

Login == {"device", "poll", "saveLogin"}
Calls == {"call", "refresh", "saveTokens", "retry", "save", "served", "pause"}

TypeOK ==
  /\ minted \in Nat /\ access \subseteq Grants /\ refreshes \subseteq Grants
  /\ file \in Config /\ mem \in Config
  /\ pc \in {"down"} \cup Login \cup Calls
  /\ interval \in Nat /\ waited \in 0..(ExpiresIn + interval)
  /\ spoiled \in BOOLEAN
  /\ expiries \in 0..MaxExpiries /\ faults \in 0..MaxFaults
  /\ crashes \in 0..MaxCrashes /\ flagged \in 0..MaxFlagged

Init ==
  /\ access = {} /\ refreshes = {} /\ minted = 0
  /\ file = NoConfig /\ mem = NoConfig /\ pc = "down"
  /\ interval = 0 /\ waited = 0 /\ spoiled = FALSE
  /\ expiries = 0 /\ faults = 0 /\ crashes = 0 /\ flagged = 0

-----------------------------------------------------------------------------
(* How a step of the process ends. *)

(* The process is gone, and what it knew with it. *)
Exit == pc' = "down" /\ mem' = NoConfig /\ interval' = 0 /\ waited' = 0

(* The poll loop catches what a call or a save raises; before it nothing does. *)
Raise == IF mem.reward THEN pc' = "pause" /\ UNCHANGED <<mem, flowVars>> ELSE Exit

(* A request or a save that does not work out. *)
Fault == faults < MaxFaults /\ faults' = faults + 1

-----------------------------------------------------------------------------
(* main, up to the first call *)

Forgotten(c) == [c EXCEPT !.access = NoToken, !.refresh = NoToken]

Loaded(token, reauthorise, known) ==
  LET given == IF token THEN [file EXCEPT !.access = Supplied, !.refresh = NoToken] ELSE file
  IN [(IF reauthorise THEN Forgotten(given) ELSE given) EXCEPT !.user = @ \/ known]

(* A launch without a usable client id ends at once and changes nothing. *)
Launch(token, reauthorise, known) ==
  /\ pc = "down"
  /\ IF token \/ reauthorise \/ known
     THEN flagged < MaxFlagged /\ flagged' = flagged + 1 ELSE UNCHANGED flagged
  /\ mem' = Loaded(token, reauthorise, known)
  /\ pc' = IF mem'.access = NoToken THEN "device" ELSE "call"
  /\ UNCHANGED <<twitchVars, file, flowVars, spoiled, expiries, faults, crashes>>

(* authorise: the code, then one request per interval until the streamer has
   typed it in. *)
AskCode ==
  /\ pc = "device"
  /\ \/ pc' = "poll" /\ interval' = Interval /\ waited' = 0 /\ UNCHANGED <<mem, faults>>
     \/ Fault /\ Exit
  /\ UNCHANGED <<twitchVars, file, spoiled, expiries, crashes, flagged>>

(* Looked at before the sleep, so that the last request may come too late: Twitch
   refuses a code that is no longer valid, and nothing catches that. *)
InTime == waited < ExpiresIn
Valid  == waited + interval <= ExpiresIn

Waits == waited' = waited + interval /\ UNCHANGED <<twitchVars, mem, pc, faults>>

Pending  == Valid /\ Waits /\ UNCHANGED interval
SlowDown == Valid /\ Waits /\ interval' = interval + 2
TooLate  == ~Valid /\ Exit /\ UNCHANGED <<twitchVars, faults>>
TimedOut == ~InTime /\ Exit /\ UNCHANGED <<twitchVars, faults>>

NewGrant == minted + 1
Granted  == minted' = NewGrant /\ access' = access \cup {NewGrant}
LogIn    == Granted /\ refreshes' = refreshes \cup {NewGrant}

Authorised ==
  /\ Valid /\ LogIn
  /\ mem' = [mem EXCEPT !.access = NewGrant, !.refresh = NewGrant]
  /\ pc' = "saveLogin" /\ interval' = 0 /\ waited' = 0 /\ UNCHANGED faults

PollFails == Fault /\ Exit /\ (UNCHANGED twitchVars \/ (Valid /\ LogIn))

PollLogin ==
  /\ pc = "poll"
  /\ TimedOut \/ (InTime /\ (Pending \/ SlowDown \/ Authorised \/ TooLate \/ PollFails))
  /\ UNCHANGED <<file, spoiled, expiries, crashes, flagged>>

SaveLogin ==
  /\ pc = "saveLogin"
  /\ \/ /\ file' = mem /\ pc' = "call" /\ spoiled' = (mem.refresh \notin refreshes)
        /\ UNCHANGED <<mem, flowVars, faults>>
     \/ Fault /\ Exit /\ UNCHANGED <<file, spoiled>>
  /\ UNCHANGED <<twitchVars, expiries, crashes, flagged>>

-----------------------------------------------------------------------------
(* Twitch.call.  The first calls of a channel look up its owner and set up the
   reward; from then on they are the poll loop's. *)

(* A supplied token is good for the API the run points at, or it is not. *)
Accepted == mem.access \in access \cup {Supplied}
Refused  == mem.access \notin access

(* What the call was for: the owner's id, the reward, or a turn of the poll loop,
   in which a renaming is saved and the rest is not. *)
Succeed ==
  \/ ~mem.user /\ mem' = [mem EXCEPT !.user = TRUE] /\ pc' = "save"
  \/ mem.user /\ ~mem.reward /\ mem' = [mem EXCEPT !.reward = TRUE] /\ pc' = "save"
  \/ mem.user /\ mem.reward /\ pc' \in {"save", "served"} /\ UNCHANGED mem

CanRefresh_Never == FALSE

CanRefresh == pc = "call" /\ mem.refresh # NoToken

(* 401 renews the token and tries once more; a second 401 is raised. *)
Call ==
  /\ pc \in {"call", "retry"}
  /\ \/ Accepted /\ Succeed /\ UNCHANGED <<flowVars, faults>>
     \/ Refused /\ CanRefresh /\ pc' = "refresh" /\ UNCHANGED <<mem, flowVars, faults>>
     \/ Refused /\ ~CanRefresh /\ Raise /\ UNCHANGED faults
     \/ Fault /\ Raise
  /\ UNCHANGED <<twitchVars, file, spoiled, expiries, crashes, flagged>>

(* Twitch may hand out a new refresh token with the access token, and then no
   longer takes the old one. *)
Rotated == Granted /\ refreshes' = (refreshes \ {mem.refresh}) \cup {NewGrant}
Kept    == Granted /\ UNCHANGED refreshes

TakeTokens_AccessOnly(refreshed) == mem' = [mem EXCEPT !.access = NewGrant]

TakeTokens(refreshed) ==
  mem' = [mem EXCEPT !.access = NewGrant, !.refresh = IF refreshed THEN NewGrant ELSE @]

Refresh ==
  /\ pc = "refresh"
  /\ \/ /\ mem.refresh \in refreshes /\ pc' = "saveTokens"
        /\ (Rotated /\ TakeTokens(TRUE)) \/ (Kept /\ TakeTokens(FALSE))
        /\ UNCHANGED <<flowVars, spoiled, faults>>
     \/ mem.refresh \notin refreshes /\ Raise /\ UNCHANGED <<twitchVars, spoiled, faults>>
     \/ Fault /\ Raise /\ UNCHANGED <<twitchVars, spoiled>>
     \/ /\ Fault /\ Raise /\ mem.refresh \in refreshes       \* the answer is lost
        /\ (Rotated /\ spoiled' = TRUE) \/ (Kept /\ UNCHANGED spoiled)
  /\ UNCHANGED <<file, expiries, crashes, flagged>>

SaveTokens_Forgets == UNCHANGED file

WriteTokens == file' = mem

SaveTokens ==
  /\ pc = "saveTokens"
  /\ \/ WriteTokens /\ pc' = "retry" /\ UNCHANGED <<mem, flowVars, spoiled, faults>>
     \/ Fault /\ Raise /\ spoiled' = TRUE /\ UNCHANGED file
  /\ UNCHANGED <<twitchVars, expiries, crashes, flagged>>

(* Every other save writes the whole of config, the token given with --token and
   the missing refresh token included. *)
Save ==
  /\ pc = "save"
  /\ \/ /\ file' = mem /\ spoiled' = (spoiled \/ mem.access = Supplied)
        /\ pc' = (IF mem.reward THEN "served" ELSE "call")
        /\ UNCHANGED <<mem, flowVars, faults>>
     \/ Fault /\ Raise /\ UNCHANGED <<file, spoiled>>
  /\ UNCHANGED <<twitchVars, expiries, crashes, flagged>>

Poll ==
  /\ pc \in {"served", "pause"} /\ pc' = "call"
  /\ UNCHANGED <<twitchVars, file, mem, flowVars, spoiled, bounds>>

-----------------------------------------------------------------------------
(* Interrupted, or an exception nothing catches. *)
Crash ==
  /\ pc # "down" /\ crashes < MaxCrashes /\ crashes' = crashes + 1
  /\ Exit /\ spoiled' = (spoiled \/ pc = "saveTokens")
  /\ UNCHANGED <<twitchVars, file, expiries, faults, flagged>>

Expire ==
  /\ expiries < MaxExpiries /\ expiries' = expiries + 1
  /\ \E t \in access : access' = access \ {t}
  /\ UNCHANGED <<refreshes, minted, file, mem, pc, flowVars, spoiled, faults, crashes, flagged>>

(* The streamer removes the application in Twitch's settings. *)
Disconnect ==
  /\ expiries < MaxExpiries /\ expiries' = expiries + 1
  /\ access # {} /\ access' = {} /\ refreshes' = {} /\ spoiled' = TRUE
  /\ UNCHANGED <<minted, file, mem, pc, flowVars, faults, crashes, flagged>>

Main == AskCode \/ PollLogin \/ SaveLogin \/ Call \/ Refresh \/ SaveTokens \/ Save \/ Poll

Next == \/ \E token, reauthorise, known \in BOOLEAN : Launch(token, reauthorise, known)
        \/ Main \/ Crash \/ Expire \/ Disconnect

Spec == Init /\ [][Next]_vars

(* The helper keeps running and is started again; that calls fail, that tokens
   expire and that it is ended only so often is what the bounds say. *)
Fairness == WF_vars(Main) /\ WF_vars(Launch(FALSE, FALSE, FALSE))

FairSpec == Spec /\ Fairness

-----------------------------------------------------------------------------
(* The stored login survives: at any point at which the process may end, the file
   holds a refresh token that Twitch accepts, except between Twitch's answer to a
   refresh and the save that follows it at once.  spoiled names the losses no order
   of the code's steps could avoid, and a run with --token that saved its config. *)
LoginKept ==
  file.access # NoToken /\ ~spoiled => file.refresh \in refreshes \/ pc = "saveTokens"

(* With a login on file the helper comes to serve again, through expired tokens,
   failed calls and restarts, without another code being typed in. *)
CallsRecover ==
  (file.refresh \in refreshes /\ pc \notin Login) ~> (pc = "served" \/ pc \in Login \/ spoiled \/ mem.access = Supplied)
=============================================================================
