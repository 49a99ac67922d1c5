-------------------------- MODULE HelperAuthProofs --------------------------
(***************************************************************************)
(* Proofs about HelperAuth: types, and that the login on file survives,    *)
(* for any number of failures, restarts and expired tokens.                *)
(*                                                                         *)
(* What is on file is good because main's copy of it is good whenever it   *)
(* can be saved, except in the one step between a refresh and its save.    *)
(***************************************************************************)
EXTENDS HelperAuth, TLAPS

(* The copy that a save writes: past the login, and without a token given on the
   command line, it holds a refresh token that Twitch accepts. *)
CopyGood ==
  /\ pc \in Calls /\ mem.access # Supplied /\ ~spoiled => mem.refresh \in refreshes
  /\ pc = "saveTokens" => mem.access # Supplied

IInv == TypeOK /\ CopyGood /\ LoginKept

-----------------------------------------------------------------------------
(* The three parts of TypeOK: what Twitch knows, the two copies of the config, and
   where the helper is. *)
Tokens == minted \in Nat /\ access \subseteq Grants /\ refreshes \subseteq Grants

Copies == file \in Config /\ mem \in Config

Places == pc \in {"down"} \cup Login \cup Calls /\ spoiled \in BOOLEAN

Flow == interval \in Nat /\ waited \in 0..(ExpiresIn + interval)

Bounded ==
  /\ expiries \in 0..MaxExpiries /\ faults \in 0..MaxFaults
  /\ crashes \in 0..MaxCrashes /\ flagged \in 0..MaxFlagged

LEMMA Bounds ==
  /\ Interval \in Nat /\ ExpiresIn \in Nat
  /\ MaxExpiries \in Nat /\ MaxFaults \in Nat /\ MaxCrashes \in Nat /\ MaxFlagged \in Nat
  /\ 0 \in 0..(ExpiresIn + 0)
BY AuthAssumption

LEMMA Parts == TypeOK <=> Tokens /\ Copies /\ Places /\ Flow /\ Bounded
BY DEF TypeOK, Tokens, Copies, Places, Flow, Bounded

LEMMA InitIInv == Init => IInv
<1> SUFFICES ASSUME Init PROVE IInv
  OBVIOUS
<1>1. NoConfig \in Config
  BY DEF NoConfig, Config, NoToken, Supplied
<1>2. Tokens /\ Copies
  BY <1>1 DEF Init, Tokens, Copies
<1>3. Places /\ Flow /\ Bounded
  <2>1. Places
    BY DEF Init, Places
  <2>2. Flow
    BY Bounds DEF Init, Flow
  <2>3. Bounded
    BY Bounds DEF Init, Bounded
  <2> QED
    BY <2>1, <2>2, <2>3
<1>4. CopyGood /\ LoginKept
  BY DEF Init, CopyGood, LoginKept, NoConfig, Calls
<1> QED
  BY <1>2, <1>3, <1>4, Parts DEF IInv

-----------------------------------------------------------------------------
(* Only a login and a refresh make a grant, and nothing else makes a token. *)
LEMMA NextTokens == Tokens /\ [Next]_vars => Tokens' /\ minted' \in {minted, minted + 1}
<1> SUFFICES ASSUME Tokens, [Next]_vars PROVE Tokens' /\ minted' \in {minted, minted + 1}
  OBVIOUS
<1>1. ASSUME Granted, refreshes' \subseteq refreshes \cup {NewGrant}
      PROVE  Tokens' /\ minted' = minted + 1
  BY <1>1 DEF Tokens, Granted, NewGrant, Grants
<1>2. ASSUME UNCHANGED minted, access' \subseteq access, refreshes' \subseteq refreshes
      PROVE  Tokens' /\ minted' = minted
  BY <1>2 DEF Tokens, Grants
<1>3. CASE PollLogin
  BY <1>3, <1>1, <1>2 DEF PollLogin, TimedOut, TooLate, Pending, SlowDown, Waits, Authorised, PollFails, LogIn, twitchVars
<1>4. CASE Refresh
  BY <1>4, <1>1, <1>2 DEF Refresh, Rotated, Kept, twitchVars
<1>5. CASE Expire \/ Disconnect
  BY <1>5, <1>2 DEF Expire, Disconnect
<1>6. ASSUME UNCHANGED twitchVars
      PROVE  Tokens' /\ minted' \in {minted, minted + 1}
  BY <1>6, <1>2 DEF twitchVars
<1> QED
  BY <1>3, <1>4, <1>5, <1>6
     DEF Next, Main, Launch, AskCode, SaveLogin, Call, SaveTokens, Save, Poll, Crash, vars

(* Every save writes, and every launch reads, a config of tokens. *)
LEMMA NextCopies == Tokens /\ Copies /\ [Next]_vars => Copies'
<1> SUFFICES ASSUME Tokens, Copies, [Next]_vars PROVE Copies'
  OBVIOUS
<1> USE DEF Copies
<1>1. /\ minted \in Nat /\ minted' \in {minted, minted + 1}
      /\ \A c \in Config : c \in Config'
  BY NextTokens DEF Tokens, Config, Grants
<1>2. NoConfig \in Config
  BY DEF NoConfig, Config, NoToken, Supplied
<1>3. ASSUME file' \in {file, mem}, mem' \in {mem, NoConfig} PROVE Copies'
  BY <1>1, <1>2, <1>3
<1> USE DEF Exit, Raise
<1>4. ASSUME NEW token \in BOOLEAN, NEW reauthorise \in BOOLEAN, NEW known \in BOOLEAN,
             Launch(token, reauthorise, known)
      PROVE  Copies'
  <2>1. Loaded(token, reauthorise, known) \in Config
    BY DEF Loaded, Forgotten, Config
  <2> QED
    BY <1>1, <1>4, <2>1 DEF Launch
<1>5. CASE AskCode
  BY <1>5, <1>3 DEF AskCode
<1>6. CASE PollLogin
  <2>1. CASE Authorised
    <3>1. NewGrant \in Grants' /\ mem \in Config'
      BY <1>1, <2>1 DEF Authorised, LogIn, Granted, NewGrant, Grants
    <3>2. mem' \in Config'
      BY <2>1, <3>1 DEF Authorised, Config
    <3> QED
      BY <1>1, <1>6, <3>2 DEF PollLogin
  <2>2. CASE TimedOut \/ TooLate \/ Pending \/ SlowDown \/ PollFails
    BY <1>3, <1>6, <2>2 DEF PollLogin, TimedOut, TooLate, Pending, SlowDown, Waits, PollFails
  <2> QED
    BY <1>6, <2>1, <2>2 DEF PollLogin
<1>7. CASE SaveLogin
  BY <1>7, <1>3 DEF SaveLogin
<1>8. CASE Call
  <2>1. CASE Succeed
    <3>1. mem' \in Config
      BY <2>1 DEF Succeed, Config
    <3> QED
      BY <1>1, <1>8, <3>1 DEF Call
  <2>2. CASE Raise \/ UNCHANGED mem
    BY <1>3, <1>8, <2>2 DEF Call
  <2> QED
    BY <1>8, <2>1, <2>2 DEF Call
<1>9. CASE Refresh
  <2>1. ASSUME NEW refreshed \in BOOLEAN, TakeTokens(refreshed), minted' = NewGrant
        PROVE  Copies'
    <3>1. NewGrant \in Grants' /\ mem \in Config' /\ file \in Config'
      BY <1>1, <2>1 DEF NewGrant, Grants
    <3>2. mem' \in Config'
      BY <2>1, <3>1 DEF TakeTokens, Config
    <3> QED
      BY <1>9, <3>1, <3>2 DEF Refresh
  <2>2. CASE Raise
    BY <1>3, <1>9, <2>2 DEF Refresh
  <2> QED
    BY <1>9, <2>1, <2>2 DEF Refresh, Rotated, Kept, Granted
<1>10. CASE SaveTokens
  BY <1>10, <1>3 DEF SaveTokens, WriteTokens
<1>11. CASE Save
  BY <1>11, <1>3 DEF Save
<1>12. CASE Poll \/ Expire \/ Disconnect \/ Crash
  BY <1>12, <1>3 DEF Poll, Expire, Disconnect, Crash
<1>13. CASE UNCHANGED vars
  BY <1>13, <1>3 DEF vars
<1> QED
  BY <1>4, <1>5, <1>6, <1>7, <1>8, <1>9, <1>10, <1>11, <1>12, <1>13 DEF Next, Main

(* The main thread goes from one of the code's places to another. *)
LEMMA NextPlaces == Places /\ [Next]_vars => Places'
<1> USE DEF Places, Login, Calls, Exit, Raise
<1> QED
  BY DEF Next, Main, Launch, AskCode, PollLogin, TimedOut, TooLate, Pending, SlowDown, Waits, Authorised,
         PollFails, SaveLogin, Call, Succeed, Refresh, SaveTokens, Save, Poll, Crash, Expire, Disconnect, vars

(* The time that has been waited for a code is at most one interval over. *)
LEMMA NextFlow == Flow /\ [Next]_vars => Flow'
<1> SUFFICES ASSUME Flow, [Next]_vars PROVE Flow'
  OBVIOUS
<1>1. ASSUME interval' = 0, waited' = 0 PROVE Flow'
  BY <1>1, Bounds DEF Flow
<1>2. ASSUME interval' = Interval, waited' = 0 PROVE Flow'
  BY <1>2, Bounds DEF Flow
<1>3. ASSUME UNCHANGED flowVars PROVE Flow'
  BY <1>3 DEF Flow, flowVars
<1>4. CASE Pending \/ SlowDown
  BY <1>4, Bounds DEF Flow, Pending, SlowDown, Waits, Valid
<1>5. UNCHANGED flowVars \/ (interval' = 0 /\ waited' = 0) \/ (interval' = Interval /\ waited' = 0)
        \/ Pending \/ SlowDown
  BY DEF Next, Main, Launch, AskCode, PollLogin, TimedOut, TooLate, Authorised, PollFails, SaveLogin, Call, Refresh,
         SaveTokens, Save, Poll, Crash, Expire, Disconnect, Exit, Raise, flowVars, vars
<1> QED
  BY <1>1, <1>2, <1>3, <1>4, <1>5

(* The bounds bound. *)
LEMMA NextBounded == Bounded /\ [Next]_vars => Bounded'
<1> SUFFICES ASSUME Bounded, [Next]_vars PROVE Bounded'
  OBVIOUS
<1>1. /\ expiries' = expiries \/ (expiries < MaxExpiries /\ expiries' = expiries + 1)
      /\ faults' = faults \/ (faults < MaxFaults /\ faults' = faults + 1)
      /\ crashes' = crashes \/ (crashes < MaxCrashes /\ crashes' = crashes + 1)
      /\ flagged' = flagged \/ (flagged < MaxFlagged /\ flagged' = flagged + 1)
  BY DEF Next, Main, Launch, AskCode, PollLogin, TimedOut, TooLate, Pending, SlowDown, Waits, Authorised, PollFails,
         SaveLogin, Call, Refresh, SaveTokens, Save, Poll, Crash, Expire, Disconnect, Fault, bounds, vars
<1> QED
  BY <1>1, Bounds DEF Bounded

(* Every step leaves a good login on file, and in main's copy. *)
LEMMA NextKept == IInv /\ [Next]_vars => (CopyGood /\ LoginKept)'
<1> SUFFICES ASSUME IInv, [Next]_vars PROVE (CopyGood /\ LoginKept)'
  OBVIOUS
<1> USE DEF CopyGood, LoginKept, Login, Calls, Exit, Raise, Fault, twitchVars, flowVars, bounds
<1>0. TypeOK /\ minted + 1 # Supplied /\ mem \in Config /\ file \in Config
  BY DEF IInv, TypeOK, Supplied
<1>1. ASSUME NEW token \in BOOLEAN, NEW reauthorise \in BOOLEAN, NEW known \in BOOLEAN,
             Launch(token, reauthorise, known)
      PROVE  (CopyGood /\ LoginKept)'
  <2>1. ~token /\ ~reauthorise => mem'.access = file.access /\ mem'.refresh = file.refresh
    BY <1>0, <1>1 DEF Launch, Loaded, Config
  <2>2. reauthorise => mem'.access = NoToken
    BY <1>0, <1>1 DEF Launch, Loaded, Forgotten, Config
  <2>3. token /\ ~reauthorise => mem'.access = Supplied
    BY <1>0, <1>1 DEF Launch, Loaded, Config
  <2> QED
    BY <1>1, <2>1, <2>2, <2>3 DEF Launch, IInv
<1>2. CASE AskCode
  BY <1>2 DEF AskCode, IInv
<1>3. CASE PollLogin
  BY <1>3 DEF PollLogin, TimedOut, TooLate, Pending, SlowDown, Waits, Authorised, PollFails, LogIn, Granted, IInv
<1>4. CASE SaveLogin
  BY <1>4 DEF SaveLogin, IInv
<1>5. CASE Call
  <2>1. (mem'.access = mem.access /\ mem'.refresh = mem.refresh) \/ pc' = "down"
    BY <1>0, <1>5 DEF Call, Succeed, Config
  <2>2. UNCHANGED <<refreshes, file, spoiled>> /\ pc \in Calls /\ pc # "saveTokens" /\ pc' # "saveTokens"
    BY <1>5 DEF Call, Succeed
  <2> QED
    BY <2>1, <2>2 DEF IInv
<1>6. CASE Refresh
  <2>1. CASE mem.refresh \in refreshes /\ pc' = "saveTokens" /\ Rotated /\ TakeTokens(TRUE)
    BY <1>0, <2>1 DEF Rotated, TakeTokens, Granted, NewGrant, Config
  <2>2. CASE mem.refresh \in refreshes /\ pc' = "saveTokens" /\ Kept /\ TakeTokens(FALSE)
    BY <1>0, <2>2 DEF Kept, TakeTokens, Granted, Config, NewGrant
  <2>3. CASE Raise /\ UNCHANGED <<refreshes, spoiled>>
    BY <1>6, <2>3 DEF Refresh, IInv
  <2>4. CASE Raise /\ spoiled' = TRUE
    BY <1>6, <2>4 DEF Refresh
  <2> QED
    BY <1>6, <2>1, <2>2, <2>3, <2>4 DEF Refresh, Kept, Granted
<1>7. CASE SaveTokens
  BY <1>7 DEF SaveTokens, WriteTokens, IInv
<1>8. CASE Save
  BY <1>8 DEF Save, IInv
<1>9. CASE Poll
  BY <1>9 DEF Poll, IInv
<1>10. CASE Crash
  BY <1>10 DEF Crash, IInv
<1>11. CASE Expire \/ Disconnect
  BY <1>11 DEF Expire, Disconnect, IInv
<1>12. CASE UNCHANGED vars
  BY <1>12 DEF vars, IInv
<1> QED
  BY <1>1, <1>2, <1>3, <1>4, <1>5, <1>6, <1>7, <1>8, <1>9, <1>10, <1>11, <1>12 DEF Next, Main

LEMMA IInvHolds == Spec => []IInv
<1>1. IInv /\ [Next]_vars => IInv'
  <2> SUFFICES ASSUME IInv, [Next]_vars PROVE IInv'
    OBVIOUS
  <2>1. Tokens' /\ Copies' /\ Places' /\ Flow' /\ Bounded'
    BY NextTokens, NextCopies, NextPlaces, NextFlow, NextBounded, Parts DEF IInv
  <2>2. TypeOK'
    BY <2>1 DEF TypeOK, Tokens, Copies, Places, Flow, Bounded
  <2> QED
    BY <2>2, NextKept DEF IInv
<1> QED
  BY <1>1, InitIInv, PTL DEF Spec

-----------------------------------------------------------------------------
(* Every token is one that Twitch handed out or the command line gave, and the main
   thread is at one of the code's places. *)
THEOREM AuthTyped == Spec => []TypeOK
<1>1. IInv => TypeOK
  BY DEF IInv
<1> QED
  BY <1>1, IInvHolds, PTL

(* The file never holds a refresh token that Twitch no longer takes, but between a
   refresh and the save that follows it, whatever fails and whenever the helper
   ends - unless an answer or that very save was lost. *)
THEOREM LoginSurvives == Spec => []LoginKept
<1>1. IInv => LoginKept
  BY DEF IInv
<1> QED
  BY <1>1, IInvHolds, PTL
=============================================================================
