--------------------------- MODULE MCSpeechQueue ---------------------------
EXTENDS SpeechQueue

CONSTANTS c1, c2, r1, r2

MCMessages == {c1, c2, r1, r2}
MCFromChat == {c1, c2}

(* A chatter with a name to show, which is longer than is kept; a moderator without
   one; and a line that is not a message. *)
Chatter   == 257
Moderator == 258
Notice    == 259

Tag(key, value) == [key |-> key, value |-> value]

MCHeads ==
     (Chatter   :> [login |-> <<117>>, command |-> "PRIVMSG",
                    tags |-> <<Tag("display-name", <<195, 169, 227, 129, 130>>), Tag("mod", "0")>>])
  @@ (Moderator :> [login |-> <<117>>, command |-> "PRIVMSG",
                    tags |-> <<Tag("badges", {"subscriber"}), Tag("display-name", <<>>), Tag("mod", "1"),
                               Tag("msg-id", "highlighted-message")>>])
  @@ (Notice    :> [login |-> <<117>>, command |-> "NOTICE", tags |-> <<>>])

(* Whole lines, halves of lines and of characters, and what neither may hold:
   "a", a space, a colon, e with an accent and a hiragana letter in two pieces, a
   control byte, a lone continuation byte. *)
a == 97
MCChunks == {<<Chatter>>, <<a>>, <<LF>>, <<a, a, Space>>, <<195>>, <<169>>, <<227, 129>>,
             <<CR, LF, Moderator>>, <<LF, Ping, LF, Notice>>, <<35, 49, 50, Colon>>,
             <<109, Colon, Space>>, Action, <<Ctcp>>}

MCPortraits == (<<109>> :> 16) @@ (<<109, 97>> :> 16)

(* As ring and stream share nothing, each is explored with the other at rest. *)
MCNext == \/ Next /\ arrived = <<>> /\ UNCHANGED streamVars
          \/ StreamNext /\ sQueue = [i \in Slots |-> NoMessage] /\ UNCHANGED vars

MCSpec == SpeechInit /\ [][MCNext]_<<vars, streamVars>>
=============================================================================
