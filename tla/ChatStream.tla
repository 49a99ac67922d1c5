----------------------------- MODULE ChatStream -----------------------------
(***************************************************************************)
(* The bytes of one chat connection: how run of native/irc_client.cpp cuts *)
(* what recv returns into lines, and what handle_line makes of a line.     *)
(*                                                                         *)
(* What comes before the text of a line - tags, prefix, command and        *)
(* channel - is one symbol that HeadOf spells out, and the word PING is    *)
(* another; every other element of the stream is a byte.  The colour of a  *)
(* name is layout and left out.                                            *)
(***************************************************************************)
EXTENDS Utf8, SequencesExt

CONSTANTS
  HeadOf,         \* what each symbol for the head of a line stands for
  Chunks,         \* what one recv may return
  MaxArrived,     \* bound: symbols that arrive on the connection
  BufferLimit,    \* 16 * 1024
  kMaxUserLen, kMaxTextLen    \* the most bytes of a name and of a text that are kept

ASSUME StreamAssumption ==
  /\ {MaxArrived, BufferLimit, kMaxUserLen, kMaxTextLen} \subseteq Nat
  /\ DOMAIN HeadOf \subseteq Nat \ 0..256
  /\ Chunks \subseteq Seq(Nat)

VARIABLES
  arrived,        \* history: all that has been received
  buffer,         \* run's buffer: the line that is not complete yet
  pushed,         \* the messages handed to push, in order
  pongs           \* how many PINGs were answered

streamVars == <<arrived, buffer, pushed, pongs>>

Ping   == 256
LF     == 10
CR     == 13
Space  == 32
Ctcp   == 1
Action == <<Ctcp, 65, Space>>     \* "\x01" "ACTION ", with one letter for the word

StreamInit == arrived = <<>> /\ buffer = <<>> /\ pushed = <<>> /\ pongs = 0

-----------------------------------------------------------------------------
IsBlank(b) == b <= Space \/ b = 127

WellEncoded_Any(in, at, n) == at + n - 1 <= Len(in)

WellEncoded(in, at, n) ==
  at + n - 1 <= Len(in) /\ \A k \in 1..(n - 1) : IsContinuation(in[at + k])

(* A turn of sanitize_text's loop: where it is in the input, and its output so far. *)
CleanTurn(in, max_len, s) ==
  LET n == Claimed(in[s.at])
      Skip(k, out) == [at |-> s.at + k, out |-> out]
      Break == Skip(Len(in), s.out)
  IN CASE s.at > Len(in) -> s
       [] s.at <= Len(in) /\ n = 0 -> Skip(1, s.out)
       [] s.at + n - 1 > Len(in) /\ s.at <= Len(in) -> Break
       [] s.at + n - 1 <= Len(in) /\ ~WellEncoded(in, s.at, n) -> Skip(1, s.out)
       [] s.at <= Len(in) /\ n = 1 /\ IsBlank(in[s.at]) ->
            Skip(1, IF s.out = <<>> \/ Last(s.out) = Space THEN s.out ELSE Append(s.out, Space))
       [] OTHER -> IF Len(s.out) + n > max_len THEN Break
                   ELSE Skip(n, s.out \o SubSeq(in, s.at, s.at + n - 1))

(* As many turns as there are bytes: every turn leaves one behind. *)
CleanTurns(in, max_len) ==
  LET turn[k \in 0..Len(in)] == IF k = 0 THEN [at |-> 1, out |-> <<>>]
                                ELSE CleanTurn(in, max_len, turn[k - 1])
  IN turn

sanitize_text(in, max_len) ==
  LET out == CleanTurns(in, max_len)[Len(in)].out
  IN IF out # <<>> /\ Last(out) = Space THEN Front(out) ELSE out

(* "/me" arrives wrapped in markers; there has to be room for both. *)
Unwrapped(text) ==
  IF Len(text) > Len(Action) /\ IsPrefix(Action, text) /\ Last(text) = Ctcp
  THEN SubSeq(text, Len(Action) + 1, Len(text) - 1) ELSE text

IsPing(line)    == line # <<>> /\ line[1] = Ping
IsMessage(line) ==
  line # <<>> /\ line[1] \in DOMAIN HeadOf /\ HeadOf[line[1]].command = "PRIVMSG"

(* The first tag of that key counts. *)
tag_value(tags, key, empty) ==
  LET at == SelectInSeq(tags, LAMBDA tag : tag.key = key)
  IN IF at = 0 THEN empty ELSE tags[at].value

(* The display name, or the login name if there is none. *)
ShownName(head) ==
  LET shown == tag_value(head.tags, "display-name", <<>>)
  IN IF shown = <<>> THEN head.login ELSE shown

(* Whatever stands in a tag or a prefix, a name is a string of bytes. *)
ASSUME NameAssumption == \A h \in DOMAIN HeadOf : ShownName(HeadOf[h]) \in Seq(Nat)

NameOf(head) == sanitize_text(ShownName(head), kMaxUserLen)

(* A symbol that stands in the text starts no character, and is dropped like a stray byte. *)
TextOf(line) == sanitize_text(Unwrapped(Tail(line)), kMaxTextLen)

MessageOf(line) ==
  LET head == HeadOf[line[1]]
  IN [user        |-> NameOf(head),
      text        |-> TextOf(line),
      highlighted |-> tag_value(head.tags, "msg-id", "") = "highlighted-message",
      privileged  |-> \/ tag_value(head.tags, "mod", "") = "1"
                      \/ "broadcaster" \in tag_value(head.tags, "badges", {})]

-----------------------------------------------------------------------------
(* handle_line: a PING is answered, a message is pushed unless its name or its text
   is empty. *)
handle_line(line) ==
  LET m == MessageOf(line)
  IN [pushed |-> IF IsMessage(line) /\ m.user # <<>> /\ m.text # <<>> THEN <<m>> ELSE <<>>,
      pongs  |-> IF IsPing(line) THEN 1 ELSE 0]

DropCR(line) == IF line # <<>> /\ Last(line) = CR THEN Front(line) ELSE line

(* run's loop over what has come: what its lines make handle_line do, and the line
   that is not complete yet. *)
Byte(s, b) ==
  LET done == handle_line(DropCR(s.line))
  IN IF b = LF
     THEN [line |-> <<>>, pushed |-> s.pushed \o done.pushed, pongs |-> s.pongs + done.pongs]
     ELSE [s EXCEPT !.line = Append(@, b)]

Unread == [line |-> <<>>, pushed |-> <<>>, pongs |-> 0]

Reading(in) ==
  LET after[k \in 0..Len(in)] == IF k = 0 THEN Unread ELSE Byte(after[k - 1], in[k])
  IN after

Read(in) == Reading(in)[Len(in)]

Kept_Nothing(line) == <<>>

(* A line that is never going to end is not kept forever. *)
Kept(line) == IF Len(line) > BufferLimit THEN <<>> ELSE line

Recv(chunk) ==
  /\ Len(arrived) + Len(chunk) <= MaxArrived
  /\ arrived' = arrived \o chunk
  /\ LET have == Read(buffer \o chunk)
     IN /\ pushed' = pushed \o have.pushed
        /\ pongs' = pongs + have.pongs
        /\ buffer' = Kept(have.line)

StreamNext == \E chunk \in Chunks : Recv(chunk)

-----------------------------------------------------------------------------
(* However the stream was cut into chunks, the game gets the messages that the
   whole stream holds when read at once, each once, in order and with the name and the
   flags of its own line, and every PING is answered - unless a line was longer than the
   buffer may be. *)
NoOverlongLine ==
  \A i \in 1..(Len(arrived) - BufferLimit) : \E j \in i..(i + BufferLimit) : arrived[j] = LF

Reassembled ==
  NoOverlongLine => pushed = Read(arrived).pushed /\ pongs = Read(arrived).pongs

(* What the panel is given, names and texts, are whole sequences of bytes - a first
   byte followed by as many continuations as it claims, never a part of them - within
   the buffer, without an ASCII control character, with single spaces between words and
   none around them.  Which character a sequence stands for, if any, is not looked at. *)
WholeSequences(s) ==
  \A i \in 1..Len(s) :
    IF IsContinuation(s[i])
    THEN \E k \in 1..3 : k < i /\ ~IsContinuation(s[i - k]) /\ Claimed(s[i - k]) > k
                         /\ \A j \in 1..(k - 1) : IsContinuation(s[i - j])
    ELSE /\ Claimed(s[i]) # 0
         /\ \A j \in 1..(Claimed(s[i]) - 1) : i + j <= Len(s) /\ IsContinuation(s[i + j])

Clean(s, max_len) ==
  /\ Len(s) \in 1..max_len /\ WholeSequences(s)
  /\ \A i \in 1..Len(s) : ~(s[i] < Space \/ s[i] = 127)
  /\ \A i \in 1..Len(s) : s[i] = Space => i \notin {1, Len(s)} /\ s[i - 1] # Space

CleanTexts ==
  \A m \in ToSet(pushed) : Clean(m.user, kMaxUserLen) /\ Clean(m.text, kMaxTextLen)
=============================================================================
