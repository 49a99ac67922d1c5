---------------------------- MODULE DialogueText ----------------------------
(***************************************************************************)
(* What speak.c makes of a chat message: speak_queue's request, with the   *)
(* character named in front and the text cut to its buffer, and the blob   *)
(* build_blob lays out for the game's dialogue loader.                     *)
(***************************************************************************)
EXTENDS Utf8, SequencesExt

CONSTANTS
  SPEAK_MAX_TEXT, SPEAK_MAX_WORD, SPEAK_TERMINATORS,
  SPEAK_MAX_PORTRAIT, FirstPortrait,    \* 0x6A and 0x0C
  PrefixWindow,                         \* 24: how far a "name:" is looked for
  IntRange,                             \* 2^32: an int wraps there
  kPortraits                            \* the portrait of each lower-case name

ASSUME TextAssumption ==
  /\ {SPEAK_MAX_WORD, SPEAK_TERMINATORS} \subseteq Nat \ {0}
  /\ SPEAK_MAX_TEXT \in 2..255
  /\ FirstPortrait \in Nat /\ SPEAK_MAX_PORTRAIT \in FirstPortrait..(FirstPortrait + 127)
  /\ \A name \in DOMAIN kPortraits : kPortraits[name] \in FirstPortrait..SPEAK_MAX_PORTRAIT

SPEAK_BLOB_SIZE == 1 + 3 * SPEAK_TERMINATORS + 2 + SPEAK_MAX_TEXT + 3 * SPEAK_TERMINATORS + 8

Blank  == 32
Colon  == 58
Hash   == 35
Digits == 48..57

-----------------------------------------------------------------------------
(* The request. *)

Lower(b) == IF b \in 65..90 THEN b + 32 ELSE b
Upper(b) == IF b \in 97..122 THEN b - 32 ELSE b

NoPortrait == -1

(* An int of that width keeps the digits' value only modulo its range. *)
AsInt(v) == ((v + IntRange \div 2) % IntRange) - IntRange \div 2

Value(digits) == FoldLeft(LAMBDA v, d : AsInt((v * 10) + (d - 48)), 0, digits)

(* "#97" is a portrait by its index, anything else by its name. *)
speak_lookup_portrait(name) ==
  LET digits == Tail(name)
      folded == [i \in 1..Len(name) |-> Lower(name[i])]
  IN IF name # <<>> /\ name[1] = Hash
     THEN IF /\ digits # <<>> /\ ToSet(digits) \subseteq Digits
             /\ Value(digits) \in FirstPortrait..SPEAK_MAX_PORTRAIT
          THEN Value(digits) ELSE NoPortrait
     ELSE IF folded \in DOMAIN kPortraits THEN kPortraits[folded] ELSE NoPortrait

WithoutLeadingSpaces(s) ==
  LET word == SelectInSeq(s, LAMBDA b : b # Blank)
  IN IF word = 0 THEN <<>> ELSE SubSeq(s, word, Len(s))

Cut(s) == SubSeq(s, 1, IF Len(s) < SPEAK_MAX_TEXT THEN Len(s) ELSE SPEAK_MAX_TEXT - 1)

(* speak_queue up to the ring: who speaks and what, body = <<>> if nothing is queued. *)
RequestFor(user, text, default_portrait, show_name) ==
  LET colon == SelectInSeq(text, LAMBDA b : b = Colon)
      found == IF colon \in 1..PrefixWindow
               THEN speak_lookup_portrait(SubSeq(text, 1, colon - 1)) ELSE NoPortrait
      body  == IF found = NoPortrait THEN text
               ELSE WithoutLeadingSpaces(SubSeq(text, colon + 1, Len(text)))
  IN [portrait |-> IF found = NoPortrait THEN default_portrait ELSE found,
      body     |-> body,
      text     |-> IF show_name THEN Cut(user \o <<Colon, Blank>> \o body) ELSE Cut(body)]

-----------------------------------------------------------------------------
(* The font's characters. *)

(* kLatin1 and kLatinExtA by their runs: the first code point of each run of one
   letter.  The second half of Latin-1 repeats the first but for its last letter. *)
LatinRuns == <<
  <<192, 65>>, <<199, 67>>, <<200, 69>>, <<204, 73>>, <<208, 68>>, <<209, 78>>, <<210, 79>>,
  <<215, 120>>, <<216, 79>>, <<217, 85>>, <<221, 89>>, <<222, 80>>, <<223, 83>>,
  <<224, 65>>, <<231, 67>>, <<232, 69>>, <<236, 73>>, <<240, 68>>, <<241, 78>>, <<242, 79>>,
  <<247, 120>>, <<248, 79>>, <<249, 85>>, <<253, 89>>, <<254, 80>>, <<255, 89>>,
  <<256, 65>>, <<262, 67>>, <<270, 68>>, <<274, 69>>, <<284, 71>>, <<292, 72>>, <<296, 73>>,
  <<308, 74>>, <<310, 75>>, <<313, 76>>, <<323, 78>>, <<332, 79>>, <<340, 82>>, <<346, 83>>,
  <<354, 84>>, <<360, 85>>, <<372, 87>>, <<374, 89>>, <<377, 90>>, <<383, 83>> >>

Letter(cp) == LatinRuns[SelectLastInSeq(LatinRuns, LAMBDA run : run[1] <= cp)][2]

Undrawable == 0

ascii_fold(cp) ==
  CASE cp \in 32..126           -> cp
    [] cp \in 192..383          -> Letter(cp)
    [] cp \in {8216, 8217}      -> 39       \* curly quotes, dashes, the ellipsis
    [] cp \in {8220, 8221}      -> 34
    [] cp \in {8211, 8212}      -> 45
    [] cp = 8230                -> 46
    [] cp = 160                 -> Blank
    [] OTHER                    -> Undrawable

(* The bits of a first byte that belong to the code point. *)
LeadBits(lead) == lead % (CASE Claimed(lead) = 1 -> 128 [] Claimed(lead) = 2 -> 32
                            [] Claimed(lead) = 3 -> 16  [] OTHER             -> 8)

(* How many bytes the character there takes: itself and the continuation bytes that
   are there. *)
Taken_OneShort(s, at) ==
  LET more == {k \in 1..(Claimed(s[at]) - 1) :
                 at + k - 1 <= Len(s) /\ \A j \in 1..(k - 1) : IsContinuation(s[at + j])}
  IN IF Claimed(s[at]) <= 1 THEN 1 ELSE Cardinality(more)

Taken(s, at) ==
  LET more == {k \in 1..Claimed(s[at]) :
                 at + k - 1 <= Len(s) /\ \A j \in 1..(k - 1) : IsContinuation(s[at + j])}
  IN IF Claimed(s[at]) = 0 THEN 1 ELSE Cardinality(more)

CodePoint(char) == FoldLeft(LAMBDA cp, b : (cp * 64) + (b % 64), LeadBits(char[1]), Tail(char))

(* What is drawn for the bytes of a character. *)
Glyph(char) == IF Claimed(char[1]) = 0 THEN Undrawable ELSE Upper(ascii_fold(CodePoint(char)))

NeedsBreak_OffByOne(run) == run > SPEAK_MAX_WORD

(* The game wraps only at a space. *)
NeedsBreak(run) == run >= SPEAK_MAX_WORD

NoRoom(out) == Len(out) >= SPEAK_MAX_TEXT - 1

(* A turn of build_blob's loop: where it is in the text, what has been written, and
   how long the word at its end is. *)
DrawTurn(s, d) ==
  LET n == Taken(s, d.at)
      c == Glyph(SubSeq(s, d.at, d.at + n - 1))
      Go(out, run) == [at |-> d.at + n, out |-> out, run |-> run]
      ended == d.at > Len(s) \/ NoRoom(d.out)
  IN CASE ended                                       -> d
       [] ~ended /\ c = Undrawable                    -> Go(d.out, d.run)
       [] ~ended /\ c = Blank                         -> Go(Append(d.out, Blank), 0)
       [] ~ended /\ c \notin {Undrawable, Blank} /\ ~NeedsBreak(d.run) ->
            Go(Append(d.out, c), d.run + 1)
       [] OTHER -> IF NoRoom(Append(d.out, Blank)) THEN Go(Append(d.out, Blank), 0)
                   ELSE Go(d.out \o <<Blank, c>>, 1)

DrawTurns(s) ==
  LET turn[k \in 0..Len(s)] == IF k = 0 THEN [at |-> 1, out |-> <<>>, run |-> 0]
                               ELSE DrawTurn(s, turn[k - 1])
  IN turn

Drawn(s) == DrawTurns(s)[Len(s)].out

Closes == [j \in 1..(3 * SPEAK_TERMINATORS) |-> <<4, 1, 0>>[((j - 1) % 3) + 1]]

(* build_blob: an empty bottom box, then the top box with the text. *)
build_blob(text, portrait) ==
  LET out == Drawn(text)
  IN <<SPEAK_TERMINATORS>> \o Closes
       \o <<1 + SPEAK_TERMINATORS, ((portrait - FirstPortrait) % 128) + 128, (Len(out) + 1) % 256>>
       \o out \o <<0>> \o Closes

(* What speak_tick opens a box for. *)
Visible(text) == \E i \in 1..Len(Drawn(text)) : Drawn(text)[i] # Blank

-----------------------------------------------------------------------------
(* The blob is one the game's loader can walk: two boxes whose entries end where
   their lengths say, the text within its buffer, only characters of the font in it
   and no word that the wrapping could not break, a portrait that is the requested
   one, and closing entries behind it all. *)
FontCharacters == (32..126) \ (97..122)

WellFormed(blob, portrait) ==
  LET top  == 2 + 3 * blob[1]                  \* the count of the top box
      text == SubSeq(blob, top + 3, top + 1 + blob[top + 2])
  IN /\ Len(blob) <= SPEAK_BLOB_SIZE
     /\ SubSeq(blob, 2, top - 1) = Closes
     /\ blob[top] = 1 + SPEAK_TERMINATORS
     /\ blob[top + 1] >= 128 /\ blob[top + 1] - 128 + FirstPortrait = portrait
     /\ portrait \in FirstPortrait..SPEAK_MAX_PORTRAIT
     /\ SubSeq(blob, top + 3, Len(blob)) = text \o <<0>> \o Closes
     /\ ToSet(text) \subseteq FontCharacters /\ Len(text) < SPEAK_MAX_TEXT
     /\ \A i \in 1..(Len(text) - SPEAK_MAX_WORD) :
          \E j \in i..(i + SPEAK_MAX_WORD) : text[j] = Blank

(* The text a reader of the box expects, character by character: each goes from its
   first byte to before the next first byte. *)
CharacterAt(s, i) ==
  LET next == {j \in (i + 1)..Len(s) : ~IsContinuation(s[j])}
  IN SubSeq(s, i, IF next = {} THEN Len(s) ELSE Min(next) - 1)

Glyphs(s) ==
  [i \in 1..Len(s) |-> IF IsContinuation(s[i]) THEN Undrawable ELSE Glyph(CharacterAt(s, i))]

(* What is to be seen of that: neither blanks nor what has no stand-in. *)
Seeing(s) ==
  LET seen[k \in 0..Len(s)] == IF k = 0 THEN <<>>
                               ELSE IF s[k] \in {Undrawable, Blank} THEN seen[k - 1]
                               ELSE Append(seen[k - 1], s[k])
  IN seen

Seen(s) == Seeing(s)[Len(s)]
=============================================================================
