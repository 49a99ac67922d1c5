---------------------------- MODULE SpeechQueue ----------------------------
(***************************************************************************)
(* The way of a chat message: the reader's stream, the request and the     *)
(* blob that are made of it, and the ring it waits in.  The ring holds     *)
(* requests whatever they say, and the reader knows nothing of the ring.   *)
(***************************************************************************)
EXTENDS RequestRing, ChatStream, DialogueText

CONSTANT sDefaultPortrait       \* who speaks a message that names nobody

ASSUME PortraitAssumption == sDefaultPortrait \in FirstPortrait..SPEAK_MAX_PORTRAIT

TextBox(show_name, m) == RequestFor(m.user, m.text, sDefaultPortrait, show_name)

SpeechInit == Init /\ StreamInit

SpeechNext == \/ Next /\ UNCHANGED streamVars
              \/ StreamNext /\ UNCHANGED vars

SpeechSpec == SpeechInit /\ [][SpeechNext]_<<vars, streamVars>>

-----------------------------------------------------------------------------
(* Every message that is queued gets a blob the game's loader can walk, whoever
   speaks it and however it is cut. *)
BlobWellFormed ==
  \A m \in ToSet(pushed), show_name \in BOOLEAN :
    LET r == TextBox(show_name, m)
    IN r.body # <<>> => WellFormed(build_blob(r.text, r.portrait), r.portrait)

(* The box shows what was written, each character by its stand-in and in order, up
   to what its buffer holds - if the buffer did not end within a character. *)
BoxShowsText ==
  \A m \in ToSet(pushed), show_name \in BOOLEAN :
    LET r     == TextBox(show_name, m)
        whole == IF show_name THEN m.user \o <<Colon, Blank>> \o r.body ELSE r.body
        shown == Drawn(r.text)
    IN WholeSequences(r.text) =>
         /\ IsPrefix(Seen(shown), Seen(Glyphs(whole)))
         /\ Len(shown) < SPEAK_MAX_TEXT - 1 /\ r.text = whole => Seen(shown) = Seen(Glyphs(whole))
=============================================================================
