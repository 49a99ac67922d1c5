-------------------------------- MODULE Utf8 --------------------------------
(* UTF-8 as sanitize_text and build_blob both take it apart: a text is a
   sequence of bytes. *)
EXTENDS Integers, Sequences

IsContinuation(b) == b \in 128..191

(* How many bytes the character that starts with this byte claims; 0 for a byte
   that cannot start one. *)
Claimed(lead) == CASE lead < 128        -> 1
                   [] lead \in 192..223 -> 2
                   [] lead \in 224..239 -> 3
                   [] lead \in 240..247 -> 4
                   [] OTHER             -> 0
=============================================================================
