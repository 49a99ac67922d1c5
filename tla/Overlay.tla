------------------------------- MODULE Overlay -------------------------------
(***************************************************************************)
(* src/overlay.c: the chat panel.  A ring keeps the last lines next to the *)
(* rows of the user interface, so that a change of the settings can lay    *)
(* the rows out again; a status line takes the place of both.              *)
(*                                                                         *)
(* A line is whatever overlay_push_line was given.  Fonts, colours, sizes  *)
(* and the corner are left out; of OverlaySettings only line_count says    *)
(* which lines are seen.                                                   *)
(***************************************************************************)
EXTENDS Integers, Sequences

CONSTANTS
  MaxLines,        \* OVERLAY_MAX_LINES
  Lines,           \* what can be pushed
  Blank, Status    \* a row without a text, and one with the status text

ASSUME MaxLinesAssumption == MaxLines \in Nat \ {0}
ASSUME RowsAssumption == Blank # Status /\ {Blank, Status} \cap Lines = {}

VARIABLES
  created,         \* sContext is not null
  sLines, sUsed,   \* the ring (sUsers, sTexts, sColors) and the count of lines pushed
  lineCount,       \* sSettings.line_count
  rows,            \* the text of each row, displayed or not
  sShown,
  log              \* history: the lines pushed since the last status, the last MaxLines

panelVars   == <<created, sLines, sUsed, lineCount, rows, log>>
overlayVars == <<panelVars, sShown>>

Slots == 0..(MaxLines - 1)

OverlayTypeOK ==
  /\ created \in BOOLEAN /\ sShown \in BOOLEAN
  /\ sLines \in [Slots -> Lines \cup {Blank}]
  /\ sUsed \in 0..(2 * MaxLines - 1)
  /\ lineCount \in 0..MaxLines
  /\ rows \in [1..MaxLines -> Lines \cup {Blank, Status}]
  /\ log \in Seq(Lines) /\ Len(log) <= MaxLines

OverlayInit ==
  /\ created = FALSE /\ sShown = FALSE /\ sUsed = 0 /\ lineCount = 0 /\ log = <<>>
  /\ sLines = [s \in Slots |-> Blank] /\ rows = [i \in 1..MaxLines |-> Blank]

Clamp(n) == CASE n < 1 -> 1 [] n > MaxLines -> MaxLines [] OTHER -> n

(* refresh_rows_locked: the newest lines, as many as there are rows for; the rows
   past lineCount, which are not displayed, keep what they had. *)
FirstShown_Ring(used, count) == IF used < MaxLines THEN 0 ELSE used - MaxLines

FirstShown(used, count) == IF used < count THEN 0 ELSE used - count

Refreshed(used, lines, count) ==
  LET line(i) == FirstShown(used, count) + i - 1
  IN  [i \in 1..MaxLines |-> CASE i > count      -> rows[i]
                               [] line(i) < used -> lines[line(i) % MaxLines]
                               [] OTHER          -> Blank]

(* The operations on the panel leave sShown to overlay_show and overlay_hide. *)
overlay_create(n) ==
  /\ created' = TRUE /\ lineCount' = Clamp(n)
  /\ rows' = Refreshed(sUsed, sLines, Clamp(n))
  /\ UNCHANGED <<sLines, sUsed, log>>

overlay_apply_settings(n) ==
  /\ lineCount' = Clamp(n)
  /\ rows' = Refreshed(sUsed, sLines, Clamp(n))
  /\ UNCHANGED <<created, sLines, sUsed, log>>

(* sUsed counts on for ever in the code; from MaxLines on only its value modulo
   MaxLines is looked at, which is what this keeps. *)
Counted(used) == IF used = 2 * MaxLines - 1 THEN MaxLines ELSE used + 1

overlay_push_line(l) ==
  LET lines == [sLines EXCEPT ![sUsed % MaxLines] = l]
      all   == Append(log, l)
  IN  /\ sLines' = lines /\ sUsed' = Counted(sUsed)
      /\ rows' = Refreshed(sUsed + 1, lines, lineCount)
      /\ log' = IF Len(all) > MaxLines THEN Tail(all) ELSE all
      /\ UNCHANGED <<created, lineCount>>

overlay_set_status ==
  /\ sUsed' = 0 /\ log' = <<>>
  /\ rows' = [i \in 1..MaxLines |-> IF i = 1 THEN Status ELSE Blank]
  /\ UNCHANGED <<created, sLines, lineCount>>

overlay_show == sShown' = TRUE
overlay_hide == sShown' = FALSE

(* The rows on screen are the newest lines pushed since the last status, oldest
   first, whatever line_count became in between; the ring never shows a line that
   was overwritten or one from before the status. *)
ShownIsNewest ==
  LET shown == IF Len(log) < lineCount THEN Len(log) ELSE lineCount
  IN  log # <<>> =>
        \A i \in 1..lineCount :
          rows[i] = IF i <= shown THEN log[Len(log) - shown + i] ELSE Blank
=============================================================================
