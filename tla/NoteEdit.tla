-------------------------------- MODULE NoteEdit --------------------------------
(***************************************************************************)
(* The text buffer of both editors (kernel/noteedit.c): loading, saving,   *)
(* and what a key does.  A character is anything but the end of a line.    *)
(*                                                                         *)
(* Next to some definitions stands a variant with a slip in it; nothing    *)
(* uses the variants except the runs that show a property would notice.    *)
(***************************************************************************)
EXTENDS Integers, Sequences, SequencesExt

CONSTANTS MaxLines,   \* NOTE_MAX_LINES
          MaxLineLen  \* NOTE_MAX_LINE_LEN, the terminating zero included

NL == "\n"
Arrows == {"left", "right", "up", "down"}

Buffer(lines, line, col) == [lines |-> lines, line |-> line, col |-> col]
Line(nb) == nb.lines[nb.line]
AtMost(a, b) == IF a < b THEN a ELSE b

(* A line too many is begun in the place after the last: the loop ends,    *)
(* but the code after it writes there.                                     *)
note_load(file) ==
    LET add(nb, c) ==
          IF nb.line > MaxLines THEN nb
          ELSE IF c = NL THEN Buffer(Append(nb.lines, <<>>), nb.line + 1, 0)
          ELSE IF nb.col < MaxLineLen - 1
          THEN [nb EXCEPT !.lines[nb.line] = Append(@, c), !.col = @ + 1]
          ELSE nb
    IN  FoldLeft(add, Buffer(<< <<>> >>, 1, 0), file)

(* Every line but the last is followed by its end.  The code's output      *)
(* buffer is larger than the longest text.                                 *)
EveryLineEnded(nb, i) == TRUE
LineEnded(nb, i) == i < Len(nb.lines)

note_save(nb) ==
    FlattenSeq([i \in DOMAIN nb.lines |->
                   IF LineEnded(nb, i) THEN Append(nb.lines[i], NL) ELSE nb.lines[i]])

(* What is left of the line when Enter is pressed, and what goes on        *)
SplitKeepsTail(nb) == Line(nb)
SplitHead(nb) == SubSeq(Line(nb), 1, nb.col)

Enter(nb) ==
    IF Len(nb.lines) >= MaxLines THEN nb
    ELSE Buffer(InsertAt([nb.lines EXCEPT ![nb.line] = SplitHead(nb)], nb.line + 1,
                         SubSeq(Line(nb), nb.col + 1, Len(Line(nb)))),
                nb.line + 1, 0)

Backspace(nb) ==
    IF nb.col > 0 THEN [nb EXCEPT !.lines[nb.line] = RemoveAt(@, nb.col), !.col = @ - 1]
    ELSE IF nb.line > 1 /\ Len(nb.lines[nb.line - 1]) + Len(Line(nb)) < MaxLineLen
    THEN Buffer(RemoveAt([nb.lines EXCEPT ![nb.line - 1] = @ \o Line(nb)], nb.line),
                nb.line - 1, Len(nb.lines[nb.line - 1]))
    ELSE nb

ToLine(nb, l) == [nb EXCEPT !.line = l, !.col = AtMost(@, Len(nb.lines[l]))]

Move(nb, key) ==
    CASE key = "left" /\ nb.col > 0 -> [nb EXCEPT !.col = @ - 1]
      [] key = "left" /\ nb.col = 0 /\ nb.line > 1 -> Buffer(nb.lines, nb.line - 1, Len(nb.lines[nb.line - 1]))
      [] key = "right" /\ nb.col < Len(Line(nb)) -> [nb EXCEPT !.col = @ + 1]
      [] key = "right" /\ nb.col >= Len(Line(nb)) /\ nb.line < Len(nb.lines) -> Buffer(nb.lines, nb.line + 1, 0)
      [] key = "up" /\ nb.line > 1 -> ToLine(nb, nb.line - 1)
      [] key = "down" /\ nb.line < Len(nb.lines) -> ToLine(nb, nb.line + 1)
      [] OTHER -> nb

Insert(nb, c) ==
    IF Len(Line(nb)) < MaxLineLen - 1
    THEN [nb EXCEPT !.lines[nb.line] = InsertAt(@, nb.col + 1, c), !.col = @ + 1]
    ELSE nb

note_handle_key(nb, key) ==
    CASE key = NL -> Enter(nb)
      [] key = "backspace" -> Backspace(nb)
      [] key \in Arrows -> Move(nb, key)
      [] OTHER -> Insert(nb, key)
=============================================================================
