------------------------------- MODULE Textmode -------------------------------
(***************************************************************************)
(* The text-mode display, drivers/display/textmode.c: the rows of cells in *)
(* VGA memory and the cursor.                                              *)
(*                                                                         *)
(* VGA memory is larger than the screen.  textmode_scrollup() reads and    *)
(* writes rows behind the last visible one, so the model has two of them.  *)
(***************************************************************************)
EXTENDS Integers, Sequences

CONSTANTS
    TEXTMODE_WIDTH,   \* 80
    TEXTMODE_HEIGHT,  \* 25
    Letters,          \* printable characters below 0x80
    HighLetters,      \* characters from 0x80 on, negative as `char`
    Junk,             \* a cell the machine left in VGA memory before the kernel
    OffScreenCells,   \* what the rows behind the screen may hold at boot
    MaxText           \* bound: characters printed

ASSUME TextmodeAssumption ==
    /\ TEXTMODE_WIDTH \in Nat \ {0}
    /\ TEXTMODE_HEIGHT \in Nat \ {0, 1}
    /\ MaxText \in Nat

Newline == "newline"
NUL == "NUL"
Space == "space"

Chars == Letters \cup HighLetters \cup {Newline, NUL}

Columns == 0 .. (TEXTMODE_WIDTH - 1)
Rows == 0 .. (TEXTMODE_HEIGHT - 1)
VgaRows == 0 .. (TEXTMODE_HEIGHT + 1)

\* The colour byte is white on black; `c` is sign-extended before it is added,
\* and the sign of a high character makes all ones of it.
textmode_create_entry(c) ==
    [char |-> c,
     colour |-> IF c \in HighLetters THEN "all ones" ELSE "white on black"]

Blank == textmode_create_entry(Space)

Cells == {Junk} \cup
         {textmode_create_entry(c) : c \in Letters \cup HighLetters \cup {Space}}

VARIABLES
    vram,    \* the cells, by row and column
    cx, cy,  \* display.console.cx and cy
    cursor,  \* the position last programmed into the CRT controller
    text     \* history: the characters printed since the screen was cleared

vars == <<vram, cx, cy, cursor, text>>

TypeOK ==
    /\ vram \in [VgaRows -> [Columns -> Cells]]
    /\ cx \in 0 .. TEXTMODE_WIDTH
    /\ cy \in 0 .. (TEXTMODE_HEIGHT - 2)
    /\ cursor \in 0 .. (TEXTMODE_HEIGHT * TEXTMODE_WIDTH)
    /\ text \in Seq(Chars)

BlankRow == [x \in Columns |-> Blank]

\* kernel_main() clears the display before anything is printed (main.c:43-45).
\* textmode_clear() writes the visible rows and leaves the hardware cursor.
textmode_clear ==
    /\ vram' = [y \in VgaRows |-> IF y \in Rows THEN BlankRow ELSE vram[y]]
    /\ cx' = 0
    /\ cy' = 0
    /\ text' = <<>>
    /\ UNCHANGED cursor

Init ==
    /\ \E c \in OffScreenCells :
          vram = [y \in VgaRows |->
                     IF y \in Rows THEN BlankRow ELSE [x \in Columns |-> c]]
    /\ cx = 0
    /\ cy = 0
    /\ cursor \in 0 .. (TEXTMODE_HEIGHT * TEXTMODE_WIDTH - 1)
    /\ text = <<>>

-------------------------------------------------------------------------------
(***************************************************************************)
(* Printing.                                                               *)
(***************************************************************************)

\* Mutant: the last row is not moved up.
ScrolledButLast(v) ==
    [y \in VgaRows |-> IF y < TEXTMODE_HEIGHT - 2 THEN v[y + 1]
                       ELSE IF y < TEXTMODE_HEIGHT THEN v[y] ELSE BlankRow]

\* The rows move up by one, the first one behind the screen among them; then
\* memset16() gets a count of bytes for words and clears two rows.
Scrolled(v) ==
    [y \in VgaRows |-> IF y < TEXTMODE_HEIGHT THEN v[y + 1] ELSE BlankRow]

\* The cursor after the line break that printing c at (cx, cy) may need.
BreaksLine(c) == cx >= TEXTMODE_WIDTH \/ c = Newline

ColumnFor(c) == IF BreaksLine(c) THEN 0 ELSE cx
RowFor(c) == IF BreaksLine(c) THEN cy + 1 ELSE cy

\* Mutant: the screen scrolls one row too late.
ScrollsLate(c) == RowFor(c) >= TEXTMODE_HEIGHT

Scrolls(c) == RowFor(c) >= TEXTMODE_HEIGHT - 1

RowAfter(c) == IF Scrolls(c) THEN RowFor(c) - 1 ELSE RowFor(c)
VramAfter(c) == IF Scrolls(c) THEN Scrolled(vram) ELSE vram

\* A newline does not move the hardware cursor.
PutNewline ==
    /\ vram' = VramAfter(Newline)
    /\ cx' = 0
    /\ cy' = RowAfter(Newline)
    /\ UNCHANGED cursor

\* Mutant: the cursor is programmed before the column advances.
PutCharCursorFirst(c) ==
    /\ vram' = [VramAfter(c) EXCEPT ![RowAfter(c)][ColumnFor(c)] =
                   textmode_create_entry(c)]
    /\ cx' = ColumnFor(c) + 1
    /\ cy' = RowAfter(c)
    /\ cursor' = RowAfter(c) * TEXTMODE_WIDTH + ColumnFor(c)

PutChar(c) ==
    /\ vram' = [VramAfter(c) EXCEPT ![RowAfter(c)][ColumnFor(c)] =
                   textmode_create_entry(c)]
    /\ cx' = ColumnFor(c) + 1
    /\ cy' = RowAfter(c)
    /\ cursor' = RowAfter(c) * TEXTMODE_WIDTH + ColumnFor(c) + 1

textmode_putc(c) ==
    /\ text' = Append(text, c)
    /\ \/ c = NUL /\ UNCHANGED <<vram, cx, cy, cursor>>
       \/ c = Newline /\ PutNewline
       \/ c \notin {NUL, Newline} /\ PutChar(c)

Next ==
    \/ Len(text) < MaxText /\ \E c \in Chars : textmode_putc(c)
    \/ textmode_clear

Spec == Init /\ [][Next]_vars

-------------------------------------------------------------------------------
(***************************************************************************)
(* Properties.                                                             *)
(***************************************************************************)

\* Breaking text into lines, the way a terminal of this width does: before
\* the character that no longer fits, and at a newline.  The last line is the
\* one being printed.
LinesAfter(lines, c) ==
    LET last == lines[Len(lines)]
    IN  CASE c = NUL -> lines
          [] c = Newline -> Append(lines, <<>>)
          [] c \notin {NUL, Newline} /\ Len(last) >= TEXTMODE_WIDTH ->
               Append(lines, <<c>>)
          [] c \notin {NUL, Newline} /\ Len(last) < TEXTMODE_WIDTH ->
               [lines EXCEPT ![Len(lines)] = Append(last, c)]

LinesOf[t \in Seq(Chars)] ==
    IF t = <<>> THEN << <<>> >>
    ELSE LinesAfter(LinesOf[SubSeq(t, 1, Len(t) - 1)], t[Len(t)])

\* The cell that row y, column x of the screen should show: the last lines
\* that fit above the bottom row, which stays empty.
ShownCell(lines, y, x) ==
    LET hidden == IF Len(lines) > TEXTMODE_HEIGHT - 1
                  THEN Len(lines) - (TEXTMODE_HEIGHT - 1) ELSE 0
        n == hidden + y + 1
    IN  IF y < TEXTMODE_HEIGHT - 1 /\ n <= Len(lines) /\ x < Len(lines[n])
        THEN lines[n][x + 1] ELSE Space

\* The screen shows the last lines of what was printed, whatever wrapping and
\* scrolling it took, and nothing else (textmode.c:72-100).
ScreenShowsText ==
    LET lines == LinesOf[text]
    IN  \A y \in Rows, x \in Columns :
            vram[y][x].char = ShownCell(lines, y, x)

\* Once a visible character is printed, the hardware cursor stands right
\* behind it, and the screen is blank from there on (textmode.c:88-99).
CursorBehindText ==
    LET Shown(pos) ==
            vram[pos \div TEXTMODE_WIDTH][pos % TEXTMODE_WIDTH].char
    IN  text # <<>> /\ text[Len(text)] \notin {NUL, Newline} =>
            /\ cursor >= 1 /\ Shown(cursor - 1) = text[Len(text)]
            /\ \A pos \in cursor .. (TEXTMODE_HEIGHT * TEXTMODE_WIDTH - 1) :
                  Shown(pos) = Space
===============================================================================
