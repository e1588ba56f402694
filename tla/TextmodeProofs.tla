---------------------------- MODULE TextmodeProofs ----------------------------
(***************************************************************************)
(* The cursor stays on the screen, every cell textmode_putc() writes is a  *)
(* visible one, and the screen shows the end of what was printed, for      *)
(* screens of every size and texts of any length.                          *)
(***************************************************************************)
EXTENDS Textmode, SequenceTheorems, WellFoundedInduction, TLAPS

USE DEF Columns, Rows, VgaRows

LEMMA EntryIsCell ==
    ASSUME NEW c \in Letters \cup HighLetters \cup {Space}
    PROVE  textmode_create_entry(c) \in Cells
BY DEF Cells

\* Scrolling keeps a well-formed VGA memory.
LEMMA ScrolledType ==
    ASSUME TextmodeAssumption, NEW v \in [VgaRows -> [Columns -> Cells]]
    PROVE  Scrolled(v) \in [VgaRows -> [Columns -> Cells]]
<1>1. BlankRow \in [Columns -> Cells]
  BY EntryIsCell DEF BlankRow, Blank
<1>2. \A y \in VgaRows : y < TEXTMODE_HEIGHT => y + 1 \in VgaRows
  BY DEF TextmodeAssumption
<1> QED
  BY <1>1, <1>2 DEF Scrolled

\* After the line break and the scrolling that a character may need there is
\* room for it: this is where the order of the two tests matters
\* (textmode.c:77-86).
LEMMA PlaceForCharacter ==
    ASSUME TextmodeAssumption, TypeOK, NEW c \in Chars
    PROVE  /\ ColumnFor(c) \in Columns
           /\ RowAfter(c) \in 0 .. (TEXTMODE_HEIGHT - 2)
           /\ VramAfter(c) \in [VgaRows -> [Columns -> Cells]]
<1>1. ColumnFor(c) \in Columns
  BY DEF TypeOK, TextmodeAssumption, ColumnFor, BreaksLine
<1>2. RowAfter(c) \in 0 .. (TEXTMODE_HEIGHT - 2)
  BY DEF TypeOK, TextmodeAssumption, RowAfter, Scrolls, RowFor
<1>3. VramAfter(c) \in [VgaRows -> [Columns -> Cells]]
  BY ScrolledType DEF TypeOK, VramAfter
<1> QED
  BY <1>1, <1>2, <1>3

LEMMA InitTypeOK ==
    ASSUME TextmodeAssumption, OffScreenCells \subseteq Cells, Init
    PROVE  TypeOK
<1>1. BlankRow \in [Columns -> Cells]
  BY EntryIsCell DEF BlankRow, Blank
<1>2. vram \in [VgaRows -> [Columns -> Cells]]
  BY <1>1 DEF Init
<1>3. cursor \in 0 .. (TEXTMODE_HEIGHT * TEXTMODE_WIDTH)
  BY DEF Init, TextmodeAssumption
<1> QED
  BY <1>2, <1>3 DEF Init, TypeOK, TextmodeAssumption

LEMMA StepTypeOK ==
    ASSUME TextmodeAssumption, TypeOK, [Next]_vars
    PROVE  TypeOK'
<1>1. ASSUME NEW c \in Chars, textmode_putc(c)
      PROVE  TypeOK'
  <2>1. text' \in Seq(Chars)
    BY <1>1 DEF textmode_putc, TypeOK
  <2>2. CASE c = NUL /\ UNCHANGED <<vram, cx, cy, cursor>>
    BY <2>1, <2>2 DEF TypeOK
  <2>3. CASE PutNewline /\ c = Newline
    BY <2>1, <2>3, PlaceForCharacter DEF PutNewline, TypeOK, TextmodeAssumption
  <2>4. CASE PutChar(c) /\ c \notin {NUL, Newline}
    <3>1. textmode_create_entry(c) \in Cells
      BY <2>4, EntryIsCell DEF Chars
    <3>2. RowAfter(c) \in VgaRows /\ ColumnFor(c) \in Columns
      BY PlaceForCharacter DEF TextmodeAssumption
    <3>3. vram' \in [VgaRows -> [Columns -> Cells]]
      BY <2>4, <3>1, <3>2, PlaceForCharacter DEF PutChar
    <3>4. cx' \in 0 .. TEXTMODE_WIDTH /\ cy' \in 0 .. (TEXTMODE_HEIGHT - 2)
      BY <2>4, PlaceForCharacter DEF PutChar, TextmodeAssumption
    <3>5. cursor' \in 0 .. (TEXTMODE_HEIGHT * TEXTMODE_WIDTH)
      <4> DEFINE r == RowAfter(c)
                 k == ColumnFor(c)
      <4>1. /\ r \in Nat /\ k \in Nat /\ k + 1 <= TEXTMODE_WIDTH
            /\ r + 1 <= TEXTMODE_HEIGHT
            /\ TEXTMODE_WIDTH \in Nat /\ TEXTMODE_HEIGHT \in Nat
        BY PlaceForCharacter DEF TextmodeAssumption
      <4>2. cursor' = r * TEXTMODE_WIDTH + k + 1
        BY <2>4 DEF PutChar
      <4> HIDE DEF r, k
      <4>3. (r + 1) * TEXTMODE_WIDTH <= TEXTMODE_HEIGHT * TEXTMODE_WIDTH
        BY <4>1
      <4>4. (r + 1) * TEXTMODE_WIDTH = r * TEXTMODE_WIDTH + TEXTMODE_WIDTH
        BY <4>1
      <4>5. /\ r * TEXTMODE_WIDTH \in Nat
            /\ TEXTMODE_HEIGHT * TEXTMODE_WIDTH \in Nat
            /\ (r + 1) * TEXTMODE_WIDTH \in Nat
        BY <4>1
      <4> QED
        BY <4>1, <4>2, <4>3, <4>4, <4>5
    <3> QED
      BY <2>1, <3>3, <3>4, <3>5 DEF TypeOK
  <2> QED
    BY <1>1, <2>2, <2>3, <2>4 DEF textmode_putc
<1>2. ASSUME textmode_clear
      PROVE  TypeOK'
  <2>1. BlankRow \in [Columns -> Cells]
    BY EntryIsCell DEF BlankRow, Blank
  <2>2. vram' \in [VgaRows -> [Columns -> Cells]]
    BY <1>2, <2>1 DEF textmode_clear, TypeOK
  <2> QED
    BY <1>2, <2>2 DEF textmode_clear, TypeOK, TextmodeAssumption
<1>3. CASE UNCHANGED vars
  BY <1>3 DEF vars, TypeOK
<1> QED
  BY <1>1, <1>2, <1>3 DEF Next

\* On a screen of any size, with any text and after any number of line breaks
\* and scrolls, the place the next character goes to is on the screen and VGA
\* memory is only written where it has cells (textmode.c:71-100).
THEOREM StaysOnScreen ==
    ASSUME TextmodeAssumption, OffScreenCells \subseteq Cells
    PROVE  Spec => []TypeOK
<1>1. Init => TypeOK
  BY InitTypeOK
<1>2. TypeOK /\ [Next]_vars => TypeOK'
  BY StepTypeOK
<1> QED
  BY <1>1, <1>2, PTL DEF Spec

HIDE DEF Columns, Rows, VgaRows

-------------------------------------------------------------------------------
(***************************************************************************)
(* Induction over the numbers, from the order on them.                     *)
(***************************************************************************)
LessThan == {p \in Nat \X Nat : p[1] < p[2]}

\* What holds of 0, and of n + 1 whenever of n, holds of every number: a set
\* of numbers that misses one misses a least one.
LEMMA Induction ==
    ASSUME NEW S, 0 \in S, \A n \in Nat : n \in S => n + 1 \in S
    PROVE  Nat \subseteq S
<1> DEFINE Missed == {n \in Nat : n \notin S}
<1> SUFFICES ASSUME Missed # {} PROVE FALSE
  OBVIOUS
<1>1. IsWellFoundedOn(LessThan, Nat)
  <2>1. LessThan = OpToRel(<, Nat)
    BY DEF LessThan, OpToRel
  <2> QED
    BY <2>1, NatLessThanWellFounded
<1>2. \E x \in Missed : \A y \in Missed : ~(<<y, x>> \in LessThan)
  <2>1. Missed \subseteq Nat
    OBVIOUS
  <2> HIDE DEF Missed
  <2> QED
    BY <1>1, <2>1, WFMin
<1>3. PICK x \in Missed : \A y \in Missed : ~(y < x)
  BY <1>2 DEF LessThan
<1>4. x # 0 /\ x \in Nat
  BY <1>3
<1>5. x - 1 \in Nat /\ x - 1 < x
  BY <1>4
<1>6. x - 1 \in S
  BY <1>3, <1>5
<1> QED
  BY <1>3, <1>5, <1>6

-------------------------------------------------------------------------------
(***************************************************************************)
(* LinesOf is defined by recursion over the text.  That a function with    *)
(* that equation exists is shown for texts of bounded length first; two    *)
(* such functions agree where both are defined, so they make up one.       *)
(***************************************************************************)

Texts(n) == {t \in Seq(Chars) : Len(t) <= n}
Front(t) == SubSeq(t, 1, Len(t) - 1)

\* The equation's right side, for the lines that f finds.
LinesBy(f, t) == IF t = <<>> THEN << <<>> >> ELSE LinesAfter(f[Front(t)], t[Len(t)])

Breaks(f, n) == f = [t \in Texts(n) |-> LinesBy(f, t)]

LEMMA FrontIsShorter ==
    ASSUME NEW t \in Seq(Chars), t # <<>>
    PROVE  /\ Len(t) \in Nat \ {0}
           /\ Front(t) \in Seq(Chars)
           /\ Len(Front(t)) = Len(t) - 1
<1>1. Len(t) \in Nat \ {0}
  BY EmptySeq
<1>2. \A i \in 1 .. (Len(t) - 1) : t[i] \in Chars
  BY <1>1, ElementOfSeq
<1>3. /\ SubSeq(t, 1, Len(t) - 1) \in Seq(Chars)
      /\ Len(SubSeq(t, 1, Len(t) - 1)) = IF 1 <= Len(t) - 1 THEN Len(t) - 1 - 1 + 1 ELSE 0
  <2>1. 1 \in Int /\ Len(t) - 1 \in Int
    BY <1>1
  <2> QED
    BY <1>2, <2>1, SubSeqProperties
<1>4. \A n \in Nat \ {0} : (IF 1 <= n - 1 THEN n - 1 - 1 + 1 ELSE 0) = n - 1
  OBVIOUS
<1>5. Len(SubSeq(t, 1, Len(t) - 1)) = Len(t) - 1
  BY <1>1, <1>3, <1>4, Zenon
<1> QED
  BY <1>1, <1>3, <1>5, Zenon DEF Front

LEMMA BreaksExists == \A n \in Nat : \E f : Breaks(f, n)
<1> DEFINE S == {n \in Nat : \E f : Breaks(f, n)}
<1>1. 0 \in S
  <2> DEFINE f == [t \in Texts(0) |-> << <<>> >>]
  <2>1. \A t \in Texts(0) : t = <<>>
    BY EmptySeq, LenProperties DEF Texts
  <2>2. \A t \in Texts(0) : LinesBy(f, t) = << <<>> >>
    BY <2>1 DEF LinesBy
  <2>3. Breaks(f, 0)
    BY <2>2 DEF Breaks
  <2> QED
    BY <2>3
<1>2. ASSUME NEW n \in Nat, n \in S
      PROVE  n + 1 \in S
  <2>1. PICK f : Breaks(f, n)
    BY <1>2
  <2> DEFINE g == [t \in Texts(n + 1) |-> LinesBy(f, t)]
  <2>2. ASSUME NEW t \in Texts(n + 1)
        PROVE  LinesBy(g, t) = LinesBy(f, t)
    <3>1. CASE t = <<>>
      BY <3>1 DEF LinesBy
    <3>2. CASE t # <<>>
      <4>1. Front(t) \in Texts(n) /\ Front(t) \in Texts(n + 1)
        BY <3>2, FrontIsShorter DEF Texts
      <4>2. f[Front(t)] = LinesBy(f, Front(t))
        BY <2>1, <4>1 DEF Breaks
      <4>3. g[Front(t)] = f[Front(t)]
        BY <4>1, <4>2
      <4> QED
        BY <3>2, <4>3 DEF LinesBy
    <3> QED
      BY <3>1, <3>2
  <2>3. Breaks(g, n + 1)
    BY <2>2 DEF Breaks
  <2> QED
    BY <2>3
<1> HIDE DEF S
<1>3. Nat \subseteq S
  BY <1>1, <1>2, Induction
<1> QED
  BY <1>3 DEF S

LEMMA BreaksAgree ==
    ASSUME NEW m \in Nat, NEW n \in Nat, NEW f, NEW g, Breaks(f, m), Breaks(g, n),
           NEW s \in Seq(Chars), Len(s) <= m, Len(s) <= n
    PROVE  f[s] = g[s]
<1> DEFINE S == {k \in Nat : \A t \in Texts(m) \cap Texts(n) : Len(t) = k => f[t] = g[t]}
<1>0. \A t \in Texts(m) \cap Texts(n) : f[t] = LinesBy(f, t) /\ g[t] = LinesBy(g, t)
  BY DEF Breaks
<1>1. 0 \in S
  <2>1. \A t \in Seq(Chars) : Len(t) = 0 => t = <<>>
    BY EmptySeq
  <2> QED
    BY <1>0, <2>1 DEF LinesBy, Texts
<1>2. ASSUME NEW k \in Nat, k \in S
      PROVE  k + 1 \in S
  <2>1. ASSUME NEW t \in Texts(m) \cap Texts(n), Len(t) = k + 1
        PROVE  f[t] = g[t]
    <3>1. t \in Seq(Chars) /\ t # <<>>
      BY <2>1, EmptySeq DEF Texts
    <3>2. Front(t) \in Texts(m) \cap Texts(n) /\ Len(Front(t)) = k
      BY <2>1, <3>1, FrontIsShorter DEF Texts
    <3>3. f[Front(t)] = g[Front(t)]
      BY <1>2, <3>2
    <3> QED
      BY <1>0, <3>1, <3>3 DEF LinesBy
  <2> QED
    BY <2>1
<1> HIDE DEF S
<1>3. Nat \subseteq S
  BY <1>1, <1>2, Induction
<1>4. s \in Texts(m) \cap Texts(n) /\ Len(s) \in Nat
  BY LenProperties DEF Texts
<1> QED
  BY <1>3, <1>4 DEF S

LEMMA LinesOfEquation ==
    \A t \in Seq(Chars) : LinesOf[t] = LinesBy(LinesOf, t)
<1> DEFINE F(n) == CHOOSE f : Breaks(f, n)
           L == [t \in Seq(Chars) |-> F(Len(t))[t]]
<1>1. \A n \in Nat : Breaks(F(n), n)
  BY BreaksExists
<1> HIDE DEF F
<1>2. ASSUME NEW t \in Seq(Chars)
      PROVE  L[t] = LinesBy(L, t)
  <2>1. Len(t) \in Nat /\ t \in Texts(Len(t))
    BY LenProperties DEF Texts
  <2>2. L[t] = LinesBy(F(Len(t)), t)
    BY <1>1, <2>1 DEF Breaks
  <2>3. CASE t = <<>>
    BY <2>2, <2>3 DEF LinesBy
  <2>4. CASE t # <<>>
    <3>1. /\ Front(t) \in Seq(Chars)
          /\ Len(Front(t)) = Len(t) - 1
          /\ Len(t) - 1 \in Nat
      BY <2>1, <2>4, FrontIsShorter
    <3>2. L[Front(t)] = F(Len(t) - 1)[Front(t)]
      BY <3>1
    <3>3. F(Len(t) - 1)[Front(t)] = F(Len(t))[Front(t)]
      BY <1>1, <2>1, <3>1, BreaksAgree
    <3> QED
      BY <2>2, <2>4, <3>2, <3>3 DEF LinesBy
  <2> QED
    BY <2>3, <2>4
<1>3. L = [t \in Seq(Chars) |-> LinesBy(L, t)]
  BY <1>2
<1> HIDE DEF L
<1>4. LinesOf = [t \in Seq(Chars) |-> LinesBy(LinesOf, t)]
  BY <1>3 DEF LinesOf, LinesBy, Front
<1> QED
  BY <1>4

\* The recursion, for one character more.
LEMMA LinesOfAppend ==
    /\ LinesOf[<<>>] = << <<>> >>
    /\ \A t \in Seq(Chars), c \in Chars :
          LinesOf[Append(t, c)] = LinesAfter(LinesOf[t], c)
<1>1. LinesOf[<<>>] = << <<>> >>
  BY LinesOfEquation, EmptySeq DEF LinesBy
<1>2. ASSUME NEW t \in Seq(Chars), NEW c \in Chars
      PROVE  LinesOf[Append(t, c)] = LinesAfter(LinesOf[t], c)
  <2> DEFINE u == Append(t, c)
  <2>1. /\ u \in Seq(Chars)
        /\ u # <<>>
        /\ Len(u) = Len(t) + 1
        /\ \A i \in 1 .. Len(t) : u[i] = t[i]
        /\ u[Len(t) + 1] = c
    BY AppendProperties
  <2>2. Len(t) \in Nat
    BY LenProperties
  <2> HIDE DEF u
  <2>3. Front(u) = t
    <3>1. Front(u) \in Seq(Chars) /\ Len(Front(u)) = Len(t)
      BY <2>1, <2>2, FrontIsShorter
    <3>2. \A i \in 1 .. (Len(u) - 1) : u[i] \in Chars
      BY <2>1, <2>2, ElementOfSeq
    <3>3. \A i \in 1 .. (Len(u) - 1 - 1 + 1) : Front(u)[i] = u[1 + i - 1]
      <4>1. 1 \in Int /\ Len(u) - 1 \in Int
        BY <2>1, <2>2
      <4> QED
        BY <3>2, <4>1, SubSeqProperties DEF Front
    <3>4. \A i \in 1 .. Len(t) : i \in 1 .. (Len(u) - 1 - 1 + 1) /\ 1 + i - 1 = i
      BY <2>1, <2>2
    <3>5. \A i \in 1 .. Len(t) : Front(u)[i] = t[i]
      BY <2>1, <3>3, <3>4
    <3> QED
      BY <3>1, <3>5, SeqEqual
  <2>4. LinesOf[u] = LinesAfter(LinesOf[t], c)
    BY <2>1, <2>3, LinesOfEquation DEF LinesBy
  <2> QED
    BY <2>4 DEF u
<1> QED
  BY <1>1, <1>2

-------------------------------------------------------------------------------
(***************************************************************************)
(* What the screen shows.                                                  *)
(***************************************************************************)

Printable == Letters \cup HighLetters
Text == Seq(Seq(Printable))

\* The lines that have left the screen at its top.
Hidden(lines) ==
    IF Len(lines) > TEXTMODE_HEIGHT - 1 THEN Len(lines) - (TEXTMODE_HEIGHT - 1) ELSE 0

\* v shows the lines, the first row behind the screen is as blank as the one
\* above it, and the next character goes behind the last line.
Shows(v, lines, x, y) ==
    /\ v \in [VgaRows -> [Columns -> Cells]]
    /\ lines \in Text /\ Len(lines) >= 1
    /\ x = Len(lines[Len(lines)])
    /\ y = Len(lines) - 1 - Hidden(lines)
    /\ \A r \in 0 .. TEXTMODE_HEIGHT, k \in Columns :
          v[r][k].char = ShownCell(lines, r, k)

LEMMA ShownCellIs ==
    ASSUME NEW lines, NEW r, NEW k
    PROVE  ShownCell(lines, r, k) =
               IF /\ r < TEXTMODE_HEIGHT - 1
                  /\ Hidden(lines) + r + 1 <= Len(lines)
                  /\ k < Len(lines[Hidden(lines) + r + 1])
               THEN lines[Hidden(lines) + r + 1][k + 1] ELSE Space
BY DEF ShownCell, Hidden

\* A new line leaves those before it as they are.
LEMMA LineAdded ==
    ASSUME NEW lines \in Text
    PROVE  /\ Len(lines) \in Nat
           /\ Append(lines, <<>>) \in Text
           /\ Len(Append(lines, <<>>)) = Len(lines) + 1
           /\ \A i \in 1 .. Len(lines) : Append(lines, <<>>)[i] = lines[i]
           /\ Append(lines, <<>>)[Len(lines) + 1] = <<>>
<1>1. <<>> \in Seq(Printable)
  BY EmptySeq
<1> QED
  BY <1>1, AppendProperties, LenProperties DEF Text

\* As long as there is room above the last row, a new line changes nothing on
\* the screen.
LEMMA ShownSame ==
    ASSUME TextmodeAssumption, NEW lines \in Text, Len(lines) < TEXTMODE_HEIGHT - 1,
           NEW r \in 0 .. TEXTMODE_HEIGHT, NEW k \in Columns
    PROVE  ShownCell(Append(lines, <<>>), r, k) = ShownCell(lines, r, k)
<1> DEFINE more == Append(lines, <<>>)
<1>1. /\ Len(lines) \in Nat /\ Len(more) = Len(lines) + 1
      /\ \A i \in 1 .. Len(lines) : more[i] = lines[i]
      /\ more[Len(lines) + 1] = <<>>
  BY LineAdded
<1> HIDE DEF more
<1>2. r \in Nat /\ k \in Nat /\ TEXTMODE_HEIGHT \in Nat
  BY DEF TextmodeAssumption, Columns
<1>3. Hidden(lines) = 0 /\ Hidden(more) = 0
  BY <1>1, <1>2 DEF Hidden
<1>4. /\ 0 + r + 1 = r + 1
      /\ r + 1 <= Len(lines) => r + 1 \in 1 .. Len(lines)
      /\ r + 1 <= Len(more) /\ ~(r + 1 <= Len(lines)) => r + 1 = Len(lines) + 1
      /\ r + 1 <= Len(lines) => r + 1 <= Len(more)
      /\ ~(k < 0)
  BY <1>1, <1>2
<1>5. Len(<<>>) = 0
  BY EmptySeq
<1>6. ShownCell(lines, r, k) =
          IF r < TEXTMODE_HEIGHT - 1 /\ r + 1 <= Len(lines) /\ k < Len(lines[r + 1])
          THEN lines[r + 1][k + 1] ELSE Space
  BY <1>3, <1>4, ShownCellIs
<1>7. ShownCell(more, r, k) =
          IF r < TEXTMODE_HEIGHT - 1 /\ r + 1 <= Len(more) /\ k < Len(more[r + 1])
          THEN more[r + 1][k + 1] ELSE Space
  BY <1>3, <1>4, ShownCellIs
<1>8. CASE r + 1 <= Len(lines)
  <2>1. more[r + 1] = lines[r + 1] /\ r + 1 <= Len(more)
    BY <1>1, <1>4, <1>8
  <2>2. ShownCell(more, r, k) = ShownCell(lines, r, k)
    BY <1>6, <1>7, <1>8, <2>1
  <2> QED
    BY <2>2 DEF more
<1>9. CASE ~(r + 1 <= Len(lines))
  <2>1. r + 1 <= Len(more) => more[r + 1] = <<>>
    BY <1>1, <1>4, <1>9, Zenon
  <2>2. ShownCell(more, r, k) = Space /\ ShownCell(lines, r, k) = Space
    BY <1>4, <1>5, <1>6, <1>7, <1>9, <2>1
  <2> QED
    BY <2>2 DEF more
<1> QED
  BY <1>8, <1>9

\* When the rows above the last one are in use, the lines move up by one.
LEMMA ShownMoved ==
    ASSUME TextmodeAssumption, NEW lines \in Text, Len(lines) >= TEXTMODE_HEIGHT - 1,
           NEW r \in 0 .. (TEXTMODE_HEIGHT - 1), NEW k \in Columns
    PROVE  ShownCell(Append(lines, <<>>), r, k) = ShownCell(lines, r + 1, k)
<1> DEFINE more == Append(lines, <<>>)
<1>1. /\ Len(lines) \in Nat /\ Len(more) = Len(lines) + 1
      /\ \A i \in 1 .. Len(lines) : more[i] = lines[i]
      /\ more[Len(lines) + 1] = <<>>
  BY LineAdded
<1> HIDE DEF more
<1>2. r \in Nat /\ k \in Nat /\ TEXTMODE_HEIGHT \in Nat /\ TEXTMODE_HEIGHT >= 2
  BY DEF TextmodeAssumption, Columns
<1> DEFINE n == Len(lines) - (TEXTMODE_HEIGHT - 1) + r + 2
<1>3. /\ Hidden(lines) + (r + 1) + 1 = n
      /\ Hidden(more) + r + 1 = n
  <2>1. /\ Hidden(lines) = IF Len(lines) > TEXTMODE_HEIGHT - 1
                           THEN Len(lines) - (TEXTMODE_HEIGHT - 1) ELSE 0
        /\ Hidden(more) = IF Len(lines) + 1 > TEXTMODE_HEIGHT - 1
                          THEN Len(lines) + 1 - (TEXTMODE_HEIGHT - 1) ELSE 0
    BY <1>1 DEF Hidden
  <2> DEFINE l == Len(lines)
             h == Hidden(lines)
             g == Hidden(more)
  <2>2. l \in Nat /\ l >= TEXTMODE_HEIGHT - 1
    BY <1>1
  <2>3. /\ h = IF l > TEXTMODE_HEIGHT - 1 THEN l - (TEXTMODE_HEIGHT - 1) ELSE 0
        /\ g = IF l + 1 > TEXTMODE_HEIGHT - 1 THEN l + 1 - (TEXTMODE_HEIGHT - 1) ELSE 0
        /\ n = l - (TEXTMODE_HEIGHT - 1) + r + 2
    BY <2>1
  <2> HIDE DEF l, h, g, n
  <2>4. h + (r + 1) + 1 = n /\ g + r + 1 = n
    BY <1>2, <2>2, <2>3
  <2> QED
    BY <2>4 DEF h, g
<1>4. /\ n \in Nat
      /\ r + 1 < TEXTMODE_HEIGHT - 1 => n \in 1 .. Len(lines) /\ n <= Len(more)
      /\ n <= Len(lines) <=> r + 1 < TEXTMODE_HEIGHT - 1
      /\ n <= Len(more) <=> r < TEXTMODE_HEIGHT - 1
      /\ n <= Len(more) /\ ~(n <= Len(lines)) => n = Len(lines) + 1
      /\ r + 1 < TEXTMODE_HEIGHT - 1 => r < TEXTMODE_HEIGHT - 1
      /\ ~(k < 0)
  BY <1>1, <1>2
<1>5. Len(<<>>) = 0
  BY EmptySeq
<1> HIDE DEF n
<1>6. ShownCell(lines, r + 1, k) =
          IF r + 1 < TEXTMODE_HEIGHT - 1 /\ n <= Len(lines) /\ k < Len(lines[n])
          THEN lines[n][k + 1] ELSE Space
  BY <1>3, ShownCellIs, Zenon
<1>7. ShownCell(more, r, k) =
          IF r < TEXTMODE_HEIGHT - 1 /\ n <= Len(more) /\ k < Len(more[n])
          THEN more[n][k + 1] ELSE Space
  BY <1>3, ShownCellIs, Zenon
<1>8. CASE r + 1 < TEXTMODE_HEIGHT - 1
  <2>1. more[n] = lines[n]
    BY <1>1, <1>4, <1>8, Zenon
  <2>2. ShownCell(more, r, k) = ShownCell(lines, r + 1, k)
    BY <1>4, <1>6, <1>7, <1>8, <2>1
  <2> QED
    BY <2>2 DEF more
<1>9. CASE ~(r + 1 < TEXTMODE_HEIGHT - 1)
  <2>1. n <= Len(more) => more[n] = <<>>
    BY <1>1, <1>4, <1>9, Zenon
  <2>2. ShownCell(more, r, k) = Space /\ ShownCell(lines, r + 1, k) = Space
    BY <1>4, <1>5, <1>6, <1>7, <1>9, <2>1
  <2> QED
    BY <2>2 DEF more
<1> QED
  BY <1>8, <1>9

\* Going to a new line, with the scrolling it may need, whether for a newline
\* or for a character that does not fit.
LEMMA LineBreakShown ==
    ASSUME TextmodeAssumption, NEW lines, Shows(vram, lines, cx, cy),
           NEW c, BreaksLine(c)
    PROVE  Shows(VramAfter(c), Append(lines, <<>>), 0, RowAfter(c))
<1> DEFINE more == Append(lines, <<>>)
<1>1. /\ lines \in Text /\ more \in Text
      /\ Len(lines) \in Nat /\ Len(lines) >= 1
      /\ Len(more) = Len(lines) + 1
      /\ more[Len(more)] = <<>>
  BY LineAdded DEF Shows
<1>2. Len(more) >= 1 /\ 0 = Len(more[Len(more)])
  BY <1>1, EmptySeq
<1>3. /\ cy = Len(lines) - 1 - Hidden(lines)
      /\ vram \in [VgaRows -> [Columns -> Cells]]
      /\ \A r \in 0 .. TEXTMODE_HEIGHT, k \in Columns :
            vram[r][k].char = ShownCell(lines, r, k)
  BY DEF Shows
<1>4. RowFor(c) = cy + 1
  BY DEF RowFor
<1>5. /\ Hidden(lines) = IF Len(lines) > TEXTMODE_HEIGHT - 1
                         THEN Len(lines) - (TEXTMODE_HEIGHT - 1) ELSE 0
      /\ Hidden(more) = IF Len(more) > TEXTMODE_HEIGHT - 1
                        THEN Len(more) - (TEXTMODE_HEIGHT - 1) ELSE 0
  BY DEF Hidden
<1>6. TEXTMODE_HEIGHT \in Nat /\ TEXTMODE_HEIGHT >= 2
  BY DEF TextmodeAssumption
<1> HIDE DEF more
<1>7. CASE Len(lines) < TEXTMODE_HEIGHT - 1
  <2>1. /\ ~(cy + 1 >= TEXTMODE_HEIGHT - 1)
        /\ cy + 1 = Len(more) - 1 - Hidden(more)
    <3> DEFINE l == Len(lines)
               m == Len(more)
               h == Hidden(lines)
               g == Hidden(more)
    <3>1. /\ l \in Nat /\ l >= 1 /\ m = l + 1 /\ l < TEXTMODE_HEIGHT - 1
          /\ h = IF l > TEXTMODE_HEIGHT - 1 THEN l - (TEXTMODE_HEIGHT - 1) ELSE 0
          /\ g = IF m > TEXTMODE_HEIGHT - 1 THEN m - (TEXTMODE_HEIGHT - 1) ELSE 0
          /\ cy = l - 1 - h
      BY <1>1, <1>3, <1>5, <1>7
    <3> HIDE DEF l, m, h, g
    <3>2. ~(cy + 1 >= TEXTMODE_HEIGHT - 1) /\ cy + 1 = m - 1 - g
      BY <1>6, <3>1
    <3> QED
      BY <3>2 DEF m, g
  <2>2. VramAfter(c) = vram /\ RowAfter(c) = cy + 1
    BY <1>4, <2>1 DEF VramAfter, RowAfter, Scrolls
  <2>3. \A r \in 0 .. TEXTMODE_HEIGHT, k \in Columns :
           vram[r][k].char = ShownCell(more, r, k)
    BY <1>1, <1>3, <1>7, ShownSame DEF more
  <2> QED
    BY <1>1, <1>2, <1>3, <2>1, <2>2, <2>3 DEF Shows, more
<1>8. CASE Len(lines) >= TEXTMODE_HEIGHT - 1
  <2>1. /\ cy + 1 >= TEXTMODE_HEIGHT - 1
        /\ (cy + 1) - 1 = Len(more) - 1 - Hidden(more)
    <3> DEFINE l == Len(lines)
               m == Len(more)
               h == Hidden(lines)
               g == Hidden(more)
    <3>1. /\ l \in Nat /\ l >= 1 /\ m = l + 1 /\ l >= TEXTMODE_HEIGHT - 1
          /\ h = IF l > TEXTMODE_HEIGHT - 1 THEN l - (TEXTMODE_HEIGHT - 1) ELSE 0
          /\ g = IF m > TEXTMODE_HEIGHT - 1 THEN m - (TEXTMODE_HEIGHT - 1) ELSE 0
          /\ cy = l - 1 - h
      BY <1>1, <1>3, <1>5, <1>8
    <3> HIDE DEF l, m, h, g
    <3>2. cy + 1 >= TEXTMODE_HEIGHT - 1 /\ (cy + 1) - 1 = m - 1 - g
      BY <1>6, <3>1
    <3> QED
      BY <3>2 DEF m, g
  <2>2. VramAfter(c) = Scrolled(vram) /\ RowAfter(c) = (cy + 1) - 1
    <3>1. Scrolls(c)
      BY <1>4, <2>1 DEF Scrolls
    <3> QED
      BY <1>4, <3>1, Zenon DEF VramAfter, RowAfter
  <2>3. Scrolled(vram) \in [VgaRows -> [Columns -> Cells]]
    BY <1>3, ScrolledType
  <2>4. ASSUME NEW r \in 0 .. TEXTMODE_HEIGHT, NEW k \in Columns
        PROVE  Scrolled(vram)[r][k].char = ShownCell(more, r, k)
    <3>1. CASE r < TEXTMODE_HEIGHT
      <4>1. /\ r \in VgaRows /\ r + 1 \in 0 .. TEXTMODE_HEIGHT
            /\ r \in 0 .. (TEXTMODE_HEIGHT - 1)
        BY <1>6, <3>1 DEF VgaRows
      <4>2. Scrolled(vram)[r] = vram[r + 1]
        BY <3>1, <4>1 DEF Scrolled
      <4>3. vram[r + 1][k].char = ShownCell(lines, r + 1, k)
        BY <1>3, <4>1
      <4>4. ShownCell(more, r, k) = ShownCell(lines, r + 1, k)
        BY <1>1, <1>8, <4>1, ShownMoved DEF more
      <4> QED
        BY <4>2, <4>3, <4>4
    <3>2. CASE ~(r < TEXTMODE_HEIGHT)
      <4>1. r \in VgaRows /\ ~(r < TEXTMODE_HEIGHT - 1)
        BY <1>6, <3>2 DEF VgaRows
      <4>2. Scrolled(vram)[r] = BlankRow
        BY <3>2, <4>1 DEF Scrolled
      <4>3. BlankRow[k].char = Space
        BY DEF BlankRow, Blank, textmode_create_entry
      <4>4. ShownCell(more, r, k) = Space
        BY <4>1, ShownCellIs
      <4> QED
        BY <4>2, <4>3, <4>4
    <3> QED
      BY <3>1, <3>2
  <2> QED
    BY <1>1, <1>2, <2>1, <2>2, <2>3, <2>4 DEF Shows, more
<1>9. Len(lines) < TEXTMODE_HEIGHT - 1 \/ Len(lines) >= TEXTMODE_HEIGHT - 1
  <2> DEFINE l == Len(lines)
  <2>1. l \in Nat
    BY <1>1
  <2> HIDE DEF l
  <2>2. l < TEXTMODE_HEIGHT - 1 \/ l >= TEXTMODE_HEIGHT - 1
    BY <1>6, <2>1
  <2> QED
    BY <2>2 DEF l
<1> QED
  BY <1>7, <1>8, <1>9

\* A character that fits goes behind the last line.
LEMMA CharacterShown ==
    ASSUME TextmodeAssumption, NEW v, NEW lines, NEW x, NEW y, Shows(v, lines, x, y),
           x < TEXTMODE_WIDTH, NEW c \in Printable
    PROVE  Shows([v EXCEPT ![y][x] = textmode_create_entry(c)],
                 [lines EXCEPT ![Len(lines)] = Append(lines[Len(lines)], c)],
                 x + 1, y)
<1> DEFINE last == Append(lines[Len(lines)], c)
           more == [lines EXCEPT ![Len(lines)] = last]
           w == [v EXCEPT ![y][x] = textmode_create_entry(c)]
           n == Hidden(lines) + y + 1
<1>1. /\ lines \in Seq(Seq(Printable)) /\ Len(lines) >= 1
      /\ x = Len(lines[Len(lines)])
      /\ y = Len(lines) - 1 - Hidden(lines)
      /\ v \in [VgaRows -> [Columns -> Cells]]
      /\ \A r \in 0 .. TEXTMODE_HEIGHT, k \in Columns :
            v[r][k].char = ShownCell(lines, r, k)
  BY DEF Shows, Text
<1>2. Len(lines) \in Nat /\ Len(lines) \in 1 .. Len(lines)
  BY <1>1, LenProperties
<1>3. lines[Len(lines)] \in Seq(Printable)
  BY <1>1, <1>2, ElementOfSeq
<1>4. x \in Nat /\ x \in Columns
  <2>1. x \in Nat
    BY <1>1, <1>3, LenProperties
  <2> QED
    BY <2>1 DEF Columns, TextmodeAssumption
<1>5. /\ last \in Seq(Printable)
      /\ Len(last) = x + 1
      /\ \A i \in 1 .. x : last[i] = lines[Len(lines)][i]
      /\ last[x + 1] = c
  BY <1>1, <1>3, AppendProperties
<1>6. TEXTMODE_HEIGHT \in Nat /\ TEXTMODE_HEIGHT >= 2
  BY DEF TextmodeAssumption
<1>7. /\ y \in Nat /\ y < TEXTMODE_HEIGHT - 1 /\ n = Len(lines)
      /\ Hidden(lines) \in Nat
  <2>1. Hidden(lines) = IF Len(lines) > TEXTMODE_HEIGHT - 1
                        THEN Len(lines) - (TEXTMODE_HEIGHT - 1) ELSE 0
    BY DEF Hidden
  <2> DEFINE l == Len(lines)
             h == Hidden(lines)
  <2>2. /\ l \in Nat /\ l >= 1 /\ y = l - 1 - h
        /\ h = IF l > TEXTMODE_HEIGHT - 1 THEN l - (TEXTMODE_HEIGHT - 1) ELSE 0
    BY <1>1, <1>2, <2>1
  <2> HIDE DEF l, h
  <2>3. y \in Nat /\ y < TEXTMODE_HEIGHT - 1 /\ h + y + 1 = l /\ h \in Nat
    BY <1>6, <2>2
  <2> QED
    BY <2>3 DEF l, h
<1>8. y \in VgaRows
  BY <1>6, <1>7 DEF VgaRows
<1> HIDE DEF last
<1>9. /\ more \in Seq(Seq(Printable))
      /\ Len(more) = Len(lines)
      /\ \A i \in 1 .. Len(lines) : more[i] = IF i = Len(lines) THEN last ELSE lines[i]
  BY <1>1, <1>2, <1>5, ExceptSeq
<1>10. Hidden(more) = Hidden(lines)
  BY <1>9 DEF Hidden
<1>11. more[Len(more)] = last
  BY <1>2, <1>9
<1>12. w \in [VgaRows -> [Columns -> Cells]]
  <2>1. textmode_create_entry(c) \in Cells
    BY EntryIsCell DEF Printable
  <2> QED
    BY <1>1, <2>1
<1>13. ASSUME NEW r \in 0 .. TEXTMODE_HEIGHT, NEW k \in Columns
       PROVE  w[r][k].char = ShownCell(more, r, k)
  <2> DEFINE e == Hidden(lines) + r + 1
  <2>1. r \in VgaRows /\ r \in Nat /\ k \in Nat
    BY <1>6 DEF VgaRows, Columns, TextmodeAssumption
  <2>2. ShownCell(more, r, k) =
            IF r < TEXTMODE_HEIGHT - 1 /\ e <= Len(lines) /\ k < Len(more[e])
            THEN more[e][k + 1] ELSE Space
    <3> HIDE DEF more
    <3>1. ShownCell(more, r, k) =
              IF /\ r < TEXTMODE_HEIGHT - 1
                 /\ Hidden(more) + r + 1 <= Len(more)
                 /\ k < Len(more[Hidden(more) + r + 1])
              THEN more[Hidden(more) + r + 1][k + 1] ELSE Space
      BY ShownCellIs, Zenon
    <3>2. Hidden(more) + r + 1 = e /\ Len(more) = Len(lines)
      BY <1>9, <1>10
    <3> HIDE DEF e
    <3> QED
      BY <3>1, <3>2, Zenon
  <2>3. ShownCell(lines, r, k) =
            IF r < TEXTMODE_HEIGHT - 1 /\ e <= Len(lines) /\ k < Len(lines[e])
            THEN lines[e][k + 1] ELSE Space
    BY ShownCellIs, Zenon
  <2>4. v[r][k].char = ShownCell(lines, r, k)
    BY <1>1
  <2>5. e \in Nat /\ e >= 1 /\ (e = n <=> r = y)
    BY <1>7, <2>1
  <2> HIDE DEF e, more, n
  <2>6. CASE r # y
    <3>1. w[r][k] = v[r][k]
      BY <1>1, <1>8, <2>1, <2>6
    <3>2. e <= Len(lines) => more[e] = lines[e]
      BY <1>2, <1>7, <1>9, <2>5, <2>6
    <3>3. ShownCell(more, r, k) = ShownCell(lines, r, k)
      BY <2>2, <2>3, <3>2
    <3> QED
      BY <2>4, <3>1, <3>3
  <2>7. CASE r = y /\ k # x
    <3>1. w[r][k] = v[r][k]
      BY <1>1, <1>4, <1>8, <2>1, <2>7
    <3>2. e = Len(lines) /\ more[e] = last /\ r < TEXTMODE_HEIGHT - 1 /\ e <= Len(lines)
      BY <1>2, <1>7, <1>9, <1>11, <2>5, <2>7
    <3>3. /\ k < x => k < x + 1 /\ k + 1 \in 1 .. x
          /\ ~(k < x) => ~(k < x + 1)
      BY <1>4, <2>1, <2>7
    <3>4. Len(lines[e]) = x /\ Len(more[e]) = x + 1
      BY <1>1, <1>5, <3>2
    <3>5. k < x => more[e][k + 1] = lines[e][k + 1]
      BY <1>5, <3>2, <3>3
    <3>6. ShownCell(more, r, k) = ShownCell(lines, r, k)
      BY <2>2, <2>3, <3>2, <3>3, <3>4, <3>5
    <3> QED
      BY <2>4, <3>1, <3>6
  <2>8. CASE r = y /\ k = x
    <3>1. w[r][k] = textmode_create_entry(c)
      BY <1>1, <1>4, <1>8, <2>1, <2>8
    <3> HIDE DEF w
    <3>2. textmode_create_entry(c).char = c
      BY DEF textmode_create_entry
    <3>3. e = Len(lines) /\ more[e] = last /\ r < TEXTMODE_HEIGHT - 1 /\ e <= Len(lines)
      BY <1>2, <1>7, <1>9, <1>11, <2>5, <2>8
    <3>4. k < Len(more[e]) /\ more[e][k + 1] = c
      BY <1>4, <1>5, <2>8, <3>3
    <3>5. ShownCell(more, r, k) = c
      BY <2>2, <3>3, <3>4
    <3> QED
      BY <3>1, <3>2, <3>5
  <2> QED
    BY <2>6, <2>7, <2>8
<1>14. /\ x + 1 = Len(more[Len(more)])
       /\ y = Len(more) - 1 - Hidden(more)
       /\ Len(more) >= 1
  BY <1>1, <1>5, <1>9, <1>10, <1>11
<1>15. Shows(w, more, x + 1, y)
  <2> HIDE DEF w, more, n
  <2> QED
    BY <1>9, <1>12, <1>13, <1>14 DEF Shows, Text
<1> QED
  BY <1>15 DEF last

\* Behind a visible character the hardware cursor and the driver's own agree,
\* and that character ends the last line.
CursorInv ==
    text # <<>> /\ text[Len(text)] \notin {NUL, Newline} =>
        /\ cx >= 1
        /\ cursor = cy * TEXTMODE_WIDTH + cx
        /\ LinesOf[text][Len(LinesOf[text])][cx] = text[Len(text)]

ScreenInv ==
    /\ TypeOK
    /\ Shows(vram, LinesOf[text], cx, cy)
    /\ CursorInv

\* A screen without text.
LEMMA NothingShown ==
    ASSUME TextmodeAssumption, NEW v \in [VgaRows -> [Columns -> Cells]],
           \A r \in 0 .. TEXTMODE_HEIGHT, k \in Columns : v[r][k].char = Space
    PROVE  Shows(v, LinesOf[<<>>], 0, 0)
<1> DEFINE none == << <<>> >>
<1>1. LinesOf[<<>>] = none
  BY LinesOfAppend
<1>2. none \in Text /\ Len(none) = 1 /\ none[1] = <<>>
  BY DEF Text
<1>3. Len(<<>>) = 0
  BY EmptySeq
<1> HIDE DEF none
<1>4. Hidden(none) = 0
  BY <1>2 DEF Hidden, TextmodeAssumption
<1>5. ASSUME NEW r \in 0 .. TEXTMODE_HEIGHT, NEW k \in Columns
      PROVE  ShownCell(none, r, k) = Space
  <2>1. 0 + r + 1 <= 1 => 0 + r + 1 = 1
    BY DEF TextmodeAssumption
  <2>2. ~(k < 0)
    BY DEF Columns, TextmodeAssumption
  <2>3. ShownCell(none, r, k) =
            IF /\ r < TEXTMODE_HEIGHT - 1
               /\ 0 + r + 1 <= 1
               /\ k < Len(none[0 + r + 1])
            THEN none[0 + r + 1][k + 1] ELSE Space
    BY <1>2, <1>4, ShownCellIs
  <2> QED
    BY <1>2, <1>3, <2>1, <2>2, <2>3
<1> QED
  BY <1>1, <1>2, <1>3, <1>4, <1>5 DEF Shows

LEMMA InitScreen ==
    ASSUME TextmodeAssumption, OffScreenCells \subseteq Cells,
           \A c \in OffScreenCells : c.char = Space, Init
    PROVE  ScreenInv
<1>1. TypeOK
  BY InitTypeOK
<1>2. \A r \in 0 .. TEXTMODE_HEIGHT, k \in Columns : vram[r][k].char = Space
  <2>1. Blank.char = Space
    BY DEF Blank, textmode_create_entry
  <2>2. PICK c \in OffScreenCells :
            vram = [y \in VgaRows |-> IF y \in Rows THEN BlankRow ELSE [x \in Columns |-> c]]
    BY DEF Init
  <2>3. 0 .. TEXTMODE_HEIGHT \subseteq VgaRows
    BY DEF VgaRows, TextmodeAssumption
  <2> QED
    BY <2>1, <2>2, <2>3 DEF BlankRow
<1>3. Shows(vram, LinesOf[text], cx, cy)
  BY <1>1, <1>2, NothingShown DEF Init, TypeOK
<1>4. CursorInv
  BY DEF Init, CursorInv
<1> QED
  BY <1>1, <1>3, <1>4 DEF ScreenInv

LEMMA ClearScreen ==
    ASSUME TextmodeAssumption, ScreenInv, textmode_clear
    PROVE  /\ Shows(vram', LinesOf[text'], cx', cy')
           /\ CursorInv'
<1>1. vram' \in [VgaRows -> [Columns -> Cells]]
  <2>1. BlankRow \in [Columns -> Cells]
    BY EntryIsCell DEF BlankRow, Blank
  <2> QED
    BY <2>1 DEF textmode_clear, ScreenInv, TypeOK
<1>2. ASSUME NEW r \in 0 .. TEXTMODE_HEIGHT, NEW k \in Columns
      PROVE  vram'[r][k].char = Space
  <2>1. r \in VgaRows
    BY DEF VgaRows, TextmodeAssumption
  <2>2. CASE r \in Rows
    <3>1. BlankRow[k].char = Space
      BY DEF BlankRow, Blank, textmode_create_entry
    <3> QED
      BY <2>1, <2>2, <3>1 DEF textmode_clear
  <2>3. CASE r \notin Rows
    <3>1. vram'[r] = vram[r]
      BY <2>1, <2>3 DEF textmode_clear
    <3>2. ~(r < TEXTMODE_HEIGHT - 1)
      BY <2>3 DEF Rows, TextmodeAssumption
    <3>3. ShownCell(LinesOf[text], r, k) = Space
      BY <3>2, ShownCellIs
    <3> QED
      BY <3>1, <3>3 DEF ScreenInv, Shows
  <2> QED
    BY <2>2, <2>3
<1>3. text' = <<>> /\ cx' = 0 /\ cy' = 0
  BY DEF textmode_clear
<1>4. Shows(vram', LinesOf[text'], cx', cy')
  BY <1>1, <1>2, <1>3, NothingShown
<1>5. CursorInv'
  BY <1>3 DEF CursorInv
<1> QED
  BY <1>4, <1>5

LEMMA LastPrinted ==
    ASSUME NEW t \in Seq(Chars), NEW c \in Chars
    PROVE  /\ Append(t, c) # <<>>
           /\ Append(t, c)[Len(Append(t, c))] = c
<1>1. Len(t) \in Nat
  BY LenProperties
<1> QED
  BY <1>1, AppendProperties

LEMMA NewlinePrinted ==
    ASSUME TextmodeAssumption, ScreenInv, PutNewline, text' = Append(text, Newline)
    PROVE  Shows(vram', LinesOf[text'], cx', cy')
<1>1. text \in Seq(Chars) /\ Newline \in Chars
  BY DEF ScreenInv, TypeOK, Chars
<1>2. BreaksLine(Newline)
  BY DEF BreaksLine
<1>3. LinesAfter(LinesOf[text], Newline) = Append(LinesOf[text], <<>>)
  BY DEF LinesAfter, Newline, NUL
<1>4. LinesOf[text'] = Append(LinesOf[text], <<>>)
  BY <1>1, <1>3, LinesOfAppend
<1>5. Shows(VramAfter(Newline), Append(LinesOf[text], <<>>), 0, RowAfter(Newline))
  BY <1>2, LineBreakShown DEF ScreenInv
<1> QED
  BY <1>4, <1>5 DEF PutNewline

\* A visible character, on the line it fits on or on a new one.
LEMMA CharacterPrinted ==
    ASSUME TextmodeAssumption, ScreenInv, NEW c \in Printable, c \notin {NUL, Newline},
           PutChar(c), text' = Append(text, c)
    PROVE  /\ Shows(vram', LinesOf[text'], cx', cy')
           /\ CursorInv'
<1> DEFINE lines == LinesOf[text]
           base == IF BreaksLine(c) THEN Append(lines, <<>>) ELSE lines
           more == [base EXCEPT ![Len(base)] = Append(base[Len(base)], c)]
<1>1. /\ text \in Seq(Chars) /\ c \in Chars
      /\ cx \in Nat /\ cx <= TEXTMODE_WIDTH
      /\ cy \in Nat /\ cy <= TEXTMODE_HEIGHT - 2
      /\ TEXTMODE_WIDTH \in Nat /\ TEXTMODE_WIDTH >= 1
      /\ TEXTMODE_HEIGHT \in Nat /\ TEXTMODE_HEIGHT >= 2
  BY DEF ScreenInv, TypeOK, Chars, Printable, TextmodeAssumption
<1>2. Shows(vram, lines, cx, cy)
  BY DEF ScreenInv
<1>3. Shows(VramAfter(c), base, ColumnFor(c), RowAfter(c)) /\ ColumnFor(c) < TEXTMODE_WIDTH
  <2>1. CASE BreaksLine(c)
    <3>1. base = Append(lines, <<>>) /\ ColumnFor(c) = 0
      BY <2>1, Zenon DEF ColumnFor
    <3>2. Shows(VramAfter(c), Append(lines, <<>>), 0, RowAfter(c))
      BY <1>2, <2>1, LineBreakShown
    <3> HIDE DEF base, lines
    <3> QED
      BY <1>1, <3>1, <3>2
  <2>2. CASE ~BreaksLine(c)
    <3>1. base = lines /\ ColumnFor(c) = cx /\ RowFor(c) = cy
      BY <2>2, Zenon DEF ColumnFor, RowFor
    <3>2. ~Scrolls(c)
      BY <1>1, <3>1 DEF Scrolls
    <3>3. VramAfter(c) = vram /\ RowAfter(c) = cy
      BY <3>1, <3>2, Zenon DEF VramAfter, RowAfter
    <3>4. cx < TEXTMODE_WIDTH
      BY <1>1, <2>2 DEF BreaksLine
    <3> HIDE DEF base, lines
    <3> QED
      BY <1>2, <3>1, <3>3, <3>4
  <2> QED
    BY <2>1, <2>2
<1>4. LinesOf[text'] = more
  <2>1. LinesOf[text'] = LinesAfter(lines, c)
    BY <1>1, LinesOfAppend
  <2>2. Len(lines[Len(lines)]) = cx
    BY <1>2 DEF Shows
  <2>3. lines \in Text
    BY <1>2 DEF Shows
  <2> HIDE DEF lines
  <2>4. CASE cx >= TEXTMODE_WIDTH
    <3>1. LinesAfter(lines, c) = Append(lines, <<c>>)
      BY <1>1, <2>2, <2>4 DEF LinesAfter
    <3>2. base = Append(lines, <<>>)
      BY <2>4 DEF BreaksLine
    <3> DEFINE added == Append(lines, <<>>)
               wide == Append(lines, <<c>>)
               put == [added EXCEPT ![Len(added)] = <<c>>]
    <3>3. /\ Len(lines) \in Nat /\ added \in Text /\ Len(added) = Len(lines) + 1
          /\ \A i \in 1 .. Len(lines) : added[i] = lines[i]
          /\ added[Len(lines) + 1] = <<>>
      BY <2>3, LineAdded
    <3>4. <<c>> \in Seq(Printable) /\ Append(<<>>, c) = <<c>>
      OBVIOUS
    <3>5. /\ wide \in Seq(Seq(Printable)) /\ Len(wide) = Len(lines) + 1
          /\ \A i \in 1 .. Len(lines) : wide[i] = lines[i]
          /\ wide[Len(lines) + 1] = <<c>>
      BY <2>3, <3>4, AppendProperties DEF Text
    <3> HIDE DEF added, wide
    <3>6. Len(added) \in 1 .. Len(added)
      BY <3>3
    <3>7. /\ put \in Seq(Seq(Printable)) /\ Len(put) = Len(added)
          /\ \A i \in 1 .. Len(added) : put[i] = IF i = Len(added) THEN <<c>> ELSE added[i]
      BY <3>3, <3>4, <3>6, ExceptSeq DEF Text
    <3> HIDE DEF put
    <3>8. \A i \in 1 .. Len(put) : put[i] = wide[i]
      <4>1. ASSUME NEW i \in 1 .. Len(put)
            PROVE  put[i] = wide[i]
        <5>1. i = Len(lines) + 1 \/ i \in 1 .. Len(lines)
          BY <3>3, <3>7
        <5>2. i \in 1 .. Len(lines) => i # Len(added)
          BY <3>3
        <5> QED
          BY <3>3, <3>5, <3>7, <5>1, <5>2
      <4> QED
        BY <4>1
    <3>9. put = wide
      BY <3>3, <3>5, <3>7, <3>8, SeqEqual
    <3>10. more = put
      BY <3>2, <3>3, <3>4, Zenon DEF put, added
    <3> QED
      BY <2>1, <3>1, <3>9, <3>10 DEF wide
  <2>5. CASE ~(cx >= TEXTMODE_WIDTH)
    <3>1. Len(lines[Len(lines)]) < TEXTMODE_WIDTH
      BY <1>1, <2>2, <2>5
    <3>2. LinesAfter(lines, c) = [lines EXCEPT ![Len(lines)] = Append(lines[Len(lines)], c)]
      BY <1>1, <2>2, <2>5, <3>1 DEF LinesAfter
    <3>3. base = lines
      BY <2>5 DEF BreaksLine
    <3> QED
      BY <2>1, <3>2, <3>3, Zenon
  <2> QED
    BY <2>4, <2>5
<1>5. /\ vram' = [VramAfter(c) EXCEPT ![RowAfter(c)][ColumnFor(c)] = textmode_create_entry(c)]
      /\ cx' = ColumnFor(c) + 1
      /\ cy' = RowAfter(c)
      /\ cursor' = RowAfter(c) * TEXTMODE_WIDTH + ColumnFor(c) + 1
  BY DEF PutChar
<1> HIDE DEF base, lines
<1>6. Shows([VramAfter(c) EXCEPT ![RowAfter(c)][ColumnFor(c)] = textmode_create_entry(c)],
            more, ColumnFor(c) + 1, RowAfter(c))
  BY <1>3, CharacterShown
<1>7. Shows(vram', LinesOf[text'], cx', cy')
  BY <1>4, <1>5, <1>6, Zenon
<1>8. CursorInv'
  <2>1. text' # <<>> /\ text'[Len(text')] = c
    BY <1>1, LastPrinted
  <2>2. ColumnFor(c) \in Nat /\ RowAfter(c) \in Nat
    BY <1>1, PlaceForCharacter DEF ScreenInv, Columns
  <2>3. cx' >= 1 /\ cursor' = cy' * TEXTMODE_WIDTH + cx'
    <3>1. RowAfter(c) * TEXTMODE_WIDTH \in Nat
      BY <1>1, <2>2
    <3> QED
      BY <1>5, <2>2, <3>1
  <2>4. LinesOf[text'][Len(LinesOf[text'])][cx'] = c
    <3>1. /\ base \in Seq(Seq(Printable)) /\ Len(base) >= 1
          /\ ColumnFor(c) = Len(base[Len(base)])
      BY <1>3 DEF Shows, Text
    <3>2. Len(base) \in 1 .. Len(base)
      BY <3>1, LenProperties
    <3>3. base[Len(base)] \in Seq(Printable)
      BY <3>1, <3>2, ElementOfSeq
    <3>4. /\ Append(base[Len(base)], c) \in Seq(Printable)
          /\ Append(base[Len(base)], c)[ColumnFor(c) + 1] = c
      BY <3>1, <3>3, AppendProperties
    <3>5. Len(more) = Len(base) /\ more[Len(base)] = Append(base[Len(base)], c)
      BY <3>1, <3>2, <3>4, ExceptSeq
    <3> HIDE DEF more
    <3> QED
      BY <1>4, <1>5, <3>4, <3>5
  <2> QED
    BY <2>1, <2>3, <2>4 DEF CursorInv
<1> QED
  BY <1>7, <1>8

LEMMA StepScreen ==
    ASSUME TextmodeAssumption, ScreenInv, [Next]_vars
    PROVE  ScreenInv'
<1>1. TypeOK'
  BY StepTypeOK DEF ScreenInv
<1>2. ASSUME NEW c \in Chars, textmode_putc(c)
      PROVE  Shows(vram', LinesOf[text'], cx', cy') /\ CursorInv'
  <2>1. text' = Append(text, c) /\ text \in Seq(Chars)
    BY <1>2 DEF textmode_putc, ScreenInv, TypeOK
  <2>2. text' # <<>> /\ text'[Len(text')] = c
    BY <2>1, LastPrinted
  <2>3. CASE c = NUL /\ UNCHANGED <<vram, cx, cy, cursor>>
    <3>1. LinesAfter(LinesOf[text], c) = LinesOf[text]
      BY <2>3 DEF LinesAfter, Newline, NUL
    <3>2. LinesOf[text'] = LinesOf[text]
      BY <2>1, <3>1, LinesOfAppend
    <3>3. Shows(vram', LinesOf[text'], cx', cy')
      BY <2>3, <3>2 DEF ScreenInv
    <3> QED
      BY <2>2, <2>3, <3>3 DEF CursorInv
  <2>4. CASE c = Newline /\ PutNewline
    <3>1. Shows(vram', LinesOf[text'], cx', cy')
      BY <2>1, <2>4, NewlinePrinted
    <3> QED
      BY <2>2, <2>4, <3>1 DEF CursorInv
  <2>5. CASE c \notin {NUL, Newline} /\ PutChar(c)
    <3>1. c \in Printable
      BY <2>5 DEF Chars, Printable
    <3> QED
      BY <2>1, <2>5, <3>1, CharacterPrinted
  <2> QED
    BY <1>2, <2>3, <2>4, <2>5 DEF textmode_putc
<1>3. ASSUME textmode_clear
      PROVE  Shows(vram', LinesOf[text'], cx', cy') /\ CursorInv'
  BY <1>3, ClearScreen
<1>4. CASE UNCHANGED vars
  BY <1>1, <1>4 DEF vars, ScreenInv, CursorInv
<1> QED
  BY <1>1, <1>2, <1>3, <1>4 DEF Next, ScreenInv

LEMMA ScreenInductive ==
    ASSUME TextmodeAssumption, OffScreenCells \subseteq Cells,
           \A c \in OffScreenCells : c.char = Space
    PROVE  Spec => []ScreenInv
<1>1. Init => ScreenInv
  BY InitScreen
<1>2. ScreenInv /\ [Next]_vars => ScreenInv'
  BY StepScreen
<1> QED
  BY <1>1, <1>2, PTL DEF Spec

\* On a screen of any size, with rows behind it that the machine left blank:
\* the screen shows the last lines of what was printed, broken where they must
\* be, and nothing else, however often it has wrapped and scrolled
\* (textmode.c:71-100).
THEOREM ScreenKeepsText ==
    ASSUME TextmodeAssumption, OffScreenCells \subseteq Cells,
           \A c \in OffScreenCells : c.char = Space
    PROVE  Spec => []ScreenShowsText
<1>1. Rows \subseteq 0 .. TEXTMODE_HEIGHT
  BY DEF Rows, TextmodeAssumption
<1>2. ScreenInv => ScreenShowsText
  BY <1>1 DEF ScreenInv, Shows, ScreenShowsText
<1> QED
  BY <1>2, ScreenInductive, PTL

\* A position of the CRT controller is a row and a column.
LEMMA Position ==
    ASSUME NEW w \in Nat \ {0}, NEW p \in Nat
    PROVE  /\ p \div w \in Nat /\ p % w \in 0 .. (w - 1)
           /\ p = (p \div w) * w + (p % w)
<1> DEFINE q == p \div w
           r == p % w
<1>1. q \in Nat /\ r \in 0 .. (w - 1) /\ p = q * w + r
  OBVIOUS
<1> QED
  BY <1>1

\* Rows are as wide as the screen, so positions are ordered by row and column.
LEMMA RowsInOrder ==
    ASSUME NEW w \in Nat \ {0}, NEW a \in Nat, NEW b \in Nat,
           NEW x \in 0 .. w, NEW y \in 0 .. (w - 1), a * w + x <= b * w + y
    PROVE  b > a \/ (b = a /\ y >= x)
<1>1. a * w \in Nat /\ b * w \in Nat
  OBVIOUS
<1>2. ASSUME b < a
      PROVE  FALSE
  <2>1. (b + 1) * w <= a * w
    BY <1>2
  <2>2. (b + 1) * w = b * w + w
    OBVIOUS
  <2> QED
    BY <1>1, <2>1, <2>2
<1>3. b = a => y >= x
  BY <1>1
<1> QED
  BY <1>2, <1>3

LEMMA CursorShown ==
    ASSUME TextmodeAssumption, ScreenInv
    PROVE  CursorBehindText
<1> DEFINE lines == LinesOf[text]
           last == lines[Len(lines)]
           Shown(pos) == vram[pos \div TEXTMODE_WIDTH][pos % TEXTMODE_WIDTH].char
<1> SUFFICES ASSUME text # <<>>, text[Len(text)] \notin {NUL, Newline}
             PROVE  /\ cursor >= 1 /\ Shown(cursor - 1) = text[Len(text)]
                    /\ \A pos \in cursor .. (TEXTMODE_HEIGHT * TEXTMODE_WIDTH - 1) :
                          Shown(pos) = Space
  BY Zenon DEF CursorBehindText
<1>1. /\ cx >= 1 /\ cursor = cy * TEXTMODE_WIDTH + cx
      /\ last[cx] = text[Len(text)]
  BY DEF ScreenInv, CursorInv
<1>2. /\ cx \in 0 .. TEXTMODE_WIDTH /\ cy \in Nat /\ cy <= TEXTMODE_HEIGHT - 2
      /\ TEXTMODE_WIDTH \in Nat \ {0} /\ TEXTMODE_HEIGHT \in Nat
  BY DEF ScreenInv, TypeOK, TextmodeAssumption
<1>3. /\ lines \in Text /\ cx = Len(last)
      /\ cy = Len(lines) - 1 - Hidden(lines)
      /\ \A r \in 0 .. TEXTMODE_HEIGHT, k \in Columns :
            vram[r][k].char = ShownCell(lines, r, k)
  BY DEF ScreenInv, Shows
<1>4. Hidden(lines) + cy + 1 = Len(lines) /\ Hidden(lines) \in Int /\ Len(lines) \in Nat
  <2>1. Len(lines) \in Nat
    BY <1>3, LenProperties DEF Text
  <2>2. Hidden(lines) \in Int
    BY <1>2, <2>1 DEF Hidden
  <2> DEFINE l == Len(lines)
             h == Hidden(lines)
  <2>3. l \in Nat /\ h \in Int /\ cy = l - 1 - h
    BY <1>3, <2>1, <2>2
  <2> HIDE DEF l, h
  <2>4. h + cy + 1 = l
    BY <1>2, <2>3
  <2> QED
    BY <2>1, <2>2, <2>4 DEF l, h
<1>5. cy * TEXTMODE_WIDTH \in Nat
  BY <1>2
<1> HIDE DEF lines, last
\* The position in front of the cursor holds the last character.
<1>6. Shown(cursor - 1) = text[Len(text)]
  <2> DEFINE p == cursor - 1
             r == p \div TEXTMODE_WIDTH
             k == p % TEXTMODE_WIDTH
  <2>1. p \in Nat /\ p = cy * TEXTMODE_WIDTH + (cx - 1)
    BY <1>1, <1>2, <1>5
  <2>2. r \in Nat /\ k \in 0 .. (TEXTMODE_WIDTH - 1) /\ p = r * TEXTMODE_WIDTH + k
    BY <1>2, <2>1, Position
  <2> HIDE DEF r, k
  <2>3. cx - 1 \in 0 .. (TEXTMODE_WIDTH - 1) /\ cx - 1 \in 0 .. TEXTMODE_WIDTH
    BY <1>1, <1>2
  <2>4. k \in 0 .. TEXTMODE_WIDTH
    BY <2>2
  <2>5. r > cy \/ (r = cy /\ k >= cx - 1)
    BY <1>2, <2>1, <2>2, <2>3, RowsInOrder
  <2>6. cy > r \/ (cy = r /\ cx - 1 >= k)
    BY <1>2, <2>1, <2>2, <2>3, <2>4, RowsInOrder
  <2>7. r = cy /\ k = cx - 1
    BY <1>2, <2>2, <2>5, <2>6
  <2>8. cy \in 0 .. TEXTMODE_HEIGHT /\ cx - 1 \in Columns
    BY <1>2, <2>3 DEF Columns
  <2>9. ShownCell(lines, cy, cx - 1) = last[cx]
    <3>1. /\ cy < TEXTMODE_HEIGHT - 1 /\ cx - 1 < Len(last) /\ cx - 1 + 1 = cx
          /\ Len(lines) <= Len(lines)
      BY <1>2, <1>3, <1>4
    <3>2. lines[Len(lines)] = last
      BY DEF last
    <3> QED
      BY <1>4, <3>1, <3>2, ShownCellIs
  <2>10. vram[r][k].char = last[cx]
    BY <1>3, <2>7, <2>8, <2>9
  <2> QED
    BY <1>1, <2>10 DEF r, k
\* From the cursor on the line has ended, or there is no line.
<1>7. ASSUME NEW pos \in cursor .. (TEXTMODE_HEIGHT * TEXTMODE_WIDTH - 1)
      PROVE  Shown(pos) = Space
  <2> DEFINE r == pos \div TEXTMODE_WIDTH
             k == pos % TEXTMODE_WIDTH
  <2>0. TEXTMODE_HEIGHT * TEXTMODE_WIDTH \in Nat
    BY <1>2
  <2>1. /\ pos \in Nat /\ cy * TEXTMODE_WIDTH + cx <= pos
        /\ pos < TEXTMODE_HEIGHT * TEXTMODE_WIDTH
    BY <1>1, <1>2, <1>5, <2>0
  <2>2. r \in Nat /\ k \in 0 .. (TEXTMODE_WIDTH - 1) /\ pos = r * TEXTMODE_WIDTH + k
    BY <1>2, <2>1, Position
  <2> HIDE DEF r, k
  <2>3. r > cy \/ (r = cy /\ k >= cx)
    BY <1>2, <2>1, <2>2, RowsInOrder
  <2>4. r \in 0 .. TEXTMODE_HEIGHT /\ k \in Columns
    <3>1. ASSUME r > TEXTMODE_HEIGHT
          PROVE  FALSE
      <4>1. TEXTMODE_HEIGHT * TEXTMODE_WIDTH <= r * TEXTMODE_WIDTH
        BY <1>2, <2>2, <3>1
      <4>2. r * TEXTMODE_WIDTH \in Nat
        BY <1>2, <2>2
      <4> QED
        BY <2>0, <2>1, <2>2, <4>1, <4>2
    <3> QED
      BY <1>2, <2>2, <3>1 DEF Columns
  <2>5. ShownCell(lines, r, k) = Space
    <3>1. CASE r > cy
      <4>1. ~(Hidden(lines) + r + 1 <= Len(lines))
        BY <1>2, <1>4, <2>2, <3>1
      <4> QED
        BY <4>1, ShownCellIs
    <3>2. CASE r = cy /\ k >= cx
      <4>1. ~(k < Len(last)) /\ lines[Len(lines)] = last
        BY <1>2, <1>3, <2>2, <3>2 DEF last
      <4> QED
        BY <1>4, <3>2, <4>1, ShownCellIs
    <3> QED
      BY <2>3, <3>1, <3>2
  <2>6. vram[r][k].char = Space
    BY <1>3, <2>4, <2>5
  <2> QED
    BY <2>6 DEF r, k
<1>8. cursor >= 1
  BY <1>1, <1>2, <1>5
<1> QED
  BY <1>6, <1>7, <1>8

\* After a visible character the hardware cursor is right behind it and the
\* rest of the screen is blank, on a screen of any size (textmode.c:88-99).
THEOREM CursorStaysBehindText ==
    ASSUME TextmodeAssumption, OffScreenCells \subseteq Cells,
           \A c \in OffScreenCells : c.char = Space
    PROVE  Spec => []CursorBehindText
<1>1. ScreenInv => CursorBehindText
  BY CursorShown
<1> QED
  BY <1>1, ScreenInductive, PTL
===============================================================================
