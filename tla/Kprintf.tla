-------------------------------- MODULE Kprintf --------------------------------
(***************************************************************************)
(* What a call of kprintf() prints (display.c) with the conversions of     *)
(* klibc (stdlib.c), and khexdump() (hexdump.c), which prints a table with *)
(* it.  Characters are their codes.  Where the text of a call goes on the  *)
(* screen is in Textmode, how calls of two contexts exclude each other in  *)
(* Interrupts.                                                             *)
(***************************************************************************)
EXTENDS Integers, Sequences, FiniteSets, SequencesExt

CONSTANTS
    IntBits,       \* the bits of an int (32)
    BytesPerLine,  \* of a hexdump (16)
    Displays,      \* the registered displays
    Calls,         \* the formats that kprintf() is called with, as items
    IntArgs, StrArgs, CharArgs,  \* the arguments it gets, each a sequence: of
                                 \* one number, of characters, of one character
    Dumps          \* the memory that khexdump() gets

Power(base, n) ==
    LET power[k \in Nat] == IF k = 0 THEN 1 ELSE base * power[k - 1]
    IN  power[n]

Percent == 37
Zero == 48
Blank == 32
Bar == 124
Newline == 10

\* Mutant: the letters of the table begin one too late.
bcharsShifted == [d \in 0 .. 15 |-> IF d < 10 THEN Zero + d ELSE 56 + d]

\* The digits as the table bchars has them.
bchars == [d \in 0 .. 15 |-> IF d < 10 THEN Zero + d ELSE 55 + d]

-------------------------------------------------------------------------------
(***************************************************************************)
(* The conversions.                                                        *)
(***************************************************************************)

\* tbuf gets the digits from the last one on and is copied backwards.
itoa(value, base) ==
    LET tbuf[v \in Nat] ==
            IF v = 0 THEN <<>> ELSE << bchars[v % base] >> \o tbuf[v \div base]
    IN  IF value = 0 \/ base > 16 THEN << Zero >> ELSE Reverse(tbuf[value])

\* The value is unsigned, and the branch for values below zero never taken.
itoa_s(value, base) == itoa(value, base)

\* An int becomes a kuint32_t.
Unsigned(n) == n % Power(2, IntBits)

\* Mutant: zeros are put in front of the number as if it had no digits.
PaddedByWidth(str, num_width) == [k \in 1 .. num_width |-> Zero] \o str

Padded(str, num_width) == [k \in 1 .. (num_width - Len(str)) |-> Zero] \o str

\* One turn of the loop of kvprintf(), from index st.i of the format on.  A
\* zero behind the percent sign and the digit behind it are skipped; a % in
\* front of no conversion is skipped alone.
Turn(fmt, st) ==
    LET At(k) == IF k < Len(fmt) THEN fmt[k + 1] ELSE 0
        hasWidth == At(st.i + 1) = Zero
        width == IF hasWidth THEN At(st.i + 2) - Zero ELSE st.num_width
        j == IF hasWidth THEN st.i + 2 ELSE st.i
        Converted(text) == [ i |-> j + 2, num_width |-> width,
                             ap |-> Tail(st.ap), out |-> st.out \o text ]
        arg == Head(st.ap)
        number == Unsigned(arg[1])
        conv == At(j + 1)
    IN  IF At(st.i) # Percent
        THEN [st EXCEPT !.i = @ + 1, !.out = Append(@, At(st.i))]
        ELSE CASE conv = 115 -> Converted(arg)
               [] conv \in {105, 100} ->
                     Converted(Padded(itoa_s(number, 10), width))
               [] conv = 120 -> Converted(Padded(itoa(number, 16), width))
               [] conv = 99 -> Converted(<< arg[1] % 256 >>)
               [] OTHER -> [st EXCEPT !.i = j + 1, !.num_width = width]

\* Every turn moves on, so that there are at most as many as characters.
kvprintf(fmt, args) ==
    LET begin == [i |-> 0, num_width |-> 0, ap |-> args, out |-> <<>>]
        Go(st) == IF st.i < Len(fmt) THEN Turn(fmt, st) ELSE st
        after[k \in Nat] == IF k = 0 THEN begin ELSE Go(after[k - 1])
    IN  after[Len(fmt)].out

isprint(ch) == ch >= 32 /\ ch <= 126

-------------------------------------------------------------------------------
(***************************************************************************)
(* What printf() is to print, of a format that is given by its items: a    *)
(* character, or a conversion with the width behind %0, or no width.  The  *)
(* digits of a hexadecimal number are those of %X: the kernel has no small *)
(* letters, which printf() takes for %x.                                   *)
(***************************************************************************)

NoConv == 0
Char(c) == [conv |-> NoConv, width |-> 0, char |-> c]
Conv(c, width) == [conv |-> c, width |-> width, char |-> 0]

IsNumber(item) == item.conv \in {105, 120}

ItemText(item) ==
    IF item.conv = NoConv THEN << item.char >>
    ELSE << Percent >> \o (IF item.width = 0 THEN <<>> ELSE << Zero, Zero + item.width >>)
         \o << item.conv >>

Format(items) == FlattenSeq([k \in DOMAIN items |-> ItemText(items[k])])

\* "0123456789ABCDEF".
DigitChars == << 48, 49, 50, 51, 52, 53, 54, 55, 56, 57, 65, 66, 67, 68, 69, 70 >>
DigitChar(d) == DigitChars[d + 1]

\* The digits of a number by their places, with zeros up to the width.
Places(n, base, width) ==
    LET digits == CHOOSE l \in 1 .. IntBits :
                      Power(base, l) > n /\ (l = 1 \/ Power(base, l - 1) <= n)
        len == IF width > digits THEN width ELSE digits
        Place(p) == IF p < digits THEN DigitChar((n \div Power(base, p)) % base) ELSE Zero
    IN  [k \in 1 .. len |-> Place(len - k)]

\* The int that the bits of an argument are.
Signed(n) ==
    IF Unsigned(n) < Power(2, IntBits - 1) THEN Unsigned(n)
    ELSE Unsigned(n) - Power(2, IntBits)

Shown(item, arg) ==
    CASE item.conv = 115 -> arg
      [] item.conv = 105 -> Places(Signed(arg[1]), 10, item.width)
      [] item.conv = 120 -> Places(Unsigned(arg[1]), 16, item.width)
      [] item.conv = 99 -> arg

\* The conversions up to item k, and the argument of item k.
Convs(items, k) == Cardinality({j \in 1 .. k : items[j].conv # NoConv})
ArgOf(items, args, k) == args[Convs(items, k)]

\* Calls that print something else: num_width keeps its value for the rest of
\* the call, and a decimal number that is negative as an int, so from
\* 2^(IntBits-1) on, is printed as the unsigned number.
Odd(items, args) ==
    \E k \in DOMAIN items :
       \/ /\ IsNumber(items[k]) /\ items[k].width = 0
          /\ \E j \in 1 .. k : items[j].width > 0
       \/ items[k].conv = 105 /\ Signed(ArgOf(items, args, k)[1]) < 0

\* A lone % at the end prints nothing.
printf(items, args) ==
    IF Odd(items, args) THEN <<>>
    ELSE FlattenSeq([k \in DOMAIN items |->
             IF items[k].conv # NoConv THEN Shown(items[k], ArgOf(items, args, k))
             ELSE IF items[k].char = Percent THEN <<>>
             ELSE << items[k].char >>])

\* What the kernel calls kprintf() with: a % only as part of a conversion, or
\* alone at the end, and widths of one digit.  With 32 bits, the offset of a
\* byte in a dump has eight digits at most.
Item == [conv : {NoConv, 105, 115, 120, 99}, width : 0 .. 9, char : Nat]

WellFormed(items) ==
    /\ items \in Seq(Item)
    /\ \A k \in DOMAIN items : items[k].conv = NoConv =>
          /\ items[k].width = 0
          /\ items[k].char = Percent => k = Len(items)

ASSUME CallsAssumption ==
    /\ IntBits \in 8 .. 32 /\ BytesPerLine \in Nat \ {0}
    /\ \A items \in Calls : WellFormed(items)
    /\ \A arg \in IntArgs : arg \in [1 .. 1 -> Int]
    /\ \A arg \in StrArgs : arg \in Seq(Nat)
    /\ \A arg \in CharArgs : arg \in [1 .. 1 -> 0 .. 255]
    /\ \A bytes \in Dumps : bytes \in Seq(0 .. 255) /\ Len(bytes) <= Power(2, IntBits)

-------------------------------------------------------------------------------
(***************************************************************************)
(* The callers: any one call of kprintf(), or khexdump().                  *)
(***************************************************************************)

VARIABLES
    pc,       \* where the caller is
    data,     \* the bytes to dump, data[1] at offset 0
    i, c, start, written,  \* the variables of khexdump()
    printed,  \* what each display has got
    said,     \* history: what printf() would have printed
    odd       \* history: a call was Odd

vars == <<pc, data, i, c, start, written, printed, said, odd>>

Say(items, args) ==
    /\ printed' = [d \in Displays |-> printed[d] \o kvprintf(Format(items), args)]
    /\ said' = said \o printf(items, args)
    /\ odd' = (odd \/ Odd(items, args))

Silent == UNCHANGED <<printed, said, odd>>

Chars(s) == [k \in DOMAIN s |-> Char(s[k])]

Init ==
    /\ \/ pc = "call" /\ data = <<>>
       \/ pc = "heading" /\ data \in Dumps
    /\ i = 0 /\ c = 0 /\ start = 0 /\ written = 0
    /\ printed = [d \in Displays |-> <<>>]
    /\ said = <<>>
    /\ odd = FALSE

Fits(item, arg) ==
    CASE item.conv = 115 -> arg \in StrArgs
      [] item.conv = 99 -> arg \in CharArgs
      [] OTHER -> arg \in IntArgs

kprintf ==
    /\ pc = "call"
    /\ \E items \in Calls :
          \E args \in [1 .. Convs(items, Len(items)) -> IntArgs \cup StrArgs \cup CharArgs] :
             /\ \A k \in DOMAIN items : items[k].conv # NoConv =>
                   Fits(items[k], ArgOf(items, args, k))
             /\ Say(items, args)
    /\ pc' = "returned"
    /\ UNCHANGED <<data, i, c, start, written>>

\* The lines above and below the table are one character each here.
Heading ==
    /\ pc = "heading"
    /\ Say(Chars(<< 45, Newline >>), <<>>)
    /\ pc' = "row"
    /\ UNCHANGED <<data, i, c, start, written>>

BeginRow ==
    /\ pc = "row" /\ i < Len(data)
    /\ Say(<< Conv(120, 8), Char(Bar) >>, << << i >> >>)
    /\ start' = i /\ c' = 0
    /\ pc' = "bytes"
    /\ UNCHANGED <<data, i, written>>

\* Mutant: the byte is taken from its place in the line.
WriteByteOfLine ==
    /\ pc = "bytes" /\ c < BytesPerLine /\ i < Len(data)
    /\ Say(<< Conv(120, 2), Char(Blank) >>, << << data[c + 1] >> >>)
    /\ i' = i + 1 /\ c' = c + 1
    /\ UNCHANGED <<pc, data, start, written>>

WriteByte ==
    /\ pc = "bytes" /\ c < BytesPerLine /\ i < Len(data)
    /\ Say(<< Conv(120, 2), Char(Blank) >>, << << data[i + 1] >> >>)
    /\ i' = i + 1 /\ c' = c + 1
    /\ UNCHANGED <<pc, data, start, written>>

EndBytes ==
    /\ pc = "bytes" /\ ~(c < BytesPerLine /\ i < Len(data))
    /\ written' = c
    /\ pc' = "fill"
    /\ Silent /\ UNCHANGED <<data, i, c, start>>

Fill ==
    /\ pc = "fill" /\ c < BytesPerLine
    /\ Say(Chars(<< Blank, Blank, Blank >>), <<>>)
    /\ c' = c + 1
    /\ UNCHANGED <<pc, data, i, start, written>>

BeginText ==
    /\ pc = "fill" /\ c >= BytesPerLine
    /\ Say(Chars(<< Bar >>), <<>>)
    /\ c' = 0
    /\ pc' = "text"
    /\ UNCHANGED <<data, i, start, written>>

WriteText ==
    /\ pc = "text" /\ c < written
    /\ LET byte == data[start + c + 1]
       IN  IF isprint(byte) THEN Say(<< Conv(99, 0) >>, << << byte >> >>)
           ELSE Say(Chars(<< 46 >>), <<>>)
    /\ c' = c + 1
    /\ UNCHANGED <<pc, data, i, start, written>>

FillText ==
    /\ pc = "text" /\ c >= written /\ c < BytesPerLine
    /\ Say(Chars(<< Blank >>), <<>>)
    /\ c' = c + 1
    /\ UNCHANGED <<pc, data, i, start, written>>

EndRow ==
    /\ pc = "text" /\ c >= written /\ c >= BytesPerLine
    /\ Say(Chars(<< Bar, Newline >>), <<>>)
    /\ pc' = "row"
    /\ UNCHANGED <<data, i, c, start, written>>

Footer ==
    /\ pc = "row" /\ i >= Len(data)
    /\ Say(Chars(<< 45, Newline >>), <<>>)
    /\ pc' = "done"
    /\ UNCHANGED <<data, i, c, start, written>>

khexdump == Heading \/ BeginRow \/ WriteByte \/ EndBytes \/ Fill \/ BeginText
            \/ WriteText \/ FillText \/ EndRow \/ Footer

Next == kprintf \/ khexdump

Spec == Init /\ [][Next]_vars

-------------------------------------------------------------------------------
(***************************************************************************)
(* Properties.                                                             *)
(***************************************************************************)

\* Every display shows what printf() prints of the same call, hexadecimal
\* digits in capitals (%X), except for the calls in Odd: nothing of the format is lost or shown twice however literal
\* text, numbers, strings and widths follow each other, no digit is missing or
\* out of place, and the arguments go to their conversions (display.c:46-140,
\* stdlib.c:8-52).
PrintsAsPrintf == ~odd => \A d \in Displays : printed[d] = said

\* A line of the table by its columns: eight digits for the offset, the bytes
\* of the line in hexadecimal, and the same bytes as text.
TableLine(r) ==
    LET hex == 10
        text == hex + 3 * BytesPerLine + 1
        end == text + BytesPerLine
        Has(b) == r * BytesPerLine + b < Len(data)
        Byte(b) == data[r * BytesPerLine + b + 1]
        ByteColumn(b, place) ==
            IF ~Has(b) \/ place = 2 THEN Blank
            ELSE DigitChar(IF place = 0 THEN Byte(b) \div 16 ELSE Byte(b) % 16)
        TextColumn(b) == IF ~Has(b) THEN Blank
                         ELSE IF Byte(b) \in 32 .. 126 THEN Byte(b) ELSE 46
    IN  [k \in 1 .. (end + 1) |->
            IF k < hex - 1 THEN DigitChar(((r * BytesPerLine) \div Power(16, 8 - k)) % 16)
            ELSE IF k \in {hex - 1, text - 1, end} THEN Bar
            ELSE IF k < text THEN ByteColumn((k - hex) \div 3, (k - hex) % 3)
            ELSE IF k < end THEN TextColumn(k - text)
            ELSE Newline]

\* When khexdump() ends, it has written each byte once in each half of the
\* line it belongs to, in columns that stay aligned in the line that is not
\* full (hexdump.c:16-49).
HexdumpTable ==
    pc = "done" =>
        LET rule == << 45, Newline >>
            lines == (Len(data) + BytesPerLine - 1) \div BytesPerLine
            table == FlattenSeq([r \in 1 .. lines |-> TableLine(r - 1)])
        IN  \A d \in Displays : printed[d] = rule \o table \o rule
===============================================================================
