------------------------------- MODULE MCKprintf -------------------------------
(***************************************************************************)
(* Kprintf for TLC: every format of up to three items, one of them perhaps *)
(* a lone % at its end, and dumps that end in a full and in a shorter line.*)
(***************************************************************************)
EXTENDS Kprintf

Items == { Char(97), Conv(115, 0), Conv(105, 0), Conv(120, 0), Conv(99, 0),
           Conv(105, 3), Conv(120, 2) }

MCCalls ==
    LET formats == UNION {[1 .. n -> Items] : n \in 0 .. 2}
    IN  formats \cup [1 .. 3 -> Items] \cup {Append(f, Char(Percent)) : f \in formats}

\* One digit, two and more in base 10, letters in base 16, a negative number,
\* and one that is negative as an int of 16 bits.
MCIntArgs == { << n >> : n \in {0, 9, 10, 255, 1000, 40000, -1} }
MCStrArgs == { <<>>, << 98, 99 >> }
MCCharArgs == { << 90 >> }

\* The limits of what isprint() accepts, and of a byte.
DumpBytes == {0, 31, 32, 126, 127, 255}
MCDumps == UNION {[1 .. n -> DumpBytes] : n \in 0 .. 3}
           \cup {[k \in 1 .. 21 |-> k + 40]}
===============================================================================
