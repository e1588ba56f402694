------------------------------ MODULE MCTextmode ------------------------------
(***************************************************************************)
(* A screen of 3 rows of 2 cells for TLC: eight characters fill it and     *)
(* scroll it twice.                                                        *)
(***************************************************************************)
EXTENDS Textmode

CONSTANTS a, hi, junk

MCLetters == {a}
MCHighLetters == {hi}

\* The rows behind the screen are blank, as the BIOS mode set leaves them.
BlankBehindScreen == {Blank}
===============================================================================
