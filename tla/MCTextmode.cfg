\* Everything up to MaxText characters long that can be printed and cleared.
SPECIFICATION Spec
CONSTANTS
    a = a
    hi = hi
    junk = junk
    TEXTMODE_WIDTH = 2
    TEXTMODE_HEIGHT = 3
    Letters <- MCLetters
    HighLetters <- MCHighLetters
    Junk = junk
    OffScreenCells <- BlankBehindScreen
    MaxText = 8
INVARIANTS
    TypeOK
    ScreenShowsText
    CursorBehindText
