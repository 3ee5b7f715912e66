SPECIFICATION Spec
CONSTANTS
    MaxLines = 2
    Slots = 2
    Null = Null
    Blank = Blank
    Junk = Junk
INVARIANT WritesWhatWasLogged
