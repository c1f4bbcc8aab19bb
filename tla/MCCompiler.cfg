\* A build of small functions at the two optimization levels, with few
\* registers and short immediates.
SPECIFICATION Spec
CHECK_DEADLOCK FALSE
CONSTANTS
    Word = 6
    Fuel = 16
    NumRegs = 3
    MaxTries = 4
    TwelveBits = 3
    EighteenBits = 8
    MoviWords = 4
    ShiftWords = 4
    MaxOps = 300
    Programs <- MCPrograms
    Inputs <- MCInputs
INVARIANTS
    Verified
    MeaningKept
    AnalysesFresh
    DominatorsExact
    CodeKept
    FrameKept
