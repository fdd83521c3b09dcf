\* Texts of all kinds, from the command line to the exit status.
SPECIFICATION PaolaFairSpec
CONSTANTS
    Names <- PaolaNames
    NULL = NULL
    Letters <- PaolaLetters
    IntBits = 8
    MAX_TOKENS = 16
    MAX_STRING_SIZE = 3
    MaxErrors = 8
    Programs = {}
    SymbolMaps <- NoMaps
    Addr = {a1, a2, a3}
    RegisterNames <- ThreeRegisters
    Calls <- PaolaCalls
    Dashed = {"-o", "--print-ast", "--print-tokens", "-x"}
    Readable = {"in.c", "out.s"}
    Writable = {"in.c", "out.s"}
INVARIANTS LexCorrect BoundsExact ParserTypeOK ParseCorrect TreeOK ExitTells Reported
PROPERTY PaolaEnds
