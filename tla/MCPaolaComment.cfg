\* A comment that the text ends in: tokenize does not return.
SPECIFICATION PaolaFairSpec
CONSTANTS
    Names <- PaolaNames
    NULL = NULL
    Letters <- PaolaLetters
    IntBits = 8
    MAX_TOKENS = 16
    MAX_STRING_SIZE = 3
    MaxErrors = 8
    Programs = {}
    SymbolMaps <- NoMaps
    Addr = {a1, a2, a3}
    RegisterNames <- ThreeRegisters
    Calls <- OpenComment
    Dashed = {"-o", "--print-ast", "--print-tokens", "-x"}
    Readable = {"in.c", "out.s"}
    Writable = {"in.c", "out.s"}
PROPERTY Tokenizes
