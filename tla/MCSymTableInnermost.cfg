\* Does symtable_find return the innermost symbol, as its comment says?
SPECIFICATION LoopSpec
CONSTANTS
    Names = {x, y}
    NULL = NULL
    Addr = {a1, a2, a3, a4, a5, a6}
    MaxScopes = 3
    Programs <- MCPrograms
INVARIANT FindIsInnermost
