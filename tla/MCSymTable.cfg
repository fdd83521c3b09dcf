\* Any client that respects the assertion: memory, the loop of empty_scope, scopes.
SPECIFICATION LoopSpec
CONSTANTS
    Names = {x, y}
    NULL = NULL
    Addr = {a1, a2, a3, a4, a5, a6}
    MaxScopes = 3
    Programs <- MCPrograms
SYMMETRY Symmetry
INVARIANTS LoopTypeOK LoopOwned
PROPERTIES CloseRestores ClosesAtOnce
