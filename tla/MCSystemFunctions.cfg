\* Expressions and functions: exit status, places of variables, meaning.
SPECIFICATION SystemSpec
CONSTANTS
    Names = {"x", "y", "f", "g", "main"}
    NULL = NULL
    Addr = {a1, a2, a3, a4, a5}
    RegisterNames <- ThreeRegisters
    SymbolMaps <- NoMaps
    WordBits = 16
    StackBytes = 1000
    Garbage = 77
    Fuel = 20
    Programs <- CompilerPrograms
INVARIANTS ExitStatus OwnPlace MeaningPreserved
SYMMETRY Symmetry
