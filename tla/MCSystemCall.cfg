\* A program that loses its meaning: VariableAcrossCall.
SPECIFICATION SystemSpec
CONSTANTS
    Names = {"x", "y", "f", "main"}
    NULL = NULL
    Addr = {a1, a2, a3}
    RegisterNames <- ThreeRegisters
    SymbolMaps <- NoMaps
    WordBits = 16
    StackBytes = 1000
    Garbage = 77
    Fuel = 20
    Programs <- VariableAcrossCall
INVARIANT MeaningPreserved
SYMMETRY Symmetry
