\* Every statement around small expressions; loops and conditions, compiled and run.
SPECIFICATION BackFairSpec
CONSTANTS
    Names = {"x", "y", "f", "main"}
    NULL = NULL
    Addr = {a1, a2, a3}
    RegisterNames <- ThreeRegisters
    SymbolMaps <- SomeSymbols
    WordBits = 16
    StackBytes = 1000
    Garbage = 77
    Fuel = 20
    Programs <- BackEndPrograms
INVARIANTS GenTypeOK RegisterDiscipline LabelsUnique JumpsResolve GivesUpOnlyIfNeeded MeaningPreserved
PROPERTIES LeftKept GenTerminates MeaningReached
