\* Every small program over two names, and every expression in every place.
SPECIFICATION FairSpec
CONSTANTS
    Names = {"x", "y", "f"}
    NULL = NULL
    Addr = {a1, a2, a3}
    Programs <- CheckedPrograms
INVARIANTS TypeOK UniqueNames FindIsInnermost MemoryOwned StackDiscipline NeverAborted VerdictCorrect AllResolved
PROPERTIES ImplementsScoping Terminates
