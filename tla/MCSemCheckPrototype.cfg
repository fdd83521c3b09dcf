\* A prototype that the parser accepts.
SPECIFICATION Spec
CONSTANTS
    Names = {"x", "f"}
    NULL = NULL
    Addr = {a1, a2, a3}
    Programs <- Prototype
INVARIANT NeverCrashes
