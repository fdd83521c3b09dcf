\* Two lists, four elements: insertion, removal, splicing, reversal.
SPECIFICATION FairSpec
CONSTANTS
    Elem = {e1, e2, e3, e4}
    Lists = {l1, l2}
    NULL = NULL
INVARIANTS ListTypeOK Linked AssertionsHold
PROPERTY ReverseEnds
