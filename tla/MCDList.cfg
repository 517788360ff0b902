\* Three nodes, so that a list has a first, a middle and a last, and four data, so
\* that set_by_index finds one that is not in a full list.
CONSTANTS
    NumNodes = 3
    NumData = 4
    SizeMax = 5
SPECIFICATION DListFairSpec
INVARIANTS
    DListTypeOK
    Linked
    HeapOwned
    DListInvariant
PROPERTIES
    ImplementsDataList
    ListCallsReturn
CHECK_DEADLOCK FALSE
