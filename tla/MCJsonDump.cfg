\* Adds, removals and conversions to and from one list in any order, then a dump:
\* three buckets, so that there is one with a neighbour on both sides, and four nodes,
\* so that one bucket may hold two.
CONSTANTS
    a1 = a1
    b1 = b1
    c1 = c1
    Key = {a1, b1, c1}
    Hash <- KeysHash
    Buckets = 3
    Sizes = 2
    MaxNodes = 4
SPECIFICATION SpecDump
INVARIANTS
    TypeOK
    EndsMatch
    LinksOrdered
    DumpTypeOK
    WritesChains
PROPERTY DumpReturns
\* A dump is the last call, and a conversion of an empty bucket ends the program.
CHECK_DEADLOCK FALSE
