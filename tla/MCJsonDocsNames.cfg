\* The documents of MCJsonDocs, and whether a value is under its own name.
CONSTANTS
    Doc <- Documents
    MaxLength = 25
    MallocMayFail = FALSE
    Cap = 4
SPECIFICATION FairSpec
INVARIANTS
    ValuesKeepTheirName
CHECK_DEADLOCK FALSE
