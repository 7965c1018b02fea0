\* Documents of depth 3.  malloc does not fail here: the question is what a
\* document becomes when nothing outside the lexer goes wrong.
CONSTANTS
    Doc <- Documents
    MaxLength = 25
    MallocMayFail = FALSE
    Cap = 4
SPECIFICATION FairSpec
INVARIANTS
    NestingIsFollowed
    StoredUnderLastKey
    RefusedDocuments
    LiteralsReadAreFirst
PROPERTIES
    Returns
\* The lexer stops for good when it returns.
CHECK_DEADLOCK FALSE
