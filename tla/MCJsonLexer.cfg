\* Texts of up to 12 tokens, malloc may fail at any call.  Cap bounds the loop
\* on a literal, the only way to open more than the text holds.
CONSTANTS
    Doc <- AnyText
    MaxLength = 12
    SuffixLength = 3
    MallocMayFail = TRUE
    Cap = 5
SPECIFICATION Spec
INVARIANTS
    TypeOK
    StackIsAncestry
    MembersFormTree
PROPERTIES
    ClosedIsFinal
    BuildsTree
\* The lexer stops for good when it returns.
CHECK_DEADLOCK FALSE
