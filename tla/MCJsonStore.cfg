\* The methods of an object alone, with a collision and a counter that wraps.
CONSTANTS
    a1 = a1
    a2 = a2
    b1 = b1
    Key = {a1, a2, b1}
    Hash <- KeysHash
    Buckets = 2
    Sizes = 4
    MaxNodes = 4
SPECIFICATION Spec
PROPERTIES
    KeepsLog
