SPECIFICATION WalkSpec
CONSTANTS
    RequestChars = {"A", "H", "T", "P", "g", "1", ".", "/", ":", "@", "?", "#", "%", "{", "}", "<", ">", "SP", "CR", "LF", "CTL", "HI", "NUL"}
    ResponseChars = {"H", "/", "0", ".", "c", "n", "t", "r", "l", "k", ";", "=", ":", "SP", "TAB", "1", "CR", "LF", "("}
INVARIANTS OffsetsAreOwn CompleteInOrder FlagsMatchLines
CHECK_DEADLOCK FALSE
