SPECIFICATION Spec
CONSTANTS
    None = None  a = a  b = b  p = p  x = x
    Runs = {a, p}
    Kind <- KindOfTwo
    Answers = {x}
    MaxAsks = 1
    Closes = TRUE
INVARIANT ClosedSessionIsQuiet
CHECK_DEADLOCK FALSE
