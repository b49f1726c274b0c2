SPECIFICATION Spec
CONSTANTS
    Characters = {"a", " ", "%", "2", "0", "LF"}
    MaxName = 4
    MaxLine = 10
INVARIANT LinksLeadBack
INVARIANT RequestLineParses
CHECK_DEADLOCK FALSE
