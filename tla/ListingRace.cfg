SPECIFICATION Spec
CONSTANTS
    Dispatchers = {d1, d2}
    Sessions = {s1, s2}
    FileSize <- MCFileSize
    Dirs = {"home", "docs"}
    Missing = {}
    StartDir = "home"
    FILE_CHUNK = 2
    MaxIndex = 0
    Fragile = {}
    NoPath = "none"
INVARIANT ListsRequestedDirectory
CHECK_DEADLOCK FALSE
