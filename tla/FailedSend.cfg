SPECIFICATION FairSpec
CONSTANTS
    Dispatchers = {d1}
    Sessions = {s1}
    FileSize <- MCFileSize
    Dirs = {"home"}
    Missing = {}
    StartDir = "home"
    FILE_CHUNK = 2
    MaxIndex = 3
    Fragile = {s1}
    NoPath = "none"
PROPERTY FailedSendEndsProcessing
CHECK_DEADLOCK FALSE
