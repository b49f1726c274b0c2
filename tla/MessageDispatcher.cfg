SPECIFICATION FairSpec
CONSTANTS
    Dispatchers = {d1, d2}
    Sessions = {s1, s2}
    FileSize <- MCFileSize
    Dirs = {"home"}
    Missing = {"gone"}
    StartDir = "home"
    FILE_CHUNK = 2
    MaxIndex = 0
    Fragile = {s1}
    NoPath = "none"
INVARIANT TypeOK
INVARIANT ResumesExactly
INVARIANT UncachedIsDeliveredWhole
INVARIANT CachedFileKeepsItsPlaces
PROPERTY ReadingClientIsServed
CHECK_DEADLOCK FALSE
