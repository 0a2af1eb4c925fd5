\* Only the allocation of the stream for a created file may fail.
SPECIFICATION Spec
CONSTANTS
    Calls = {c1, c2}
    Outputs = {o1}
    Tokens = {t1, t2}
    NoSuffix = NoSuffix
    NoFile = NoFile
    Foreign = Foreign
    Pieces = 1
    MaxAttempts = 2
    Faults = {"alloc"}
PROPERTIES
    ExitRemovesTemp
