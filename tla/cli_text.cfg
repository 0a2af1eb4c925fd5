\* Only writes to stdout may fail.
SPECIFICATION Spec
CONSTANTS
    Calls = {c1, c2}
    Outputs = {o1}
    Tokens = {t1, t2}
    NoSuffix = NoSuffix
    NoFile = NoFile
    Foreign = Foreign
    Pieces = 2
    MaxAttempts = 2
    Faults = {"stdout"}
INVARIANTS
    SuccessfulTextIsWritten
