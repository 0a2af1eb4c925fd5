\* Two commands of every kind share an output, two temporary names, failures
\* everywhere but in the removal of a file, deaths of a process and of the machine, files of other processes.
SPECIFICATION FairSpec
CONSTANTS
    Calls = {c1, c2}
    Outputs = {o1}
    Tokens = {t1, t2}
    NoSuffix = NoSuffix
    NoFile = NoFile
    Foreign = Foreign
    Pieces = 1
    MaxAttempts = 2
    Faults = {"prepare", "status", "random", "open", "alloc", "payload", "close", "link", "stdout", "kill", "power", "foreign_create"}
INVARIANTS
    TypeOK
    OutputsComplete
PROPERTIES
    ExitIsHonest
    NoOverwrite
    RemovesOnlyOwn
    OpenedTempIsRemoved
    Termination
