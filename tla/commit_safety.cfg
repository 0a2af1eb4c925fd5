\* Two racing calls, two temporary names, both branches that sync: failures before and after
\* the commit, deaths of one process and of the machine, and files of other processes.
SPECIFICATION Spec
CONSTANTS
    Calls = {c1, c2}
    Outputs = {o1}
    Tokens = {t1, t2}
    NoSuffix = NoSuffix
    NoFile = NoFile
    Foreign = Foreign
    Pieces = 2
    MaxAttempts = 2
    Platforms = {"posix", "windows"}
    Faults = {"random", "payload", "dirsync", "kill", "power", "foreign_create"}
SYMMETRY Symmetry
INVARIANTS
    TypeOK
    OutputsComplete
    CommitInvariant
    FailureCommitsNothing
    OkIsDurable
PROPERTIES
    NoOverwrite
    ReturnRemovesTemp
    RemovesOnlyOwn
    KeepsPromise
