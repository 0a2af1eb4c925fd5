\* One temporary name for two calls: every draw repeats, and calls run out of attempts.  A call
\* may fail in any step but the draw and the payload.  The late directory sync fails, too, and the
\* call then removes the name that the other call may hold by then.  Other processes create no
\* files: under the name of a call that lost its file so, they would be taken for that file.
SPECIFICATION FairSpec
CONSTANTS
    Calls = {c1, c2}
    Outputs = {o1}
    Tokens = {t1}
    NoSuffix = NoSuffix
    NoFile = NoFile
    Foreign = Foreign
    Pieces = 2
    MaxAttempts = 2
    Platforms = {"posix", "windows", "generic"}
    Faults = {"status", "crypto", "open", "fdopen", "input", "flush", "close", "link", "unlink", "dirsync", "token", "kill", "foreign_remove"}
PROPERTIES
    RemovesOnlyOwn
    Termination
    RaceHasWinner
