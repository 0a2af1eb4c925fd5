\* The same program, without the failures that only the backend can have.
SPECIFICATION Spec
CONSTANTS
    Encryptors = {e1, e2}
    Decryptors = {d1}
    Objects = {o1, o2}
    None = None
    Secrets = {s1, s2}
    Chunks = {a, b}
    MaxNonces = 2
    MaxChunks = 2
    Faults = {"late"}
INVARIANT ReleasedIsNeverUsed
CHECK_DEADLOCK FALSE
