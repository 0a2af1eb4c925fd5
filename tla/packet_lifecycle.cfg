\* One encryptor that may be moved, one decryptor, and every fault in every call.
SPECIFICATION Spec
CONSTANTS
    Encryptors = {e1, e2}
    Decryptors = {d1}
    Objects = {o1, o2}
    None = None
    Secrets = {s1, s2}
    Chunks = {a, b}
    MaxNonces = 2
    MaxChunks = 2
    Faults = {"backend", "late"}
INVARIANTS TypeOK TagCoversWhatWasReturned AcceptedIsSealed OneShot
CHECK_DEADLOCK FALSE
