\* Two packets; keys of two symbols, updates of up to three; one message and one secret
\* that exceed the limits.
SPECIFICATION Spec
CONSTANTS
    Secrets = {s1, s2, large}
    LargeSecrets = {large}
    Messages <- MCMessages
    a = a
    b = b
    Zero = Zero
    Garbage = Garbage
    NonceSize = 2
    TagSize = 2
    KeySize = 2
    IntMax = 3
    MaxPackets = 2
    Faults = {"backend", "memory"}
INVARIANTS
    TypeOK
    RejectedIsWiped
PROPERTIES
    KeepsBoxPromise
