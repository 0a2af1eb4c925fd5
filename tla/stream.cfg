\* Every length up to two more than the capacity of 6, the index limit scaled down to 2;
\* up to two damages anywhere in the container, right and wrong secrets and kinds, and
\* failures of both calls, in the middle of a write, too.
SPECIFICATION FairSpec
CONSTANTS
    Files = {f1, f2}
    Sealed = f1
    ChunkSize = 2
    MaxIndex = 2
    Lengths = {0, 1, 2, 3, 4, 5, 6, 7, 8}
    OtherLength = 3
    MaxEdits <- EditsByLength
    Faults = {"seal", "open"}
INVARIANTS
    TypeOK
    WritesOnlyPrefixes
    OkIsWhole
    SealsTheFormat
    OneNoncePerRecord
PROPERTIES
    LastChunkCommits
    RoundTrip
    BothReturn
