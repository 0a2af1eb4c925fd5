\* Keys of one byte, sizes up to 15, three random bytes at a time; command lines of up to
\* five options, one more than any command has.
SPECIFICATION Spec
CONSTANTS
    KeySize = 1
    MaxSize = 15
    WordBits = 8
    IntMax = 3
    MaxPairs = 5
    Letters <- MCLetters
INVARIANTS
    TypeOK
    AcceptedAsDocumented
    DeliveredAsDocumented
    TokensAreFilled
    DecodersAreStrict
    RoundTrips
