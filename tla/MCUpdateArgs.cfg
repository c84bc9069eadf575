\* A long of 8 bits (LONG_MAX 127) and an int of 6 (INT_MAX 31): a vlen
\* of 32 .. 127 fits the long and not the int, as 2^31 .. 2^63-1 do on
\* LP64.
SPECIFICATION Spec
CONSTANTS
    FlagTokens <- MCFlagTokens
    ExptimeTokens <- MCExptimeTokens
    VlenTokens <- MCVlenTokens
    LongBits = 8
    IntBits = 6
INVARIANT BodyLengthAsSent
