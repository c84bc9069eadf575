CONSTANTS
    IOV_MAX = 2
    MAX_PAYLOAD_SIZE = 3
    IOV_LIST_INITIAL = 2
    IOV_LIST_HIGHWAT = 3
    MSG_LIST_INITIAL = 1
    MSG_LIST_HIGHWAT = 1
    FragLens <- MCFragLens
    MaxFrags = 3
    NoAdd = NoAdd

SPECIFICATION Spec

INVARIANT TypeOK
INVARIANT NoStaleIovPointer
INVARIANT IovPartition
INVARIANT FirstMsgWithinPayload

PROPERTY ImplementsByteQueue
