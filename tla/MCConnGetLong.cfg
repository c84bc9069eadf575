CONSTANTS
    k1 = k1
    kL = kL
    NoItem = NoItem
    NoKey = NoKey
    Keys <- MCKeys
    LongKey = kL
    Commands <- CommandsGetLong
    StoreResults <- MCStoreResults
    OptimizeResults <- MCOptimizeResults
    ItemIds = {1, 2, 3}
    MaxCmds = 2
    MaxClients = 2
    MaxOOM = 0

SPECIFICATION Spec


INVARIANT ReplyStreamConforms
