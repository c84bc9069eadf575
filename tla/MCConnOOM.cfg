CONSTANTS
    k1 = k1
    kL = kL
    NoItem = NoItem
    NoKey = NoKey
    Keys <- MCKeys
    LongKey = kL
    Commands <- CommandsOOM
    StoreResults <- MCStoreResults
    OptimizeResults <- MCOptimizeResults
    ItemIds = {1, 2, 3, 4, 5, 6}
    MaxCmds = 2
    MaxClients = 2
    MaxOOM = 1

SPECIFICATION Spec


INVARIANT OwnedItemsLive
