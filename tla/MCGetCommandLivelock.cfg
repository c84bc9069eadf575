\* As MCGetCommand.cfg, but ilist cannot grow past its one slot and no
\* allocation fails transiently: a get of two hits meets a try_realloc that
\* fails for good.
SPECIFICATION Spec
CONSTANTS
    Lines <- MCLines
    Space <- MCSpace
    Nul <- MCNul
    GetWord <- MCGetWord
    Stored <- MCStored
    MAX_TOKENS = 3
    MAX_KEY_LEN = 2
    ISIZE = 1
    MemLimit = 1
    MaxOOM = 0
PROPERTY GetTerminates
