\* Seven descriptors: stdio 0-2, the stub 3, the listening socket 4 and two
\* for clients, so two connections hold structures at once and the third
\* client meets EMFILE while both are open; another thread may open one
\* file.  A freelist of one entry makes conn_close's second return double
\* it (try_realloc) or fail.
SPECIFICATION Spec
CONSTANTS
    NumFds = 7
    StdinOpen = TRUE
    AllowStopme = TRUE
    MaxConnects = 3
    MaxOtherOpens = 1
    Shells = {s1, s2, s3}
    FreeTotal = 1
INVARIANT TypeOK
INVARIANT FdOwnership
INVARIANT PoolAccounting
PROPERTY ShutdownCompletes
