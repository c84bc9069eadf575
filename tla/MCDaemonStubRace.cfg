\* As MCDaemon.cfg: a client meets EMFILE while another thread opens a file.
SPECIFICATION Spec
CONSTANTS
    NumFds = 6
    StdinOpen = TRUE
    AllowStopme = TRUE
    MaxConnects = 3
    MaxOtherOpens = 1
    Shells = {s1, s2, s3}
    FreeTotal = 1
PROPERTY PendingServed
