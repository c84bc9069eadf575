------------------------------- MODULE Daemon -------------------------------
(***************************************************************************)
(* The process around the connections (src/src/beansdb.c): the listening  *)
(* connection's accept loop with the EMFILE stub-fd shedding of            *)
(* drive_machine, the flush thread (do_flush), the shutdown flag set by    *)
(* sig_handler or the stopme command, and main's join and hs_close.        *)
(*                                                                         *)
(* File descriptors are the numbers 0 .. NumFds - 1 (RLIMIT_NOFILE), and   *)
(* open/accept return the lowest free one, as POSIX requires.  Other       *)
(* threads that open files (the store's data files through open_mfile)    *)
(* are an environment that may take a descriptor at any moment.  loop_run  *)
(* is not in the repository: its exit when daemon_quit is seen follows     *)
(* spec section 5.  Descriptors the store keeps open for the whole run are *)
(* left out: they only shift the numbers of the others.                    *)
(*                                                                         *)
(* Each client connection holds a conn structure: conn_new takes one from  *)
(* the freelist (conn_init, do_conn_from_freelist) or allocates one, and   *)
(* conn_close frees it or puts it back (do_conn_add_to_freelist, which     *)
(* doubles the array with try_realloc when it is full).  The listener and  *)
(* the worker that closes a connection share the freelist and the          *)
(* curr_conns stat; each of them is one step here, as their accesses are   *)
(* under the freelist mutex and STATS_LOCK (spec section 4.2).  The        *)
(* listening connection's own structure is never freed and is left out,    *)
(* save for the 1 it adds to curr_conns.                                   *)
(***************************************************************************)
EXTENDS Naturals, FiniteSets, FiniteSetsExt, Sequences, SequencesExt, Functions

CONSTANTS
    NumFds,          \* RLIMIT_NOFILE
    StdinOpen,       \* whether fd 0 is open when main starts
    AllowStopme,     \* the -S flag (stopme = 1)
    MaxConnects,     \* bound: clients that connect
    MaxOtherOpens,   \* bound: files other threads open
    Shells,          \* conn structures (addresses calloc may return)
    FreeTotal        \* the freelist's initial size (200 at line 166)

Fds == 0..(NumFds - 1)

\* The lowest free descriptor of S, or -1 (EMFILE).
Lowest(S) == IF Fds \ S = {} THEN -1 ELSE Min(Fds \ S)

\* main, lines 2169-2176: stdio, then stub_fd = open("/dev/null"), then the
\* listening socket of server_socket.  log_init (2032) and hs_open (2163)
\* run before and are not in the repository; they are taken to keep no
\* descriptor open below the stub (one that did would take fd 0 when stdin
\* is closed and move the stub above it).
StdFds == IF StdinOpen THEN {0, 1, 2} ELSE {1, 2}
StubAtStart == Lowest(StdFds)
ListenFd == Lowest(StdFds \cup {StubAtStart})

ASSUME ListenFd >= 0

VARIABLES
    used,         \* descriptors open in the process
    stub_fd,      \* the static stub_fd (line 91)
    conns,        \* descriptors of accepted client connections
    files,        \* descriptors other threads hold
    others,       \* how many files other threads have opened (bound)
    lpc,          \* the listening connection: "idle", "shed", "reopen"
    backlog,      \* connections waiting in the listen queue
    arrivals,     \* clients that have connected (bound)
    daemon_quit,
    fpc,          \* flush thread: "check", "flushing", "exited"
    mpc,          \* main: "loop", "join", "close", "done"
    store_open,   \* hs_close has not run
    freeconns,    \* freeconns[0 .. freecurr-1], as a sequence
    freetotal,
    shell,        \* the structure of each client connection
    structs,      \* the structures allocated and not freed
    curr_conns    \* stats.curr_conns

vars == <<used, stub_fd, conns, files, others, lpc, backlog, arrivals,
          daemon_quit, fpc, mpc, store_open, freeconns, freetotal, shell,
          structs, curr_conns>>

pool == <<freeconns, freetotal, shell, structs, curr_conns>>

\* conn_init (164-169) leaves the freelist empty with freetotal entries,
\* and server_socket's conn_new for the listening connection (1752) makes
\* curr_conns 1.
Init ==
    /\ stub_fd = StubAtStart
    /\ used = StdFds \cup {stub_fd, ListenFd}
    /\ conns = {} /\ files = {} /\ others = 0
    /\ lpc = "idle" /\ backlog = 0 /\ arrivals = 0
    /\ daemon_quit = FALSE
    /\ fpc = "check" /\ mpc = "loop" /\ store_open = TRUE
    /\ freeconns = <<>> /\ freetotal = FreeTotal
    /\ shell = <<>> /\ structs = {}
    /\ curr_conns = 1

-----------------------------------------------------------------------------
(* The listening connection, drive_machine case conn_listening *)

\* do_conn_from_freelist, lines 176-188, called by conn_new (231-234): the
\* last structure of the array, or, when it is empty, a new one.
Taken ==
    IF freeconns # <<>> THEN Last(freeconns)
    ELSE CHOOSE s \in Shells : s \notin structs

\* Mutant: freecurr is not decremented.
FromFreelistNoPop == freeconns

\* The freelist once Taken has been removed from it.
FromFreelist == IF freeconns # <<>> THEN Front(freeconns) ELSE freeconns

\* Mutant: the bound is tested with <=, so a full array is written one
\* slot past its end instead of being doubled.
AddToFreelistPastEnd(list, c) ==
    IF Len(list) <= freetotal
    THEN {[list |-> Append(list, c), total |-> freetotal]}
    ELSE {[list |-> Append(list, c), total |-> freetotal * 2],
          [list |-> list, total |-> freetotal]}

\* do_conn_add_to_freelist(c), lines 194-213, on the array list: c is
\* stored, after doubling the array when it is full, or, when try_realloc
\* fails, the call returns true and the list is left as it was.
AddToFreelist(list, c) ==
    IF Len(list) < freetotal
    THEN {[list |-> Append(list, c), total |-> freetotal]}
    ELSE {[list |-> Append(list, c), total |-> freetotal * 2],
          [list |-> list, total |-> freetotal]}

\* if (conn_add_to_freelist(c)) conn_free(c), lines 295-297 and 369-371,
\* with list the array before the call.
PutBack(list, c) ==
    \E r \in AddToFreelist(list, c) :
       /\ freeconns' = r.list /\ freetotal' = r.total
       /\ structs' = IF c \in ToSet(r.list) THEN structs \cup {c} ELSE structs \ {c}

\* Mutant: a connection conn_new could not set up is not closed.
AcceptNoClose ==
    /\ lpc = "idle" /\ ~daemon_quit /\ backlog > 0
    /\ Lowest(used) # -1
    /\ backlog' = backlog - 1
    /\ LET sfd == Lowest(used) IN
       /\ used' = used \cup {sfd}
       /\ \/ /\ conns' = conns \cup {sfd} /\ shell' = (sfd :> Taken) @@ shell
             /\ freeconns' = FromFreelist /\ structs' = structs \cup {Taken}
             /\ curr_conns' = curr_conns + 1
          \/ UNCHANGED <<conns, shell, freeconns, structs, curr_conns>>
    /\ UNCHANGED <<freetotal, stub_fd, files, others, lpc, arrivals, daemon_quit, fpc, mpc,
                   store_open>>

\* Lines 1466-1468 and 1491-1504: accept returns the lowest free fd and
\* conn_new (229-310) sets the connection up with the Taken structure,
\* adding 1 to curr_conns.  When fcntl fails, or conn_new has to allocate
\* and calloc or one of the buffer mallocs fails (233-258), or add_event
\* fails and the structure goes back to the freelist (294-301), the
\* descriptor is closed again.
Accept ==
    /\ lpc = "idle" /\ ~daemon_quit /\ backlog > 0
    /\ Lowest(used) # -1
    /\ backlog' = backlog - 1
    /\ LET sfd == Lowest(used) IN
       \/ /\ conns' = conns \cup {sfd} /\ used' = used \cup {sfd}
          /\ shell' = (sfd :> Taken) @@ shell
          /\ freeconns' = FromFreelist /\ structs' = structs \cup {Taken}
          /\ curr_conns' = curr_conns + 1
          /\ UNCHANGED freetotal
       \/ UNCHANGED <<conns, used, pool>>
       \/ /\ PutBack(FromFreelist, Taken)
          /\ UNCHANGED <<conns, used, shell, curr_conns>>
    /\ UNCHANGED <<stub_fd, files, others, lpc, arrivals, daemon_quit, fpc, mpc, store_open>>

\* Lines 1472-1476: accept fails with EMFILE; if stub_fd > 0 it is closed
\* to make room.  (With stub_fd <= 0 the listener just stops and is woken
\* again while the queue is non-empty: a step that changes nothing.)
AcceptEMFILE ==
    /\ lpc = "idle" /\ ~daemon_quit /\ backlog > 0
    /\ Lowest(used) = -1
    /\ stub_fd > 0
    /\ used' = used \ {stub_fd}
    /\ lpc' = "shed"
    /\ UNCHANGED <<pool, stub_fd, conns, files, others, backlog, arrivals, daemon_quit,
                   fpc, mpc, store_open>>

\* Lines 1477-1483: accept again and close the connection at once; if some
\* other thread took the freed descriptor first, accept fails again.
Shed ==
    /\ lpc = "shed"
    /\ IF Lowest(used) # -1 /\ backlog > 0
       THEN backlog' = backlog - 1
       ELSE UNCHANGED backlog
    /\ lpc' = "reopen"
    /\ UNCHANGED <<pool, used, stub_fd, conns, files, others, arrivals, daemon_quit,
                   fpc, mpc, store_open>>

\* Line 1484: stub_fd = open("/dev/null"), -1 when no descriptor is free.
Reopen ==
    /\ lpc = "reopen"
    /\ stub_fd' = Lowest(used)
    /\ used' = IF Lowest(used) = -1 THEN used ELSE used \cup {Lowest(used)}
    /\ lpc' = "idle"
    /\ UNCHANGED <<pool, conns, files, others, backlog, arrivals, daemon_quit, fpc, mpc, store_open>>

-----------------------------------------------------------------------------
(* Clients, connections and other threads' files *)

Connect ==
    /\ arrivals < MaxConnects
    /\ arrivals' = arrivals + 1 /\ backlog' = backlog + 1
    /\ UNCHANGED <<pool, used, stub_fd, conns, files, others, lpc, daemon_quit, fpc, mpc, store_open>>

\* conn_close, lines 353-377, once the client has gone: close(c->sfd);
\* a structure with big buffers (rsize > READ_BUFFER_HIGHWAT, after
\* conn_read grew rbuf) is freed, any other is PutBack; curr_conns--.
CloseConn ==
    \E fd \in conns, big \in BOOLEAN :
       /\ conns' = conns \ {fd} /\ used' = used \ {fd}
       /\ shell' = Restrict(shell, conns')
       /\ IF big THEN structs' = structs \ {shell[fd]} /\ UNCHANGED <<freeconns, freetotal>>
                 ELSE PutBack(freeconns, shell[fd])
       /\ curr_conns' = curr_conns - 1
       /\ UNCHANGED <<stub_fd, files, others, lpc, backlog, arrivals, daemon_quit,
                      fpc, mpc, store_open>>

\* open_mfile's open (mfile.c 22-26) in another thread, and close_mfile's
\* close (mfile.c 83).
OtherOpen ==
    /\ others < MaxOtherOpens /\ Lowest(used) # -1
    /\ others' = others + 1
    /\ files' = files \cup {Lowest(used)} /\ used' = used \cup {Lowest(used)}
    /\ UNCHANGED <<pool, stub_fd, conns, lpc, backlog, arrivals, daemon_quit, fpc, mpc, store_open>>

OtherClose ==
    \E fd \in files :
       /\ files' = files \ {fd} /\ used' = used \ {fd}
       /\ UNCHANGED <<pool, stub_fd, conns, others, lpc, backlog, arrivals, daemon_quit,
                      fpc, mpc, store_open>>

-----------------------------------------------------------------------------
(* Shutdown *)

\* sig_handler, lines 1917-1927, for SIGTERM, SIGQUIT or SIGINT.
SigHandler ==
    /\ ~daemon_quit
    /\ daemon_quit' = TRUE
    /\ UNCHANGED <<pool, used, stub_fd, conns, files, others, lpc, backlog, arrivals,
                   fpc, mpc, store_open>>

\* process_command, lines 1256-1260: the stopme command with -S.
Stopme ==
    /\ AllowStopme /\ ~daemon_quit
    /\ daemon_quit' = TRUE
    /\ UNCHANGED <<pool, used, stub_fd, conns, files, others, lpc, backlog, arrivals,
                   fpc, mpc, store_open>>

\* Mutant: the flush loop does not test daemon_quit.
FlushCheckNoQuit ==
    /\ fpc = "check"
    /\ fpc' = "flushing"
    /\ UNCHANGED <<pool, used, stub_fd, conns, files, others, lpc, backlog, arrivals,
                   daemon_quit, mpc, store_open>>

\* do_flush, line 1931: while (!daemon_quit).
FlushCheck ==
    /\ fpc = "check"
    /\ fpc' = IF daemon_quit THEN "exited" ELSE "flushing"
    /\ UNCHANGED <<pool, used, stub_fd, conns, files, others, lpc, backlog, arrivals,
                   daemon_quit, mpc, store_open>>

\* Lines 1932-1934: hs_flush returns, sleep(1).
FlushStep ==
    /\ fpc = "flushing"
    /\ fpc' = "check"
    /\ UNCHANGED <<pool, used, stub_fd, conns, files, others, lpc, backlog, arrivals,
                   daemon_quit, mpc, store_open>>

\* loop_run returns once daemon_quit is seen and the listener is between
\* events (spec section 5; loop_run is not in the repository).
LoopExit ==
    /\ mpc = "loop" /\ daemon_quit /\ lpc = "idle"
    /\ mpc' = "join"
    /\ UNCHANGED <<pool, used, stub_fd, conns, files, others, lpc, backlog, arrivals,
                   daemon_quit, fpc, store_open>>

\* Lines 2203-2204: pthread_join(flush_id), then pthread_detach.
Join ==
    /\ mpc = "join" /\ fpc = "exited"
    /\ mpc' = "close"
    /\ UNCHANGED <<pool, used, stub_fd, conns, files, others, lpc, backlog, arrivals,
                   daemon_quit, fpc, store_open>>

\* Line 2206: hs_close(store).
CloseStore ==
    /\ mpc = "close"
    /\ store_open' = FALSE /\ mpc' = "done"
    /\ UNCHANGED <<pool, used, stub_fd, conns, files, others, lpc, backlog, arrivals,
                   daemon_quit, fpc>>

\* main has returned: the process is gone.
Done ==
    /\ mpc = "done"
    /\ UNCHANGED vars

Listener == Accept \/ AcceptEMFILE \/ Shed \/ Reopen

Next ==
    \/ Listener
    \/ Connect \/ CloseConn \/ OtherOpen \/ OtherClose
    \/ SigHandler \/ Stopme
    \/ FlushCheck \/ FlushStep
    \/ LoopExit \/ Join \/ CloseStore \/ Done

\* Threads are scheduled: the listening connection is handled while it is
\* readable (the queue is non-empty), the flush thread and main run, and
\* a thread that opened a file closes it.  Clients, signals and the
\* opening of files are owed nothing.
Fairness ==
    /\ WF_vars(Accept) /\ WF_vars(AcceptEMFILE) /\ WF_vars(Shed) /\ WF_vars(Reopen)
    /\ WF_vars(FlushCheck) /\ WF_vars(FlushStep)
    /\ WF_vars(LoopExit) /\ WF_vars(Join) /\ WF_vars(CloseStore)
    /\ WF_vars(OtherClose)

Spec == Init /\ [][Next]_vars /\ Fairness

-----------------------------------------------------------------------------
TypeOK ==
    /\ used \subseteq Fds /\ conns \subseteq Fds /\ files \subseteq Fds
    /\ stub_fd \in Fds \cup {-1}
    /\ lpc \in {"idle", "shed", "reopen"}
    /\ backlog \in 0..MaxConnects /\ arrivals \in 0..MaxConnects
    /\ others \in 0..MaxOtherOpens
    /\ daemon_quit \in BOOLEAN /\ store_open \in BOOLEAN
    /\ fpc \in {"check", "flushing", "exited"}
    /\ mpc \in {"loop", "join", "close", "done"}
    /\ structs \subseteq Shells /\ shell \in [conns -> Shells]
    /\ freeconns \in Seq(Shells) /\ Len(freeconns) <= freetotal
    /\ curr_conns \in Nat

\* The stub is held except while the listener is shedding.
StubHeld == IF lpc = "idle" /\ stub_fd # -1 THEN {stub_fd} ELSE {}

Owners == <<StdFds, {ListenFd}, conns, files, StubHeld>>

\* Every open descriptor has exactly one owner (stdio, the listening
\* socket, a connection, another thread's file, the stub) and every
\* owner's descriptor is open: accept, the EMFILE shedding and conn_new's
\* failure path neither leak nor share a descriptor.
FdOwnership ==
    /\ used = UNION {Owners[i] : i \in 1..5}
    /\ Cardinality(used) = MapThenSumSet(LAMBDA i : Cardinality(Owners[i]), 1..5)

\* Every conn structure the process holds serves exactly one open
\* client connection or waits on the freelist, once: conn_new's reuse and
\* its add_event failure path, and conn_close's return or free of the
\* structure, never hand one structure to two connections, leak one, or
\* free one that is in use.  The curr_connections stat (curr_conns - 1,
\* line 813) is the number of open client connections.
PoolAccounting ==
    /\ IsInjective(shell)
    /\ Len(freeconns) = Cardinality(ToSet(freeconns))
    /\ Range(shell) \cap ToSet(freeconns) = {}
    /\ structs = Range(shell) \cup ToSet(freeconns)
    /\ curr_conns - 1 = Cardinality(conns)

\* A client waiting in the listen queue is accepted or shed, even when
\* every descriptor is taken (the stub-fd trick of spec 4.3), unless the
\* server is shutting down.
PendingServed == backlog > 0 ~> (backlog = 0 \/ daemon_quit)

\* Once daemon_quit is set, the flush thread exits, main joins it and the
\* store is closed.
ShutdownCompletes == daemon_quit ~> ~store_open
=============================================================================
