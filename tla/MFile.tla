------------------------------- MODULE MFile -------------------------------
(***************************************************************************)
(* The mmap helper of src/src/mfile.c: a process-wide counter of mapped    *)
(* megabytes, curr_mmap_size, guarded by mmap_lock.  open_mfile admits a   *)
(* file under the lock, and a file larger than the wait threshold that     *)
(* would push the counter over MAX_MMAP_SIZE makes its caller unlock,      *)
(* sleep and retry.  A failed mmap gives its megabytes back, and           *)
(* close_mfile subtracts them again.                                       *)
(*                                                                         *)
(* Every thread calling open_mfile/close_mfile is an element of Threads.   *)
(* The critical sections (lines 37-45, 56-58 and 84-86) touch only         *)
(* curr_mmap_size and release the lock before doing anything else, so each *)
(* is one atomic action.  The steps outside the lock (open/fstat, mmap,    *)
(* the sleep) are actions of their own so that other threads interleave    *)
(* between them.  File sizes are in bytes-units, and `size >> 20` becomes  *)
(* `size \div Unit`.                                                        *)
(***************************************************************************)
EXTENDS Naturals, FiniteSets, FiniteSetsExt

CONSTANTS
    Threads,        \* the threads that open and close mapped files
    FileSizes,      \* st_size values the opened files may have
    Unit,           \* bytes per megabyte: `>> 20` is `\div Unit`
    MAX_MMAP_SIZE,  \* cap on curr_mmap_size for large files (1 << 12)
    WAIT_MIN_MB,    \* only files with mb > WAIT_MIN_MB wait (100)
    MaxOpens        \* bound on the number of open_mfile calls

ASSUME /\ FileSizes \subseteq Nat /\ Unit \in Nat \ {0}
       /\ {MAX_MMAP_SIZE, WAIT_MIN_MB, MaxOpens} \subseteq Nat

VARIABLES
    pc,              \* where each thread is in open_mfile/close_mfile
    size,            \* f->size (sb.st_size) of the file each thread handles
    curr_mmap_size,  \* the shared counter (line 17)
    opens            \* number of open_mfile calls so far (model bound)

vars == <<pc, size, curr_mmap_size, opens>>

\* pc values: "idle" (no file), "lock" (about to take mmap_lock at line 37
\* or 42), "sleep" (unlocked at line 40, in sleep(5)), "mmap" (counted,
\* mapping at line 52), "unacct" (mmap failed, about to give the megabytes
\* back at lines 56-58), "mapped" (open_mfile returned f).
PCs == {"idle", "lock", "sleep", "mmap", "unacct", "mapped"}

\* int mb = sb.st_size >> 20 (line 38, and f->size >> 20 at line 85).
MB(s) == s \div Unit

\* Mutant: the wait test forgets the file's own megabytes.
MustWaitCurrOnly(t) ==
    curr_mmap_size > MAX_MMAP_SIZE /\ MB(size[t]) > WAIT_MIN_MB

\* The while condition of line 39.
MustWait(t) ==
    curr_mmap_size + MB(size[t]) > MAX_MMAP_SIZE /\ MB(size[t]) > WAIT_MIN_MB

Init ==
    /\ pc = [t \in Threads |-> "idle"]
    /\ size = [t \in Threads |-> 0]
    /\ curr_mmap_size = 0
    /\ opens = 0

\* open_mfile, lines 22-35: open and fstat the file.  Either fails and
\* returns NULL before anything shared is touched, or goes on to take the
\* lock with sb.st_size known.
Open(t) ==
    /\ pc[t] = "idle"
    /\ opens < MaxOpens
    /\ opens' = opens + 1
    /\ \/ UNCHANGED <<pc, size>>
       \/ \E s \in FileSizes :
            /\ size' = [size EXCEPT ![t] = s]
            /\ pc' = [pc EXCEPT ![t] = "lock"]
    /\ UNCHANGED curr_mmap_size

\* Lines 37-45 (and 42-45 on a retry), under mmap_lock: if the file is large
\* and would exceed the cap, unlock and go to sleep (line 40); otherwise add
\* its megabytes to the counter and unlock.
Admit(t) ==
    /\ pc[t] = "lock"
    /\ IF MustWait(t)
         THEN /\ pc' = [pc EXCEPT ![t] = "sleep"]
              /\ UNCHANGED curr_mmap_size
         ELSE /\ curr_mmap_size' = curr_mmap_size + MB(size[t])
              /\ pc' = [pc EXCEPT ![t] = "mmap"]
    /\ UNCHANGED <<size, opens>>

\* sleep(5) at line 41, then back to pthread_mutex_lock at line 42.
Sleep(t) ==
    /\ pc[t] = "sleep"
    /\ pc' = [pc EXCEPT ![t] = "lock"]
    /\ UNCHANGED <<size, curr_mmap_size, opens>>

\* Lines 47-71: an empty file gets addr NULL; otherwise mmap either
\* succeeds (madvise failing only logs) or returns MAP_FAILED.
Mmap(t) ==
    /\ pc[t] = "mmap"
    /\ \/ /\ size[t] = 0
          /\ pc' = [pc EXCEPT ![t] = "mapped"]
       \/ /\ size[t] > 0
          /\ \E ok \in BOOLEAN :
                pc' = [pc EXCEPT ![t] = IF ok THEN "mapped" ELSE "unacct"]
    /\ UNCHANGED <<size, curr_mmap_size, opens>>

\* Mutant: the mmap-failure path returns NULL without giving mb back.
MmapFailedNoRefund(t) ==
    /\ pc[t] = "unacct"
    /\ pc' = [pc EXCEPT ![t] = "idle"]
    /\ UNCHANGED <<size, opens, curr_mmap_size>>

\* Lines 54-60: after a failed mmap, close the fd, take the lock, subtract
\* mb, unlock, free f and return NULL.
MmapFailed(t) ==
    /\ pc[t] = "unacct"
    /\ curr_mmap_size' = curr_mmap_size - MB(size[t])
    /\ pc' = [pc EXCEPT ![t] = "idle"]
    /\ UNCHANGED <<size, opens>>

\* Mutant: close_mfile subtracts f->size instead of f->size >> 20.
close_mfile_bytes(t) ==
    /\ pc[t] = "mapped"
    /\ curr_mmap_size' = curr_mmap_size - size[t]
    /\ pc' = [pc EXCEPT ![t] = "idle"]
    /\ UNCHANGED <<size, opens>>

\* close_mfile, lines 74-88: unmap if addr is set, close the fd, subtract
\* f->size >> 20 under the lock, free f.
close_mfile(t) ==
    /\ pc[t] = "mapped"
    /\ curr_mmap_size' = curr_mmap_size - MB(size[t])
    /\ pc' = [pc EXCEPT ![t] = "idle"]
    /\ UNCHANGED <<size, opens>>

\* Every allowed open_mfile call has been made and returned, and every file
\* has been closed: the model stops here.
Done ==
    /\ opens = MaxOpens
    /\ \A t \in Threads : pc[t] = "idle"
    /\ UNCHANGED vars

Thread(t) ==
    Open(t) \/ Admit(t) \/ Sleep(t) \/ Mmap(t) \/ MmapFailed(t) \/ close_mfile(t)

Next == (\E t \in Threads : Thread(t)) \/ Done

\* A thread inside open_mfile runs (weak fairness on each of its steps);
\* the callers of open_mfile are bulk scans that close what they open.
Fairness ==
    \A t \in Threads :
        /\ WF_vars(Admit(t)) /\ WF_vars(Sleep(t)) /\ WF_vars(Mmap(t))
        /\ WF_vars(MmapFailed(t)) /\ WF_vars(close_mfile(t))

Spec == Init /\ [][Next]_vars /\ Fairness

-----------------------------------------------------------------------------
TypeOK ==
    /\ pc \in [Threads -> PCs]
    /\ size \in [Threads -> FileSizes \cup {0}]
    /\ curr_mmap_size \in Nat
    /\ opens \in 0..MaxOpens

\* The threads whose megabytes are in the counter.
Counted == {t \in Threads : pc[t] \in {"mmap", "unacct", "mapped"}}

\* Accounting (spec 4.5b): curr_mmap_size is exactly the megabytes of the
\* files admitted at line 44 and not yet given back by the mmap-failure
\* path (line 57) or close_mfile (line 85).
MmapAccounting ==
    curr_mmap_size = MapThenSumSet(LAMBDA t : MB(size[t]), Counted)

\* Backpressure: the large files (mb > 100) that are counted never add up
\* to more than MAX_MMAP_SIZE, whatever the small files that bypass the
\* wait loop at line 39 have pushed the counter to.
LargeWithinCap ==
    MapThenSumSet(LAMBDA t : MB(size[t]),
                  {t \in Counted : MB(size[t]) > WAIT_MIN_MB})
        <= MAX_MMAP_SIZE

\* Every open_mfile call that reaches the wait loop of line 39 eventually
\* gets past it, once the other callers have closed their files.
OpenReturns ==
    \A t \in Threads : pc[t] \in {"lock", "sleep"} ~> pc[t] = "mmap"
=============================================================================
