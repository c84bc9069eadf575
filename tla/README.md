# TLA+ models of beansdb's request core

beansdb (`src/src/beansdb.c`, `src/src/mfile.c`) is a memcached-protocol
front end to the `hstore` storage engine. The engine is not part of this
repository. This directory holds TLA+ models of the parts of the front end where
ordering, partial progress and ownership matter. It also holds the TLC
configurations that check them.

## The system

| Part | Code | State | Operations |
|---|---|---|---|
| C1 Event reactor and listener | `drive_machine` `conn_listening`, `stub_fd` | listening fd, stub fd | accept, EMFILE shedding |
| C2 Connection buffers | `add_msghdr`, `ensure_iov_space`, `add_iov`, `transmit`, `conn_shrink` | `iov[]`, `iovused/iovsize`, `msglist[]`, `msgused/msgsize/msgcurr`, `msgbytes` | queue a fragment, split it, grow the arrays, send a msghdr, trim after a partial send, shrink |
| C3 Connection state machine | `drive_machine`, `conn_new`, `conn_close`, `conn_cleanup`, `conn_set_state` | `state`, `rbuf/rcurr/rbytes`, `item/ritem/rlbytes`, `wbuf`, `write_and_go`, `noreply`, `ilist/icurr/ileft` | read, nread, swallow, write, mwrite, closing |
| C4 Parser | `try_read_command`, `tokenize_command`, `process_command` | the tokens of one line | frame a line, dispatch |
| C5 Handlers | `process_get_command`, `process_update_command`, `complete_nread`, `process_arithmetic_command`, `process_delete_command`, `flush_all` in `process_command`, `out_string`, `set_noreply_maybe` | as C3 | one reply each |
| C6 Store adapter | `hstore` (not in `src/`), `store_item`, `add_delta` | keys, items | get / set / append / incr / delete / optimize |
| C7 Flush worker and shutdown | `do_flush`, `sig_handler`, `stopme`, end of `main` | `daemon_quit` | flush, sleep, quit, join, `hs_close` |
| MFile accounting | `open_mfile`, `close_mfile` | `curr_mmap_size`, `mmap_lock` | open with a sleep-and-retry cap, close |
| Freelist and stats | `do_conn_from_freelist`, `do_conn_add_to_freelist`, `STATS_LOCK` | `freeconns`, `stats` | take and return a connection, count |

These parts interact as follows:
- **Reactor and connections.** The reactor hands a ready connection to `drive_machine`. `drive_machine` runs the connection's states until it would block.
- **Reading and dispatch.** In `conn_read` a complete line goes to `process_command`. That function first empties the iov and msghdr lists, then calls a handler.
- **How a handler replies.** A handler takes one of three paths:
  - It writes one line with `out_string`. That line goes to `wbuf` and the connection moves to `conn_write`. Under `noreply` it writes nothing and the connection goes back to `conn_read`.
  - `get` queues iovecs with `add_iov` that point into the items it takes from the store. It keeps those items in `ilist` and moves to `conn_mwrite`.
  - `set` and `append` allocate an item, move to `conn_nread` to read the body into it, and end in `complete_nread`.
- **Writing.** `conn_write` queues `wbuf` as the only iovec, but only if `iovused` is 0. Both write states call `transmit` until it returns complete. `conn_mwrite` then frees the items in `ilist`, and `conn_set_state(conn_read)` shrinks oversized arrays.
- **Closing.** `conn_close` runs `conn_cleanup`, which frees `c->item` and the items still counted by `c->ileft`. It then returns the structure to the freelist, and `conn_new` reuses it for the next client.

What makes this code hard to test:
- the reply is assembled in pieces across several arrays that may be reallocated mid-reply;
- `sendmsg` may take any prefix of a reply;
- items back the memory being sent and must outlive the send but no more;
- `noreply` is a flag that outlives a command;
- early returns from handlers leave state behind for `conn_write`.

## Modules

### `ByteQueue` (abstract)

This module states what the reply path promises. The bytes a handler queues reach the socket in order, each exactly once, in pieces of any size. A new reply starts only once the last one has been drained.
- Its variables are `queue` and `wire`.
- Its actions are `Add`, `Send` and `NewReply`.

### `Iov` (C2): detailed reply path of one connection, from `process_command` to `conn_read`

| Variable | Code |
|---|---|
| `iov` | `c->iov`, entries `[buf, off, len]`; the bytes of buffer `b` are `<<b, i>>` |
| `msglist` | `c->msglist[0 .. msgused-1]`, entries `[gen, base, iovlen]`: `msg_iov` = `&iov[base]` in array generation `gen` |
| `iovused`, `iovsize`, `msgsize`, `msgcurr`, `msgbytes` | the fields of the same name |
| `iovgen` | which allocation of `c->iov` is current. It flips on every realloc, so a msghdr left pointing at the old one is detectable |
| `pending` | the part of the buffer that a running `add_iov` call has not yet queued |

| Action | Code |
|---|---|
| `Begin` | `process_command`'s reset and first `add_msghdr` |
| `StartAdd` | a handler calling `add_iov` with a buffer of a length from `FragLens` |
| `AddIovStep` | one pass of `add_iov`'s do-while loop, including `add_msghdr` (`NeedNewMsg`), `ensure_iov_space` with the re-pointing loop (`Repoint`), and the `MAX_PAYLOAD_SIZE` split (`Leftover`) |
| `EndBuild` | `conn_set_state(c, conn_mwrite); c->msgcurr = 0` |
| `TransmitSend` | `transmit` with `sendmsg` accepting `res` bytes (`NextMsg`, `Trim`) |
| `TransmitComplete` | `TRANSMIT_COMPLETE`, moving to `conn_read`, and `conn_shrink` |

Data abstraction: buffer contents are names. A byte is only its buffer and position, which is all that ordering and duplication need.

`Queue` maps `Iov` onto `ByteQueue`: the bytes the unsent msghdrs point at, then the bytes of `pending`. `ImplementsByteQueue` checks `Abs!Spec`.

### `MFile`: the mmap counter of `mfile.c`, over several threads

| Variable | Code |
|---|---|
| `curr_mmap_size` | the static counter of line 17 |
| `pc[t]` | where thread `t` is: idle, before `pthread_mutex_lock` (`"lock"`), in `sleep(5)`, mapping, giving back after a failed mmap, holding a mapped file |
| `size[t]` | `sb.st_size` / `f->size` of `t`'s file, in bytes-units; `>> 20` is `MB(s) == s \div Unit` |
| `opens` | how many `open_mfile` calls were made (bounded by `MaxOpens`) |

| Action | Code |
|---|---|
| `Open` | lines 22-35: open/fstat fail (return NULL), or the size is known |
| `Admit` | the critical section of 37-45 (or 42-45 on a retry): the wait test `MustWait` (line 39) then either unlock and sleep, or `curr_mmap_size += mb` and unlock |
| `Sleep` | `sleep(5)` and back to the lock |
| `Mmap` | 47-71: an empty file gets `addr = NULL`; otherwise mmap succeeds or fails |
| `MmapFailed` | 54-60: subtract `mb` under the lock, return NULL |
| `close_mfile` | 74-88: subtract `f->size >> 20` under the lock |

Each critical section is one action: the code touches only `curr_mmap_size` between lock and unlock. The steps outside the lock are separate actions, so threads interleave between them. `posix_fadvise` and `madvise` only advise the kernel and are left out.

### `Daemon` (C1, C7, freelist and `curr_conns`): the listener, the connection structures, the flush thread and shutdown

Descriptors are the numbers `0 .. NumFds-1`, and `open` and `accept` return the lowest free one, as POSIX requires. `main` takes stdio, then the stub (line 2169), then the listening socket. Other threads' `open_mfile`/`close_mfile` are an environment that takes and frees descriptors at any moment.

| Variable | Code |
|---|---|
| `used` | the process's open descriptors |
| `stub_fd` | the static `stub_fd` (line 91) |
| `conns`, `files` | descriptors held by client connections and by other threads |
| `lpc` | where the listening connection is in its EMFILE path: `"idle"`, after `close(stub_fd)` (`"shed"`), before the reopen (`"reopen"`) |
| `backlog`, `arrivals` | clients in the listen queue; clients so far (bound) |
| `daemon_quit`, `fpc`, `mpc`, `store_open` | the flag; the flush thread's place in `do_flush`; `main` after `loop_run`; `hs_close` not yet run |
| `freeconns`, `freetotal` | `freeconns[0 .. freecurr-1]` as a sequence, and the array's size (`conn_init`, 164-169) |
| `shell`, `structs` | the `conn` structure of each client connection; the structures allocated and not freed (from the model values `Shells`) |
| `curr_conns` | `stats.curr_conns`, 1 at start for the listening connection |

| Action | Code |
|---|---|
| `Taken`, `FromFreelist` | `do_conn_from_freelist` (176-188): the last structure of the array, or a new one when it is empty |
| `AddToFreelist`, `PutBack` | `do_conn_add_to_freelist` (194-213): store, after doubling the array when full, or return true when `try_realloc` fails, and the caller's `conn_free` |
| `Accept` | 1466-1504: accept gets the lowest free fd; `conn_new` sets up the connection with the `Taken` structure and `curr_conns++`; or fcntl or an allocation of `conn_new` fails and the fd is closed; or `add_event` fails (294-301): the structure is `PutBack`, the fd closed |
| `AcceptEMFILE` | 1468-1476: accept fails with EMFILE; if `stub_fd > 0`, close it |
| `Shed` | 1477-1483: accept again and close at once, if a descriptor is free |
| `Reopen` | 1484: `stub_fd = open("/dev/null")`, unchecked, so -1 when none is free |
| `CloseConn` | `conn_close`, 353-377: close the fd; free a structure with big buffers, `PutBack` any other; `curr_conns--` |
| `OtherOpen`, `OtherClose` | `open_mfile`'s open (mfile.c 22-26) and `close_mfile`'s close (83) in a store thread |
| `SigHandler`, `Stopme` | `sig_handler` (1917-1927) and the `stopme` command (1256-1260) set `daemon_quit` |
| `FlushCheck`, `FlushStep` | `do_flush`: the `while (!daemon_quit)` test, and one `hs_flush` plus `sleep(1)` |
| `LoopExit` | `loop_run` returns once it sees `daemon_quit` (not in `src/`; from spec §5) |
| `Join`, `CloseStore` | `pthread_join` (2203) then `hs_close` (2206) |

When `stub_fd <= 0` at EMFILE the listener stops and is woken again while the queue is non-empty; that step changes nothing and is the stuttering of the model.

### `GetCommand` (C4 and the key loop of C5): tokenising a get line, character by character

A line is a sequence of characters (`"g"` spells the command, `"k"` the keys, `Space`, and `Nul` for `'\0'`); pointers are positions, NULL is 0.

| Variable | Code |
|---|---|
| `buf` | the command buffer, with the NULs `tokenize_command` writes over spaces |
| `toks`, `kt` | `tokens[]` as `[value, length]` records; `key_token` as an index |
| `ilist`, `isize` | the keys of the items in `c->ilist[0 .. i-1]`; `c->isize` |
| `line`, `looked` | history: the line as received; the keys `item_get` answered (a miss, or a hit stored) |
| `ooms`, `pc` | transient allocation failures so far; where the function is |

| Definition | Code |
|---|---|
| `Scan`, `Terminal`, `tokenize_command` | `tokenize_command` (670-709): the loop, the NUL writes, the `max_tokens - 1` cap and the terminal token |
| `ProcessCommand` | `process_command` 1178-1180: tokenise, dispatch a get of `ntokens >= 3`, else `ERROR` |
| `LongKey`, `Miss`, `Hit`, `HitFailed` | the inner loop of `process_get_command` (881-942); `Grown` is the `ilist` growth test (900-911) |
| `BatchEnd`, `Batch` | the end of a batch and the re-tokenisation from `key_token->value` (949-954) |
| `End` | 956-973: `END` or, if `add_iov` fails, `SERVER_ERROR` |

`try_realloc` of `ilist` fails for good once the doubled size passes `MemLimit` (memory exhausted), and any allocation may also fail transiently, at most `MaxOOM` times. `Conn` models the same function over whole keys, with its iovecs and item ownership. `GetCommand` models what `Conn` abstracts away: the tokenising and the batches.

### `Conn` (C3, C4, C5, and C6 as an environment): one connection structure over successive clients

| Variable | Code |
|---|---|
| `state` | `c->state`, plus `"closed"` for a structure on the freelist |
| `rbuf` | `rcurr .. rcurr+rbytes` |
| `item` | `c->item` |
| `rlbytes` | `c->rlbytes` |
| `iov` | the iovecs the current command queued: one piece per `add_iov` call. Byte-level splitting is `Iov`'s subject |
| `iovsent` | how many pieces `sendmsg` has taken |
| `wbuf` | the line `out_string` wrote |
| `write_and_go`, `noreply` | the fields of the same name |
| `ilist`, `icurr`, `ileft` | the item list, with `icurr` as an index |
| `live` | items allocated and not yet freed: the allocator's view |
| `store` | keys the engine holds |
| `net` | units sent by the client and not yet read |
| `eof` | the client shut its side of the socket |
| `sent`, `recv` | the client's history |
| `clients` | how many clients the structure has served |
| `ooms` | how many allocations have failed, at most `MaxOOM` |

The inbound stream is made of units: a whole command line (a record), or one byte of a value body (`D`, `CR`, `LF`). A line that is not a command the client sent parses as `Garbage`. Examples are a body misread as a line, or body bytes glued to the next line.

| Action | Code |
|---|---|
| `ReadGet`, `ReadUpdate`, `ReadIncr`, `ReadDelete`, `ReadFlushAll`, `ReadQuit`, `ReadUnknown`, `ReadStats` (`process_stat`: `STAT` block, `RESET`, or `ERROR`), `ReadVersion`, `ReadVerbosity` (`process_verbosity_command`, whose `set_noreply_maybe` reads the level token itself), `ReadOptimizeStat` | `try_read_command` plus `process_command` plus the handler, ending with `out_string` where it is called (`OutString`, `NoreplyMaybe`, `GetKeys`) |
| `ReadNetwork`, `ReadClosed`, `ReadFilledClosed` | `try_read_network`: read some bytes, or EOF → `conn_closing`; a read that fills `rbuf` loops for another, and an EOF then closes with the lines just read unprocessed (1352-1369) |
| `NreadBuffered`, `NreadSocket`, `NreadClosed`, `CompleteNread` | the four branches of `conn_nread`, and `complete_nread` |
| `TransmitSend`, `TransmitError`, `TransmitComplete` | `conn_write`/`conn_mwrite` around `transmit`. `Outgoing` is what `conn_write` sends: `wbuf` only when `iov` is empty |
| `ConnClose` | `conn_close` plus `conn_cleanup` |
| `ConnNew` | `conn_new` taking the structure from the freelist |
| `ReadUpdateAllocFail` | `item_alloc1` returning NULL, dereferenced at lines 1021-1023: the process dies (`state = "crashed"`) |
| `ReadNetworkOOM`, `NoMsghdr` | `try_read_network` failing to double `rbuf` (1338-1346): `out_string(SERVER_ERROR)`, `write_and_go = conn_closing`, with `iovused` left as it was. `conn_write` (1615-1622) queues `wbuf` only when `iovused` is 0: the line is sent after a noreply command (`msgused` 1), not after a reply with iovecs, and not on a connection that has parsed no command since `conn_new` (`msgused` 0, `NoMsghdr`, derived from the commands whose line is still unparsed) |
| `ClientSend`, `ClientDie`, `ClientClose` | the client: it sends a whole command, or part of one (`Part`, the start of a line, or a line and part of its value) and then dies, or shuts the socket |
| `Done` | the last client the model allows has gone, or the process has crashed |

Allocation failure is a nondeterministic fault bounded by `MaxOOM`.
- In `get`, `GetKeys` returns the set of possible outcomes of the key loop. Any hit may fail in ilist growth or in one of its three `add_iov` calls (`HitFailed`); the iovecs queued before the failure stay, and the item is freed. The key is then retried alone, because `tokenize_command` had NUL-terminated it, and the keys after it are dropped. After the loop, `add_iov("END")` may fail as well, and then `out_string(SERVER_ERROR)` runs with the hits still queued.
- `item_alloc1` returning NULL crashes the process (`ReadUpdateAllocFail`). Writing through a NULL pointer faults on every build, whatever the compiler does with the check after it.
- `rbuf` growth failure is `ReadNetworkOOM`.
- `process_command`'s own `add_msghdr` (1169) cannot fail: `msgused` has just been set to 0 and `msgsize` is at least `MSG_LIST_INITIAL`, so its `SERVER_ERROR` is unreachable and not modelled.

`ReadFlushAll` is lines 1228-1255: a limit `safe_strtol` rejects is `CLIENT_ERROR`, otherwise `hs_optimize`'s code becomes one of four lines. The `if` chain has no `else`: a code outside 0..-3 would send nothing and leave `c->noreply` set for the next command. The storage interface (spec: `optimize -> {Ok, ReadOnly, Running, BadArg}`) returns only those four codes, so `OptimizeResults` holds only their lines. `MCConn` sends `flush_all` plainly, with `noreply`, and with a bad limit.

### `UpdateArgs` (C4/C5): the numeric arguments of set and append

`process_update_command` converts flags with `strtoul` into an `int`, exptime with `strtol` into a `time_t`, and vlen with `strtol` into an `int`, with one `errno` for the three calls (1007-1012), then asks `item_alloc1` for `vlen + 2` bytes. Tokens are strings of characters. `Scan`, `strtol` and `strtoul` are glibc's base-10 conversions (optional sign, longest digit run, clamping with `ERANGE`, unsigned negation); `Wrap` is the narrowing to an `int` modulo 2^`IntBits`; `Errno` is `errno` after each call, where a call that converts no digit may set `EINVAL` (C99) or not (glibc). `UpdateCommand` is the whole of lines 1007-1023; `Done` stutters. `Number` is a declarative decimal value, the reference the property compares with.

`hstore` is not in this repository. It appears only as nondeterminism:
- hits are the keys in `store`;
- the replies of `hs_set`/`hs_append` range over `StoreResults`, and those of `hs_optimize` over `OptimizeResults`;
- `item_get`/`item_alloc1` hand out the least id not in `live` (`FreeId`).

## Runs

| Run | Config | Result | What it shows |
|---|---|---|---|
| `iov_reply_path` | `MCIov.cfg` | pass, 496 states | `TypeOK`; `NoStaleIovPointer` (every msghdr points into the current iov array after each realloc); `IovPartition` (msghdrs partition the iovecs in order, none above `IOV_MAX`); `FirstMsgWithinPayload`; `ImplementsByteQueue` (the reply path refines `ByteQueue`) |
| `conn_protocol` | `MCConn.cfg` | pass, 934,268 states | `TypeOK`; `ReplyStreamConforms` (the client's received pieces are a prefix of a legal reply stream for its commands, and the whole of it once the server is quiet); `ItemOwnership` (`live` is exactly the `ilist` items still counted by `ileft` plus `c->item`); `NoDanglingIov` (no unsent piece points into a freed item); `Responsive` (liveness: an unanswered command is eventually answered unless the connection closes) |
| `get_long_key_desync` | `MCConnGetLong.cfg` | violation of `ReplyStreamConforms` | `get k1 kL` with `k1` present sends `VALUE`, key and data, then nothing more: no `END` and no `CLIENT_ERROR` (`process_get_command` line 891 calls `out_string` with `iovused != 0`, and `conn_write` at line 1615 ignores `wbuf`). The same return leaves `c->ileft` unset, so the hit items are never freed either |
| `conn_oom` | `MCConnOOM.cfg` | pass, 67,056 states | with `MaxOOM = 1`, a get of two hits, a set and a delete: `OwnedItemsLive` (every item the connection will still free, in `ilist` or `c->item`, is live, also after a failed hit was freed) |
| `get_oom_garbled` | `MCConnGetOOM.cfg` | violation of `ReplyStreamConforms` | `get k1 k1` whose first hit fails after `"VALUE "` was queued: the key is retried and hits, the second `k1` is dropped, and the client receives `VALUE VALUE k1 <data> END` (spec §4.5 asks for `SERVER_ERROR`). When the failure comes after the key was queued, the key iovec left behind points into the item just freed, and `NoDanglingIov` fails under the same configuration |
| `get_oom_end_leak` | `MCConnGetEndLeak.cfg` | violation of `ItemOwnership` | `add_iov("END")` fails: the hits go out through `conn_write` without `END`, `conn_write` never frees `ilist`, and the next get leaks them |
| `get_tokenize` | `MCGetCommand.cfg` | pass, 1,722 states | `TypeOK` (also: `ilist` never holds more than `isize` items); `TokensAreWords` (every token the get loop uses is a whole word of the original line, through NUL writes, batches and retries); `AnswersEveryKey` (a get without allocation failure looks up every key of the line once, in order, and `ilist` holds exactly the hits, checked against a declarative word split); `GetTerminates` (liveness: every get returns) |
| `update_vlen_unchecked` | `MCUpdateArgs.cfg` | violation of `BodyLengthAsSent` | `set k 3 3 -` is accepted as an empty value: `strtol` converts nothing, glibc leaves `errno` at 0, and the `EINVAL` test of line 1012 only applies when flags or exptime is 0. With digit-only lengths TLC shows the other route: 93 fits the 8-bit long and becomes 29 in the 6-bit int (on LP64, 4294967301 becomes 5). Either way `rlbytes` is not what the client sends, and the rest of the value is read as commands (spec §4.4: numeric arguments are validated) |
| `get_oom_livelock` | `MCGetCommandLivelock.cfg` | violation of `GetTerminates` | `get k k` with `ilist` unable to grow: the second hit fails, the loop tokenises again from that key (line 950) and looks it up again, for ever. The `SERVER_ERROR` the comment at 962-965 promises is never sent, because `key_token->value` is always NULL at line 967 |
| `mfile_accounting` | `MCMFile.cfg` | pass, 30,954 states | `TypeOK`; `MmapAccounting` (the counter is exactly the megabytes of the files admitted and not yet given back); `LargeWithinCap` (counted files over the wait threshold never add up to more than the cap); `OpenReturns` (liveness: every open in the wait loop gets past it) |
| `daemon_lifecycle` | `MCDaemon.cfg` | pass, 4,555 states | `TypeOK`; `FdOwnership` (every open descriptor has exactly one owner: stdio, the listening socket, a connection, another thread, or the held stub); `PoolAccounting` (every allocated `conn` structure serves exactly one open connection or is on the freelist once, and `curr_conns - 1`, the `curr_connections` stat, is the number of open connections); `ShutdownCompletes` (liveness: once `daemon_quit` is set, the store is closed) |
| `stub_fd_race` | `MCDaemonStubRace.cfg` | violation of `PendingServed` | a store thread's `open` takes the descriptor freed by `close(stub_fd)`, the unchecked reopen at line 1484 leaves `stub_fd = -1`, and the next client to meet EMFILE stays in the queue for ever (`PendingServed`: a queued client is accepted or shed unless the server is quitting). With stdin closed at start the stub is fd 0, `stub_fd > 0` fails, and the same property fails without any race (checked with `StdinOpen = FALSE`, not kept as a run) |

Each property of a passing run has a mutant in `PROJECT.json`: an operator that changes one mapped definition the way a plausible bug would, and that TLC catches. Examples:
- `AddToFreelistPastEnd` tests the freelist bound with `<=` and stores one entry past the array;
- `RepointSkipLast` stops the re-pointing loop one msghdr short;
- `OutStringKeepNoreply` leaves `noreply` set;
- `TransmitSendFreeEarly` frees `ilist` after the first `sendmsg`;
- `CompleteNreadDrained` waits for an empty `rbuf` before completing a body.

## Bounds and why they are enough

**`MCGetCommand`:**
- Settings: lines `g` or ` g` followed by up to six characters of `k` and spaces (254 lines); `MAX_TOKENS = 3` (8 in the code), `MAX_KEY_LEN = 2`, one stored key `k`, `ilist` of one slot growing to at most 4, one transient failure.
- With `MAX_TOKENS = 3` the first batch holds one key and later ones two, so lines of one to three keys cover a batch that ends at the line's end, one that ends before trailing spaces, and one that ends mid-line. The cap plays the same role at 8: only the number of keys per batch changes.
- Three hits make `ilist` double twice.

**`MCDaemon`:**
- Settings (`MCDaemon.cfg`): seven descriptors (stdio 0-2, stub 3, listening socket 4, two free), three clients, at most one file opened by another thread, `stopme` allowed, three structures `s1..s3`, a freelist of initially one entry (200 in the code).
- Two connections hold structures at once, so a structure returned by one is reused by the next while the other is open; the third client meets EMFILE while both are open. The second return to a one-entry freelist doubles it or fails. Three structures are enough: a third connection is only possible once the stub is lost.
- `MCDaemonStubRace.cfg` keeps six descriptors: the second client already meets EMFILE. One foreign open is enough to take the stub's descriptor in the shedding window. More descriptors only delay EMFILE.

**`MCIov`:**
- Settings: `IOV_MAX = 2`, `MAX_PAYLOAD_SIZE = 3`, `FragLens = {1, 4}`, `MaxFrags = 3`, initial arrays of 2 iovecs and 1 msghdr, high-water marks 3 and 1.
- With three buffers, the iov array grows (so the re-pointing runs with several msghdrs), a msghdr fills to `IOV_MAX`, a 4-byte buffer is split at the payload cap, both arrays are shrunk, and `sendmsg` stops inside an iovec. Probes confirmed each of these cases is reached.

**`MCConn`:**
- Settings: one short key `k1` and one key `kL` over `MAX_KEY_LEN`; two clients in turn (`MaxClients = 2`), each sending at most two commands (`MaxCmds = 2`); values of 0 and 1 byte, with good and bad `\r\n`; `noreply` on and off; three item ids.
- Two commands are enough for pipelining: a body and the next line can be in `rbuf` together, and a command can follow a `noreply` one.
- Two clients are enough for the reuse of a structure with stale `ilist` and `wbuf`.
- `get k1 k1` takes two items at once.
- The network delivers any split of the stream, and the client may die mid-command.
- `MaxOOM = 0` here. The OOM configurations set `MaxOOM = 1` and six item ids, so that leaked items do not exhaust the allocator. One failure is enough for every path above. A second failure only repeats the retry.
- `CommandsOK` leaves out the two command shapes that the violation runs report; with them included, the pass run would only rediscover those runs.

**`MCUpdateArgs`:**
- Settings: every vlen token of one to three characters from `-`, `3`, `9`, `x` (84), five flags and two exptime tokens; a long of 8 bits and an int of 6.
- The widths keep the order of LP64 (an int narrower than a long), so lengths from `INT_MAX + 1` to `LONG_MAX` (32 .. 127 here) exist, as do lengths over `LONG_MAX` (`ERANGE`), negative ones, signs alone and letters.

**`MCMFile`:**
- Settings: three threads, at most four `open_mfile` calls, `Unit = 2` bytes per "megabyte", a cap of 4 MB, and a wait threshold of 1 MB.
- The file sizes are 0 (`addr = NULL`), 1 (non-empty but 0 MB after the shift), 2 (1 MB, under the threshold, so it bypasses the cap), 6 and 8 (3 and 4 MB, which must wait).
- Two large files cannot be counted together, so a waiter sleeps and retries while the other thread holds its file. A small file can push the counter past the cap.

## Fairness

- **`Iov`:** weak fairness on each step of building and sending the reply. A handler runs to its end, and a writable socket is written to.
- **`Conn`:** weak fairness on the server's actions as one, `WF_vars(Server)`. `drive_machine` loops while progress is possible, and the reactor calls it again when the socket becomes ready.
  - Nothing is assumed of the client or the network: sends, disconnects, socket errors (`TransmitError`) and new clients all happen or not.
  - `Responsive` therefore needs no client cooperation. The client sends each command whole, or dies mid-command and shuts the socket, so a half-received command is always followed by EOF.

- **`MFile`:** weak fairness on every step of a thread inside `open_mfile` and on `close_mfile`. Threads are scheduled, and `open_mfile`'s callers are bulk scans that close what they open (spec §4.5b). `Open` is not fair: nobody has to open a file. `OpenReturns` holds because `MaxOpens` bounds the number of opens, so the other threads eventually stop opening. A large file can be starved for ever by a stream of others that keeps the counter high. This is not checked: the sleep polls, and no fairness the code provides makes the retry catch a window.

- **`GetCommand`:** weak fairness on `Next`: `process_command` runs to its end on one worker thread and waits for nothing.
- **`Daemon`:** weak fairness on each listener step (the listening socket stays readable while clients are queued), on the flush thread's and `main`'s steps, and on `OtherClose` (store threads close what they open, spec §4.5b). Clients, signals, `stopme`, `OtherOpen` and `CloseConn` are owed nothing: a client may hold its connection for ever.

## Not modelled (yet), and why

- **Observed, not kept as runs** (the project has room for twelve runs):
  - **`SERVER_ERROR` lost when `rbuf` cannot grow.** `try_read_network` (1338-1346) calls `out_string` while `iovused` still counts the previous reply, so `conn_write` does not queue `wbuf` and the connection closes without the line (spec §5 says the client is told). On a connection that has not parsed a command yet, `msgused` is 0 and the line goes to `msglist[-1]`, also unsent. `Conn` keeps the path (`ReadNetworkOOM`), and `WriteSendsWbuf` (the action property that `conn_write` has sent the `wbuf` line when it moves on) fails with `Commands <- CommandsReadOOM` and `MaxOOM = 1` in `MCConn.cfg`. No passing run checks `WriteSendsWbuf`: without allocation failure every handler empties the iov list before `out_string`, so it would hold trivially.
  - **`set kL` with a long key.** `set kL …` answers `CLIENT_ERROR` without swallowing the body (line 998). The body is then parsed as a command, and an extra `ERROR` follows. `ReplyStreamConforms` fails with `Commands <- CommandsSetLong` in `MCConn.cfg`.
  - **`c->remote` leak on `add_event` failure.** `conn_new`'s failure path (294-301) puts the structure on the freelist without freeing `c->remote` from `conn_getnameinfo`; the next `conn_new` overwrites it with NULL (288). `Daemon` does not track `c->remote`.
  - **`set` when `item_alloc1` fails.** `item_alloc1` returning NULL is dereferenced at lines 1021-1023 before it is checked, so the process dies. `Conn` models this directly as the state `"crashed"`, and `Responsive` fails with `CommandsSetOOM` and `MaxOOM = 1`.

- **Allocation failure in `Iov`.** `ensure_iov_space` and `add_msghdr` failing are modelled in `Conn` as a failed `add_iov`. `Iov` itself assumes the arrays grow. The `msglist[-1]` write of `conn_write` on a fresh connection is modelled by its outcome only: nothing is sent.
- **The event loop and the freelist's locking.** `loop_run`, `add_event`/`update_event`, `thread_init` and the locked wrappers `conn_from_freelist`/`conn_add_to_freelist` are not in `src/`. `Daemon` takes each freelist access and each `STATS_LOCK` section as one step, as spec §4.2 has them under a mutex; `add_event` is a step that may fail. `Conn` reuses one structure in place.
- **Stats counters other than `curr_conns`.** `total_conns`, `conn_structs` (only ever incremented, also when a structure is later freed) and the command counters only count; `process_stat` formats them.
- **`hs_flush` and the store.** Outside the repository; a flush is one step.
- **A file larger than the mmap cap.** With `FileSizes = {2, 10}` and a cap of 4 MB, `OpenReturns` fails: a 5 MB file waits at line 39 of `mfile.c` for ever, even with the counter at 0 (spec §4.5b calls the wait backpressure that ends when others close). It is not kept as a run.
- **Left out on purpose:**
  - what `stopme` does to its connection (no reply; its flag is in `Daemon`), and `incr`'s `safe_strtoull` rejection (Conn's incr records carry valid deltas; `strtoull` also accepts `-1` as `ULLONG_MAX`, which `add_delta` passes to `hs_incr` as an `int64_t` -1);
  - logging, the slow-command timer, CLI parsing and daemonisation, which are one-shot or pure I/O;
  - the content of values and keys, beyond their length class.

## Plan for the next steps

1. Several connections of `Conn` interleaved over a shared store, with `Daemon`'s descriptor table and structure pool in place of `Conn`'s single reused structure.
2. Larger `MCConn` instances (three commands per client) once the state space allows.
