-------------------------------- MODULE Conn --------------------------------
(***************************************************************************)
(* One client connection of beansdb (src/src/beansdb.c): drive_machine's  *)
(* states conn_read, conn_nread, conn_write, conn_mwrite and conn_closing, *)
(* the command handlers process_command dispatches to, the items a        *)
(* connection owns while it answers, and the reuse of the connection      *)
(* structure for the next client (conn_close / conn_new).                 *)
(*                                                                         *)
(* Data is abstracted to what the properties tell apart.  The inbound     *)
(* stream is a sequence of units: a whole command line, or one byte of a  *)
(* value body ("D", "CR", "LF").  The reply is a sequence of pieces, one  *)
(* per iovec the handler queues; the byte-level splitting of iovecs into  *)
(* msghdrs and the trimming after a partial sendmsg are the subject of    *)
(* module Iov.  Items are named by ids from ItemIds; live is the set of   *)
(* items allocated by item_get / item_alloc1 and not yet item_free'd.     *)
(***************************************************************************)
EXTENDS Naturals, Sequences, SequencesExt, FiniteSets

CONSTANTS
    Keys,          \* keys of at most MAX_KEY_LEN bytes
    LongKey,       \* a key longer than MAX_KEY_LEN
    Commands,      \* the command lines a client may send
    StoreResults,  \* replies hs_set / hs_append may lead to
    OptimizeResults, \* replies hs_optimize may lead to
    ItemIds,       \* names for items
    MaxCmds,       \* bound: commands one client sends
    MaxClients,    \* bound: clients served one after another
    MaxOOM,        \* bound: allocations that fail (try_realloc, add_iov, item_alloc1)
    NoItem, NoKey

VARIABLES
    state,       \* c->state
    net,         \* units the client sent that the server has not read
    eof,         \* the client has shut down its side of the socket
    rbuf,        \* units read and not consumed: rcurr .. rcurr + rbytes
    item,        \* c->item: the item a set/append body is read into
    rlbytes,     \* c->rlbytes
    iov,         \* pieces queued by the current command (c->iov, iovused)
    iovsent,     \* how many of them sendmsg has taken
    wbuf,        \* the line out_string put in c->wbuf
    write_and_go,
    noreply,     \* c->noreply
    ilist,       \* c->ilist
    icurr,       \* index of *c->icurr in ilist
    ileft,       \* c->ileft
    live,        \* items allocated and not freed (the item allocator)
    store,       \* keys present in the storage engine
    sent,        \* history: commands the current client sent
    recv,        \* history: pieces the current client received
    clients,     \* how many clients the structure has served
    ooms         \* how many allocations have failed so far

vars == <<state, net, eof, rbuf, item, rlbytes, iov, iovsent, wbuf,
          write_and_go, noreply, ilist, icurr, ileft, live, store, sent, recv, clients, ooms>>

srv == <<state, rbuf, item, rlbytes, iov, iovsent, wbuf, write_and_go,
         noreply, ilist, icurr, ileft>>

-----------------------------------------------------------------------------
(* Wire formats *)

Line(cmd) == [u |-> "line", cmd |-> cmd]
D  == [u |-> "D"]
CR == [u |-> "CR"]
LF == [u |-> "LF"]
Part == [u |-> "part"]   \* the first bytes of a command line, without its '\n'

IsUpdate(cmd) == cmd.op \in {"set", "append"}

(* A command line, then for set/append the vlen bytes of the value and    *)
(* the two bytes the server checks for "\r\n" (a client may get them      *)
(* wrong: cmd.good = FALSE).                                              *)
Encode(cmd) ==
    <<Line(cmd)>> \o
    IF IsUpdate(cmd)
    THEN [i \in 1..cmd.vlen |-> D] \o (IF cmd.good THEN <<CR, LF>> ELSE <<D, D>>)
    ELSE <<>>

IsEol(x) == x.u \in {"LF", "line"}

(* try_read_command: a line is complete once a '\n' has been read. *)
HasLine(b) == \E i \in 1..Len(b) : IsEol(b[i])

LineEnd(b) == CHOOSE i \in 1..Len(b) : IsEol(b[i]) /\ \A j \in 1..(i - 1) : ~IsEol(b[j])

(* The command the line b[1..LineEnd(b)] spells: the client's command if  *)
(* it is a whole line of its own, anything else (value bytes left over,   *)
(* an empty line) tokenizes to something process_command rejects.         *)
Garbage == [op |-> "garbage"]
ParseLine(b) ==
    IF LineEnd(b) = 1 /\ b[1].u = "line" THEN b[1].cmd ELSE Garbage

Piece(p, k, id) == [p |-> p, k |-> k, id |-> id]
Reply(str) == Piece(str, NoKey, 0)

(* process_get_command: the three iovecs of a hit, "VALUE ", the key, and *)
(* the item's suffix and data; the last two point into the item.          *)
HitPieces(k, id) == <<Piece("VALUE", NoKey, 0), Piece("KEY", k, id), Piece("DATA", k, id)>>

(* What the client sees of a piece. *)
Seen(x) == [p |-> x.p, k |-> x.k]

-----------------------------------------------------------------------------
(* The item allocator hands out an id no live item has. *)
FreeId(L) == CHOOSE i \in ItemIds \ L : \A j \in ItemIds \ L : i <= j

(* One hit of process_get_command's key loop (lines 897-937): queue its  *)
(* three iovecs and keep the item in ilist[i].                            *)
Hit(a, k, id) ==
    [a EXCEPT !.iov   = @ \o HitPieces(k, id),
              !.ilist = IF a.n + 1 <= Len(@) THEN [@ EXCEPT ![a.n + 1] = id]
                                             ELSE Append(@, id),
              !.n     = @ + 1,
              !.live  = @ \cup {id}]

(* Mutant: the failed hit is still counted in ilist although it is freed. *)
HitFailedKeep(a, k, id, j) ==
    [a EXCEPT !.iov   = @ \o SubSeq(HitPieces(k, id), 1, j),
              !.ilist = IF a.n + 1 <= Len(@) THEN [@ EXCEPT ![a.n + 1] = id]
                                             ELSE Append(@, id),
              !.n     = @ + 1,
              !.oom   = @ + 1,
              !.freed = @ \cup {id}]

(* A hit whose ilist growth (900-912) or one of whose add_iov calls       *)
(* (917-929) fails: the j iovecs added before the failure stay queued     *)
(* (j = 0 for ilist and "VALUE "), the item is item_free'd and the loop   *)
(* breaks.  A freed id is not handed out again in this get, one outcome   *)
(* of the allocator.                                                      *)
HitFailed(a, k, id, j) ==
    [a EXCEPT !.iov   = @ \o SubSeq(HitPieces(k, id), 1, j),
              !.oom   = @ + 1,
              !.freed = @ \cup {id}]

(* process_get_command's key loop: item_get each key in turn and queue a  *)
(* hit; stop at a key longer than MAX_KEY_LEN (a.stop).  Each hit may    *)
(* also fail for memory; then key_token->value still points at the       *)
(* current key, which tokenize_command left NUL-terminated, so the       *)
(* do-while (946-952) re-tokenises that key alone: it is retried and the *)
(* keys after it are dropped.  The set of possible results.               *)
RECURSIVE GetKeys(_, _)
GetKeys(ks, a) ==
    IF ks = <<>> THEN {a}
    ELSE LET k == Head(ks) IN
         IF k = LongKey THEN {[a EXCEPT !.stop = TRUE]}
         ELSE IF k \notin store THEN GetKeys(Tail(ks), a)
         ELSE LET id == FreeId(a.live \cup a.freed) IN
              GetKeys(Tail(ks), Hit(a, k, id))
              \cup UNION {GetKeys(<<k>>, HitFailed(a, k, id, j)) :
                          j \in IF a.oom < MaxOOM THEN 0..2 ELSE {}}

-----------------------------------------------------------------------------
(* Mutant: the noreply path does not clear c->noreply. *)
OutStringKeepNoreply(nr, str) ==
    IF nr
    THEN /\ noreply' = TRUE
         /\ state' = "read"
         /\ UNCHANGED <<wbuf, write_and_go>>
    ELSE /\ wbuf' = Reply(str)
         /\ state' = "write"
         /\ write_and_go' = "read"
         /\ noreply' = nr

(* out_string: with noreply set, say nothing, clear the flag and go back  *)
(* to conn_read; otherwise put the line in wbuf for conn_write.  nr is    *)
(* the value of c->noreply when it is called.                              *)
OutString(nr, str) ==
    IF nr
    THEN /\ noreply' = FALSE
         /\ state' = "read"
         /\ UNCHANGED <<wbuf, write_and_go>>
    ELSE /\ wbuf' = Reply(str)
         /\ state' = "write"
         /\ write_and_go' = "read"
         /\ noreply' = nr

(* set_noreply_maybe: a last token "noreply" sets c->noreply. *)
NoreplyMaybe(cmd) == noreply \/ cmd.noreply

Cmd == ParseLine(rbuf)

(* try_read_command hands the line to process_command and then steps     *)
(* rcurr past it; process_command first empties the iov and msghdr lists  *)
(* (1165-1171).  Its add_msghdr cannot fail there: msgused is 0 and       *)
(* msgsize at least MSG_LIST_INITIAL, so nothing is reallocated.          *)
TakeLine(op) ==
    /\ state = "read" /\ HasLine(rbuf) /\ Cmd.op = op
    /\ rbuf' = SubSeq(rbuf, LineEnd(rbuf) + 1, Len(rbuf))
    /\ iovsent' = 0

(* process_get_command.  After the loop key_token->value is NULL, so the *)
(* SERVER_ERROR of line 968 is written only when add_iov("END") fails;    *)
(* out_string then leaves the queued iovecs in place.                      *)
ReadGet ==
    /\ TakeLine("get")
    /\ \E r \in GetKeys(Cmd.keys, [iov |-> <<>>, ilist |-> ilist, n |-> 0, live |-> live,
                                    stop |-> FALSE, oom |-> ooms, freed |-> {}]) :
       /\ ilist' = r.ilist
       /\ live' = r.live
       /\ IF r.stop
          THEN /\ iov' = r.iov
               /\ OutString(noreply, "CLIENT_ERROR")
               /\ ooms' = r.oom
               /\ UNCHANGED <<icurr, ileft>>
          ELSE /\ icurr' = 1
               /\ ileft' = r.n
               /\ \/ /\ iov' = r.iov \o <<Reply("END")>>
                     /\ state' = "mwrite"
                     /\ ooms' = r.oom
                     /\ UNCHANGED <<wbuf, write_and_go, noreply>>
                  \/ /\ r.oom < MaxOOM
                     /\ iov' = r.iov
                     /\ OutString(noreply, "SERVER_ERROR")
                     /\ ooms' = r.oom + 1
    /\ UNCHANGED <<net, eof, item, rlbytes, store, sent, recv, clients>>

(* process_update_command: allocate the item the body is read into.     *)
(* Command records carry the numbers as parsed; the conversions and the  *)
(* CLIENT_ERROR of lines 1007-1019 are the subject of module UpdateArgs. *)
ReadUpdate ==
    /\ state = "read" /\ HasLine(rbuf) /\ IsUpdate(Cmd)
    /\ rbuf' = SubSeq(rbuf, LineEnd(rbuf) + 1, Len(rbuf))
    /\ iovsent' = 0 /\ iov' = <<>>
    /\ LET nr == NoreplyMaybe(Cmd) IN
       IF Cmd.key = LongKey
       THEN /\ OutString(nr, "CLIENT_ERROR")
            /\ UNCHANGED <<item, rlbytes, live>>
       ELSE LET id == FreeId(live) IN
            /\ item' = [id |-> id, comm |-> Cmd.op, key |-> Cmd.key, data |-> <<>>]
            /\ rlbytes' = Cmd.vlen + 2
            /\ live' = live \cup {id}
            /\ noreply' = nr
            /\ state' = "nread"
            /\ UNCHANGED <<wbuf, write_and_go>>
    /\ UNCHANGED <<net, eof, ilist, icurr, ileft, store, sent, recv, clients, ooms>>

(* process_update_command when item_alloc1 returns NULL: it->ver and     *)
(* it->flag are written through the NULL pointer (lines 1021-1023) before *)
(* the check of line 1025, and the process dies of SIGSEGV.               *)
ReadUpdateAllocFail ==
    /\ state = "read" /\ HasLine(rbuf) /\ IsUpdate(Cmd)
    /\ Cmd.key # LongKey
    /\ ooms < MaxOOM
    /\ ooms' = ooms + 1
    /\ state' = "crashed"
    /\ UNCHANGED <<net, eof, rbuf, item, rlbytes, iov, iovsent, wbuf, write_and_go,
                   noreply, ilist, icurr, ileft, live, store, sent, recv, clients>>

(* process_arithmetic_command: hs_incr creates or bumps the counter. *)
ReadIncr ==
    /\ TakeLine("incr") /\ iov' = <<>>
    /\ LET nr == NoreplyMaybe(Cmd) IN
       IF Cmd.key = LongKey
       THEN OutString(nr, "CLIENT_ERROR") /\ UNCHANGED store
       ELSE OutString(nr, "NUMBER") /\ store' = store \cup {Cmd.key}
    /\ UNCHANGED <<net, eof, item, rlbytes, ilist, icurr, ileft, live, sent, recv, clients, ooms>>

(* process_delete_command *)
ReadDelete ==
    /\ TakeLine("delete") /\ iov' = <<>>
    /\ LET nr == NoreplyMaybe(Cmd) IN
       IF Cmd.key = LongKey
       THEN OutString(nr, "CLIENT_ERROR") /\ UNCHANGED store
       ELSE /\ OutString(nr, IF Cmd.key \in store THEN "DELETED" ELSE "NOT_FOUND")
            /\ store' = store \ {Cmd.key}
    /\ UNCHANGED <<net, eof, item, rlbytes, ilist, icurr, ileft, live, sent, recv, clients, ooms>>

(* flush_all [limit [tree]] [noreply], lines 1228-1255: a limit that     *)
(* safe_strtol rejects is a CLIENT_ERROR, otherwise hs_optimize's code is *)
(* mapped to a line.  The else-less chain of 1246-1253 would leave         *)
(* c->noreply set and send nothing for a code outside 0..-3; the storage   *)
(* interface returns only those four (spec: optimize -> Ok, ReadOnly,      *)
(* Running, BadArg), so OptimizeResults holds only their lines.           *)
ReadFlushAll ==
    /\ TakeLine("flush_all") /\ iov' = <<>>
    /\ \/ Cmd.limit = "bad" /\ OutString(NoreplyMaybe(Cmd), "CLIENT_ERROR")
       \/ Cmd.limit # "bad" /\ \E res \in OptimizeResults : OutString(NoreplyMaybe(Cmd), res)
    /\ UNCHANGED <<net, eof, item, rlbytes, ilist, icurr, ileft, live, store, sent, recv, clients, ooms>>

(* quit *)
ReadQuit ==
    /\ TakeLine("quit") /\ iov' = <<>>
    /\ state' = "closing"
    /\ UNCHANGED <<net, eof, item, rlbytes, wbuf, write_and_go, noreply, ilist,
                   icurr, ileft, live, store, sent, recv, clients, ooms>>

(* A line no handler accepts. *)
ReadUnknown ==
    /\ TakeLine("garbage") /\ iov' = <<>>
    /\ OutString(noreply, "ERROR")
    /\ UNCHANGED <<net, eof, item, rlbytes, ilist, icurr, ileft, live, store, sent, recv, clients, ooms>>

(* process_stat (lines 753-866): "stats" snapshots the counters under   *)
(* STATS_LOCK into one block of STAT lines ending in END, "stats reset"   *)
(* zeroes them (stats_reset), any other subcommand is an ERROR.  The      *)
(* block is a single out_string; process_stat never looks at noreply.    *)
ReadStats ==
    /\ TakeLine("stats") /\ iov' = <<>>
    /\ OutString(noreply, CASE Cmd.sub = "none"  -> "STATS"
                            [] Cmd.sub = "reset" -> "RESET"
                            [] OTHER             -> "ERROR")
    /\ UNCHANGED <<net, eof, item, rlbytes, ilist, icurr, ileft, live, store, sent, recv, clients, ooms>>

(* version, lines 1203-1206. *)
ReadVersion ==
    /\ TakeLine("version") /\ iov' = <<>>
    /\ OutString(noreply, "VERSION")
    /\ UNCHANGED <<net, eof, item, rlbytes, ilist, icurr, ileft, live, store, sent, recv, clients, ooms>>

(* process_verbosity_command (lines 1128-1146): set_noreply_maybe looks  *)
(* at the level token itself; strtoul's ERANGE is a CLIENT_ERROR,         *)
(* anything else (also "noreply", which parses as 0) sets the level.      *)
ReadVerbosity ==
    /\ TakeLine("verbosity") /\ iov' = <<>>
    /\ OutString(NoreplyMaybe(Cmd), IF Cmd.big THEN "CLIENT_ERROR" ELSE "OK")
    /\ UNCHANGED <<net, eof, item, rlbytes, ilist, icurr, ileft, live, store, sent, recv, clients, ooms>>

(* optimize_stat, lines 1215-1227: hs_optimize_stat's code as a line. *)
ReadOptimizeStat ==
    /\ TakeLine("optimize_stat") /\ iov' = <<>>
    /\ \E res \in {"RUNNING", "success", "fail"} : OutString(noreply, res)
    /\ UNCHANGED <<net, eof, item, rlbytes, ilist, icurr, ileft, live, store, sent, recv, clients, ooms>>

(* try_read_network: no whole line buffered, so read what has arrived. *)
ReadNetwork ==
    /\ state = "read" /\ ~HasLine(rbuf) /\ net # <<>>
    /\ \E n \in 1..Len(net) :
         /\ rbuf' = rbuf \o SubSeq(net, 1, n)
         /\ net' = SubSeq(net, n + 1, Len(net))
    /\ UNCHANGED <<state, eof, item, rlbytes, iov, iovsent, wbuf, write_and_go,
                   noreply, ilist, icurr, ileft, live, store, sent, recv, clients, ooms>>

(* process_command has not run since conn_new (line 284 zeroes msgused,  *)
(* line 1169's add_msghdr makes it 1): every command the client sent      *)
(* still has its line, or the part of it that arrived, unparsed.          *)
NoMsghdr ==
    Cardinality({i \in 1..Len(rbuf \o net) : (rbuf \o net)[i].u \in {"line", "part"}})
      = Len(sent)

(* try_read_network, lines 1338-1346: rbuf holds a partial line and      *)
(* doubling it fails.  What was read is dropped, out_string writes the    *)
(* SERVER_ERROR line and write_and_go becomes conn_closing; conn_write    *)
(* (1615-1622) queues wbuf only when iovused is 0.  After a reply with    *)
(* iovecs, iovused still counts them, all sent, so nothing is queued and   *)
(* transmit finds nothing left; after a noreply command iovused is 0 and  *)
(* msgused 1, so wbuf is queued and sent (Outgoing).  On a connection     *)
(* that has not answered yet msgused is 0 too: add_iov writes to           *)
(* msglist[-1] and transmit sends nothing, the line counted as sent       *)
(* without reaching the client.                                            *)
ReadNetworkOOM ==
    /\ state = "read" /\ ~HasLine(rbuf) /\ rbuf # <<>>
    /\ ooms < MaxOOM
    /\ ooms' = ooms + 1
    /\ rbuf' = <<>>
    /\ IF noreply
       THEN noreply' = FALSE /\ state' = "read" /\ UNCHANGED wbuf
       ELSE wbuf' = Reply("SERVER_ERROR") /\ state' = "write" /\ UNCHANGED noreply
    /\ write_and_go' = "closing"
    /\ IF iov = <<>> /\ NoMsghdr
       THEN iov' = <<Reply("SERVER_ERROR")>> /\ iovsent' = 1
       ELSE UNCHANGED <<iov, iovsent>>
    /\ UNCHANGED <<net, eof, item, rlbytes, ilist, icurr, ileft, live, store, sent, recv, clients>>

(* read() returns 0 (the client closed) or a hard error. *)
ReadClosed ==
    /\ state = "read" /\ ~HasLine(rbuf)
    /\ net = <<>> /\ eof
    /\ state' = "closing"
    /\ UNCHANGED <<net, eof, rbuf, item, rlbytes, iov, iovsent, wbuf, write_and_go,
                   noreply, ilist, icurr, ileft, live, store, sent, recv, clients, ooms>>

(* try_read_network, lines 1352-1369: a read that fills rbuf to its size *)
(* loops for another; when that one returns 0 the connection closes at    *)
(* once, with the lines just read left unprocessed.                        *)
ReadFilledClosed ==
    /\ state = "read" /\ ~HasLine(rbuf)
    /\ net # <<>> /\ eof
    /\ rbuf' = rbuf \o net /\ net' = <<>>
    /\ state' = "closing"
    /\ UNCHANGED <<eof, item, rlbytes, iov, iovsent, wbuf, write_and_go,
                   noreply, ilist, icurr, ileft, live, store, sent, recv, clients, ooms>>

-----------------------------------------------------------------------------
(* conn_nread *)

(* Mutant: complete_nread does not item_free the stored item. *)
CompleteNreadNoFree ==
    /\ state = "nread" /\ rlbytes = 0
    /\ LET d == item.data IN
       IF SubSeq(d, Len(d) - 1, Len(d)) # <<CR, LF>>
       THEN OutString(noreply, "CLIENT_ERROR") /\ UNCHANGED store
       ELSE \E res \in StoreResults :
              /\ OutString(noreply, res)
              /\ store' = IF res = "STORED" THEN store \cup {item.key} ELSE store
    /\ item' = NoItem
    /\ UNCHANGED <<net, eof, rbuf, rlbytes, iov, iovsent, ilist, icurr, ileft, live,
                   sent, recv, clients, ooms>>

(* Mutant: the body is completed only once the read buffer is drained. *)
CompleteNreadDrained ==
    /\ state = "nread" /\ rlbytes = 0 /\ rbuf = <<>>
    /\ LET d == item.data IN
       IF SubSeq(d, Len(d) - 1, Len(d)) # <<CR, LF>>
       THEN OutString(noreply, "CLIENT_ERROR") /\ UNCHANGED store
       ELSE \E res \in StoreResults :
              /\ OutString(noreply, res)
              /\ store' = IF res = "STORED" THEN store \cup {item.key} ELSE store
    /\ item' = NoItem
    /\ live' = live \ {item.id}
    /\ UNCHANGED <<net, eof, rbuf, rlbytes, iov, iovsent, ilist, icurr, ileft, sent, recv, clients, ooms>>

(* complete_nread: check the "\r\n", hand the item to hs_set/hs_append,   *)
(* answer, and free the item.                                             *)
CompleteNread ==
    /\ state = "nread" /\ rlbytes = 0
    /\ LET d == item.data IN
       IF SubSeq(d, Len(d) - 1, Len(d)) # <<CR, LF>>
       THEN OutString(noreply, "CLIENT_ERROR") /\ UNCHANGED store
       ELSE \E res \in StoreResults :
              /\ OutString(noreply, res)
              /\ store' = IF res = "STORED" THEN store \cup {item.key} ELSE store
    /\ item' = NoItem
    /\ live' = live \ {item.id}
    /\ UNCHANGED <<net, eof, rbuf, rlbytes, iov, iovsent, ilist, icurr, ileft, sent, recv, clients, ooms>>

(* Copy min(rbytes, rlbytes) already-read units into the item. *)
NreadBuffered ==
    /\ state = "nread" /\ rlbytes > 0 /\ rbuf # <<>>
    /\ LET n == IF Len(rbuf) > rlbytes THEN rlbytes ELSE Len(rbuf) IN
       /\ item' = [item EXCEPT !.data = @ \o SubSeq(rbuf, 1, n)]
       /\ rlbytes' = rlbytes - n
       /\ rbuf' = SubSeq(rbuf, n + 1, Len(rbuf))
    /\ UNCHANGED <<state, net, eof, iov, iovsent, wbuf, write_and_go, noreply,
                   ilist, icurr, ileft, live, store, sent, recv, clients, ooms>>

(* read() straight into the item, at most rlbytes. *)
NreadSocket ==
    /\ state = "nread" /\ rlbytes > 0 /\ rbuf = <<>> /\ net # <<>>
    /\ \E n \in 1..rlbytes :
         /\ n <= Len(net)
         /\ item' = [item EXCEPT !.data = @ \o SubSeq(net, 1, n)]
         /\ rlbytes' = rlbytes - n
         /\ net' = SubSeq(net, n + 1, Len(net))
    /\ UNCHANGED <<state, eof, rbuf, iov, iovsent, wbuf, write_and_go, noreply,
                   ilist, icurr, ileft, live, store, sent, recv, clients, ooms>>

NreadClosed ==
    /\ state = "nread" /\ rlbytes > 0 /\ rbuf = <<>>
    /\ net = <<>> /\ eof
    /\ state' = "closing"
    /\ UNCHANGED <<net, eof, rbuf, item, rlbytes, iov, iovsent, wbuf, write_and_go,
                   noreply, ilist, icurr, ileft, live, store, sent, recv, clients, ooms>>

-----------------------------------------------------------------------------
(* conn_write / conn_mwrite *)

(* Items *c->icurr .. for c->ileft: those the connection still owns. *)
Owned == {ilist[j] : j \in icurr..(icurr + ileft - 1)}

(* conn_write queues wbuf as the one iovec only if iovused is 0. *)
Outgoing == IF state = "write" /\ iov = <<>> THEN <<wbuf>> ELSE iov

(* Mutant: the items of a get are freed after the first sendmsg instead  *)
(* of after the last.                                                     *)
TransmitSendFreeEarly ==
    /\ state \in {"write", "mwrite"}
    /\ iovsent < Len(Outgoing)
    /\ \E n \in 1..(Len(Outgoing) - iovsent) :
         /\ recv' = recv \o [i \in 1..n |-> Seen(Outgoing[iovsent + i])]
         /\ iovsent' = iovsent + n
    /\ iov' = Outgoing
    /\ live' = live \ Owned
    /\ icurr' = icurr + ileft
    /\ ileft' = 0
    /\ UNCHANGED <<state, net, eof, rbuf, item, rlbytes, wbuf, write_and_go,
                   noreply, ilist, store, sent, clients, ooms>>

(* transmit: sendmsg takes some of what is queued. *)
TransmitSend ==
    /\ state \in {"write", "mwrite"}
    /\ iovsent < Len(Outgoing)
    /\ \E n \in 1..(Len(Outgoing) - iovsent) :
         /\ recv' = recv \o [i \in 1..n |-> Seen(Outgoing[iovsent + i])]
         /\ iovsent' = iovsent + n
    /\ iov' = Outgoing
    /\ UNCHANGED <<state, net, eof, rbuf, item, rlbytes, wbuf, write_and_go,
                   noreply, ilist, icurr, ileft, live, store, sent, clients, ooms>>

(* sendmsg fails for good: conn_closing. *)
TransmitError ==
    /\ state \in {"write", "mwrite"}
    /\ iovsent < Len(Outgoing)
    /\ iov' = Outgoing
    /\ state' = "closing"
    /\ UNCHANGED <<net, eof, rbuf, item, rlbytes, iovsent, wbuf, write_and_go,
                   noreply, ilist, icurr, ileft, live, store, sent, recv, clients, ooms>>

(* Mutant: c->icurr stepped once more than the items freed. *)
TransmitCompleteIcurrPastEnd ==
    /\ state \in {"write", "mwrite"}
    /\ iovsent = Len(Outgoing)
    /\ iov' = Outgoing
    /\ IF state = "mwrite"
       THEN /\ live' = live \ Owned
            /\ icurr' = icurr + ileft + 1
            /\ ileft' = 0
            /\ state' = "read"
       ELSE /\ state' = write_and_go
            /\ UNCHANGED <<live, icurr, ileft>>
    /\ UNCHANGED <<net, eof, rbuf, item, rlbytes, iovsent, wbuf, write_and_go,
                   noreply, ilist, store, sent, recv, clients, ooms>>

(* TRANSMIT_COMPLETE: conn_mwrite frees the items it sent and goes to     *)
(* conn_read; conn_write goes to write_and_go.                            *)
TransmitComplete ==
    /\ state \in {"write", "mwrite"}
    /\ iovsent = Len(Outgoing)
    /\ iov' = Outgoing
    /\ IF state = "mwrite"
       THEN /\ live' = live \ Owned
            /\ icurr' = icurr + ileft
            /\ ileft' = 0
            /\ state' = "read"
       ELSE /\ state' = write_and_go
            /\ UNCHANGED <<live, icurr, ileft>>
    /\ UNCHANGED <<net, eof, rbuf, item, rlbytes, iovsent, wbuf, write_and_go,
                   noreply, ilist, store, sent, recv, clients, ooms>>

-----------------------------------------------------------------------------
(* conn_closing: conn_close, whose conn_cleanup frees c->item and the     *)
(* items still owned; the structure goes back to the freelist.            *)
ConnClose ==
    /\ state = "closing"
    /\ live' = (live \ Owned) \ (IF item = NoItem THEN {} ELSE {item.id})
    /\ item' = NoItem
    /\ icurr' = icurr + ileft
    /\ ileft' = 0
    /\ state' = "closed"
    /\ UNCHANGED <<net, eof, rbuf, rlbytes, iov, iovsent, wbuf, write_and_go,
                   noreply, ilist, store, sent, recv, clients, ooms>>

(* conn_new from the freelist for the next client: every per-request     *)
(* field is reset; ilist and wbuf keep their old contents.                *)
ConnNew ==
    /\ state = "closed" /\ clients < MaxClients
    /\ clients' = clients + 1
    /\ state' = "read"
    /\ net' = <<>> /\ eof' = FALSE /\ rbuf' = <<>>
    /\ rlbytes' = 0 /\ icurr' = 1 /\ ileft' = 0
    /\ iov' = <<>> /\ iovsent' = 0
    /\ write_and_go' = "read" /\ noreply' = FALSE
    /\ item' = NoItem
    /\ sent' = <<>> /\ recv' = <<>>
    /\ UNCHANGED <<wbuf, ilist, live, store, ooms>>

-----------------------------------------------------------------------------
(* The client *)

(* The socket is open: neither conn_close nor the death of the process   *)
(* has closed it.                                                          *)
Connected == state \notin {"closed", "crashed"}

ClientSend ==
    /\ Connected /\ ~eof /\ Len(sent) < MaxCmds
    /\ \E cmd \in Commands :
         /\ net' = net \o Encode(cmd)
         /\ sent' = Append(sent, cmd)
    /\ UNCHANGED <<srv, eof, live, store, recv, clients, ooms>>

(* The client dies part way through a command: only a prefix of it      *)
(* reaches the server (part of its line, or the line and part of the     *)
(* value), then the socket is shut.                                       *)
ClientDie ==
    /\ Connected /\ ~eof /\ Len(sent) < MaxCmds
    /\ \E cmd \in Commands :
         /\ \/ net' = net \o <<Part>>
            \/ \E n \in 1..(Len(Encode(cmd)) - 1) :
                 net' = net \o SubSeq(Encode(cmd), 1, n)
         /\ sent' = Append(sent, cmd)
    /\ eof' = TRUE
    /\ UNCHANGED <<srv, live, store, recv, clients, ooms>>

ClientClose ==
    /\ Connected /\ ~eof
    /\ eof' = TRUE
    /\ UNCHANGED <<srv, net, live, store, sent, recv, clients, ooms>>

-----------------------------------------------------------------------------
Init ==
    /\ state = "read"
    /\ net = <<>> /\ eof = FALSE /\ rbuf = <<>>
    /\ item = NoItem /\ rlbytes = 0
    /\ iov = <<>> /\ iovsent = 0 /\ wbuf = Reply("ERROR")
    /\ write_and_go = "read" /\ noreply = FALSE
    /\ ilist = <<>> /\ icurr = 1 /\ ileft = 0
    /\ live = {}
    /\ store \in SUBSET Keys
    /\ sent = <<>> /\ recv = <<>>
    /\ clients = 1
    /\ ooms = 0

(* The last client the model lets in has gone, or the process has died:  *)
(* nothing more happens.                                                   *)
Done ==
    /\ \/ state = "closed" /\ clients = MaxClients
       \/ state = "crashed"
    /\ UNCHANGED vars

ReadCommand ==
    \/ ReadGet \/ ReadUpdate \/ ReadIncr \/ ReadDelete \/ ReadFlushAll \/ ReadQuit \/ ReadUnknown
    \/ ReadStats \/ ReadVersion \/ ReadVerbosity \/ ReadOptimizeStat

Server ==
    \/ ReadCommand \/ ReadNetwork \/ ReadClosed \/ ReadFilledClosed
    \/ CompleteNread \/ NreadBuffered \/ NreadSocket \/ NreadClosed
    \/ TransmitSend \/ TransmitComplete
    \/ ConnClose

(* Allocation failures. *)
OOM == ReadUpdateAllocFail \/ ReadNetworkOOM

Next ==
    \/ Server \/ TransmitError \/ OOM
    \/ ClientSend \/ ClientDie \/ ClientClose \/ ConnNew \/ Done

(* The event loop drives a connection whenever it can progress (the       *)
(* reactor reports it readable or writable).  The client, the network and *)
(* new clients are owed nothing: a client may stop at any point.           *)
Spec == Init /\ [][Next]_vars /\ WF_vars(Server)

-----------------------------------------------------------------------------
(* Properties *)

TypeOK ==
    /\ state \in {"read", "nread", "write", "mwrite", "closing", "closed", "crashed"}
    /\ write_and_go \in {"read", "closing"}
    /\ noreply \in BOOLEAN /\ eof \in BOOLEAN
    /\ rlbytes \in Nat /\ iovsent \in 0..Len(iov)
    /\ ilist \in Seq(ItemIds) /\ icurr \in 1..(Len(ilist) + 1)
    /\ ileft \in 0..(Len(ilist) - icurr + 1)
    /\ live \subseteq ItemIds /\ store \subseteq Keys
    /\ item = NoItem \/ item.id \in ItemIds
    /\ Len(sent) <= MaxCmds /\ clients \in 1..MaxClients
    /\ ooms \in 0..MaxOOM

(* What the client may read back for one command, piece by piece, as the  *)
(* protocol describes it: a get answers a VALUE/key/data triple for some  *)
(* of its keys, in order, then END, or only CLIENT_ERROR for a key that   *)
(* is too long; other commands answer one line, none under noreply.       *)
Says(str) == [p |-> str, k |-> NoKey]
HitSays(k) == <<Says("VALUE"), [p |-> "KEY", k |-> k], [p |-> "DATA", k |-> k]>>

Replies(cmd) ==
    CASE cmd.op = "get" ->
           IF \E i \in 1..Len(cmd.keys) : cmd.keys[i] = LongKey
           THEN {<<Says("CLIENT_ERROR")>>}
           ELSE {FlattenSeq([i \in 1..Len(h) |-> HitSays(h[i])]) \o <<Says("END")>> :
                   h \in AllSubSeqs(cmd.keys)}
      [] cmd.op = "quit" -> {<<>>}
      [] cmd.op = "garbage" -> {<<Says("ERROR")>>}
      [] cmd.op = "stats" /\ cmd.sub = "none" -> {<<Says("STATS")>>}
      [] cmd.op = "stats" /\ cmd.sub = "reset" -> {<<Says("RESET")>>}
      [] cmd.op = "stats" -> {<<Says("ERROR")>>}
      [] cmd.op = "version" -> {<<Says("VERSION")>>}
      [] cmd.op = "optimize_stat" -> {<<Says(r)>> : r \in {"RUNNING", "success", "fail"}}
      [] cmd.noreply -> {<<>>}
      [] cmd.op = "verbosity" -> {<<Says(IF cmd.big THEN "CLIENT_ERROR" ELSE "OK")>>}
      [] cmd.op = "flush_all" /\ cmd.limit = "bad" -> {<<Says("CLIENT_ERROR")>>}
      [] cmd.op = "flush_all" -> {<<Says(r)>> : r \in OptimizeResults}
      [] cmd.key = LongKey -> {<<Says("CLIENT_ERROR")>>}
      [] IsUpdate(cmd) /\ ~cmd.good -> {<<Says("CLIENT_ERROR")>>}
      [] IsUpdate(cmd) -> {<<Says(r)>> : r \in StoreResults}
      [] cmd.op = "incr" -> {<<Says("NUMBER")>>}
      [] cmd.op = "delete" -> {<<Says("DELETED")>>, <<Says("NOT_FOUND")>>}

(* Where memory may run out, any command may instead be answered         *)
(* "SERVER_ERROR out of memory ...", and nothing else of it (spec 4.5).   *)
Answers(cmd) ==
    Replies(cmd) \cup (IF MaxOOM > 0 THEN {<<Says("SERVER_ERROR")>>} ELSE {})

(* Every sequence of pieces the replies to cmds, in order, may make up. *)
Streams(cmds) ==
    FoldLeft(LAMBDA S, c : {x \o r : x \in S, r \in Answers(c)}, {<<>>}, cmds)

(* got is what the replies to cmds begin with. *)
Conforms(cmds, got) == \E x \in Streams(cmds) : IsPrefix(got, x)

(* The server has taken in everything the client sent and has nothing   *)
(* left to write.                                                         *)
Quiet == state = "read" /\ rbuf = <<>> /\ net = <<>>

(* Every reply to every command the client sent has been received whole.  *)
AllAnswered == recv \in Streams(sent)

(* The client can parse what it reads: the pieces it has received are    *)
(* the replies to the commands it sent, in order, with nothing extra, and *)
(* once the server is quiet nothing is missing either (process_*_command, *)
(* out_string, set_noreply_maybe and conn_write together frame replies).  *)
ReplyStreamConforms ==
    /\ Conforms(sent, recv)
    /\ Quiet => AllAnswered

(* The items a connection holds are exactly those it will free: the       *)
(* remaining *c->icurr .. c->ileft of the last get, and c->item while a   *)
(* body is read.  An item outside these is leaked, one inside them twice. *)
ItemHeld == IF item = NoItem THEN {} ELSE {item.id}

ItemOwnership == live = Owned \cup ItemHeld

(* No item the connection will still free has been freed already: the    *)
(* remaining ilist entries and c->item are live, also after a get's       *)
(* allocation failures item_free'd the hit they were building.            *)
OwnedItemsLive == Owned \cup ItemHeld \subseteq live

(* When conn_write has sent all it queued and moves on (to write_and_go), *)
(* the last piece the client got is the line out_string put in wbuf:      *)
(* conn_write queues wbuf only when iovused is 0 (line 1615), so every    *)
(* path to out_string must leave no other iovec queued.                   *)
WriteSendsWbuf ==
    [][state = "write" /\ iovsent = Len(Outgoing) /\ state' # "write"
         => recv # <<>> /\ Last(recv) = Seen(wbuf)]_vars

(* No iovec still to be sent points into a freed item (the key and data   *)
(* pieces of a get point into the items of ilist).                        *)
NoDanglingIov ==
    state \in {"write", "mwrite"} =>
        \A i \in (iovsent + 1)..Len(Outgoing) :
            Outgoing[i].id # 0 => Outgoing[i].id \in live

(* A client that has sent whole commands gets every reply, unless the    *)
(* connection breaks: drive_machine never stalls with a command buffered, *)
(* a body half read or a reply half written.                              *)
Responsive == ~AllAnswered ~> (AllAnswered \/ state = "closed")

=============================================================================
