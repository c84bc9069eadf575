-------------------------------- MODULE Iov --------------------------------
(***************************************************************************)
(* The outbound half of a beansdb connection (src/src/beansdb.c): the      *)
(* scatter/gather list a handler builds with add_iov / add_msghdr /        *)
(* ensure_iov_space, and transmit(), which hands it to sendmsg one msghdr  *)
(* at a time and trims what the socket accepted.                           *)
(*                                                                         *)
(* The iov array is a sequence of entries [buf, off, len]; a buffer's      *)
(* bytes are the pairs <<buf, i>>.  A msghdr is [gen, base, iovlen]: its   *)
(* msg_iov pointer is the index base into generation gen of the iov array; *)
(* every realloc of the array moves it to the other of two generations    *)
(* (0 and 1), so a pointer left on the old one points into freed memory.   *)
(***************************************************************************)
EXTENDS Naturals, Sequences, SequencesExt

CONSTANTS
    IOV_MAX,            \* most iovecs one msghdr may carry
    MAX_PAYLOAD_SIZE,   \* cap on the bytes of the first msghdr
    IOV_LIST_INITIAL,   \* initial iov array size, and size after shrinking
    IOV_LIST_HIGHWAT,   \* iov array shrunk above this on return to conn_read
    MSG_LIST_INITIAL,   \* initial msghdr array size
    MSG_LIST_HIGHWAT,   \* msghdr array shrunk above this
    FragLens,           \* lengths of the buffers a handler may queue
    MaxFrags,           \* bound: buffers queued per reply
    NoAdd               \* no add_iov call in progress

ASSUME /\ IOV_MAX \in Nat \ {0}
       /\ MAX_PAYLOAD_SIZE \in Nat \ {0}
       /\ FragLens \subseteq Nat \ {0}

VARIABLES
    phase,     \* "idle" (conn_read), "build" (handler running), "send" (conn_mwrite)
    iov,       \* the iov array, entries [buf, off, len]
    iovused, iovsize, iovgen,
    msglist,   \* the msghdr array; Len(msglist) is c->msgused
    msgsize,
    msgcurr,   \* index (from 0) of the msghdr being sent
    msgbytes,  \* bytes in the last msghdr
    pending,   \* the rest of the buffer an add_iov call has still to queue
    nbufs,     \* buffers queued for this reply (also their names)
    wire       \* history: bytes of this reply sendmsg has accepted

vars == <<phase, iov, iovused, iovsize, iovgen, msglist, msgsize, msgcurr,
          msgbytes, pending, nbufs, wire>>

msgused == Len(msglist)

Bytes(e) == [j \in 1..e.len |-> <<e.buf, e.off + j>>]

(* The bytes msghdr m still points at. *)
MsgBytes(m) == FlattenSeq([j \in 1..m.iovlen |-> Bytes(iov[m.base + j - 1])])

Entry == [buf : Nat, off : Nat, len : Nat]

TypeOK ==
    /\ phase \in {"idle", "build", "send"}
    /\ iov \in Seq(Entry)
    /\ iovused \in Nat /\ iovsize \in Nat /\ iovgen \in 0..1
    /\ msglist \in Seq([gen : 0..1, base : Nat \ {0}, iovlen : Nat])
    /\ msgsize \in Nat /\ msgcurr \in Nat /\ msgbytes \in Nat
    /\ pending \in Entry \cup {NoAdd}
    /\ nbufs \in 0..MaxFrags

Init ==
    /\ phase = "idle"
    /\ iov = <<>> /\ iovused = 0
    /\ iovsize = IOV_LIST_INITIAL /\ iovgen = 0
    /\ msglist = <<>> /\ msgsize = MSG_LIST_INITIAL
    /\ msgcurr = 0 /\ msgbytes = 0
    /\ pending = NoAdd /\ nbufs = 0
    /\ wire = <<>>

(* Mutant: msg_iov taken as &c->iov[c->iovused - 1]. *)
add_msghdr_off_by_one(ml, size, used) ==
    [list |-> Append(ml, [gen |-> iovgen, base |-> used, iovlen |-> 0]),
     size |-> IF size = Len(ml) THEN size * 2 ELSE size]

(* add_msghdr: a fresh msghdr pointing at the next free iov slot. *)
add_msghdr(ml, size, used) ==
    [list |-> Append(ml, [gen |-> iovgen, base |-> used + 1, iovlen |-> 0]),
     size |-> IF size = Len(ml) THEN size * 2 ELSE size]

IovlenSum(ml, k) == FoldLeft(LAMBDA acc, m : acc + m.iovlen, 0, SubSeq(ml, 1, k))

(* Mutant: the re-pointing loop stops one msghdr short. *)
RepointSkipLast(ml, g) ==
    [i \in 1..Len(ml) |->
        IF i = Len(ml) THEN ml[i]
        ELSE [ml[i] EXCEPT !.gen = g, !.base = 1 + IovlenSum(ml, i - 1)]]

(* ensure_iov_space, after the realloc: point every msghdr into the new   *)
(* array, each starting where the previous one's iovecs end.             *)
Repoint(ml, g) ==
    [i \in 1..Len(ml) |-> [ml[i] EXCEPT !.gen = g, !.base = 1 + IovlenSum(ml, i - 1)]]

WriteAt(s, i, e) == IF i = Len(s) + 1 THEN Append(s, e) ELSE [s EXCEPT ![i] = e]

(* process_command, before dispatch: reset the lists and open msghdr 0. *)
Begin ==
    /\ phase = "idle"
    /\ LET h == add_msghdr(<<>>, msgsize, 0) IN
       /\ msglist' = h.list
       /\ msgsize' = h.size
    /\ phase' = "build"
    /\ iov' = <<>> /\ iovused' = 0 /\ msgcurr' = 0 /\ msgbytes' = 0
    /\ nbufs' = 0 /\ wire' = <<>>
    /\ UNCHANGED <<iovsize, iovgen, pending>>

(* A handler calls add_iov(c, buf, len) for its next buffer. *)
StartAdd ==
    /\ phase = "build" /\ pending = NoAdd /\ nbufs < MaxFrags
    /\ \E len \in FragLens :
         pending' = [buf |-> nbufs + 1, off |-> 0, len |-> len]
    /\ nbufs' = nbufs + 1
    /\ UNCHANGED <<phase, iov, iovused, iovsize, iovgen, msglist, msgsize,
                   msgcurr, msgbytes, wire>>

(* Mutant: the msg_iovlen == IOV_MAX test left out. *)
NeedNewMsgNoIovMax(last, limit_to_mtu, mbytes) ==
    limit_to_mtu /\ mbytes >= MAX_PAYLOAD_SIZE

(* add_iov starts a new msghdr when the last is full, or when it is the   *)
(* first and already holds MAX_PAYLOAD_SIZE bytes.                        *)
NeedNewMsg(last, limit_to_mtu, mbytes) ==
    last.iovlen = IOV_MAX \/ (limit_to_mtu /\ mbytes >= MAX_PAYLOAD_SIZE)

(* Mutant: leftover computed one byte short. *)
LeftoverOffByOne(len, mbytes, limit_to_mtu) ==
    IF limit_to_mtu /\ len + mbytes > MAX_PAYLOAD_SIZE
    THEN len + mbytes - MAX_PAYLOAD_SIZE - 1 ELSE 0

(* The part of a len-byte fragment that does not fit in the first msghdr. *)
Leftover(len, mbytes, limit_to_mtu) ==
    IF limit_to_mtu /\ len + mbytes > MAX_PAYLOAD_SIZE
    THEN len + mbytes - MAX_PAYLOAD_SIZE ELSE 0

(* One pass of add_iov's do-while loop. *)
AddIovStep ==
    /\ pending # NoAdd
    /\ LET limit_to_mtu == msgused = 1
           last     == msglist[msgused]
           newMsg   == NeedNewMsg(last, limit_to_mtu, msgbytes)
           h        == add_msghdr(msglist, msgsize, iovused)
           ml1      == IF newMsg THEN h.list ELSE msglist
           mbytes1  == IF newMsg THEN 0 ELSE msgbytes
           grow     == iovused >= iovsize
           gen2     == IF grow THEN 1 - iovgen ELSE iovgen
           ml2      == IF grow THEN Repoint(ml1, gen2) ELSE ml1
           leftover == Leftover(pending.len, mbytes1, limit_to_mtu)
           len      == pending.len - leftover
           m        == ml2[Len(ml2)]
       IN /\ iov' = WriteAt(iov, m.base + m.iovlen, [pending EXCEPT !.len = len])
          /\ msglist' = [ml2 EXCEPT ![Len(ml2)].iovlen = @ + 1]
          /\ msgsize' = IF newMsg THEN h.size ELSE msgsize
          /\ iovsize' = IF grow THEN iovsize * 2 ELSE iovsize
          /\ iovgen' = gen2
          /\ msgbytes' = mbytes1 + len
          /\ iovused' = iovused + 1
          /\ pending' = IF leftover > 0
                        THEN [pending EXCEPT !.off = @ + len, !.len = leftover]
                        ELSE NoAdd
    /\ UNCHANGED <<phase, msgcurr, nbufs, wire>>

(* The handler is done: conn_set_state(c, conn_mwrite); c->msgcurr = 0. *)
EndBuild ==
    /\ phase = "build" /\ pending = NoAdd /\ nbufs > 0
    /\ phase' = "send" /\ msgcurr' = 0
    /\ UNCHANGED <<iov, iovused, iovsize, iovgen, msglist, msgsize, msgbytes,
                   pending, nbufs, wire>>

(* transmit's first step: skip past a msghdr that has been fully sent. *)
NextMsg(mc) == IF mc < msgused /\ msglist[mc + 1].iovlen = 0 THEN mc + 1 ELSE mc

(* Mutant: a partly sent iovec has its base advanced but not its length. *)
RECURSIVE TrimKeepLen(_, _, _)
TrimKeepLen(m, v, res) ==
    IF m.iovlen > 0 /\ res >= v[m.base].len
    THEN TrimKeepLen([m EXCEPT !.base = @ + 1, !.iovlen = @ - 1], v, res - v[m.base].len)
    ELSE IF res > 0
         THEN <<m, [v EXCEPT ![m.base] = [@ EXCEPT !.off = @ + res]]>>
         ELSE <<m, v>>

(* Remove the res bytes sendmsg accepted from the head of msghdr m. *)
RECURSIVE Trim(_, _, _)
Trim(m, v, res) ==
    IF m.iovlen > 0 /\ res >= v[m.base].len
    THEN Trim([m EXCEPT !.base = @ + 1, !.iovlen = @ - 1], v, res - v[m.base].len)
    ELSE IF res > 0
         THEN <<m, [v EXCEPT ![m.base] = [@ EXCEPT !.off = @ + res, !.len = @ - res]]>>
         ELSE <<m, v>>

(* transmit: sendmsg accepts res bytes of the current msghdr. *)
TransmitSend ==
    /\ phase = "send"
    /\ LET mc == NextMsg(msgcurr) IN
       /\ mc < msgused
       /\ LET m   == msglist[mc + 1]
              out == MsgBytes(m)
          IN \E res \in 1..Len(out) :
               LET t == Trim(m, iov, res) IN
               /\ msglist' = [msglist EXCEPT ![mc + 1] = t[1]]
               /\ iov' = t[2]
               /\ msgcurr' = mc
               /\ wire' = wire \o SubSeq(out, 1, res)
    /\ UNCHANGED <<phase, iovused, iovsize, iovgen, msgsize, msgbytes, pending, nbufs>>

(* transmit returns TRANSMIT_COMPLETE; conn_mwrite moves to conn_read,    *)
(* whose conn_shrink gives back an iov or msghdr array above its mark.    *)
TransmitComplete ==
    /\ phase = "send"
    /\ NextMsg(msgcurr) >= msgused
    /\ msgcurr' = NextMsg(msgcurr)
    /\ phase' = "idle"
    /\ msgsize' = IF msgsize > MSG_LIST_HIGHWAT THEN MSG_LIST_INITIAL ELSE msgsize
    /\ iovsize' = IF iovsize > IOV_LIST_HIGHWAT THEN IOV_LIST_INITIAL ELSE iovsize
    /\ iovgen' = IF iovsize > IOV_LIST_HIGHWAT THEN 1 - iovgen ELSE iovgen
    /\ UNCHANGED <<iov, iovused, msglist, msgbytes, pending, nbufs, wire>>

Next ==
    \/ Begin \/ StartAdd \/ AddIovStep \/ EndBuild
    \/ TransmitSend \/ TransmitComplete

(* The worker keeps driving a connection while it can progress: each     *)
(* handler runs to its end and a writable socket is written to.          *)
Fairness ==
    /\ WF_vars(StartAdd) /\ WF_vars(AddIovStep) /\ WF_vars(EndBuild)
    /\ WF_vars(TransmitSend) /\ WF_vars(TransmitComplete)

Spec == Init /\ [][Next]_vars /\ Fairness

-----------------------------------------------------------------------------
(* The bytes still owed to the client: what the unsent msghdrs point at,  *)
(* then what the running add_iov call has not yet queued.                *)
Queue ==
    FlattenSeq([i \in 1..(msgused - msgcurr) |-> MsgBytes(msglist[msgcurr + i])])
    \o (IF pending = NoAdd THEN <<>> ELSE Bytes(pending))

Abs == INSTANCE ByteQueue WITH queue <- Queue, wire <- wire

(* Refinement: the scatter/gather list, with its msghdr splits at IOV_MAX *)
(* and at MAX_PAYLOAD_SIZE and transmit's trimming after partial          *)
(* sendmsg, delivers exactly the bytes the handler queued, in order.     *)
ImplementsByteQueue == Abs!Spec

(* While a reply is built or sent, every msghdr's msg_iov points into the *)
(* current iov array: ensure_iov_space's realloc re-points all of them.   *)
NoStaleIovPointer ==
    phase # "idle" => \A i \in 1..msgused : msglist[i].gen = iovgen

(* While a reply is built, the msghdrs partition the iovs in order:       *)
(* iovused is the sum of their iovlens and each starts where the last     *)
(* ended, and none holds more than IOV_MAX iovecs.                       *)
IovPartition ==
    phase = "build" =>
        /\ iovused = IovlenSum(msglist, msgused)
        /\ Len(iov) = iovused
        /\ \A i \in 1..msgused :
             /\ msglist[i].base = 1 + IovlenSum(msglist, i - 1)
             /\ msglist[i].iovlen <= IOV_MAX

(* The first msghdr of a reply never carries more than MAX_PAYLOAD_SIZE.  *)
FirstMsgWithinPayload ==
    (phase = "build" /\ msgused >= 1) => Len(MsgBytes(msglist[1])) <= MAX_PAYLOAD_SIZE

=============================================================================
