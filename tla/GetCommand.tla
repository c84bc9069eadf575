----------------------------- MODULE GetCommand -----------------------------
(***************************************************************************)
(* process_command's tokenisation of a request line and the key loop of    *)
(* process_get_command (src/src/beansdb.c), at the level of characters.    *)
(*                                                                         *)
(* tokenize_command splits the NUL-terminated line in place: it writes a  *)
(* NUL over the space that ends each token and stops after max_tokens - 1  *)
(* tokens, leaving a terminal token whose value is the first unprocessed   *)
(* character, or NULL when the whole line was scanned.  A get line with    *)
(* more keys than fit is handled in batches: once a batch's keys are       *)
(* looked up, the rest of the line is tokenised again from the terminal    *)
(* value.  A hit that cannot be stored (ilist growth or add_iov failing)   *)
(* breaks out of the batch, and the line is tokenised again from the key   *)
(* that failed.                                                            *)
(*                                                                         *)
(* A line is a sequence of characters; Nul stands for '\0' and is also     *)
(* what lies past the end of the sequence.  A pointer into the line is a  *)
(* position 1 .. Len(line) + 1, and NULL is 0.  item_get is a lookup in    *)
(* the set Stored.  try_realloc of ilist fails for good once the doubled  *)
(* size exceeds MemLimit (the memory is exhausted), and any allocation may *)
(* also fail transiently, at most MaxOOM times.                            *)
(***************************************************************************)
EXTENDS Naturals, Sequences, SequencesExt, FiniteSets, FiniteSetsExt

CONSTANTS
    Lines,        \* request lines the connection may receive
    Space, Nul,   \* the characters ' ' and '\0'
    GetWord,      \* the token "get"
    Stored,       \* keys item_get finds
    MAX_TOKENS,   \* max_tokens of tokenize_command (8)
    MAX_KEY_LEN,
    ISIZE,        \* c->isize when the command starts (ITEM_LIST_INITIAL)
    MemLimit,     \* the largest ilist try_realloc can still provide
    MaxOOM        \* bound: transient allocation failures

ASSUME MAX_TOKENS > 1 /\ ISIZE > 0

VARIABLES
    line,    \* the line as received (history, never written)
    buf,     \* the command buffer, with the NULs tokenize_command wrote
    toks,    \* tokens[0 .. ntokens - 1], as records [value, length]
    kt,      \* key_token, an index into toks
    looked,  \* history: the keys item_get answered (a miss, or a hit stored)
    ilist,   \* keys of the items stored in c->ilist[0 .. i - 1]
    isize,   \* c->isize
    ooms,    \* transient allocation failures so far
    pc       \* where process_command / process_get_command is

vars == <<line, buf, toks, kt, looked, ilist, isize, ooms, pc>>

Finished == {"error", "client_error", "server_error", "mwrite"}

-----------------------------------------------------------------------------
(* tokenize_command, lines 670-709 *)

At(b, p) == IF p <= Len(b) THEN b[p] ELSE Nul

Tok(v, n) == [value |-> v, length |-> n]

\* The string a token points to.
Word(b, t) == SubSeq(b, t.value, t.value + t.length - 1)

\* Mutant: the terminal value skips one character.
TerminalSkip(b, e, ts) ==
    [buf |-> b, toks |-> Append(ts, Tok(IF At(b, e) = Nul THEN 0 ELSE e + 1, 0))]

\* Mutant: the terminal value is never NULL.
TerminalAlwaysSet(b, e, ts) ==
    [buf |-> b, toks |-> Append(ts, Tok(e, 0))]

\* Lines 703-705: the terminal token, NULL if the scan reached the '\0'.
Terminal(b, e, ts) ==
    [buf |-> b, toks |-> Append(ts, Tok(IF At(b, e) = Nul THEN 0 ELSE e, 0))]

\* The for loop of lines 678-697, s and e as in the code.
RECURSIVE Scan(_, _, _, _)
Scan(b, s, e, ts) ==
    IF Len(ts) >= MAX_TOKENS - 1 THEN Terminal(b, e, ts)
    ELSE IF At(b, e) = Space
         THEN IF s # e THEN Scan([b EXCEPT ![e] = Nul], e + 1, e + 1, Append(ts, Tok(s, e - s)))
                       ELSE Scan(b, e + 1, e + 1, ts)
    ELSE IF At(b, e) = Nul
         THEN Terminal(b, e, IF s # e THEN Append(ts, Tok(s, e - s)) ELSE ts)
    ELSE Scan(b, s, e + 1, ts)

tokenize_command(b, start) == Scan(b, start, start, <<>>)

-----------------------------------------------------------------------------
Init ==
    /\ line \in Lines
    /\ buf = line
    /\ toks = <<>> /\ kt = 1
    /\ looked = <<>> /\ ilist = <<>>
    /\ isize = ISIZE /\ ooms = 0
    /\ pc = "parse"

\* process_command, lines 1178-1180: tokenise, and dispatch to
\* process_get_command when ntokens >= 3 and the command is "get"; a line
\* matching no command gets "ERROR" (lines 1261-1263).
ProcessCommand ==
    /\ pc = "parse"
    /\ LET r == tokenize_command(buf, 1) IN
       /\ buf' = r.buf /\ toks' = r.toks
       /\ IF Len(r.toks) >= 3 /\ Word(r.buf, r.toks[1]) = GetWord
            THEN pc' = "keys" /\ kt' = 2
            ELSE pc' = "error" /\ UNCHANGED kt
    /\ UNCHANGED <<line, looked, ilist, isize, ooms>>

Key == toks[kt]

\* Lines 885-893: a key over MAX_KEY_LEN ends the command with CLIENT_ERROR.
LongKey ==
    /\ pc = "keys" /\ Key.length > MAX_KEY_LEN
    /\ pc' = "client_error"
    /\ UNCHANGED <<line, buf, toks, kt, looked, ilist, isize, ooms>>

\* Lines 897 and 938-942: item_get misses.
Miss ==
    /\ pc = "keys" /\ Key.length \in 1..MAX_KEY_LEN
    /\ Word(buf, Key) \notin Stored
    /\ looked' = Append(looked, Word(buf, Key))
    /\ kt' = kt + 1
    /\ UNCHANGED <<line, buf, toks, ilist, isize, ooms, pc>>

\* ilist sizes after the growth test of line 900: unchanged when there is
\* room, doubled when try_realloc succeeds.
Grown == IF Len(ilist) < isize THEN {isize}
         ELSE IF isize * 2 <= MemLimit THEN {isize * 2} ELSE {}

\* Mutant: the growth test of line 900 is missing.
HitNoGrow ==
    /\ pc = "keys" /\ Key.length \in 1..MAX_KEY_LEN
    /\ Word(buf, Key) \in Stored
    /\ looked' = Append(looked, Word(buf, Key))
    /\ ilist' = Append(ilist, Word(buf, Key))
    /\ kt' = kt + 1
    /\ UNCHANGED <<line, buf, toks, isize, ooms, pc>>

\* Lines 899-936 and 942: a hit is stored in ilist after its three add_iov calls.
Hit ==
    /\ pc = "keys" /\ Key.length \in 1..MAX_KEY_LEN
    /\ Word(buf, Key) \in Stored
    /\ \E n \in Grown : isize' = n
    /\ looked' = Append(looked, Word(buf, Key))
    /\ ilist' = Append(ilist, Word(buf, Key))
    /\ kt' = kt + 1
    /\ UNCHANGED <<line, buf, toks, ooms, pc>>

\* Lines 900-929: try_realloc of ilist fails (for good past MemLimit, or
\* transiently), or an add_iov fails after the growth; the item is freed
\* and the batch is left with key_token still at this key.
HitFailed ==
    /\ pc = "keys" /\ Key.length \in 1..MAX_KEY_LEN
    /\ Word(buf, Key) \in Stored
    /\ Grown = {} \/ ooms < MaxOOM
    /\ ooms' = IF Grown = {} THEN ooms ELSE ooms + 1
    /\ \E n \in Grown \cup {isize} : isize' = n
    /\ pc' = "batch"
    /\ UNCHANGED <<line, buf, toks, kt, looked, ilist>>

\* Line 881: the batch's keys are used up at the terminal token.
BatchEnd ==
    /\ pc = "keys" /\ Key.length = 0
    /\ pc' = "batch"
    /\ UNCHANGED <<line, buf, toks, kt, looked, ilist, isize, ooms>>

\* Mutant: key_token = tokens + 1 after tokenising again.
BatchSkipFirst ==
    /\ pc = "batch"
    /\ IF Key.value # 0
         THEN LET r == tokenize_command(buf, Key.value) IN
              /\ buf' = r.buf /\ toks' = r.toks /\ kt' = Min({2, Len(r.toks)})
              /\ pc' = IF r.toks[1].value = 0 THEN "end" ELSE "keys"
         ELSE /\ pc' = "end"
              /\ UNCHANGED <<buf, toks, kt>>
    /\ UNCHANGED <<line, looked, ilist, isize, ooms>>

\* Lines 949-954: if key_token->value is not NULL, tokenise again from it
\* and go on while tokens[0].value is not NULL.
Batch ==
    /\ pc = "batch"
    /\ IF Key.value # 0
         THEN LET r == tokenize_command(buf, Key.value) IN
              /\ buf' = r.buf /\ toks' = r.toks /\ kt' = 1
              /\ pc' = IF r.toks[1].value = 0 THEN "end" ELSE "keys"
         ELSE /\ pc' = "end"
              /\ UNCHANGED <<buf, toks, kt>>
    /\ UNCHANGED <<line, looked, ilist, isize, ooms>>

\* Lines 956-973: key_token->value is NULL here, so SERVER_ERROR is sent
\* only when add_iov("END") fails; otherwise the reply goes to conn_mwrite.
End ==
    /\ pc = "end"
    /\ \/ pc' = "mwrite" /\ UNCHANGED ooms
       \/ ooms < MaxOOM /\ ooms' = ooms + 1 /\ pc' = "server_error"
    /\ UNCHANGED <<line, buf, toks, kt, looked, ilist, isize>>

\* process_command has returned.
Done ==
    /\ pc \in Finished
    /\ UNCHANGED vars

Next ==
    \/ ProcessCommand
    \/ LongKey \/ Miss \/ Hit \/ HitFailed \/ BatchEnd \/ Batch \/ End
    \/ Done

\* process_command runs to its end on the worker thread: nothing in it
\* waits for anything else.
Spec == Init /\ [][Next]_vars /\ WF_vars(Next)

-----------------------------------------------------------------------------
(* Reference: the words of a line are its maximal runs of non-space       *)
(* characters, in order.                                                   *)

WordStarts(s) == {p \in 1..Len(s) : s[p] # Space /\ (p = 1 \/ s[p - 1] = Space)}

WordAt(s, p) ==
    SubSeq(s, p, Max({q \in p..Len(s) : \A r \in p..q : s[r] # Space}))

Words(s) ==
    LET starts == SetToSortSeq(WordStarts(s), <) IN
    [i \in 1..Len(starts) |-> WordAt(s, starts[i])]

TypeOK ==
    /\ line \in Lines
    /\ buf \in Seq(ToSet(line) \cup {Nul}) /\ Len(buf) = Len(line)
    /\ toks \in Seq([value : 0..Len(line) + 1, length : 0..Len(line)])
    /\ kt \in 1..MAX_TOKENS
    /\ looked \in Seq(Seq(ToSet(line)))
    /\ ilist \in Seq(Seq(ToSet(line))) /\ Len(ilist) <= isize
    /\ isize \in Nat \ {0} /\ ooms \in 0..MaxOOM
    /\ pc \in Finished \cup {"parse", "keys", "batch", "end"}

\* Every token the get loop works on is a whole word of the line as it was
\* received: the NULs written by earlier tokenisations and the restart
\* from a terminal value or from a failed key never cut a word or join two.
TokensAreWords ==
    pc \in {"keys", "batch", "end"} =>
        \A j \in 1..Len(toks) - 1 :
            /\ toks[j].value \in WordStarts(line)
            /\ Word(line, toks[j]) = WordAt(line, toks[j].value)

\* A get that met no allocation failure looks up every key of the line,
\* once and in order, across however many batches the line needs, and
\* its ilist holds exactly the hits.
AnswersEveryKey ==
    pc = "mwrite" /\ ooms = 0 =>
        /\ looked = Tail(Words(line))
        /\ ilist = SelectSeq(looked, LAMBDA k : k \in Stored)

\* Every get command returns from process_get_command: with its reply
\* queued, or with CLIENT_ERROR or SERVER_ERROR (the comment at lines
\* 962-965 says an allocation failure ends it with SERVER_ERROR).
GetTerminates == <>(pc \in Finished)
====
