----------------------------- MODULE UpdateArgs -----------------------------
(***************************************************************************)
(* The numeric arguments of a set or append line (process_update_command, *)
(* src/src/beansdb.c 1007-1019 and 1021): flags by strtoul into an int,   *)
(* exptime by strtol into a time_t (a long), vlen by strtol into an int,  *)
(* one errno shared by the three calls, and the size vlen + 2 asked of    *)
(* item_alloc1, which becomes c->rlbytes, the number of body bytes the    *)
(* connection reads before it parses the next command.                    *)
(*                                                                         *)
(* Tokens are strings of characters, as tokenize_command leaves them (no  *)
(* spaces).  strtol and strtoul are modelled by what glibc does with them *)
(* in base 10.  Widths are parameters: a long has LongBits bits and an    *)
(* int IntBits, with IntBits < LongBits as on LP64 (64 and 32); C99 lets   *)
(* strtol set EINVAL when no digits are converted, and glibc does not, so *)
(* both are possible outcomes.                                             *)
(***************************************************************************)
EXTENDS Integers, Sequences, SequencesExt, FiniteSets, FiniteSetsExt

CONSTANTS
    FlagTokens, ExptimeTokens, VlenTokens,   \* tokens a client may send
    LongBits, IntBits

ASSUME IntBits < LongBits

DigitVal == "0" :> 0 @@ "1" :> 1 @@ "2" :> 2 @@ "3" :> 3 @@ "4" :> 4 @@
            "5" :> 5 @@ "6" :> 6 @@ "7" :> 7 @@ "8" :> 8 @@ "9" :> 9

IsDigit(c) == c \in DOMAIN DigitVal

LONG_MAX  == 2^(LongBits - 1) - 1
LONG_MIN  == -(2^(LongBits - 1))
ULONG_MAX == 2^LongBits - 1

(* Conversion to a signed integer of w bits, as gcc does it: modulo 2^w.  *)
Wrap(x, w) == LET m == x % 2^w IN IF m >= 2^(w - 1) THEN m - 2^w ELSE m

(* The parse strtol and strtoul share: an optional sign, then the longest *)
(* run of digits; conv is FALSE when there is none (the result is 0).     *)
Scan(t) ==
    LET s    == IF Len(t) > 0 /\ t[1] \in {"+", "-"} THEN 1 ELSE 0
        rest == SubSeq(t, s + 1, Len(t))
        k    == Cardinality({n \in 1..Len(rest) : \A i \in 1..n : IsDigit(rest[i])})
    IN [neg  |-> s = 1 /\ t[1] = "-",
        conv |-> k > 0,
        mag  |-> FoldLeft(LAMBDA a, c : 10 * a + DigitVal[c], 0, SubSeq(rest, 1, k))]

(* strtol: the value, clamped to LONG_MIN .. LONG_MAX with ERANGE. *)
strtol(t) ==
    LET p == Scan(t)
        v == IF p.neg THEN -p.mag ELSE p.mag
    IN [val    |-> IF v > LONG_MAX THEN LONG_MAX ELSE IF v < LONG_MIN THEN LONG_MIN ELSE v,
        erange |-> v > LONG_MAX \/ v < LONG_MIN,
        conv   |-> p.conv]

(* strtoul: a magnitude above ULONG_MAX is ULONG_MAX with ERANGE; a "-"   *)
(* negates in unsigned arithmetic, so "-1" is ULONG_MAX without error.    *)
strtoul(t) ==
    LET p == Scan(t)
    IN [val    |-> IF p.mag > ULONG_MAX THEN ULONG_MAX
                   ELSE IF p.neg THEN (2^LongBits - p.mag) % 2^LongBits ELSE p.mag,
        erange |-> p.mag > ULONG_MAX,
        conv   |-> p.conv]

(* errno after a call r, from e before it. *)
Errno(e, r) ==
    IF r.erange THEN {"ERANGE"} ELSE IF ~r.conv THEN {e, "EINVAL"} ELSE {e}

VARIABLES
    args,     \* the flags, exptime and vlen tokens of the line
    reply,    \* "none" before the handler, "CLIENT_ERROR", or "nread"
    item      \* what item_alloc1 is asked for: flag, ver, nbytes

vars == <<args, reply, item>>

Init ==
    /\ args \in [flags : FlagTokens, exptime : ExptimeTokens, vlen : VlenTokens]
    /\ reply = "none"
    /\ item = [flag |-> 0, ver |-> 0, nbytes |-> 0]

(* process_update_command, lines 1007-1023 and 1032: errno = 0, the three *)
(* conversions, the check of line 1012, and item_alloc1(vlen + 2) with    *)
(* ver and flag set; rlbytes is then it->nbytes.                          *)
UpdateCommand ==
    /\ reply = "none"
    /\ LET f  == strtoul(args.flags)
           x  == strtol(args.exptime)
           v  == strtol(args.vlen)
           flags   == Wrap(f.val, IntBits)
           exptime == x.val
           vlen    == Wrap(v.val, IntBits)
       IN \E e1 \in Errno("0", f) : \E e2 \in Errno(e1, x) : \E errno \in Errno(e2, v) :
            IF \/ errno = "ERANGE"
               \/ (flags = 0 \/ exptime = 0) /\ errno = "EINVAL"
               \/ vlen < 0
            THEN reply' = "CLIENT_ERROR" /\ UNCHANGED item
            ELSE /\ reply' = "nread"
                 /\ item' = [flag |-> flags, ver |-> exptime,
                             nbytes |-> Wrap(vlen + 2, IntBits)]
    /\ UNCHANGED args

Done == reply # "none" /\ UNCHANGED vars

Next == UpdateCommand \/ Done

Spec == Init /\ [][Next]_vars /\ WF_vars(Next)

-----------------------------------------------------------------------------
(* The decimal number a token of digits names, summed digit by digit. *)
IsNumber(t) == Len(t) > 0 /\ \A i \in 1..Len(t) : IsDigit(t[i])
Number(t) == MapThenSumSet(LAMBDA i : DigitVal[t[i]] * 10^(Len(t) - i), 1..Len(t))

(* Numeric arguments are validated (spec section 4.4): a set or append    *)
(* is accepted only when its length token is a number, and the server     *)
(* then reads exactly that many bytes of value plus "\r\n" before it     *)
(* takes the next line as a command.                                       *)
BodyLengthAsSent ==
    reply = "nread" => IsNumber(args.vlen) /\ item.nbytes = Number(args.vlen) + 2

=============================================================================
