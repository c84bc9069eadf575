------------------------------- MODULE MCConn -------------------------------
(* Conn with one short key, one key over MAX_KEY_LEN, two clients of two  *)
(* commands each, and one- and zero-byte values.  CommandsOK leaves out   *)
(* the two command shapes whose handling is reported separately          *)
(* (MCConnGetLong.cfg; CommandsSetLong reproduces the set case).         *)
EXTENDS Conn

CONSTANTS k1, kL

Get(ks) == [op |-> "get", keys |-> ks]
Upd(op, k, n, good, nr) == [op |-> op, key |-> k, vlen |-> n, good |-> good, noreply |-> nr]
Simple(op, k, nr) == [op |-> op, key |-> k, noreply |-> nr]

CommandsOK ==
    { Get(<<k1>>), Get(<<k1, k1>>), Get(<<kL>>),
      Upd("set", k1, 1, TRUE, FALSE), Upd("set", k1, 1, FALSE, FALSE),
      Upd("append", k1, 0, TRUE, TRUE),
      Simple("delete", k1, FALSE), Simple("incr", k1, TRUE), Simple("incr", kL, FALSE),
      [op |-> "flush_all", noreply |-> FALSE, limit |-> "none"],
      [op |-> "flush_all", noreply |-> TRUE, limit |-> "num"],
      [op |-> "flush_all", noreply |-> FALSE, limit |-> "bad"], [op |-> "quit"], Garbage,
      [op |-> "stats", sub |-> "none"], [op |-> "stats", sub |-> "reset"],
      [op |-> "version"], [op |-> "optimize_stat"],
      [op |-> "verbosity", noreply |-> TRUE, big |-> FALSE],
      [op |-> "verbosity", noreply |-> FALSE, big |-> TRUE] }

(* A get whose long key follows a hit. *)
CommandsGetLong == { Get(<<k1, kL>>), Upd("set", k1, 0, TRUE, FALSE) }

(* A set whose key is too long. *)
CommandsSetLong == { Upd("set", kL, 1, TRUE, FALSE), Simple("delete", k1, FALSE) }

(* Commands whose handlers allocate: a get of two hits, a set, and a     *)
(* delete answered through wbuf.                                          *)
CommandsOOM ==
    { Get(<<k1, k1>>), Upd("set", k1, 1, TRUE, FALSE), Simple("delete", k1, FALSE) }

(* A get of two hits, the second of which may fail to be queued. *)
CommandsGetOOM == { Get(<<k1, k1>>) }

(* A get of one hit, whose END may fail to be queued. *)
CommandsGetEnd == { Get(<<k1>>) }

(* A set whose item may fail to be allocated. *)
CommandsSetOOM == { Upd("set", k1, 1, TRUE, FALSE) }

(* A command answered through wbuf, then a line the read buffer cannot hold. *)
CommandsReadOOM == { Simple("delete", k1, FALSE) }

MCKeys == {k1}
MCStoreResults == {"STORED", "NOT_STORED"}
MCOptimizeResults == {"OK", "ERROR READ_ONLY"}

=============================================================================
